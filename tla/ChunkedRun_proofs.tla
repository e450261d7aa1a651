-------------------------- MODULE ChunkedRun_proofs --------------------------
(***************************************************************************)
(* Proofs about ChunkedRun, for every set of runs, any history, plan,      *)
(* selection and number of faults.                                         *)
(***************************************************************************)
EXTENDS ChunkedRun, FiniteSetTheorems, WellFoundedInduction, TLAPS

(* The universe.  Ticks are integers bounded on one side, so that a set of *)
(* them has a first or a last one.                                         *)
LEMMA LeastNumber ==
  ASSUME NEW T \in SUBSET Nat, T # {}
  PROVE  \E n \in T : \A m \in T : n <= m
<1> DEFINE Less == {p \in Nat \X Nat : p[1] < p[2]}
<1>1. IsWellFoundedOn(Less, Nat)
  BY NatLessThanWellFounded, Zenon DEF OpToRel
<1>2. PICK n \in T : \A m \in T : <<m, n>> \notin Less
  <2> HIDE DEF Less
  <2> QED
    BY <1>1, WFMin
<1>3. \A m \in T : n <= m
  <2> TAKE m \in T
  <2>1. <<m, n>> \in Nat \X Nat
    OBVIOUS
  <2> QED
    BY <1>2, <2>1
<1> QED
  BY <1>3

LEMMA FirstIs ==
  ASSUME NEW S \in SUBSET Int, NEW low \in Int, \A u \in S : low <= u, S # {}
  PROVE  /\ First(S) \in S
         /\ \A u \in S : First(S) <= u
<1> DEFINE T == {u - low : u \in S}
<1>0. \A u \in S : u - low \in Nat
  OBVIOUS
<1>1. T \in SUBSET Nat /\ T # {}
  BY <1>0
<1>2. PICK n \in T : \A m \in T : n <= m
  <2> HIDE DEF T
  <2> QED
    BY <1>1, LeastNumber
<1>3. PICK t \in S : n = t - low
  OBVIOUS
<1>4. \A u \in S : t <= u
  <2> TAKE u \in S
  <2>1. u - low \in T
    OBVIOUS
  <2>2. t - low <= u - low
    BY <1>2, <1>3, <2>1
  <2> QED
    BY <2>2
<1> QED
  BY <1>4 DEF First

LEMMA SomeClosed ==
  ASSUME NEW bars, DOMAIN bars \subseteq Int, NEW t \in Int
  PROVE  (LastClosed(bars, t) = NoBar) = ({u \in DOMAIN bars : u + 1 <= t} = {})
<1> DEFINE S == {u \in DOMAIN bars : u + 1 <= t}
<1>1. CASE S = {}
  BY <1>1 DEF LastClosed
<1>2. CASE S # {}
  <2> DEFINE T == {t - u : u \in S}
  <2>1. T \in SUBSET Nat /\ T # {}
    BY <1>2
  <2>2. PICK n \in T : \A m \in T : n <= m
    <3> HIDE DEF T
    <3> QED
      BY <2>1, LeastNumber
  <2>3. PICK u \in S : n = t - u
    OBVIOUS
  <2>4. \A w \in S : w <= u
    <3> TAKE w \in S
    <3>1. t - w \in T
      OBVIOUS
    <3>2. t - u <= t - w
      BY <2>2, <2>3, <3>1
    <3> QED
      BY <3>2
  <2>5. LastClosed(bars, t) \in S
    BY <2>4, <1>2 DEF LastClosed
  <2> QED
    BY <1>2, <2>5, HistoryAssumption
<1> QED
  BY <1>1, <1>2

(* The bars that open in a window, and the complete ones.                  *)
BarsIn(bars, a, b) == {u \in DOMAIN bars : a <= u /\ u < b}

CompleteIn(bars, a, b) == {u \in BarsIn(bars, a, b) : bars[u]}

Lawful(bars) ==
  DOMAIN bars \subseteq Int /\ \A t \in DOMAIN bars : bars[t] \in BOOLEAN

LEMMA FiniteWindow ==
  ASSUME NEW bars, Lawful(bars), NEW a \in Int, NEW b \in Int
  PROVE  /\ BarsIn(bars, a, b) \subseteq Int
         /\ IsFiniteSet(CompleteIn(bars, a, b))
         /\ Cardinality(CompleteIn(bars, a, b)) \in Nat
<1>1. CompleteIn(bars, a, b) \in SUBSET (a .. b)
  BY DEF BarsIn, CompleteIn, Lawful
<1>2. IsFiniteSet(a .. b)
  BY FS_Interval
<1>3. IsFiniteSet(CompleteIn(bars, a, b))
  BY <1>1, <1>2, FS_Subset
<1> QED
  BY <1>3, FS_CardinalityType DEF BarsIn, Lawful

LEMMA CountsAdd ==
  ASSUME NEW bars, Lawful(bars),
         NEW a \in Int, NEW b \in Int, NEW c \in Int, a <= b, b <= c
  PROVE  Cardinality(CompleteIn(bars, a, c)) =
           Cardinality(CompleteIn(bars, a, b)) + Cardinality(CompleteIn(bars, b, c))
<1> DEFINE S == CompleteIn(bars, a, b)
           T == CompleteIn(bars, b, c)
<1>1. S \cup T = CompleteIn(bars, a, c) /\ S \cap T = {}
  BY DEF CompleteIn, BarsIn, Lawful
<1>2. /\ IsFiniteSet(S) /\ IsFiniteSet(T)
      /\ Cardinality(S) \in Nat /\ Cardinality(T) \in Nat
  BY FiniteWindow
<1> HIDE DEF S, T
<1>3. Cardinality(S \cup T) =
        Cardinality(S) + Cardinality(T) - Cardinality(S \cap T)
  BY <1>2, FS_Union
<1> QED
  BY <1>1, <1>2, <1>3, FS_EmptySet DEF S, T

(* What a chunk may know of the bars before its input.                     *)
History(bars, x) ==
  [bars  |-> Cardinality(CompleteIn(bars, Floor, x)),
   first |-> IF BarsIn(bars, Floor, x) = {} THEN NoBar
             ELSE First(BarsIn(bars, Floor, x))]

LEMMA NothingBefore ==
  ASSUME NEW bars, Lawful(bars)
  PROVE  History(bars, Floor) = NoHistory
<1>1. BarsIn(bars, Floor, Floor) = {}
  BY ChunkedRunAssumption DEF BarsIn, Lawful, Floor
<1>2. CompleteIn(bars, Floor, Floor) = {}
  BY <1>1 DEF CompleteIn
<1> QED
  BY <1>1, <1>2, FS_EmptySet DEF History, NoHistory

LEMMA WindowFirst ==
  ASSUME NEW bars, Lawful(bars), NEW a \in Int, NEW b \in Int,
         BarsIn(bars, a, b) # {}
  PROVE  /\ First(BarsIn(bars, a, b)) \in BarsIn(bars, a, b)
         /\ \A u \in BarsIn(bars, a, b) : First(BarsIn(bars, a, b)) <= u
<1>1. BarsIn(bars, a, b) \in SUBSET Int /\ \A u \in BarsIn(bars, a, b) : a <= u
  BY DEF BarsIn, Lawful
<1> QED
  BY <1>1, FirstIs

LEMMA FirstUnique ==
  ASSUME NEW bars, Lawful(bars), NEW a \in Int, NEW b \in Int,
         NEW f \in BarsIn(bars, a, b), \A u \in BarsIn(bars, a, b) : f <= u
  PROVE  First(BarsIn(bars, a, b)) = f
<1>1. First(BarsIn(bars, a, b)) \in BarsIn(bars, a, b)
  BY WindowFirst
<1>2. First(BarsIn(bars, a, b)) <= f
  BY WindowFirst
<1>3. f <= First(BarsIn(bars, a, b))
  BY <1>1
<1>4. f \in Int /\ First(BarsIn(bars, a, b)) \in Int
  BY <1>1 DEF BarsIn, Lawful
<1> QED
  BY <1>2, <1>3, <1>4

LEMMA ScanIs ==
  ASSUME NEW bars, NEW a, NEW b
  PROVE  /\ DOMAIN Scan(bars, a, b) = BarsIn(bars, a, b)
         /\ \A u \in BarsIn(bars, a, b) : Scan(bars, a, b)[u] = bars[u]
<1> QED
  BY DEF Scan, BarsIn

(* The advance of the history over the bars between two inputs.            *)
LEMMA HistoryAdvances ==
  ASSUME NEW bars, Lawful(bars),
         NEW input \in Int, NEW next \in Int, NEW end \in Int,
         Floor <= input, input <= next, next <= end
  PROVE  Advanced(History(bars, input), Scan(bars, input, end), input, next)
           = History(bars, next)
<1> DEFINE scan == Scan(bars, input, end)
           passed == Scan(scan, input, next)
           W == BarsIn(bars, input, next)
<1>f. Floor \in Int
  BY ChunkedRunAssumption DEF Floor
<1>1. DOMAIN passed = W /\ \A u \in W : passed[u] = bars[u]
  <2>0. DOMAIN scan = BarsIn(bars, input, end)
    BY ScanIs
  <2>1. BarsIn(scan, input, next) = W
    <3> HIDE DEF scan
    <3> QED
      BY <2>0 DEF BarsIn, Lawful
  <2>2. W \subseteq BarsIn(bars, input, end)
    BY DEF BarsIn, Lawful
  <2>3. \A u \in W : scan[u] = bars[u]
    BY <2>2, ScanIs
  <2> HIDE DEF scan
  <2>4. \A u \in W : passed[u] = scan[u]
    BY <2>1, ScanIs
  <2> QED
    BY <2>1, <2>3, <2>4, ScanIs
<1>2. {u \in DOMAIN passed : passed[u]} = CompleteIn(bars, input, next)
  BY <1>1 DEF CompleteIn
<1>3. Cardinality(CompleteIn(bars, Floor, next)) =
        Cardinality(CompleteIn(bars, Floor, input))
          + Cardinality(CompleteIn(bars, input, next))
  BY <1>f, CountsAdd
<1>4. BarsIn(bars, Floor, next) = BarsIn(bars, Floor, input) \cup W
  BY <1>f DEF BarsIn, Lawful
<1> HIDE DEF scan
<1>5. Advanced(History(bars, input), scan, input, next) =
        IF DOMAIN passed = {} THEN History(bars, input)
        ELSE [bars |-> History(bars, input).bars
                         + Cardinality({u \in DOMAIN passed : passed[u]}),
              first |-> IF /\ History(bars, input).first # NoBar
                           /\ History(bars, input).first < First(DOMAIN passed)
                        THEN History(bars, input).first ELSE First(DOMAIN passed)]
  BY DEF Advanced
<1>6. CASE W = {}
  <2>1. CompleteIn(bars, input, next) = {}
    BY <1>6 DEF CompleteIn
  <2>2. Cardinality(CompleteIn(bars, Floor, next)) =
          Cardinality(CompleteIn(bars, Floor, input))
    BY <1>3, <2>1, <1>f, FS_EmptySet, FiniteWindow
  <2>3. BarsIn(bars, Floor, next) = BarsIn(bars, Floor, input)
    BY <1>4, <1>6
  <2> HIDE DEF passed, W
  <2> QED
    BY <1>1, <1>5, <1>6, <2>2, <2>3 DEF History, scan
<1>7. CASE W # {}
  <2>1. First(W) \in W /\ \A u \in W : First(W) <= u
    BY <1>7, WindowFirst
  <2>2. BarsIn(bars, Floor, next) # {}
    BY <1>4, <1>7
  <2>3. CASE BarsIn(bars, Floor, input) = {}
    <3>1. BarsIn(bars, Floor, next) = W
      BY <1>4, <2>3
    <3>2. History(bars, input).first = NoBar
      BY <2>3 DEF History
    <3>3. History(bars, next).first = First(W)
      BY <2>2, <3>1 DEF History
    <3> HIDE DEF passed, W
    <3> QED
      BY <1>1, <1>2, <1>3, <1>5, <1>7, <3>2, <3>3 DEF History, scan
  <2>4. CASE BarsIn(bars, Floor, input) # {}
    <3> DEFINE f == First(BarsIn(bars, Floor, input))
    <3>1. /\ f \in BarsIn(bars, Floor, input)
          /\ \A u \in BarsIn(bars, Floor, input) : f <= u
      BY <1>f, <2>4, WindowFirst
    <3> HIDE DEF f
    <3>2. f \in Int /\ \A u \in W : u \in Int /\ f < u
      BY <1>f, <3>1 DEF BarsIn, Lawful
    <3>3. \A u \in BarsIn(bars, Floor, next) : f <= u
      BY <1>4, <3>1, <3>2
    <3>4. First(BarsIn(bars, Floor, next)) = f
      BY <1>f, <1>4, <3>1, <3>3, FirstUnique
    <3>5. History(bars, input).first = f /\ History(bars, next).first = f
      BY <2>2, <2>4, <3>4 DEF History, f
    <3>6. f # NoBar /\ f < First(W)
      BY <2>1, <3>2, HistoryAssumption
    <3> HIDE DEF passed, W
    <3> QED
      BY <1>1, <1>2, <1>3, <1>5, <1>7, <3>5, <3>6 DEF History, scan
  <2> QED
    BY <2>3, <2>4
<1> QED
  BY <1>6, <1>7 DEF scan

-----------------------------------------------------------------------------
(* Membership.  The three numbers that Reason reads of the bars.           *)
LEMMA CountIs ==
  ASSUME NEW bars, Lawful(bars), NEW a \in Int, NEW b \in Int, NEW t \in Int,
         t <= b
  PROVE  CompleteUpTo(Scan(bars, a, b), t) = Cardinality(CompleteIn(bars, a, t))
<1> DEFINE scan == Scan(bars, a, b)
<1>1. DOMAIN scan = BarsIn(bars, a, b) /\ \A u \in BarsIn(bars, a, b) : scan[u] = bars[u]
  BY ScanIs
<1> HIDE DEF scan
<1>2. \A u \in BarsIn(bars, a, b) : (u + 1 <= t) = (u < t)
  BY DEF BarsIn, Lawful
<1>3. {u \in DOMAIN scan : u + 1 <= t /\ scan[u]} = CompleteIn(bars, a, t)
  BY <1>1, <1>2 DEF BarsIn, CompleteIn, Lawful
<1> QED
  BY <1>3 DEF CompleteUpTo, scan

LEMMA NoneClosed ==
  ASSUME NEW bars, Lawful(bars), NEW a \in Int, NEW b \in Int, NEW t \in Int,
         t <= b
  PROVE  (LastClosed(Scan(bars, a, b), t) = NoBar) = (BarsIn(bars, a, t) = {})
<1> DEFINE scan == Scan(bars, a, b)
<1>1. DOMAIN scan = BarsIn(bars, a, b)
  BY ScanIs
<1> HIDE DEF scan
<1>2. DOMAIN scan \subseteq Int
  BY <1>1 DEF BarsIn, Lawful
<1>3. {u \in DOMAIN scan : u + 1 <= t} = BarsIn(bars, a, t)
  BY <1>1 DEF BarsIn, Lawful
<1> QED
  BY <1>2, <1>3, SomeClosed DEF scan

LEMMA RollingIs ==
  ASSUME NEW bars, Lawful(bars), NEW a \in Int, NEW b \in Int, NEW t \in Int,
         t <= b, a <= t - Filters.window
  PROVE  Rolling(Scan(bars, a, b), Filters.window, t)
           = Cardinality(CompleteIn(bars, t - Filters.window, t))
<1> DEFINE w == Filters.window
<1>1. w \in Nat
  BY HistoryAssumption
<1>2. CompleteUpTo(Scan(bars, a, b), t) = Cardinality(CompleteIn(bars, a, t))
  BY CountIs
<1>3. CompleteUpTo(Scan(bars, a, b), t - w)
        = Cardinality(CompleteIn(bars, a, t - w))
  BY <1>1, CountIs
<1>4. Cardinality(CompleteIn(bars, a, t)) =
        Cardinality(CompleteIn(bars, a, t - w))
          + Cardinality(CompleteIn(bars, t - w, t))
  BY <1>1, CountsAdd
<1>5. /\ Cardinality(CompleteIn(bars, a, t - w)) \in Nat
      /\ Cardinality(CompleteIn(bars, t - w, t)) \in Nat
  BY <1>1, FiniteWindow
<1> HIDE DEF w
<1>6. Rolling(Scan(bars, a, b), w, t)
        = CompleteUpTo(Scan(bars, a, b), t) - CompleteUpTo(Scan(bars, a, b), t - w)
  BY DEF Rolling
<1> QED
  BY <1>2, <1>3, <1>4, <1>5, <1>6 DEF w

(* Reason reads the bars through these numbers only.                       *)
LEMMA SameReason ==
  ASSUME NEW barsA, NEW barsB, NEW offsetA, NEW offsetB, NEW snapshots, NEW t,
         HistoryBars(barsA, offsetA, t) = HistoryBars(barsB, offsetB, t),
         FirstBarOpen(barsA, offsetA, t) = FirstBarOpen(barsB, offsetB, t),
         Rolling(barsA, Filters.window, t) = Rolling(barsB, Filters.window, t)
  PROVE  Eligible(barsA, offsetA, snapshots, Filters, t)
           = Eligible(barsB, offsetB, snapshots, Filters, t)
<1> DEFINE snapshot == AsOf(snapshots, t)
<1>1. Listing(barsA, offsetA, snapshot, Filters, t)
        = Listing(barsB, offsetB, snapshot, Filters, t)
  BY DEF Listing
<1>2. Reason(barsA, offsetA, snapshots, Filters, t)
        = Reason(barsB, offsetB, snapshots, Filters, t)
  BY <1>1 DEF Reason
<1> QED
  BY <1>2 DEF Eligible

(* A filter that is on excludes a contract without a bar in the window.    *)
GapsExclude == Filters.maxMissing < Filters.window \/ 0 < Filters.minVolume

LEMMA GapExcludes ==
  ASSUME GapsExclude, NEW bars, NEW offset, NEW snapshots, NEW t,
         Rolling(bars, Filters.window, t) = 0
  PROVE  ~Eligible(bars, offset, snapshots, Filters, t)
<1>1. Filters.window - 0 = Filters.window
  BY HistoryAssumption
<1> QED
  BY <1>1 DEF Eligible, Reason, GapsExclude

LEMMA MembershipAgrees ==
  ASSUME GapsExclude, NEW bars, Lawful(bars), NEW snapshots,
         NEW input \in Int, NEW end \in Int, NEW t \in Int,
         Floor <= input, input <= t - Filters.window, t < end
  PROVE  Eligible(Scan(bars, input, end), History(bars, input), snapshots,
                  Filters, t)
           = Eligible(Scan(bars, Floor, t), NoHistory, snapshots, Filters, t)
<1> DEFINE here == Scan(bars, input, end)
           all == Scan(bars, Floor, t)
           offset == History(bars, input)
           n(a, b) == Cardinality(CompleteIn(bars, a, b))
<1>f. Floor \in Int /\ Filters.window \in Nat
  BY ChunkedRunAssumption, HistoryAssumption DEF Floor
<1>1. Rolling(here, Filters.window, t) = n(t - Filters.window, t)
  BY <1>f, RollingIs
<1>2. Rolling(all, Filters.window, t) = n(t - Filters.window, t)
  BY <1>f, RollingIs
<1>3. (LastClosed(here, t) = NoBar) = (BarsIn(bars, input, t) = {})
  BY <1>f, NoneClosed
<1>4. (LastClosed(all, t) = NoBar) = (BarsIn(bars, Floor, t) = {})
  BY <1>f, NoneClosed
<1>5. CompleteUpTo(here, t) = n(input, t) /\ CompleteUpTo(all, t) = n(Floor, t)
  BY <1>f, CountIs
<1>6. n(Floor, t) = n(Floor, input) + n(input, t)
  BY <1>f, CountsAdd
<1>7. n(Floor, input) \in Nat /\ n(input, t) \in Nat
  BY <1>f, FiniteWindow
<1>8. BarsIn(bars, Floor, t) = BarsIn(bars, Floor, input) \cup BarsIn(bars, input, t)
  BY <1>f DEF BarsIn, Lawful
<1>9. DOMAIN here = BarsIn(bars, input, end) /\ DOMAIN all = BarsIn(bars, Floor, t)
  BY ScanIs
<1>10. offset.bars = n(Floor, input) /\ NoHistory.bars = 0 /\ NoHistory.first = NoBar
  BY DEF History, NoHistory
<1>11. CASE BarsIn(bars, input, t) = {}
  <2>1. CompleteIn(bars, t - Filters.window, t) = {}
    BY <1>f, <1>11 DEF BarsIn, CompleteIn, Lawful
  <2>2. n(t - Filters.window, t) = 0
    BY <2>1, FS_EmptySet
  <2> HIDE DEF here, all, offset, n
  <2>3. ~Eligible(here, offset, snapshots, Filters, t)
    BY <1>1, <2>2, GapExcludes
  <2>4. ~Eligible(all, NoHistory, snapshots, Filters, t)
    BY <1>2, <2>2, GapExcludes
  <2>5. Eligible(here, offset, snapshots, Filters, t) \in BOOLEAN
        /\ Eligible(all, NoHistory, snapshots, Filters, t) \in BOOLEAN
    BY Zenon DEF Eligible
  <2> QED
    BY <2>3, <2>4, <2>5 DEF here, all, offset
<1>12. CASE BarsIn(bars, input, t) # {}
  <2> HIDE DEF here, all, offset, n
  <2>1. LastClosed(here, t) # NoBar /\ LastClosed(all, t) # NoBar
    BY <1>3, <1>4, <1>8, <1>12
  <2>2. HistoryBars(here, offset, t) = HistoryBars(all, NoHistory, t)
    BY <1>5, <1>6, <1>7, <1>10, <2>1 DEF HistoryBars
  <2>3. FirstBarOpen(here, offset, t) = First(BarsIn(bars, Floor, t))
    <3>1. FirstBarOpen(here, offset, t) =
            IF offset.first # NoBar THEN offset.first ELSE First(DOMAIN here)
      BY <2>1 DEF FirstBarOpen
    <3>2. CASE BarsIn(bars, Floor, input) = {}
      <4>1. offset.first = NoBar
        BY <3>2 DEF offset, History
      <4>2. BarsIn(bars, Floor, t) = BarsIn(bars, input, t)
        BY <1>8, <3>2
      <4> DEFINE f == First(BarsIn(bars, input, t))
      <4>3. f \in BarsIn(bars, input, t) /\ \A u \in BarsIn(bars, input, t) : f <= u
        BY <1>12, WindowFirst
      <4> HIDE DEF f
      <4>4. f \in BarsIn(bars, input, end) /\ f < t /\ f \in Int
        BY <4>3 DEF BarsIn, Lawful
      <4>5. \A u \in BarsIn(bars, input, end) : f <= u
        BY <4>3, <4>4 DEF BarsIn, Lawful
      <4>6. First(BarsIn(bars, input, end)) = f
        BY <4>4, <4>5, FirstUnique
      <4> QED
        BY <1>9, <3>1, <4>1, <4>2, <4>6 DEF f
    <3>3. CASE BarsIn(bars, Floor, input) # {}
      <4> DEFINE f == First(BarsIn(bars, Floor, input))
      <4>1. /\ f \in BarsIn(bars, Floor, input)
            /\ \A u \in BarsIn(bars, Floor, input) : f <= u
        BY <1>f, <3>3, WindowFirst
      <4>2. offset.first = f
        BY <3>3 DEF offset, History
      <4> HIDE DEF f
      <4>3. f \in Int /\ f < input
        BY <4>1 DEF BarsIn, Lawful
      <4>4. f \in BarsIn(bars, Floor, t) /\ \A u \in BarsIn(bars, Floor, t) : f <= u
        BY <1>8, <4>1, <4>3 DEF BarsIn, Lawful
      <4>5. First(BarsIn(bars, Floor, t)) = f
        BY <1>f, <4>4, FirstUnique
      <4> QED
        BY <3>1, <4>2, <4>3, <4>5, HistoryAssumption
    <3> QED
      BY <3>2, <3>3
  <2>4. FirstBarOpen(all, NoHistory, t) = First(BarsIn(bars, Floor, t))
    BY <1>9, <1>10, <2>1 DEF FirstBarOpen
  <2>5. Rolling(here, Filters.window, t) = Rolling(all, Filters.window, t)
    BY <1>1, <1>2
  <2>6. Eligible(here, offset, snapshots, Filters, t)
          = Eligible(all, NoHistory, snapshots, Filters, t)
    BY <2>2, <2>3, <2>4, <2>5, SameReason
  <2> QED
    BY <2>6 DEF here, all, offset
<1> QED
  BY <1>11, <1>12
-----------------------------------------------------------------------------
(* The plan of an interval: chunk k starts where chunk k - 1 ends.         *)
LEMMA DivIs ==
  ASSUME NEW a \in Nat, NEW b \in Nat \ {0}
  PROVE  /\ a \div b \in Nat
         /\ (a \div b) * b <= a
         /\ a < (a \div b) * b + b
<1>1. a \div b \in Int
  OBVIOUS
<1>2. b * (a \div b) <= a /\ a < b * (a \div b) + b
  OBVIOUS
<1>3. a \div b >= 0
  OBVIOUS
<1> QED
  BY <1>1, <1>2, <1>3

LEMMA Steps ==
  ASSUME NEW i \in Int, NEW k \in Int, NEW p \in Nat \ {0}, i < k
  PROVE  i * p + p <= k * p
<1>1. k * p = i * p + p + (k - i - 1) * p
  OBVIOUS
<1>2. (k - i - 1) * p >= 0
  OBVIOUS
<1>3. i * p \in Int /\ k * p \in Int /\ (k - i - 1) * p \in Int
  OBVIOUS
<1> QED
  BY <1>1, <1>2, <1>3

ChunkCount(i) == (Length + i - 1) \div i

ChunkStart(i, k) == (k - 1) * i

LEMMA CountIsPositive ==
  ASSUME NEW i \in Intervals
  PROVE  /\ i \in Nat \ {0} /\ ChunkCount(i) \in Nat \ {0}
         /\ \A k \in 1 .. ChunkCount(i) : /\ ChunkStart(i, k) \in Nat
                                          /\ ChunkStart(i, k) < Length
         /\ Length <= ChunkCount(i) * i
<1>1. i \in Nat \ {0} /\ Length \in Nat \ {0}
  BY ChunkedRunAssumption DEF LegalIntervals
<1> DEFINE m == Length + i - 1
           n == ChunkCount(i)
<1>2. m \in Nat /\ n = m \div i
  BY <1>1 DEF ChunkCount
<1>3. n \in Nat /\ n * i <= m /\ m < n * i + i
  BY <1>1, <1>2, DivIs
<1> HIDE DEF n
<1>4. n # 0
  <2> SUFFICES ASSUME n = 0 PROVE FALSE
    OBVIOUS
  <2>1. n * i = 0
    BY <1>1
  <2> QED
    BY <1>1, <1>3, <2>1
<1>5. n * i \in Nat
  BY <1>1, <1>3
<1>6. Length <= n * i
  BY <1>1, <1>3, <1>5
<1>7. ASSUME NEW k \in 1 .. n
      PROVE  ChunkStart(i, k) \in Nat /\ ChunkStart(i, k) < Length
  <2>1. k \in Int /\ n \in Int /\ k - 1 < n /\ k - 1 \in Nat
    BY <1>3
  <2>2. (k - 1) * i + i <= n * i
    BY <1>1, <2>1, Steps
  <2>3. (k - 1) * i \in Nat
    BY <1>1, <2>1
  <2> QED
    BY <1>1, <1>3, <1>5, <2>2, <2>3 DEF ChunkStart
<1> QED
  BY <1>1, <1>3, <1>4, <1>6, <1>7 DEF n

LEMMA LengthIs ==
  ASSUME NEW n \in Nat, NEW S, NEW f \in [1 .. n -> S]
  PROVE  f \in Seq(S) /\ Len(f) = n
<1>1. f \in Seq(S)
  OBVIOUS
<1>2. DOMAIN f = 1 .. Len(f) /\ Len(f) \in Nat /\ DOMAIN f = 1 .. n
  BY <1>1
<1>3. \A a, b \in Nat : 1 .. a = 1 .. b => a = b
  <2> TAKE a, b \in Nat
  <2> HAVE 1 .. a = 1 .. b
  <2>1. a # 0 => a \in 1 .. b
    OBVIOUS
  <2>2. b # 0 => b \in 1 .. a
    OBVIOUS
  <2> QED
    BY <2>1, <2>2
<1> QED
  BY <1>1, <1>2, <1>3

Piece == [start : Nat, end : Nat, input : Int]

LEMMA PlanIs ==
  ASSUME NEW i \in Intervals
  PROVE  /\ Plans[i] \in Seq(Piece)
         /\ Len(Plans[i]) = ChunkCount(i)
         /\ DOMAIN Plans[i] = 1 .. ChunkCount(i)
         /\ \A k \in 1 .. ChunkCount(i) :
              /\ Plans[i][k] \in Piece
              /\ Plans[i][k].start = ChunkStart(i, k)
              /\ Plans[i][k].end = LowerOf(Length, ChunkStart(i, k) + i)
              /\ Plans[i][k].input = ChunkStart(i, k) - Overlap
              /\ Plans[i][k].start < Plans[i][k].end
<1> DEFINE n == ChunkCount(i)
           f == Chunks(i)
<1>1. /\ i \in Nat \ {0} /\ n \in Nat \ {0}
      /\ \A k \in 1 .. n : ChunkStart(i, k) \in Nat /\ ChunkStart(i, k) < Length
  BY CountIsPositive
<1>2. Plans[i] = f
  BY DEF Plans
<1>3. Length \in Nat /\ Overlap \in Nat
  BY ChunkedRunAssumption
<1>4. DOMAIN f = 1 .. n
  BY DEF Chunks, ChunkCount
<1>5. ASSUME NEW k \in 1 .. n
      PROVE  f[k] = [start |-> ChunkStart(i, k),
                     end |-> LowerOf(Length, ChunkStart(i, k) + i),
                     input |-> UpperOf(ChunkStart(i, k) - Overlap, -Overlap)]
  BY DEF Chunks, ChunkCount, ChunkStart, Floor
<1>6. ASSUME NEW k \in 1 .. n
      PROVE  /\ LowerOf(Length, ChunkStart(i, k) + i) \in Nat
             /\ ChunkStart(i, k) < LowerOf(Length, ChunkStart(i, k) + i)
             /\ UpperOf(ChunkStart(i, k) - Overlap, -Overlap) = ChunkStart(i, k) - Overlap
             /\ ChunkStart(i, k) - Overlap \in Int
  BY <1>1, <1>3 DEF LowerOf, UpperOf
<1>7. ASSUME NEW k \in 1 .. n PROVE f[k] \in Piece
  <2> DEFINE b == LowerOf(Length, ChunkStart(i, k) + i)
             c == UpperOf(ChunkStart(i, k) - Overlap, -Overlap)
  <2>1. ChunkStart(i, k) \in Nat /\ b \in Nat /\ c \in Int
    BY <1>1, <1>6
  <2>2. f[k] = [start |-> ChunkStart(i, k), end |-> b, input |-> c]
    BY <1>5
  <2> HIDE DEF b, c, f
  <2> QED
    BY <2>1, <2>2 DEF Piece
<1>8. f = [k \in 1 .. n |-> f[k]]
  BY <1>4 DEF Chunks, ChunkCount
<1>9. f \in [1 .. n -> Piece]
  <2> HIDE DEF f, n
  <2>1. \A k \in 1 .. n : f[k] \in Piece
    BY <1>7
  <2> QED
    BY <1>8, <2>1
<1>10. f \in Seq(Piece) /\ Len(f) = n
  BY <1>1, <1>9, LengthIs
<1> HIDE DEF f, n
<1> QED
  BY <1>2, <1>4, <1>5, <1>6, <1>7, <1>10 DEF n

LEMMA NextChunk ==
  ASSUME NEW i \in Intervals, NEW k \in 1 .. ChunkCount(i), k < ChunkCount(i)
  PROVE  /\ k + 1 \in 1 .. ChunkCount(i)
         /\ Plans[i][k].end = Plans[i][k + 1].start
         /\ Plans[i][k].input <= Plans[i][k + 1].input
         /\ Plans[i][k + 1].input <= Plans[i][k].end
<1> DEFINE n == ChunkCount(i)
<1>1. /\ i \in Nat \ {0} /\ n \in Nat \ {0} /\ k + 1 \in 1 .. n
      /\ ChunkStart(i, k) \in Nat
      /\ ChunkStart(i, k + 1) \in Nat /\ ChunkStart(i, k + 1) < Length
  BY CountIsPositive
<1>2. ChunkStart(i, k + 1) = ChunkStart(i, k) + i
  <2>1. k \in Int /\ i \in Int
    BY <1>1
  <2>2. (k + 1 - 1) * i = (k - 1) * i + i
    BY <2>1
  <2> QED
    BY <2>2 DEF ChunkStart
<1>3. Overlap \in Nat /\ Length \in Nat
  BY ChunkedRunAssumption
<1>4. /\ Plans[i][k].end = LowerOf(Length, ChunkStart(i, k) + i)
      /\ Plans[i][k].input = ChunkStart(i, k) - Overlap
      /\ Plans[i][k + 1].start = ChunkStart(i, k + 1)
      /\ Plans[i][k + 1].input = ChunkStart(i, k + 1) - Overlap
  BY <1>1, PlanIs
<1> QED
  BY <1>1, <1>2, <1>3, <1>4 DEF LowerOf

-----------------------------------------------------------------------------
(* A part whose members are those of the single pass.                      *)
OnePassMember(t) ==
  Eligible(Scan(data.bars, Floor, t), NoHistory, data.snapshots, Filters, t)

RightParts ==
  {p \in [start : Nat, end : Nat, members : SUBSET Int] :
     \A t \in PartTicks(p) : t \in p.members <=> OnePassMember(t)}

LEMMA DataIs == data \in Histories => Lawful(data.bars)
<1> QED
  BY HistoryAssumption DEF Lawful

LEMMA PartIsRight ==
  ASSUME GapsExclude, data \in Histories, NEW chunk \in Piece,
         chunk.input = chunk.start - Overlap
  PROVE  Part(chunk, History(data.bars, chunk.input)) \in RightParts
<1> DEFINE offset == History(data.bars, chunk.input)
           part == Part(chunk, offset)
<1>1. /\ chunk.start \in Nat /\ chunk.end \in Nat /\ chunk.input \in Int
  BY DEF Piece
<1>2. /\ Overlap \in Nat /\ Filters.window \in Nat /\ Filters.window <= Overlap
  BY ChunkedRunAssumption, HistoryAssumption
<1>3. ASSUME NEW t \in chunk.start .. chunk.end - 1
      PROVE  Eligible(Scan(data.bars, chunk.input, chunk.end), offset, data.snapshots,
                      Filters, t) = OnePassMember(t)
  <2>1. /\ t \in Int /\ Floor <= chunk.input /\ t < chunk.end
        /\ chunk.input <= t - Filters.window
    BY <1>1, <1>2 DEF Floor
  <2> QED
    BY <1>1, <2>1, DataIs, MembershipAgrees DEF OnePassMember
<1>4. part = [start |-> chunk.start, end |-> chunk.end, members |-> Members(chunk, offset)]
  BY DEF Part
<1>5. Members(chunk, offset) =
        {t \in chunk.start .. chunk.end - 1 :
           Eligible(Scan(data.bars, chunk.input, chunk.end), offset, data.snapshots,
                    Filters, t)}
  BY DEF Members, Ticks
<1>6. Members(chunk, offset) \in SUBSET Int
  BY <1>1, <1>5
<1>7. \A t \in chunk.start .. chunk.end - 1 :
        t \in Members(chunk, offset) <=> OnePassMember(t)
  BY <1>3, <1>5
<1> HIDE DEF offset
<1>8. part \in [start : Nat, end : Nat, members : SUBSET Int]
  BY <1>1, <1>4, <1>6
<1>9. PartTicks(part) = chunk.start .. chunk.end - 1
  BY <1>4 DEF PartTicks
<1>10. part.members = Members(chunk, offset)
  BY <1>4
<1> HIDE DEF part
<1>11. part \in RightParts
  BY <1>7, <1>8, <1>9, <1>10 DEF RightParts
<1> QED
  BY <1>11 DEF part, offset

(* The invariant.  A run that analyses knows of the bars before the next   *)
(* chunk's input exactly what the single pass counts there, and the parts  *)
(* it has spooled are right; so are those it renames into place.           *)
Fields == {"at", "interval", "selection", "mode", "analysis", "signal", "offset",
           "parts", "state", "rows", "done", "mixed"}

Pending(x) == x.at \in {"load_analysis", "load_signal", "workspace"}

Analyses(x) == x.at = "analysis"

Publishes(x) ==
  x.at = "rename_analysis" \/ (x.at = "publish_analysis" /\ x.analysis = None)

Sound(x) ==
  /\ Pending(x) => x.parts = <<>> /\ x.done = 0 /\ x.offset = NoHistory
  /\ Analyses(x) =>
       /\ x.parts \in Seq(RightParts)
       /\ x.done + 1 \in 1 .. ChunkCount(x.interval)
       /\ x.offset = History(data.bars, Plans[x.interval][x.done + 1].input)
  /\ Publishes(x) => x.parts \in Seq(RightParts)
  /\ x.at = "rebuild" => x.analysis # None

Formed(x) == DOMAIN x = Fields /\ x.interval \in Intervals /\ x.done \in Int

UInv ==
  /\ data \in Histories
  /\ DOMAIN run = Runs
  /\ \A r \in Runs : Formed(run[r]) /\ Sound(run[r])
  /\ analysis # None => analysis.parts \in Seq(RightParts)

LEMMA UInvStep ==
  ASSUME UInv, UNCHANGED data, NEW r \in Runs, NEW to, Becomes(r, to),
         Formed(to), Sound(to),
         \/ UNCHANGED analysis
         \/ analysis'.parts \in Seq(RightParts)
  PROVE  UInv'
<1>1. run' = [run EXCEPT ![r] = to]
  BY DEF Becomes
<1>2. DOMAIN run' = Runs /\ run'[r] = to /\ \A q \in Runs : q # r => run'[q] = run[q]
  BY <1>1 DEF UInv
<1>3. RightParts' = RightParts
  BY DEF RightParts, OnePassMember
<1> QED
  BY <1>2, <1>3 DEF UInv, Sound, Pending, Analyses, Publishes, Formed

LEMMA UInvInit == Init => UInv
<1> SUFFICES ASSUME Init PROVE UInv
  OBVIOUS
<1>1. PICK config \in [Runs -> [interval : Intervals, selection : Selections]] :
        run = [r \in Runs |-> Idle(config[r])]
  BY DEF Init
<1>2. ASSUME NEW r \in Runs PROVE Formed(run[r]) /\ Sound(run[r])
  <2>1. config[r].interval \in Intervals
    OBVIOUS
  <2>2. run[r] = Idle(config[r])
    BY <1>1
  <2> HIDE DEF Sound
  <2>3. Formed(run[r])
    BY <2>1, <2>2 DEF Formed, Fields, Idle
  <2>4. run[r].at = "idle"
    BY <2>2 DEF Idle
  <2>5. Sound(run[r])
    BY <2>4 DEF Sound, Pending, Analyses, Publishes
  <2> QED
    BY <2>3, <2>5
<1> QED
  BY <1>1, <1>2 DEF UInv, Init

(* A state at one of the other places is sound whatever it holds.          *)
Quiet == Ended \cup {"publish_signal", "rename_signal", "execute"}

LEMMA QuietIsSound == ASSUME NEW x, x.at \in Quiet PROVE Sound(x)
<1> QED
  BY DEF Quiet, Ended, Sound, Pending, Analyses, Publishes

LEMMA RaisesSound ==
  ASSUME UInv, UNCHANGED <<data, analysis>>, NEW r \in Runs, Raises(r)
  PROVE  UInv'
<1> DEFINE to == [Idle(run[r]) EXCEPT !.at = "failed"]
<1>1. to.at = "failed" /\ DOMAIN to = Fields /\ to.interval = run[r].interval /\ to.done = 0
  BY DEF Idle, Fields
<1>2. Becomes(r, to)
  BY DEF Raises
<1> HIDE DEF to
<1>3. to.at \in Quiet
  BY <1>1 DEF Quiet, Ended
<1>4. Formed(to)
  BY <1>1 DEF Formed, UInv
<1> QED
  BY <1>2, <1>3, <1>4, QuietIsSound, UInvStep

LEMMA GoesSound ==
  ASSUME UInv, UNCHANGED <<data, analysis>>, NEW r \in Runs, NEW at \in Quiet,
         Goes(r, at)
  PROVE  UInv'
<1> DEFINE to == [run[r] EXCEPT !.at = at]
<1>1. DOMAIN run[r] = Fields
  BY DEF UInv, Formed
<1>2. to.at = at /\ DOMAIN to = Fields /\ to.interval = run[r].interval /\ to.done = run[r].done
  BY <1>1 DEF Fields
<1>3. Becomes(r, to)
  BY DEF Goes
<1> HIDE DEF to
<1>4. Formed(to)
  BY <1>2 DEF Formed, UInv
<1> QED
  BY <1>2, <1>3, <1>4, QuietIsSound, UInvStep

LEMMA StartSound ==
  ASSUME UInv, UNCHANGED data, NEW r \in Runs, Start(r)
  PROVE  UInv'
<1>1. PICK mode \in Modes :
        Becomes(r, [Idle(run[r]) EXCEPT
          !.at = IF mode = "read_write" THEN "load_analysis" ELSE "workspace",
          !.mode = mode])
  BY DEF Start
<1> DEFINE to == [Idle(run[r]) EXCEPT
             !.at = IF mode = "read_write" THEN "load_analysis" ELSE "workspace",
             !.mode = mode]
<1>2. /\ DOMAIN to = Fields /\ to.interval = run[r].interval /\ to.done = 0
      /\ to.parts = <<>> /\ to.offset = NoHistory
      /\ to.at = IF mode = "read_write" THEN "load_analysis" ELSE "workspace"
  BY DEF Idle, Fields
<1>3. Becomes(r, to) /\ UNCHANGED analysis
  BY <1>1 DEF Start, stores
<1> HIDE DEF to
<1>4. Formed(to)
  BY <1>2 DEF Formed, UInv
<1>5. Sound(to)
  BY <1>2 DEF Sound, Pending, Analyses, Publishes
<1> QED
  BY <1>3, <1>4, <1>5, UInvStep

LEMMA LoadAnalysisSound ==
  ASSUME UInv, UNCHANGED data, NEW r \in Runs, LoadAnalysis(r)
  PROVE  UInv'
<1> DEFINE to == [run[r] EXCEPT !.analysis = analysis, !.at = "load_signal"]
<1>1. DOMAIN run[r] = Fields /\ Sound(run[r]) /\ Pending(run[r])
  BY DEF UInv, Formed, LoadAnalysis, At, Pending
<1>2. /\ to.at = "load_signal" /\ DOMAIN to = Fields /\ to.interval = run[r].interval
      /\ to.done = run[r].done /\ to.parts = run[r].parts /\ to.offset = run[r].offset
  BY <1>1 DEF Fields
<1>3. Becomes(r, to) /\ UNCHANGED analysis
  BY DEF LoadAnalysis, stores
<1> HIDE DEF to
<1>4. Formed(to)
  BY <1>2 DEF Formed, UInv
<1>5. Sound(to)
  BY <1>1, <1>2 DEF Sound, Pending, Analyses, Publishes
<1> QED
  BY <1>3, <1>4, <1>5, UInvStep

LEMMA LoadSignalSound ==
  ASSUME UInv, UNCHANGED data, NEW r \in Runs, LoadSignal(r)
  PROVE  UInv'
<1> DEFINE to == [run[r] EXCEPT !.signal = signal[SignalId(r)], !.at = "workspace"]
<1>1. DOMAIN run[r] = Fields /\ Sound(run[r]) /\ Pending(run[r])
  BY DEF UInv, Formed, LoadSignal, At, Pending
<1>2. /\ to.at = "workspace" /\ DOMAIN to = Fields /\ to.interval = run[r].interval
      /\ to.done = run[r].done /\ to.parts = run[r].parts /\ to.offset = run[r].offset
  BY <1>1 DEF Fields
<1>3. UNCHANGED analysis /\ (Raises(r) \/ Becomes(r, to))
  BY DEF LoadSignal, stores
<1> HIDE DEF to
<1>4. Formed(to)
  BY <1>2 DEF Formed, UInv
<1>5. Sound(to)
  BY <1>1, <1>2 DEF Sound, Pending, Analyses, Publishes
<1> QED
  BY <1>3, <1>4, <1>5, UInvStep, RaisesSound

LEMMA MakeSound ==
  ASSUME UInv, UNCHANGED data, NEW r \in Runs, MakeWorkspace(r)
  PROVE  UInv'
<1>1. /\ Formed(run[r]) /\ DOMAIN run[r] = Fields /\ UNCHANGED analysis
      /\ run[r].parts = <<>> /\ run[r].done = 0 /\ run[r].offset = NoHistory
  BY DEF UInv, Formed, MakeWorkspace, At, Sound, Pending, stores
<1>2. CASE Goes(r, "analysis")
  <2> DEFINE to == [run[r] EXCEPT !.at = "analysis"]
  <2>1. /\ to.at = "analysis" /\ DOMAIN to = Fields /\ to.interval = run[r].interval
        /\ to.done = 0 /\ to.parts = <<>> /\ to.offset = NoHistory
    BY <1>1 DEF Fields
  <2>2. Becomes(r, to)
    BY <1>2 DEF Goes
  <2> HIDE DEF to
  <2>3. Formed(to)
    BY <1>1, <2>1 DEF Formed
  <2>4. 1 \in 1 .. ChunkCount(to.interval) /\ Plans[to.interval][1].input = Floor
    <3>1. to.interval \in Intervals
      BY <2>3 DEF Formed
    <3>2. 1 \in 1 .. ChunkCount(to.interval) /\ to.interval \in Nat
      BY <3>1, CountIsPositive
    <3>3. ChunkStart(to.interval, 1) = 0
      BY <3>2 DEF ChunkStart
    <3> QED
      BY <3>1, <3>2, <3>3, PlanIs, ChunkedRunAssumption DEF Floor
  <2>5. to.offset = History(data.bars, Plans[to.interval][to.done + 1].input)
    BY <2>1, <2>4, DataIs, NothingBefore DEF UInv
  <2>6. Sound(to)
    BY <2>1, <2>4, <2>5 DEF Sound, Pending, Analyses, Publishes
  <2> QED
    BY <1>1, <2>2, <2>3, <2>6, UInvStep
<1>3. CASE run[r].analysis # None /\ Becomes(r, Attached(r))
  <2> DEFINE whole == [run[r] EXCEPT !.at = "execute", !.parts = run[r].analysis.parts,
                                     !.rows = run[r].signal.rows,
                              !.mixed = run[r].signal.mixed]
             part == [run[r] EXCEPT !.at = "rebuild", !.parts = run[r].analysis.parts]
  <2>1. /\ whole.at = "execute" /\ DOMAIN whole = Fields /\ whole.interval = run[r].interval
        /\ whole.done = run[r].done
    BY <1>1 DEF Fields
  <2>2. /\ part.at = "rebuild" /\ DOMAIN part = Fields /\ part.interval = run[r].interval
        /\ part.done = run[r].done /\ part.analysis = run[r].analysis
    BY <1>1 DEF Fields
  <2>3. Attached(r) = whole \/ Attached(r) = part
    BY DEF Attached
  <2> HIDE DEF whole, part
  <2>4. Formed(whole) /\ Formed(part)
    BY <1>1, <2>1, <2>2 DEF Formed
  <2>5. Sound(whole)
    BY <2>1, QuietIsSound DEF Quiet
  <2>6. Sound(part)
    BY <1>3, <2>2 DEF Sound, Pending, Analyses, Publishes
  <2> QED
    BY <1>1, <1>3, <2>3, <2>4, <2>5, <2>6, UInvStep
<1> QED
  BY <1>1, <1>2, <1>3, RaisesSound DEF MakeWorkspace

LEMMA AnalyseSound ==
  ASSUME GapsExclude, UInv, UNCHANGED data, NEW r \in Runs, AnalyseChunk(r)
  PROVE  UInv'
<1> DEFINE x == run[r]
           k == x.done + 1
           n == ChunkCount(x.interval)
           plan == Plans[x.interval]
           chunk == plan[k]
           part == Part(chunk, x.offset)
           from == WithSelections(r, chunk, part)
           offset == IF k < Len(plan)
                     THEN Advanced(from.offset, Scan(data.bars, chunk.input, chunk.end),
                                   chunk.input, plan[k + 1].input)
                     ELSE from.offset
           to == [from EXCEPT !.parts = Spooled(from.parts, part), !.offset = offset,
                              !.at = NextPhase(r)]
<1>1. /\ Formed(x) /\ DOMAIN x = Fields /\ x.interval \in Intervals /\ x.done \in Int
      /\ x.at = "analysis" /\ x.parts \in Seq(RightParts) /\ k \in 1 .. n
      /\ x.offset = History(data.bars, chunk.input)
  BY DEF UInv, Formed, Sound, Analyses, AnalyseChunk, At
<1>2. Becomes(r, to) /\ UNCHANGED analysis
  BY DEF AnalyseChunk, Plan, stores
<1>3. /\ Len(plan) = n /\ n \in Nat /\ chunk \in Piece
      /\ chunk.input = chunk.start - Overlap
  BY <1>1, PlanIs, CountIsPositive
<1>4. part \in RightParts
  BY <1>1, <1>3, PartIsRight DEF UInv
<1> HIDE DEF part
<1>5. /\ DOMAIN from = Fields /\ from.interval = x.interval /\ from.done = k
      /\ from.parts = x.parts /\ from.offset = x.offset /\ from.analysis = x.analysis
  BY <1>1 DEF WithSelections, Fields
<1> HIDE DEF from
<1>6. Append(x.parts, part) \in Seq(RightParts)
  BY <1>1, <1>4
<1>7. /\ DOMAIN to = Fields /\ to.interval = x.interval /\ to.done = k
      /\ to.parts = Append(x.parts, part) /\ to.offset = offset
      /\ to.at = NextPhase(r) /\ to.analysis = x.analysis
  <2> HIDE DEF offset
  <2> QED
    BY <1>5 DEF Fields, Spooled
<1>8. k < n => offset = History(data.bars, plan[k + 1].input)
  <2> SUFFICES ASSUME k < n PROVE offset = History(data.bars, plan[k + 1].input)
    OBVIOUS
  <2>1. /\ chunk.input <= plan[k + 1].input /\ plan[k + 1].input <= chunk.end
        /\ plan[k + 1] \in Piece
    BY <1>1, NextChunk, PlanIs
  <2>2. /\ chunk.input \in Int /\ plan[k + 1].input \in Int /\ chunk.end \in Int
        /\ chunk.start \in Nat
    BY <1>3, <2>1 DEF Piece
  <2>3. Floor <= chunk.input
    BY <1>3, <2>2, ChunkedRunAssumption DEF Floor
  <2>4. offset = Advanced(History(data.bars, chunk.input),
                          Scan(data.bars, chunk.input, chunk.end),
                          chunk.input, plan[k + 1].input)
    BY <1>1, <1>3, <1>5
  <2> HIDE DEF offset, chunk, plan, k
  <2> QED
    BY <2>1, <2>2, <2>3, <2>4, DataIs, HistoryAdvances DEF UInv
<1>9. NextPhase(r) = IF k < n THEN "analysis"
                     ELSE IF x.mode = "off" THEN "execute" ELSE "publish_analysis"
  BY <1>1, <1>3 DEF NextPhase, Plan
<1> HIDE DEF to, offset
<1>10. Formed(to)
  BY <1>1, <1>7 DEF Formed
<1>11. CASE k < n
  <2>1. k + 1 \in 1 .. n
    BY <1>1, <1>3, <1>11
  <2>2. Sound(to)
    BY <1>6, <1>7, <1>8, <1>9, <1>11, <2>1 DEF Sound, Pending, Analyses, Publishes
  <2> QED
    BY <1>2, <1>10, <2>2, UInvStep
<1>12. CASE ~(k < n)
  <2>1. Sound(to)
    BY <1>6, <1>7, <1>9, <1>12 DEF Sound, Pending, Analyses, Publishes
  <2> QED
    BY <1>2, <1>10, <2>1, UInvStep
<1> QED
  BY <1>11, <1>12

LEMMA RebuildSound ==
  ASSUME UInv, UNCHANGED data, NEW r \in Runs, RebuildChunk(r)
  PROVE  UInv'
<1> DEFINE x == run[r]
           from == WithSelections(r, Plan(r)[x.done + 1], x.parts[x.done + 1])
           mixed == from.mixed \cup
             {i \in {x.done + 1} : ~CutAs(x.parts[i], Plan(r)[i])}
           to == [from EXCEPT !.at = NextPhase(r), !.mixed = mixed]
<1>1. /\ DOMAIN x = Fields /\ x.interval \in Intervals /\ x.done \in Int
      /\ x.at = "rebuild" /\ x.analysis # None
  BY DEF UInv, Formed, Sound, RebuildChunk, At
<1>2. Becomes(r, to) /\ UNCHANGED analysis
  BY DEF RebuildChunk, stores
<1>3. /\ DOMAIN from = Fields /\ from.interval = x.interval /\ from.done = x.done + 1
      /\ from.analysis = x.analysis
  BY <1>1 DEF WithSelections, Fields
<1> HIDE DEF from, mixed
<1>4. /\ DOMAIN to = Fields /\ to.interval = x.interval /\ to.done = x.done + 1
      /\ to.analysis = x.analysis /\ to.at = NextPhase(r)
  BY <1>3 DEF Fields
<1>5. NextPhase(r) \in {"rebuild", "execute", "publish_analysis"}
  BY <1>1 DEF NextPhase
<1> HIDE DEF to
<1>6. Formed(to)
  BY <1>1, <1>4 DEF Formed
<1>7. Sound(to)
  BY <1>1, <1>4, <1>5 DEF Sound, Pending, Analyses, Publishes
<1> QED
  BY <1>2, <1>6, <1>7, UInvStep

LEMMA PublishSound ==
  ASSUME UInv, UNCHANGED data, NEW r \in Runs, PublishAnalysis(r)
  PROVE  UInv'
<1> DEFINE to1 == [run[r] EXCEPT !.at = "publish_signal"]
           to2 == [run[r] EXCEPT !.analysis = analysis, !.at = "publish_signal"]
           to3 == [run[r] EXCEPT !.at = "rename_analysis"]
<1>1. /\ DOMAIN run[r] = Fields /\ Formed(run[r]) /\ UNCHANGED analysis
      /\ run[r].analysis = None => run[r].parts \in Seq(RightParts)
  BY DEF UInv, Formed, Sound, Publishes, PublishAnalysis, At, stores
<1>2. \/ Becomes(r, to1)
      \/ Becomes(r, to2)
      \/ run[r].analysis = None /\ Becomes(r, to3)
  BY DEF PublishAnalysis
<1>3. /\ DOMAIN to1 = Fields /\ to1.interval = run[r].interval /\ to1.done = run[r].done
      /\ to1.at = "publish_signal"
  BY <1>1 DEF Fields
<1>4. /\ DOMAIN to2 = Fields /\ to2.interval = run[r].interval /\ to2.done = run[r].done
      /\ to2.at = "publish_signal"
  BY <1>1 DEF Fields
<1>5. /\ DOMAIN to3 = Fields /\ to3.interval = run[r].interval /\ to3.done = run[r].done
      /\ to3.at = "rename_analysis" /\ to3.parts = run[r].parts
  BY <1>1 DEF Fields
<1> HIDE DEF to1, to2, to3
<1>6. Formed(to1) /\ Formed(to2) /\ Formed(to3)
  BY <1>1, <1>3, <1>4, <1>5 DEF Formed
<1>7. Sound(to1) /\ Sound(to2)
  BY <1>3, <1>4, QuietIsSound DEF Quiet
<1>8. run[r].analysis = None => Sound(to3)
  BY <1>1, <1>5 DEF Sound, Pending, Analyses, Publishes
<1> QED
  BY <1>1, <1>2, <1>6, <1>7, <1>8, UInvStep

LEMMA RenameSound ==
  ASSUME UInv, UNCHANGED data, NEW r \in Runs, RenameAnalysis(r)
  PROVE  UInv'
<1> DEFINE to == [run[r] EXCEPT !.analysis = Snapshot(r), !.at = "publish_signal"]
<1>1. /\ DOMAIN run[r] = Fields /\ Formed(run[r])
      /\ run[r].parts \in Seq(RightParts)
  BY DEF UInv, Formed, Sound, Publishes, RenameAnalysis, At
<1>2. \/ analysis' = Snapshot(r) /\ Becomes(r, to)
      \/ Raises(r) /\ UNCHANGED analysis
  BY DEF RenameAnalysis
<1>3. /\ DOMAIN to = Fields /\ to.interval = run[r].interval /\ to.done = run[r].done
      /\ to.at = "publish_signal"
  BY <1>1 DEF Fields
<1>4. Snapshot(r).parts = run[r].parts
  BY DEF Snapshot
<1> HIDE DEF to
<1>5. Formed(to) /\ Sound(to)
  BY <1>1, <1>3, QuietIsSound DEF Formed, Quiet
<1>6. CASE analysis' = Snapshot(r) /\ Becomes(r, to)
  BY <1>1, <1>4, <1>5, <1>6, UInvStep
<1> QED
  BY <1>2, <1>6, RaisesSound

LEMMA OtherSound ==
  ASSUME UInv, UNCHANGED data, NEW r \in Runs,
         PublishSignal(r) \/ RenameSignal(r) \/ Execute(r) \/ Trouble(r)
  PROVE  UInv'
<1>1. UNCHANGED analysis
  BY DEF PublishSignal, RenameSignal, Execute, Trouble, stores
<1>2. {"rename_signal", "execute", "done"} \subseteq Quiet
  BY DEF Quiet, Ended
<1>3. CASE Raises(r)
  BY <1>1, <1>3, RaisesSound
<1>4. CASE \E at \in {"rename_signal", "execute", "done"} : Goes(r, at)
  BY <1>1, <1>2, <1>4, GoesSound
<1>5. CASE Becomes(r, [Idle(run[r]) EXCEPT !.at = "failed"])
  <2> DEFINE to == [Idle(run[r]) EXCEPT !.at = "failed"]
  <2>1. to.at = "failed" /\ DOMAIN to = Fields /\ to.interval = run[r].interval /\ to.done = 0
    BY DEF Idle, Fields
  <2>2. Becomes(r, to)
    BY <1>5
  <2> HIDE DEF to
  <2>3. Formed(to) /\ Sound(to)
    BY <2>1, QuietIsSound DEF Formed, UInv, Quiet, Ended
  <2> QED
    BY <1>1, <2>2, <2>3, UInvStep
<1> QED
  BY <1>3, <1>4, <1>5 DEF PublishSignal, RenameSignal, Execute, Trouble

LEMMA UInvNext == GapsExclude => (UInv /\ [Next]_vars => UInv')
<1> SUFFICES ASSUME GapsExclude, UInv, [Next]_vars PROVE UInv'
  OBVIOUS
<1>1. CASE UNCHANGED vars
  <2>1. /\ data' = data /\ run' = run /\ analysis' = analysis
    BY <1>1 DEF vars, stores
  <2>2. RightParts' = RightParts
    BY <2>1 DEF RightParts, OnePassMember
  <2> QED
    BY <2>1, <2>2 DEF UInv, Sound, Pending, Analyses, Publishes, Formed
<1>2. CASE Next
  <2>1. UNCHANGED data
    BY <1>2 DEF Next
  <2>2. ASSUME NEW r \in Runs, Start(r) \/ Step(r) \/ Trouble(r) PROVE UInv'
    BY <2>1, <2>2, StartSound, LoadAnalysisSound, LoadSignalSound, MakeSound,
       AnalyseSound, RebuildSound, PublishSound, RenameSound, OtherSound DEF Step
  <2>3. CASE Cleanup
    <3>1. /\ data' = data /\ run' = run /\ analysis' = analysis
      BY <2>1, <2>3 DEF Cleanup, stores
    <3>2. RightParts' = RightParts
      BY <3>1 DEF RightParts, OnePassMember
    <3> QED
      BY <3>1, <3>2 DEF UInv, Sound, Pending, Analyses, Publishes, Formed
  <2> QED
    BY <1>2, <2>2, <2>3 DEF Next
<1> QED
  BY <1>1, <1>2

-----------------------------------------------------------------------------
(* Membership in a published part is that of a single pass over the bars   *)
(* closed by the tick, for every history, plan and interleaving of runs,   *)
(* provided a filter excludes contracts without a bar in the window.       *)
THEOREM MembershipIsPointInTime ==
  ASSUME GapsExclude
  PROVE  Spec => []UniverseIsPointInTime
<1>1. UInv => UniverseIsPointInTime
  <2> SUFFICES ASSUME UInv, analysis # None, NEW i \in DOMAIN analysis.parts
               PROVE  \A t \in PartTicks(analysis.parts[i]) :
                        t \in analysis.parts[i].members <=> OnePassMember(t)
    BY DEF UniverseIsPointInTime, OnePassMember
  <2>1. analysis.parts[i] \in RightParts
    <3>1. analysis.parts \in Seq(RightParts)
      BY DEF UInv
    <3> QED
      BY <3>1
  <2> QED
    BY <2>1 DEF RightParts
<1>2. UInv /\ [Next]_vars => UInv'
  BY UInvNext
<1> QED
  BY <1>1, <1>2, UInvInit, PTL DEF Spec

-----------------------------------------------------------------------------
(* Selections.  Ranks come at a steady pace, so that the snapshots a chunk *)
(* makes, those it remembers and those of the whole run are progressions.  *)
LEMMA ModIs ==
  ASSUME NEW a \in Nat, NEW b \in Nat \ {0}
  PROVE  /\ a % b \in Nat /\ a % b < b
         /\ a = (a \div b) * b + (a % b)
<1>1. a % b \in Int /\ 0 <= a % b /\ a % b < b
  OBVIOUS
<1>2. \A q, r \in Int : q = a \div b /\ r = a % b => a = q * b + r
  OBVIOUS
<1>3. a \div b \in Int
  OBVIOUS
<1>4. a = (a \div b) * b + (a % b)
  BY <1>1, <1>2, <1>3, Zenon
<1> QED
  BY <1>1, <1>4

LEMMA Multiple ==
  ASSUME NEW a \in Nat, NEW p \in Nat \ {0}
  PROVE  a % p = 0 <=> \E q \in Nat : a = q * p
<1>1. ASSUME a % p = 0 PROVE \E q \in Nat : a = q * p
  <2> DEFINE d == a \div p
  <2>1. d \in Nat /\ a = d * p + (a % p)
    BY DivIs, ModIs
  <2>2. d * p \in Nat
    BY <2>1
  <2> HIDE DEF d
  <2>3. a = d * p
    BY <1>1, <2>1, <2>2
  <2> QED
    BY <2>1, <2>3
<1>2. ASSUME NEW q \in Nat, a = q * p PROVE a % p = 0
  <2> DEFINE d == a \div p
  <2>1. d \in Nat /\ d * p <= a /\ a < d * p + p /\ a = d * p + (a % p)
    BY DivIs, ModIs
  <2> HIDE DEF d
  <2>2. ~(d < q)
    <3> SUFFICES ASSUME d < q PROVE FALSE
      OBVIOUS
    <3>1. d * p + p <= q * p
      BY <2>1, Steps
    <3> QED
      BY <1>2, <2>1, <3>1
  <2>3. ~(q < d)
    <3> SUFFICES ASSUME q < d PROVE FALSE
      OBVIOUS
    <3>1. q * p + p <= d * p
      BY <2>1, Steps
    <3> QED
      BY <1>2, <2>1, <3>1
  <2>4. d = q
    BY <2>1, <2>2, <2>3
  <2>5. a % p \in Nat
    BY ModIs
  <2> QED
    BY <1>2, <2>1, <2>4, <2>5
<1> QED
  BY <1>1, <1>2

Multiples(p, a, b) == {t \in a .. (b - 1) : t % p = 0}

Term(p, a, j) == a + (j - 1) * p

Progression(p, a, n) == [j \in 1 .. n |-> Term(p, a, j)]

Terms(p, a, n) == {Term(p, a, j) : j \in 1 .. n}

LEMMA MultiplesAre ==
  ASSUME NEW p \in Nat \ {0}, NEW a \in Nat, NEW b \in Nat, a <= b, a % p = 0
  PROVE  \E n \in Nat : /\ Multiples(p, a, b) = Terms(p, a, n)
                        /\ b % p = 0 => b = a + n * p
<1> DEFINE m == b - a + p - 1
           n == m \div p
<1>1. m \in Nat
  OBVIOUS
<1>2. n \in Nat /\ n * p <= m /\ m < n * p + p
  <2> HIDE DEF m
  <2> QED
    BY <1>1, DivIs
<1> HIDE DEF n
<1>3. PICK q \in Nat : a = q * p
  BY Multiple
<1>4. ASSUME NEW t \in Multiples(p, a, b) PROVE t \in Terms(p, a, n)
  <2>1. t \in Nat /\ a <= t /\ t <= b - 1 /\ t % p = 0
    BY <1>4 DEF Multiples
  <2>2. PICK k \in Nat : t = k * p
    BY <2>1, Multiple
  <2>3. k >= q
    <3> SUFFICES ASSUME k < q PROVE FALSE
      OBVIOUS
    <3>1. k * p + p <= q * p
      BY Steps
    <3> QED
      BY <1>3, <2>1, <2>2, <3>1
  <2>4. k - q < n
    <3> SUFFICES ASSUME n <= k - q PROVE FALSE
      BY <1>2, <2>3
    <3>1. n < k - q + 1
      BY <1>2
    <3>2. n * p + p <= (k - q + 1) * p
      BY <1>2, <3>1, Steps
    <3>3. (k - q + 1) * p = k * p - q * p + p
      OBVIOUS
    <3>4. k * p \in Int /\ q * p \in Int /\ n * p \in Int
      BY <1>2
    <3> QED
      BY <1>2, <1>3, <2>1, <2>2, <3>2, <3>3, <3>4
  <2> DEFINE j == k - q + 1
  <2>5. j \in 1 .. n
    BY <1>2, <2>3, <2>4
  <2>6. t = a + (j - 1) * p
    BY <1>3, <2>2
  <2> QED
    BY <2>5, <2>6 DEF Terms, Term
<1>5. ASSUME NEW t \in Terms(p, a, n) PROVE t \in Multiples(p, a, b)
  <2>1. PICK j \in 1 .. n : t = a + (j - 1) * p
    BY <1>5 DEF Terms, Term
  <2>2. (j - 1) * p \in Nat
    BY <1>2
  <2>3. (j - 1) * p + p <= n * p
    BY <1>2, Steps
  <2>4. n * p \in Nat
    BY <1>2
  <2>5. t \in Nat /\ a <= t /\ t <= b - 1
    BY <1>2, <2>1, <2>2, <2>3, <2>4
  <2>6. t = (q + (j - 1)) * p
    BY <1>3, <2>1
  <2>7. q + (j - 1) \in Nat
    BY <1>2
  <2>8. t % p = 0
    BY <2>5, <2>6, <2>7, Multiple
  <2> QED
    BY <2>5, <2>8 DEF Multiples
<1>6. b % p = 0 => b = a + n * p
  <2> SUFFICES ASSUME b % p = 0 PROVE b = a + n * p
    OBVIOUS
  <2>1. PICK k \in Nat : b = k * p
    BY Multiple
  <2>2. (k - q) * p = b - a
    BY <1>3, <2>1
  <2>3. ~(k - q < n)
    <3> SUFFICES ASSUME k - q < n PROVE FALSE
      OBVIOUS
    <3>1. (k - q) * p + p <= n * p
      BY <1>2, Steps
    <3>2. n * p \in Nat
      BY <1>2
    <3> QED
      BY <1>2, <2>2, <3>1, <3>2
  <2>4. ~(n < k - q)
    <3> SUFFICES ASSUME n < k - q PROVE FALSE
      OBVIOUS
    <3>1. n * p + p <= (k - q) * p
      BY <1>2, Steps
    <3>2. n * p \in Nat
      BY <1>2
    <3> QED
      BY <1>2, <2>2, <3>1, <3>2
  <2>5. k - q = n
    BY <1>2, <2>3, <2>4
  <2>6. n * p = b - a
    BY <2>2, <2>5
  <2> QED
    BY <2>6
<1> QED
  BY <1>2, <1>4, <1>5, <1>6

LEMMA TermType ==
  ASSUME NEW p \in Nat \ {0}, NEW a \in Int, NEW j \in Int
  PROVE  Term(p, a, j) \in Int
<1>1. (j - 1) * p \in Int
  OBVIOUS
<1> QED
  BY <1>1 DEF Term

LEMMA TermsOrdered ==
  ASSUME NEW p \in Nat \ {0}, NEW a \in Int, NEW i \in Int, NEW j \in Int
  PROVE  /\ Term(p, a, i) <= Term(p, a, j) <=> i <= j
         /\ Term(p, a, i) = Term(p, a, j) => i = j
<1>1. (i - 1) * p \in Int /\ (j - 1) * p \in Int
  OBVIOUS
<1>2. i < j => (i - 1) * p + p <= (j - 1) * p
  BY Steps
<1>3. j < i => (j - 1) * p + p <= (i - 1) * p
  BY Steps
<1>4. i = j => (i - 1) * p = (j - 1) * p
  OBVIOUS
<1> QED
  BY <1>1, <1>2, <1>3, <1>4 DEF Term

LEMMA TermMoves ==
  ASSUME NEW p \in Nat \ {0}, NEW a \in Int, NEW k \in Int, NEW j \in Int
  PROVE  /\ a + k * p \in Int /\ a - k * p \in Int
         /\ Term(p, a + k * p, j) = Term(p, a, j + k)
         /\ Term(p, a - k * p, j) = Term(p, a, j - k)
<1>1. k * p \in Int /\ (j - 1) * p \in Int
  OBVIOUS
<1>2. (j + k - 1) * p = (j - 1) * p + k * p
  OBVIOUS
<1>3. (j - k - 1) * p = (j - 1) * p - k * p
  OBVIOUS
<1> QED
  BY <1>1, <1>2, <1>3 DEF Term

LEMMA ProgressionIs ==
  ASSUME NEW p \in Nat \ {0}, NEW a \in Int, NEW n \in Nat
  PROVE  /\ Progression(p, a, n) \in Seq(Int)
         /\ Len(Progression(p, a, n)) = n
         /\ DOMAIN Progression(p, a, n) = 1 .. n
         /\ \A j \in 1 .. n : Progression(p, a, n)[j] = Term(p, a, j)
<1>1. ASSUME NEW j \in 1 .. n
      PROVE  Term(p, a, j) \in Int
  <2>1. j \in Int
    OBVIOUS
  <2> QED
    BY <2>1, TermType
<1>2. Progression(p, a, n) \in [1 .. n -> Int]
  BY <1>1 DEF Progression
<1> QED
  BY <1>2, LengthIs DEF Progression

(* A sequence with these terms is the progression.                         *)
LEMMA ProgressionOnly ==
  ASSUME NEW p \in Nat \ {0}, NEW a \in Int, NEW n \in Nat,
         NEW f \in Seq(Int), Len(f) = n, \A j \in 1 .. n : f[j] = Term(p, a, j)
  PROVE  f = Progression(p, a, n)
<1> DEFINE g == Progression(p, a, n)
<1>1. /\ g \in Seq(Int) /\ Len(g) = n /\ DOMAIN g = 1 .. n
      /\ \A j \in 1 .. n : g[j] = Term(p, a, j)
  BY ProgressionIs
<1> HIDE DEF g
<1>2. DOMAIN f = 1 .. n
  OBVIOUS
<1>3. \A j \in 1 .. n : f[j] = g[j]
  BY <1>1
<1> QED
  BY <1>1, <1>2, <1>3 DEF g

LEMMA TermsCount ==
  ASSUME NEW p \in Nat \ {0}, NEW a \in Int, NEW n \in Nat
  PROVE  Cardinality(Terms(p, a, n)) = n
<1> DEFINE f == [j \in 1 .. n |-> Term(p, a, j)]
<1>1. f \in [1 .. n -> Terms(p, a, n)]
  BY DEF Terms
<1>2. \A i, j \in 1 .. n : f[i] = f[j] => i = j
  <2> TAKE i, j \in 1 .. n
  <2>1. f[i] = Term(p, a, i) /\ f[j] = Term(p, a, j)
    OBVIOUS
  <2>2. i \in Int /\ j \in Int
    OBVIOUS
  <2>3. Term(p, a, i) = Term(p, a, j) => i = j
    BY <2>2, TermsOrdered
  <2> HIDE DEF f
  <2> QED
    BY <2>1, <2>3
<1>3. \A t \in Terms(p, a, n) : \E j \in 1 .. n : f[j] = t
  BY DEF Terms
<1> HIDE DEF f
<1>4. f \in Bijection(1 .. n, Terms(p, a, n))
  BY <1>1, <1>2, <1>3 DEF Bijection, Injection, Surjection, IsInjective
<1>5. ExistsBijection(1 .. n, Terms(p, a, n))
  BY <1>4 DEF ExistsBijection
<1> QED
  BY <1>5, FS_CountingElements

(* The snapshots of a part, in the order of time.                          *)
LEMMA InOrderIs ==
  ASSUME NEW p \in Nat \ {0}, NEW a \in Int, NEW n \in Nat
  PROVE  InOrder(Terms(p, a, n)) = Progression(p, a, n)
<1> DEFINE S == Terms(p, a, n)
           t(j) == Term(p, a, j)
<1>1. Cardinality(S) = n
  BY TermsCount
<1>2. ASSUME NEW j \in 1 .. n PROVE Cardinality({u \in S : u <= t(j)}) = j
  <2>1. {u \in S : u <= t(j)} = Terms(p, a, j)
    <3>1. ASSUME NEW i \in 1 .. n, t(i) <= t(j) PROVE t(i) \in Terms(p, a, j)
      <4>1. i \in Int /\ j \in Int
        OBVIOUS
      <4>2. i <= j
        BY <3>1, <4>1, TermsOrdered
      <4> QED
        BY <4>2 DEF Terms
    <3>2. ASSUME NEW i \in 1 .. j PROVE t(i) \in S /\ t(i) <= t(j)
      <4>1. i \in Int /\ j \in Int /\ i <= j
        OBVIOUS
      <4>2. t(i) <= t(j)
        BY <4>1, TermsOrdered
      <4> QED
        BY <4>2 DEF Terms
    <3> QED
      BY <3>1, <3>2 DEF Terms
  <2>2. j \in Nat
    OBVIOUS
  <2> HIDE DEF S, t
  <2> QED
    BY <2>1, <2>2, TermsCount
<1>3. ASSUME NEW j \in 1 .. n
      PROVE  (CHOOSE u \in S : Cardinality({v \in S : v <= u}) = j) = t(j)
  <2>1. t(j) \in S
    BY DEF Terms
  <2>2. ASSUME NEW u \in S, Cardinality({v \in S : v <= u}) = j PROVE u = t(j)
    <3>1. PICK i \in 1 .. n : u = t(i)
      BY DEF Terms
    <3>2. i = j
      BY <1>2, <2>2, <3>1
    <3> QED
      BY <3>1, <3>2
  <2> HIDE DEF S, t
  <2> QED
    BY <1>2, <2>1, <2>2
<1> HIDE DEF S
<1> QED
  BY <1>1, <1>3 DEF InOrder, Progression, S

LEMMA Joined ==
  ASSUME NEW p \in Nat \ {0}, NEW a \in Int, NEW m \in Nat, NEW n \in Nat
  PROVE  Progression(p, a - m * p, m) \o Progression(p, a, n)
           = Progression(p, a - m * p, m + n)
<1> DEFINE b == a - m * p
           f == Progression(p, b, m)
           g == Progression(p, a, n)
<1>1. b \in Int /\ m + n \in Nat /\ \A j \in Int : Term(p, b, j) = Term(p, a, j - m)
  <2>1. m \in Int
    OBVIOUS
  <2>2. ASSUME NEW j \in Int PROVE b \in Int /\ Term(p, b, j) = Term(p, a, j - m)
    BY <2>1, TermMoves
  <2> HIDE DEF b
  <2>3. b \in Int
    <3>1. 0 \in Int
      OBVIOUS
    <3> QED
      BY <2>2, <3>1
  <2> QED
    BY <2>2, <2>3
<1> HIDE DEF b
<1>2. f \in Seq(Int) /\ Len(f) = m /\ \A j \in 1 .. m : f[j] = Term(p, b, j)
  BY <1>1, ProgressionIs
<1>3. g \in Seq(Int) /\ Len(g) = n /\ \A j \in 1 .. n : g[j] = Term(p, a, j)
  BY ProgressionIs
<1> HIDE DEF f, g
<1>4. f \o g \in Seq(Int) /\ Len(f \o g) = m + n
  BY <1>2, <1>3
<1>5. ASSUME NEW j \in 1 .. (m + n) PROVE (f \o g)[j] = Term(p, b, j)
  <2>1. CASE j <= m
    <3>1. (f \o g)[j] = f[j]
      BY <1>2, <1>3, <2>1
    <3> QED
      BY <1>2, <2>1, <3>1
  <2>2. CASE m < j
    <3>1. (f \o g)[j] = g[j - m]
      BY <1>2, <1>3, <2>2
    <3>2. g[j - m] = Term(p, a, j - m)
      BY <1>3, <2>2
    <3> QED
      BY <1>1, <3>1, <3>2
  <2>3. j <= m \/ m < j
    OBVIOUS
  <2> QED
    BY <2>1, <2>2, <2>3
<1>6. f \o g = Progression(p, b, m + n)
  BY <1>1, <1>4, <1>5, ProgressionOnly
<1> QED
  BY <1>6 DEF f, g, b

LEMMA LastOnes ==
  ASSUME NEW p \in Nat \ {0}, NEW a \in Int, NEW n \in Nat, NEW lag \in Nat
  PROVE  SubSeq(Progression(p, a, n), UpperOf(1, n - lag + 1), n)
           = Progression(p, a + (n - LowerOf(lag, n)) * p, LowerOf(lag, n))
<1> DEFINE m == LowerOf(lag, n)
           f == Progression(p, a, n)
           low == UpperOf(1, n - lag + 1)
           b == a + (n - m) * p
<1>1. m \in Nat /\ m <= n /\ low = n - m + 1
  BY DEF LowerOf, UpperOf
<1> HIDE DEF m, low
<1>2. b \in Int /\ \A j \in Int : Term(p, b, j) = Term(p, a, j + (n - m))
  <2>1. n - m \in Int
    BY <1>1
  <2>2. ASSUME NEW j \in Int PROVE b \in Int /\ Term(p, b, j) = Term(p, a, j + (n - m))
    BY <2>1, TermMoves
  <2> HIDE DEF b
  <2>3. b \in Int
    <3>1. 0 \in Int
      OBVIOUS
    <3> QED
      BY <2>2, <3>1
  <2> QED
    BY <2>2, <2>3
<1> HIDE DEF b
<1>3. f \in Seq(Int) /\ Len(f) = n /\ \A j \in 1 .. n : f[j] = Term(p, a, j)
  BY ProgressionIs
<1> HIDE DEF f
<1>4. /\ SubSeq(f, low, n) \in Seq(Int) /\ Len(SubSeq(f, low, n)) = m
      /\ \A j \in 1 .. m : SubSeq(f, low, n)[j] = f[low + j - 1]
  BY <1>1, <1>3
<1>5. ASSUME NEW j \in 1 .. m PROVE SubSeq(f, low, n)[j] = Term(p, b, j)
  <2>1. low + j - 1 \in 1 .. n /\ low + j - 1 = j + (n - m)
    BY <1>1
  <2>2. f[low + j - 1] = Term(p, a, j + (n - m))
    BY <1>3, <2>1
  <2> QED
    BY <1>2, <1>4, <2>2
<1>6. SubSeq(f, low, n) = Progression(p, b, m)
  BY <1>1, <1>2, <1>4, <1>5, ProgressionOnly
<1> QED
  BY <1>6 DEF f, low, m, b

-----------------------------------------------------------------------------
(* What construct_portfolio makes of a part [a, b) that starts at a        *)
(* rebalance, given the snapshots before a.                                *)
Pace(s) == IF s.clock = "factor" THEN 1 ELSE Rebalance

Kept(s, a) == LowerOf(s.lag, a \div Pace(s))

StateAt(s, a) == Progression(Pace(s), a - Kept(s, a) * Pace(s), Kept(s, a))

RowAt(s, t) ==
  [at |-> t, source |-> IF t < s.lag * Pace(s) THEN None ELSE t - s.lag * Pace(s)]

RowsIn(s, a, b) == {RowAt(s, t) : t \in Multiples(Rebalance, a, b)}

LEMMA SelectionIs ==
  ASSUME NEW s \in Selections
  PROVE  /\ s.lag \in Nat /\ s.clock \in {"factor", "rebalance"}
         /\ Rebalance \in Nat \ {0} /\ Pace(s) \in Nat \ {0}
<1> QED
  BY HistoryAssumption, ChunkedRunAssumption DEF LegalIntervals, Pace

LEMMA MultipleOfOne == ASSUME NEW t \in Nat PROVE t % 1 = 0
<1> QED
  OBVIOUS

LEMMA PaceDivides ==
  ASSUME NEW s \in Selections, NEW t \in Nat, t % Rebalance = 0
  PROVE  t % Pace(s) = 0
<1> QED
  BY MultipleOfOne DEF Pace

LEMMA QuotientIs ==
  ASSUME NEW q \in Nat, NEW p \in Nat \ {0}
  PROVE  (q * p) \div p = q
<1> DEFINE d == (q * p) \div p
<1>1. q * p \in Nat
  OBVIOUS
<1>2. d \in Nat /\ d * p <= q * p /\ q * p < d * p + p
  BY <1>1, DivIs
<1> HIDE DEF d
<1>3. ~(d < q)
  <2> SUFFICES ASSUME d < q PROVE FALSE
    OBVIOUS
  <2>1. d * p + p <= q * p
    BY <1>2, Steps
  <2> QED
    BY <1>1, <1>2, <2>1
<1>4. ~(q < d)
  <2> SUFFICES ASSUME q < d PROVE FALSE
    OBVIOUS
  <2>1. q * p + p <= d * p
    BY <1>2, Steps
  <2>2. d * p \in Nat
    BY <1>2
  <2> QED
    BY <1>1, <1>2, <2>1, <2>2
<1>5. d = q
  BY <1>2, <1>3, <1>4
<1> QED
  BY <1>5 DEF d

LEMMA ShiftIs ==
  ASSUME NEW p \in Nat \ {0}, NEW a \in Nat, a % p = 0, NEW t \in Nat, a <= t
  PROVE  (t - a) % p = 0 <=> t % p = 0
<1>1. PICK q \in Nat : a = q * p
  BY Multiple
<1>2. t - a \in Nat
  OBVIOUS
<1>3. ASSUME NEW k \in Nat, t - a = k * p PROVE \E m \in Nat : t = m * p
  <2>1. t = (q + k) * p
    BY <1>1, <1>3
  <2>2. q + k \in Nat
    OBVIOUS
  <2> QED
    BY <2>1, <2>2
<1>4. ASSUME NEW m \in Nat, t = m * p PROVE \E k \in Nat : t - a = k * p
  <2>1. ~(m < q)
    <3> SUFFICES ASSUME m < q PROVE FALSE
      OBVIOUS
    <3>1. m * p + p <= q * p
      BY Steps
    <3> QED
      BY <1>1, <1>4, <3>1
  <2>2. m - q \in Nat
    BY <2>1
  <2>3. t - a = (m - q) * p
    BY <1>1, <1>4
  <2> QED
    BY <2>2, <2>3
<1>5. (\E k \in Nat : t - a = k * p) <=> (\E m \in Nat : t = m * p)
  BY <1>3, <1>4
<1>6. (t - a) % p = 0 <=> (\E k \in Nat : t - a = k * p)
  BY <1>2, Multiple
<1>7. t % p = 0 <=> (\E m \in Nat : t = m * p)
  BY Multiple
<1> QED
  BY <1>5, <1>6, <1>7

AtRebalance(t) == t % Rebalance = 0

Scheduled(schedule, a, b) ==
  (a .. (b - 1)) \cap schedule = Multiples(Rebalance, a, b)

(* The snapshots ranked in the part follow those remembered.               *)
LEMMA RankedIs ==
  ASSUME NEW s \in Selections, NEW a \in Nat, NEW b \in Nat, a <= b,
         NEW schedule, Scheduled(schedule, a, b)
  PROVE  Ranked(a .. (b - 1), schedule, s) = Multiples(Pace(s), a, b)
<1>1. CASE s.clock = "factor"
  <2>1. \A t \in a .. (b - 1) : t % 1 = 0
    BY MultipleOfOne
  <2> QED
    BY <1>1, <2>1 DEF Ranked, Multiples, Pace
<1>2. CASE s.clock # "factor"
  BY <1>2 DEF Ranked, Pace, Scheduled
<1> QED
  BY <1>1, <1>2

LEMMA ProductOrder ==
  ASSUME NEW i \in Int, NEW j \in Int, NEW p \in Nat \ {0}
  PROVE  i * p <= j * p <=> i <= j
<1>1. i * p \in Int /\ j * p \in Int
  OBVIOUS
<1>2. i < j => i * p + p <= j * p
  BY Steps
<1>3. j < i => j * p + p <= i * p
  BY Steps
<1>4. i = j => i * p = j * p
  OBVIOUS
<1> QED
  BY <1>1, <1>2, <1>3, <1>4

(* Where the state of a part stands: c snapshots precede a, the last m of  *)
(* them are remembered.                                                    *)
LEMMA StateIs ==
  ASSUME NEW s \in Selections, NEW a \in Nat, a % Pace(s) = 0
  PROVE  \E c \in Nat :
           /\ a = c * Pace(s) /\ Kept(s, a) = LowerOf(s.lag, c)
           /\ Kept(s, a) \in Nat /\ Kept(s, a) <= c
<1>1. Pace(s) \in Nat \ {0} /\ s.lag \in Nat
  BY SelectionIs
<1>2. PICK c \in Nat : a = c * Pace(s)
  BY <1>1, Multiple
<1>3. a \div Pace(s) = c
  BY <1>1, <1>2, QuotientIs
<1> QED
  BY <1>1, <1>2, <1>3 DEF Kept, LowerOf

(* The snapshots remembered and those of the part, by their distance from  *)
(* the start of the part.                                                  *)
RankedFrom(p, a, m, n) == Progression(p, a - m * p, m + n)

LEMMA ShiftedIs ==
  ASSUME NEW p \in Nat \ {0}, NEW a \in Int, NEW m \in Nat, NEW n \in Nat
  PROVE  /\ RankedFrom(p, a, m, n) \in Seq(Int)
         /\ Len(RankedFrom(p, a, m, n)) = m + n
         /\ DOMAIN RankedFrom(p, a, m, n) = 1 .. (m + n)
         /\ \A k \in 1 .. (m + n) : RankedFrom(p, a, m, n)[k] = Term(p, a, k - m)
<1> DEFINE start == a - m * p
           l == m + n
           f == Progression(p, start, l)
<1>1. start \in Int /\ l \in Nat /\ m \in Int
  OBVIOUS
<1>2. ASSUME NEW k \in Int PROVE Term(p, start, k) = Term(p, a, k - m)
  <2>1. (k - 1) * p \in Int /\ m * p \in Int
    BY <1>1
  <2>2. (k - m - 1) * p = (k - 1) * p - m * p
    BY <1>1
  <2> QED
    BY <1>1, <2>1, <2>2 DEF Term
<1>3. RankedFrom(p, a, m, n) = f
  BY DEF RankedFrom
<1> HIDE DEF start, l
<1>4. /\ f \in Seq(Int) /\ Len(f) = l /\ DOMAIN f = 1 .. l
      /\ \A k \in 1 .. l : f[k] = Term(p, start, k)
  BY <1>1, ProgressionIs
<1> HIDE DEF f
<1>5. ASSUME NEW k \in 1 .. l PROVE f[k] = Term(p, a, k - m)
  <2>1. k \in Int
    OBVIOUS
  <2> QED
    BY <1>2, <1>4, <2>1
<1>6. \A k \in 1 .. l : f[k] = Term(p, a, k - m)
  BY <1>5
<1> QED
  BY <1>3, <1>4, <1>6 DEF l

(* c snapshots precede a, and the last m of them are remembered.           *)
Indexed(f, p, a, m, n) ==
  DOMAIN f = 1 .. (m + n) /\ \A k \in 1 .. (m + n) : f[k] = Term(p, a, k - m)

Placed(p, lag, c, m, a) ==
  a = c * p /\ m <= c /\ (lag <= c => m = lag) /\ (c < lag => m = c)

PlaceOf(f, t) == CHOOSE k \in DOMAIN f : f[k] = t

SourceOf(f, lag, t) == IF PlaceOf(f, t) > lag THEN f[PlaceOf(f, t) - lag] ELSE None

RestOf(f, lag) == SubSeq(f, UpperOf(1, Len(f) - lag + 1), Len(f))

(* The row of the j-th snapshot of a part: the lag-th snapshot before it,  *)
(* when the run has that many.                                             *)
LEMMA SourceIs ==
  ASSUME NEW p \in Nat \ {0}, NEW lag \in Nat,
         NEW c \in Nat, NEW a \in Nat, NEW m \in Nat, Placed(p, lag, c, m, a),
         NEW n \in Nat, NEW j \in 1 .. n,
         NEW f, Indexed(f, p, a, m, n)
  PROVE  SourceOf(f, lag, Term(p, a, j))
           = IF Term(p, a, j) < lag * p THEN None ELSE Term(p, a, j) - lag * p
<1> DEFINE t == Term(p, a, j)
           i == PlaceOf(f, t)
<1>1. j \in Int /\ m \in Int /\ a \in Int /\ lag \in Int
  OBVIOUS
<1>2. a = c * p
  BY DEF Placed
<1>3. m <= c /\ (lag <= c => m = lag) /\ (c < lag => m = c)
  BY DEF Placed
<1>4. DOMAIN f = 1 .. (m + n)
  BY DEF Indexed
<1>5. ASSUME NEW k \in 1 .. (m + n) PROVE f[k] = Term(p, a, k - m)
  BY DEF Indexed
<1>6. m + j \in 1 .. (m + n) /\ f[m + j] = t
  <2>1. m + j \in 1 .. (m + n) /\ (m + j) - m = j
    BY <1>1
  <2> QED
    BY <1>5, <2>1
<1>7. ASSUME NEW k \in 1 .. (m + n), f[k] = t PROVE k = m + j
  <2> DEFINE l == k - m
  <2>1. l \in Int /\ Term(p, a, l) = Term(p, a, j) /\ a \in Int
    BY <1>1, <1>5, <1>7
  <2> HIDE DEF l, t
  <2>2. l = j
    BY <1>1, <2>1, TermsOrdered
  <2> QED
    BY <1>1, <2>2 DEF l
<1>8. i = m + j
  <2> HIDE DEF t
  <2> QED
    BY <1>4, <1>6, <1>7 DEF PlaceOf
<1>9. t = (c + (j - 1)) * p
  BY <1>1, <1>2 DEF Term
<1>10. lag * p <= t <=> lag <= c + (j - 1)
  <2>1. lag \in Int /\ c + (j - 1) \in Int
    BY <1>1
  <2> HIDE DEF t
  <2> QED
    BY <1>9, <2>1, ProductOrder
<1>11. lag <= c + (j - 1) <=> m + j > lag
  BY <1>1, <1>3
<1>12. t \in Int /\ lag * p \in Int
  <2>1. t \in Int
    BY <1>1, TermType
  <2> QED
    BY <2>1
<1>13. m + j > lag => f[m + j - lag] = t - lag * p
  <2> SUFFICES ASSUME m + j > lag PROVE f[m + j - lag] = t - lag * p
    OBVIOUS
  <2>1. m + j - lag \in 1 .. (m + n) /\ (m + j - lag) - m = j - lag
    BY <1>1
  <2>2. f[m + j - lag] = Term(p, a, j - lag)
    BY <1>5, <2>1
  <2>3. Term(p, a, j - lag) = t - lag * p
    BY <1>1 DEF Term
  <2> QED
    BY <2>2, <2>3
<1> HIDE DEF t, i
<1>14. (IF i > lag THEN f[i - lag] ELSE None) = IF t < lag * p THEN None ELSE t - lag * p
  BY <1>8, <1>10, <1>11, <1>12, <1>13
<1> QED
  BY <1>14 DEF t, i, SourceOf

(* The row of a snapshot of the part, and what the part leaves, by the     *)
(* place of the part alone.                                                *)
LEMMA RowIs ==
  ASSUME NEW p \in Nat \ {0}, NEW lag \in Nat,
         NEW c \in Nat, NEW a \in Nat, NEW m \in Nat, Placed(p, lag, c, m, a),
         NEW n \in Nat, NEW t \in Terms(p, a, n)
  PROVE  SourceOf(RankedFrom(p, a, m, n), lag, t)
           = IF t < lag * p THEN None ELSE t - lag * p
<1> DEFINE f == RankedFrom(p, a, m, n)
<1>1. Indexed(f, p, a, m, n)
  BY ShiftedIs DEF Indexed
<1>2. PICK j \in 1 .. n : t = Term(p, a, j)
  BY DEF Terms
<1> HIDE DEF f
<1>3. SourceOf(f, lag, Term(p, a, j))
        = IF Term(p, a, j) < lag * p THEN None ELSE Term(p, a, j) - lag * p
  BY <1>1, SourceIs
<1> QED
  BY <1>2, <1>3 DEF f

LEMMA RestIs ==
  ASSUME NEW p \in Nat \ {0}, NEW lag \in Nat,
         NEW c \in Nat, NEW a \in Nat, NEW m \in Nat, Placed(p, lag, c, m, a),
         NEW n \in Nat
  PROVE  RestOf(RankedFrom(p, a, m, n), lag)
           = Progression(p, a + n * p - LowerOf(lag, c + n) * p, LowerOf(lag, c + n))
<1> DEFINE f == RankedFrom(p, a, m, n)
           low == a - m * p
           l == m + n
           k == LowerOf(lag, c + n)
<1>1. Len(f) = l
  BY ShiftedIs
<1>2. f = Progression(p, low, l)
  BY DEF RankedFrom
<1>3. LowerOf(lag, l) = k /\ low + (l - k) * p = a + n * p - k * p
  <2>1. LowerOf(lag, l) = k /\ k \in Int
    BY DEF LowerOf, Placed
  <2> HIDE DEF k
  <2>2. (l - k) * p = m * p + n * p - k * p
    BY <2>1
  <2>3. m * p \in Int /\ n * p \in Int /\ k * p \in Int
    BY <2>1
  <2> QED
    BY <2>1, <2>2, <2>3
<1>4. low \in Int /\ l \in Nat
  OBVIOUS
<1> HIDE DEF low, l, f, k
<1>5. SubSeq(Progression(p, low, l), UpperOf(1, l - lag + 1), l)
        = Progression(p, low + (l - LowerOf(lag, l)) * p, LowerOf(lag, l))
  BY <1>4, LastOnes
<1>6. SubSeq(f, UpperOf(1, Len(f) - lag + 1), Len(f))
        = Progression(p, a + n * p - k * p, k)
  BY <1>1, <1>2, <1>3, <1>5
<1> QED
  BY <1>6 DEF f, k, RestOf

LEMMA ConstructedIs ==
  ASSUME NEW s \in Selections, NEW a \in Nat, NEW b \in Nat, a <= b,
         AtRebalance(a), NEW schedule, Scheduled(schedule, a, b)
  PROVE  LET made == Constructed(StateAt(s, a), a .. (b - 1), schedule, s)
         IN /\ made.rows = RowsIn(s, a, b)
            /\ AtRebalance(b) => made.state = StateAt(s, b)
<1> DEFINE p == Pace(s)
           m == Kept(s, a)
           ticks == a .. (b - 1)
           ranked == Ranked(ticks, schedule, s)
           f == StateAt(s, a) \o InOrder(ranked)
           made == Constructed(StateAt(s, a), ticks, schedule, s)
<1>1. p \in Nat \ {0} /\ s.lag \in Nat
  BY SelectionIs
<1>2. a % p = 0
  BY PaceDivides DEF AtRebalance
<1>3. PICK c \in Nat : a = c * p /\ m = LowerOf(s.lag, c) /\ m \in Nat /\ m <= c
  BY <1>2, StateIs
<1>4. Placed(p, s.lag, c, m, a) /\ m \in Nat
  BY <1>1, <1>3 DEF LowerOf, Placed
<1>5. PICK n \in Nat : /\ Multiples(p, a, b) = Terms(p, a, n)
                       /\ b % p = 0 => b = a + n * p
  BY <1>1, <1>2, MultiplesAre
<1>6. ranked = Terms(p, a, n)
  BY <1>5, RankedIs
<1>7. f = RankedFrom(p, a, m, n)
  <2>1. StateAt(s, a) = Progression(p, a - m * p, m)
    BY DEF StateAt
  <2>2. a \in Int
    OBVIOUS
  <2> HIDE DEF p, m, ranked
  <2>3. InOrder(ranked) = Progression(p, a, n)
    BY <1>1, <1>6, <2>2, InOrderIs
  <2>4. p \in Nat \ {0} /\ m \in Nat
    BY <1>1, <1>4
  <2>5. Progression(p, a - m * p, m) \o Progression(p, a, n)
          = Progression(p, a - m * p, m + n)
    BY <2>2, <2>4, Joined
  <2> QED
    BY <2>1, <2>3, <2>5 DEF RankedFrom
<1>8. /\ made.rows = {[at |-> t, source |-> SourceOf(f, s.lag, t)] : t \in ticks \cap schedule}
      /\ made.state = RestOf(f, s.lag)
  BY DEF Constructed, SourceOf, PlaceOf, RestOf
<1> HIDE DEF made, f
<1>9. made.rows = RowsIn(s, a, b)
  <2>1. ASSUME NEW t \in Multiples(Rebalance, a, b)
        PROVE  [at |-> t, source |-> SourceOf(f, s.lag, t)] = RowAt(s, t)
    <3>1. t \in Nat /\ t \in ticks /\ t % Rebalance = 0
      BY <2>1 DEF Multiples
    <3>2. t % p = 0
      BY <3>1, PaceDivides
    <3>3. t \in Terms(p, a, n)
      BY <1>5, <3>1, <3>2 DEF Multiples
    <3> HIDE DEF p, m
    <3>4. SourceOf(RankedFrom(p, a, m, n), s.lag, t)
            = IF t < s.lag * p THEN None ELSE t - s.lag * p
      BY <1>1, <1>4, <3>3, RowIs
    <3> QED
      BY <1>7, <3>4 DEF RowAt, p
  <2>2. made.rows = {[at |-> t, source |-> SourceOf(f, s.lag, t)] : t \in Multiples(Rebalance, a, b)}
    BY <1>8 DEF Scheduled
  <2> QED
    BY <2>1, <2>2 DEF RowsIn
<1>10. ASSUME AtRebalance(b) PROVE made.state = StateAt(s, b)
  <2> DEFINE k == LowerOf(s.lag, c + n)
  <2>1. b = a + n * p
    <3>1. b % p = 0
      BY <1>10, PaceDivides DEF AtRebalance
    <3> QED
      BY <1>5, <3>1
  <2>2. b = (c + n) * p
    BY <1>1, <1>3, <2>1
  <2>3. Kept(s, b) = k
    <3>1. c + n \in Nat
      OBVIOUS
    <3>2. b \div p = c + n
      BY <1>1, <2>2, <3>1, QuotientIs
    <3> QED
      BY <3>2 DEF Kept
  <2>4. StateAt(s, b) = Progression(p, b - k * p, k)
    BY <2>3 DEF StateAt
  <2>5. made.state = Progression(p, a + n * p - k * p, k)
    <3> HIDE DEF p, m
    <3>1. RestOf(RankedFrom(p, a, m, n), s.lag) = Progression(p, a + n * p - k * p, k)
      BY <1>1, <1>4, RestIs
    <3> QED
      BY <1>7, <1>8, <3>1
  <2>6. b - k * p = a + n * p - k * p
    <3>1. k \in Nat
      BY <1>1 DEF LowerOf
    <3> HIDE DEF k, p
    <3>2. k * p \in Int /\ n * p \in Int
      BY <1>1, <3>1
    <3> QED
      BY <2>1, <3>2
  <2> QED
    BY <2>4, <2>5, <2>6
<1> QED
  BY <1>9, <1>10 DEF made

-----------------------------------------------------------------------------
(* The chunks of a plan and the single pass.                               *)
LEMMA RowsJoin ==
  ASSUME NEW s, NEW a \in Nat, NEW b \in Nat, a <= b
  PROVE  RowsIn(s, 0, a) \cup RowsIn(s, a, b) = RowsIn(s, 0, b)
<1>1. Multiples(Rebalance, 0, a) \cup Multiples(Rebalance, a, b)
        = Multiples(Rebalance, 0, b)
  BY DEF Multiples
<1> QED
  BY <1>1 DEF RowsIn

LEMMA NoneYet ==
  ASSUME NEW s \in Selections
  PROVE  StateAt(s, 0) = <<>> /\ RowsIn(s, 0, 0) = {}
<1> DEFINE p == Pace(s)
<1>1. p \in Nat \ {0} /\ s.lag \in Nat
  BY SelectionIs
<1>2. Kept(s, 0) = 0
  <2>1. 0 * p = 0
    BY <1>1
  <2>2. (0 * p) \div p = 0
    BY <1>1, QuotientIs
  <2>3. 0 \div p = 0
    BY <2>1, <2>2
  <2> QED
    BY <1>1, <2>3 DEF Kept, LowerOf
<1>3. ASSUME NEW low PROVE Progression(p, low, 0) = <<>>
  BY DEF Progression
<1> QED
  BY <1>2, <1>3 DEF StateAt, RowsIn, Multiples

LEMMA OnePassIs == ASSUME NEW s \in Selections PROVE OnePass[s] = RowsIn(s, 0, Length)
<1> DEFINE schedule == {t \in 0 .. Length - 1 : t % Rebalance = 0}
<1>1. Length \in Nat /\ 0 <= Length
  BY ChunkedRunAssumption
<1>2. Scheduled(schedule, 0, Length)
  BY DEF Scheduled, Multiples
<1>3. AtRebalance(0)
  <2>1. Rebalance \in Nat \ {0}
    BY SelectionIs
  <2>2. 0 = 0 * Rebalance /\ 0 \in Nat
    BY <2>1
  <2> QED
    BY <2>1, <2>2, Multiple DEF AtRebalance
<1> HIDE DEF schedule
<1>4. Constructed(StateAt(s, 0), 0 .. (Length - 1), schedule, s).rows
        = RowsIn(s, 0, Length)
  BY <1>1, <1>2, <1>3, ConstructedIs
<1>5. StateAt(s, 0) = <<>>
  BY NoneYet
<1> QED
  BY <1>4, <1>5 DEF OnePass, schedule

LEMMA ChunkIs ==
  ASSUME NEW i \in Intervals, NEW k \in 1 .. ChunkCount(i)
  PROVE  LET chunk == Plans[i][k]
         IN /\ chunk.start \in Nat /\ chunk.end \in Nat /\ chunk.start < chunk.end
            /\ AtRebalance(chunk.start)
            /\ Scheduled(Schedule(chunk), chunk.start, chunk.end)
            /\ k = 1 => chunk.start = 0
            /\ k = ChunkCount(i) => chunk.end = Length
<1> DEFINE chunk == Plans[i][k]
<1>1. /\ chunk \in Piece /\ chunk.start = ChunkStart(i, k)
      /\ chunk.end = LowerOf(Length, ChunkStart(i, k) + i)
      /\ chunk.start < chunk.end
  BY PlanIs
<1>2. chunk.start \in Nat /\ chunk.end \in Nat
  BY <1>1 DEF Piece
<1>3. /\ i \in Nat \ {0} /\ Rebalance \in Nat \ {0} /\ i % Rebalance = 0
      /\ Length \in Nat
  BY ChunkedRunAssumption DEF LegalIntervals
<1>4. AtRebalance(chunk.start)
  <2>1. PICK q \in Nat : i = q * Rebalance
    BY <1>3, Multiple
  <2>2. k - 1 \in Nat
    BY CountIsPositive
  <2>3. (k - 1) * i = ((k - 1) * q) * Rebalance /\ (k - 1) * q \in Nat
    BY <1>3, <2>1, <2>2
  <2>4. ((k - 1) * i) % Rebalance = 0
    <3> DEFINE a == (k - 1) * i
               m == (k - 1) * q
    <3>1. a \in Nat /\ m \in Nat /\ a = m * Rebalance
      BY <1>3, <2>2, <2>3
    <3> HIDE DEF a, m
    <3>2. a % Rebalance = 0
      BY <1>3, <3>1, Multiple
    <3> QED
      BY <3>2 DEF a
  <2> QED
    BY <1>1, <2>4 DEF AtRebalance, ChunkStart
<1> HIDE DEF chunk
<1>5. Scheduled(Schedule(chunk), chunk.start, chunk.end)
  <2>1. ASSUME NEW t \in chunk.start .. (chunk.end - 1)
        PROVE  (t - chunk.start) % Rebalance = 0 <=> t % Rebalance = 0
    <3>1. t \in Nat /\ chunk.start <= t
      BY <1>2
    <3> QED
      BY <1>2, <1>3, <1>4, <3>1, ShiftIs DEF AtRebalance
  <2> QED
    BY <2>1 DEF Scheduled, Schedule, Ticks, Multiples
<1>6. k = 1 => chunk.start = 0
  BY <1>1, <1>3 DEF ChunkStart
<1>7. k = ChunkCount(i) => chunk.end = Length
  <2> SUFFICES ASSUME k = ChunkCount(i) PROVE chunk.end = Length
    OBVIOUS
  <2>1. Length <= ChunkCount(i) * i /\ ChunkCount(i) \in Nat
    BY CountIsPositive
  <2>2. ChunkStart(i, k) + i = k * i
    BY <1>3, <2>1 DEF ChunkStart
  <2>3. Length <= k * i /\ k * i \in Int
    BY <1>3, <2>1
  <2> QED
    BY <1>1, <1>3, <2>2, <2>3 DEF LowerOf
<1> QED
  BY <1>1, <1>2, <1>4, <1>5, <1>6, <1>7 DEF chunk

-----------------------------------------------------------------------------
(* The invariant.  A run in the middle of its plan has the rows of the     *)
(* single pass up to the next chunk and the snapshots before it, and from  *)
(* the last chunk on it has all rows, and so have the signal snapshots it  *)
(* has published or loaded; unless a chunk has met a part cut elsewhere.   *)
Progresses(x) ==
  LET next == Plans[x.interval][x.done + 1] IN
  /\ x.done + 1 \in 1 .. ChunkCount(x.interval)
  /\ x.rows = RowsIn(x.selection, 0, next.start)
  /\ x.state = StateAt(x.selection, next.start)

Selected(x) ==
  x.at \in {"publish_analysis", "rename_analysis", "publish_signal",
            "rename_signal", "execute", "done"}

Faithful(x) ==
  /\ x.signal # None /\ x.signal.mixed = {} =>
       x.signal.rows = RowsIn(x.selection, 0, Length)
  /\ Pending(x) => x.done = 0 /\ x.state = <<>> /\ x.rows = {} /\ x.mixed = {}
  /\ Analyses(x) => Progresses(x) /\ x.mixed = {}
  /\ x.at = "rebuild" /\ x.mixed = {} => Progresses(x)
  /\ Selected(x) /\ x.mixed = {} => x.rows = RowsIn(x.selection, 0, Length)

Typed(x) == Formed(x) /\ x.selection \in Selections

StoresFaithful ==
  /\ DOMAIN signal = Selections
  /\ \A s \in Selections : signal[s] # None /\ signal[s].mixed = {} =>
       signal[s].rows = RowsIn(s, 0, Length)

CInv ==
  /\ DOMAIN run = Runs
  /\ \A r \in Runs : Typed(run[r]) /\ Faithful(run[r])
  /\ StoresFaithful

LEMMA CStep ==
  ASSUME CInv, NEW r \in Runs, NEW to, Becomes(r, to), Typed(to), Faithful(to),
         StoresFaithful'
  PROVE  CInv'
<1>1. run' = [run EXCEPT ![r] = to]
  BY DEF Becomes
<1>2. DOMAIN run' = Runs /\ run'[r] = to /\ \A q \in Runs : q # r => run'[q] = run[q]
  BY <1>1 DEF CInv
<1>3. ASSUME NEW q \in Runs PROVE (Typed(run[q]) /\ Faithful(run[q]))'
  <2>1. CASE q = r
    BY <1>2, <2>1 DEF Typed, Formed, Faithful, Pending, Analyses, Progresses,
                      Selected
  <2>2. CASE q # r
    <3>1. run'[q] = run[q] /\ Typed(run[q]) /\ Faithful(run[q])
      BY <1>2, <2>2 DEF CInv
    <3> QED
      BY <3>1 DEF Typed, Formed, Faithful, Pending, Analyses, Progresses,
                  Selected
  <2> QED
    BY <2>1, <2>2
<1> QED
  BY <1>2, <1>3 DEF CInv

LEMMA SameStores ==
  ASSUME CInv, UNCHANGED stores
  PROVE  StoresFaithful'
<1> QED
  BY DEF CInv, StoresFaithful, stores

LEMMA CInvInit == Init => CInv
<1> SUFFICES ASSUME Init PROVE CInv
  OBVIOUS
<1>1. PICK config \in [Runs -> [interval : Intervals, selection : Selections]] :
        run = [r \in Runs |-> Idle(config[r])]
  BY DEF Init
<1>2. ASSUME NEW r \in Runs PROVE Typed(run[r]) /\ Faithful(run[r])
  <2>1. config[r].interval \in Intervals /\ config[r].selection \in Selections
    OBVIOUS
  <2>2. run[r] = Idle(config[r])
    BY <1>1
  <2>3. Typed(run[r])
    BY <2>1, <2>2 DEF Typed, Formed, Fields, Idle
  <2>4. run[r].at = "idle" /\ run[r].analysis = None /\ run[r].signal = None
    BY <2>2 DEF Idle
  <2>5. Faithful(run[r])
    BY <2>4 DEF Faithful, Pending, Analyses, Selected
  <2> QED
    BY <2>3, <2>5
<1>3. StoresFaithful
  BY DEF Init, StoresFaithful
<1> QED
  BY <1>1, <1>2, <1>3 DEF CInv

(* A run that fails forgets what it had.                                   *)
LEMMA ForgetsFaithful ==
  ASSUME CInv, StoresFaithful', NEW r \in Runs,
         Becomes(r, [Idle(run[r]) EXCEPT !.at = "failed"])
  PROVE  CInv'
<1> DEFINE to == [Idle(run[r]) EXCEPT !.at = "failed"]
<1>1. /\ to.at = "failed" /\ DOMAIN to = Fields /\ to.interval = run[r].interval
      /\ to.done = 0 /\ to.selection = run[r].selection
      /\ to.analysis = None /\ to.signal = None
  BY DEF Idle, Fields
<1>2. Becomes(r, to)
  OBVIOUS
<1> HIDE DEF to
<1>3. Typed(to)
  BY <1>1 DEF Typed, Formed, CInv
<1>4. Faithful(to)
  BY <1>1 DEF Faithful, Pending, Analyses, Selected
<1> QED
  BY <1>2, <1>3, <1>4, CStep

LEMMA RaisesFaithful ==
  ASSUME CInv, StoresFaithful', NEW r \in Runs, Raises(r)
  PROVE  CInv'
<1> QED
  BY ForgetsFaithful DEF Raises

LEMMA StartFaithful ==
  ASSUME CInv, NEW r \in Runs, Start(r)
  PROVE  CInv'
<1>1. PICK mode \in Modes :
        Becomes(r, [Idle(run[r]) EXCEPT
          !.at = IF mode = "read_write" THEN "load_analysis" ELSE "workspace",
          !.mode = mode])
  BY DEF Start
<1> DEFINE to == [Idle(run[r]) EXCEPT
             !.at = IF mode = "read_write" THEN "load_analysis" ELSE "workspace",
             !.mode = mode]
<1>2. /\ DOMAIN to = Fields /\ to.interval = run[r].interval /\ to.done = 0
      /\ to.selection = run[r].selection /\ to.analysis = None /\ to.signal = None
      /\ to.state = <<>> /\ to.rows = {} /\ to.mixed = {}
      /\ to.at = IF mode = "read_write" THEN "load_analysis" ELSE "workspace"
  BY DEF Idle, Fields
<1>3. Becomes(r, to)
  BY <1>1
<1> HIDE DEF to
<1>4. Typed(to)
  BY <1>2 DEF Typed, Formed, CInv
<1>5. Faithful(to)
  BY <1>2 DEF Faithful, Pending, Analyses, Selected
<1>6. StoresFaithful'
  BY SameStores DEF Start
<1> QED
  BY <1>3, <1>4, <1>5, <1>6, CStep

LEMMA LoadAnalysisFaithful ==
  ASSUME CInv, NEW r \in Runs, LoadAnalysis(r)
  PROVE  CInv'
<1> DEFINE to == [run[r] EXCEPT !.analysis = analysis, !.at = "load_signal"]
<1>1. /\ DOMAIN run[r] = Fields /\ Typed(run[r]) /\ Faithful(run[r]) /\ Pending(run[r])
  BY DEF CInv, Typed, Formed, LoadAnalysis, At, Pending
<1>2. /\ to.at = "load_signal" /\ DOMAIN to = Fields /\ to.interval = run[r].interval
      /\ to.selection = run[r].selection /\ to.done = run[r].done
      /\ to.mixed = run[r].mixed /\ to.state = run[r].state /\ to.rows = run[r].rows
      /\ to.signal = run[r].signal
  BY <1>1 DEF Fields
<1>3. Becomes(r, to)
  BY DEF LoadAnalysis
<1> HIDE DEF to
<1>4. Typed(to)
  BY <1>1, <1>2 DEF Typed, Formed
<1>5. Faithful(to)
  BY <1>1, <1>2 DEF Faithful, Pending, Analyses, Selected
<1>6. StoresFaithful'
  BY SameStores DEF LoadAnalysis
<1> QED
  BY <1>3, <1>4, <1>5, <1>6, CStep

LEMMA LoadSignalFaithful ==
  ASSUME CInv, NEW r \in Runs, LoadSignal(r)
  PROVE  CInv'
<1> DEFINE found == signal[SignalId(r)]
           to == [run[r] EXCEPT !.signal = found, !.at = "workspace"]
<1>1. DOMAIN run[r] = Fields /\ Typed(run[r]) /\ Faithful(run[r]) /\ Pending(run[r])
  BY DEF CInv, Typed, Formed, LoadSignal, At, Pending
<1>2. found # None /\ found.mixed = {} => found.rows = RowsIn(run[r].selection, 0, Length)
  BY <1>1 DEF CInv, StoresFaithful, SignalId, Typed
<1>3. /\ to.at = "workspace" /\ DOMAIN to = Fields /\ to.interval = run[r].interval
      /\ to.selection = run[r].selection /\ to.done = run[r].done
      /\ to.mixed = run[r].mixed /\ to.state = run[r].state /\ to.rows = run[r].rows
      /\ to.signal = found
  BY <1>1 DEF Fields
<1>4. Raises(r) \/ Becomes(r, to)
  BY DEF LoadSignal
<1> HIDE DEF to, found
<1>5. Typed(to)
  BY <1>1, <1>3 DEF Typed, Formed
<1>6. Faithful(to)
  BY <1>1, <1>2, <1>3 DEF Faithful, Pending, Analyses, Selected
<1>7. StoresFaithful'
  BY SameStores DEF LoadSignal
<1> QED
  BY <1>4, <1>5, <1>6, <1>7, CStep, RaisesFaithful

LEMMA FirstChunk ==
  ASSUME NEW x, Typed(x), x.done = 0, x.state = <<>>, x.rows = {}
  PROVE  Progresses(x)
<1>1. x.interval \in Intervals /\ x.selection \in Selections
  BY DEF Typed, Formed
<1>2. 1 \in 1 .. ChunkCount(x.interval)
  BY <1>1, CountIsPositive
<1>3. Plans[x.interval][1].start = 0
  BY <1>1, <1>2, ChunkIs
<1> QED
  BY <1>1, <1>2, <1>3, NoneYet DEF Progresses

LEMMA MakeFaithful ==
  ASSUME CInv, NEW r \in Runs, MakeWorkspace(r)
  PROVE  CInv'
<1>1. StoresFaithful'
  BY SameStores DEF MakeWorkspace
<1>2. DOMAIN run[r] = Fields /\ Typed(run[r]) /\ Faithful(run[r]) /\ Pending(run[r])
  BY DEF CInv, Typed, Formed, MakeWorkspace, At, Pending
<1>3. /\ run[r].done = 0 /\ run[r].state = <<>> /\ run[r].rows = {}
      /\ run[r].mixed = {}
  BY <1>2 DEF Faithful
<1>4. ASSUME NEW to, Becomes(r, to), to.at \in {"analysis", "rebuild"},
             DOMAIN to = Fields, to.interval = run[r].interval,
             to.selection = run[r].selection, to.done = 0, to.state = <<>>,
             to.rows = {}, to.mixed = {}, to.signal = run[r].signal
      PROVE  CInv'
  <2>1. Typed(to)
    BY <1>2, <1>4 DEF Typed, Formed
  <2>2. Progresses(to)
    BY <1>4, <2>1, FirstChunk
  <2>3. Faithful(to)
    BY <1>2, <1>4, <2>2 DEF Faithful, Pending, Analyses, Selected
  <2> QED
    BY <1>1, <1>4, <2>1, <2>3, CStep
<1>5. CASE Goes(r, "analysis")
  <2> DEFINE to == [run[r] EXCEPT !.at = "analysis"]
  <2>1. /\ to.at = "analysis" /\ DOMAIN to = Fields /\ to.interval = run[r].interval
        /\ to.selection = run[r].selection /\ to.done = 0 /\ to.mixed = {}
        /\ to.state = <<>> /\ to.rows = {} /\ to.signal = run[r].signal
    BY <1>2, <1>3 DEF Fields
  <2>2. Becomes(r, to)
    BY <1>5 DEF Goes
  <2> HIDE DEF to
  <2> QED
    BY <1>4, <2>1, <2>2
<1>6. CASE run[r].signal # None /\ Becomes(r, Attached(r))
  <2> DEFINE to == [run[r] EXCEPT !.at = "execute", !.parts = run[r].analysis.parts,
                                  !.rows = run[r].signal.rows,
                                  !.mixed = run[r].signal.mixed]
  <2>1. /\ to.at = "execute" /\ DOMAIN to = Fields /\ to.interval = run[r].interval
        /\ to.selection = run[r].selection /\ to.done = run[r].done
        /\ to.rows = run[r].signal.rows /\ to.mixed = run[r].signal.mixed
        /\ to.signal = run[r].signal
    BY <1>2 DEF Fields
  <2>2. Becomes(r, to)
    BY <1>6 DEF Attached
  <2> HIDE DEF to
  <2>3. Typed(to)
    BY <1>2, <2>1 DEF Typed, Formed
  <2>4. Faithful(to)
    BY <1>2, <1>6, <2>1 DEF Faithful, Pending, Analyses, Selected
  <2> QED
    BY <1>1, <2>2, <2>3, <2>4, CStep
<1>7. CASE run[r].signal = None /\ Becomes(r, Attached(r))
  <2> DEFINE to == [run[r] EXCEPT !.at = "rebuild", !.parts = run[r].analysis.parts]
  <2>1. /\ to.at = "rebuild" /\ DOMAIN to = Fields /\ to.interval = run[r].interval
        /\ to.selection = run[r].selection /\ to.done = 0 /\ to.mixed = {}
        /\ to.state = <<>> /\ to.rows = {} /\ to.signal = run[r].signal
    BY <1>2, <1>3 DEF Fields
  <2>2. Becomes(r, to)
    BY <1>7 DEF Attached
  <2> HIDE DEF to
  <2> QED
    BY <1>4, <2>1, <2>2
<1>8. Raises(r) \/ Goes(r, "analysis") \/ Becomes(r, Attached(r))
  BY DEF MakeWorkspace
<1> QED
  BY <1>1, <1>5, <1>6, <1>7, <1>8, RaisesFaithful

(* One chunk more: the rows up to its end, and the state the next needs.   *)
LEMMA SelectionsAre ==
  ASSUME NEW r \in Runs, Typed(run[r]), Progresses(run[r]), NEW part,
         part.start = Plans[run[r].interval][run[r].done + 1].start,
         part.end = Plans[run[r].interval][run[r].done + 1].end
  PROVE  LET x == run[r]
             k == x.done + 1
             n == ChunkCount(x.interval)
             to == WithSelections(r, Plans[x.interval][k], part)
         IN /\ k = n => to.rows = RowsIn(x.selection, 0, Length)
            /\ k < n =>
                 /\ to.rows = RowsIn(x.selection, 0, Plans[x.interval][k + 1].start)
                 /\ to.state = StateAt(x.selection, Plans[x.interval][k + 1].start)
<1> DEFINE x == run[r]
           s == x.selection
           k == x.done + 1
           n == ChunkCount(x.interval)
           chunk == Plans[x.interval][k]
           a == chunk.start
           b == chunk.end
           made == Constructed(x.state, PartTicks(part), Schedule(chunk), s)
           to == WithSelections(r, chunk, part)
<1>1. /\ x.interval \in Intervals /\ s \in Selections /\ DOMAIN x = Fields
      /\ k \in 1 .. n
  BY DEF Typed, Formed, Progresses
<1>2. /\ a \in Nat /\ b \in Nat /\ a < b /\ AtRebalance(a)
      /\ Scheduled(Schedule(chunk), a, b) /\ (k = n => b = Length)
  BY <1>1, ChunkIs
<1>3. x.rows = RowsIn(s, 0, a) /\ x.state = StateAt(s, a)
  BY DEF Progresses
<1>4. to.rows = x.rows \cup made.rows /\ to.state = made.state
  BY <1>1 DEF WithSelections, Fields
<1>5. PartTicks(part) = a .. (b - 1)
  BY DEF PartTicks
<1>6. k < n => /\ Plans[x.interval][k + 1].start = b
               /\ AtRebalance(b)
  <2> SUFFICES ASSUME k < n
               PROVE  Plans[x.interval][k + 1].start = b /\ AtRebalance(b)
    OBVIOUS
  <2>1. k + 1 \in 1 .. n /\ b = Plans[x.interval][k + 1].start
    BY <1>1, NextChunk
  <2>2. AtRebalance(Plans[x.interval][k + 1].start)
    BY <1>1, <2>1, ChunkIs
  <2> QED
    BY <2>1, <2>2
<1> HIDE DEF to, chunk, n, k
<1>7. made = Constructed(StateAt(s, a), a .. (b - 1), Schedule(chunk), s)
  BY <1>3, <1>5
<1> HIDE DEF made
<1>8. made.rows = RowsIn(s, a, b) /\ (AtRebalance(b) => made.state = StateAt(s, b))
  <2>1. a <= b
    BY <1>2
  <2> HIDE DEF a, b, s
  <2> QED
    BY <1>1, <1>2, <1>7, <2>1, ConstructedIs
<1>9. to.rows = RowsIn(s, 0, b)
  <2>1. RowsIn(s, 0, a) \cup RowsIn(s, a, b) = RowsIn(s, 0, b)
    BY <1>2, RowsJoin
  <2> QED
    BY <1>3, <1>4, <1>8, <2>1
<1> HIDE DEF a, b
<1>10. k = n => to.rows = RowsIn(s, 0, Length)
  BY <1>2, <1>9
<1>11. k < n => /\ to.rows = RowsIn(s, 0, Plans[x.interval][k + 1].start)
                /\ to.state = StateAt(s, Plans[x.interval][k + 1].start)
  BY <1>4, <1>6, <1>8, <1>9
<1> QED
  BY <1>10, <1>11 DEF to, chunk, n, k

(* After a chunk that met a part cut like it, a run with the rows of the   *)
(* single pass goes on with them or has them all.                          *)
LEMMA ChunkFaithful ==
  ASSUME NEW r \in Runs, Typed(run[r]), Progresses(run[r]), Faithful(run[r]),
         run[r].at \in {"analysis", "rebuild"}, NEW part,
         CutAs(part, Plans[run[r].interval][run[r].done + 1]),
         NEW to, Typed(to), to.at = NextPhase(r), to.interval = run[r].interval,
         to.done = run[r].done + 1, to.selection = run[r].selection,
         to.signal = run[r].signal, to.mixed = {},
         LET from == WithSelections(r, Plans[run[r].interval][run[r].done + 1], part)
         IN to.rows = from.rows /\ to.state = from.state
  PROVE  Faithful(to)
<1> DEFINE x == run[r]
           k == x.done + 1
           n == ChunkCount(x.interval)
           plan == Plans[x.interval]
           from == WithSelections(r, plan[k], part)
<1>1. k \in 1 .. n /\ x.interval \in Intervals /\ x.done \in Int
  BY DEF Progresses, Typed, Formed
<1>2. Len(plan) = n /\ n \in Nat
  BY <1>1, PlanIs, CountIsPositive
<1>3. part.start = plan[k].start /\ part.end = plan[k].end
  BY DEF CutAs
<1>4. /\ k = n => from.rows = RowsIn(x.selection, 0, Length)
      /\ k < n => /\ from.rows = RowsIn(x.selection, 0, plan[k + 1].start)
                  /\ from.state = StateAt(x.selection, plan[k + 1].start)
  BY <1>3, SelectionsAre
<1>5. to.rows = from.rows /\ to.state = from.state
  OBVIOUS
<1> HIDE DEF from
<1>6. NextPhase(r) = IF k < n THEN x.at
                     ELSE IF x.mode = "off" THEN "execute" ELSE "publish_analysis"
  BY <1>2 DEF NextPhase, Plan
<1>7. x.signal # None /\ x.signal.mixed = {} =>
        x.signal.rows = RowsIn(x.selection, 0, Length)
  BY DEF Faithful
<1>8. CASE k < n
  <2>1. k + 1 \in 1 .. n
    BY <1>1, <1>2, <1>8
  <2>2. Progresses(to)
    BY <1>4, <1>5, <1>8, <2>1 DEF Progresses
  <2>3. to.at \in {"analysis", "rebuild"}
    BY <1>6, <1>8
  <2> QED
    BY <1>7, <2>2, <2>3 DEF Faithful, Pending, Analyses, Selected
<1>9. CASE k = n
  <2>1. to.rows = RowsIn(to.selection, 0, Length)
    BY <1>4, <1>5, <1>9
  <2>2. to.at \in {"execute", "publish_analysis"}
    BY <1>2, <1>6, <1>9
  <2> QED
    BY <1>7, <2>1, <2>2 DEF Faithful, Pending, Analyses, Selected
<1>10. k < n \/ k = n
  BY <1>1, <1>2
<1> QED
  BY <1>8, <1>9, <1>10

LEMMA AnalyseFaithful ==
  ASSUME CInv, NEW r \in Runs, AnalyseChunk(r)
  PROVE  CInv'
<1> DEFINE x == run[r]
           k == x.done + 1
           plan == Plans[x.interval]
           chunk == plan[k]
           part == Part(chunk, x.offset)
           from == WithSelections(r, chunk, part)
           offset == IF k < Len(plan)
                     THEN Advanced(from.offset, Scan(data.bars, chunk.input, chunk.end),
                                   chunk.input, plan[k + 1].input)
                     ELSE from.offset
           to == [from EXCEPT !.parts = Spooled(from.parts, part), !.offset = offset,
                              !.at = NextPhase(r)]
<1>1. StoresFaithful'
  BY SameStores DEF AnalyseChunk
<1>2. /\ Typed(x) /\ Faithful(x) /\ DOMAIN x = Fields /\ x.interval \in Intervals
      /\ x.at = "analysis" /\ x.done \in Int
  BY DEF CInv, Typed, Formed, AnalyseChunk, At
<1>3. Progresses(x) /\ x.mixed = {}
  BY <1>2 DEF Faithful, Analyses
<1>4. Becomes(r, to)
  BY DEF AnalyseChunk, Plan
<1>5. CutAs(part, chunk)
  BY DEF Part, CutAs
<1> HIDE DEF part
<1>6. /\ DOMAIN from = Fields /\ from.interval = x.interval /\ from.done = k
      /\ from.selection = x.selection /\ from.signal = x.signal
      /\ from.mixed = x.mixed
  BY <1>2 DEF WithSelections, Fields
<1> HIDE DEF from, offset
<1>7. /\ DOMAIN to = Fields /\ to.interval = x.interval /\ to.done = k
      /\ to.selection = x.selection /\ to.signal = x.signal /\ to.mixed = x.mixed
      /\ to.rows = from.rows /\ to.state = from.state /\ to.at = NextPhase(r)
  BY <1>6 DEF Fields, Spooled
<1> HIDE DEF to
<1>8. Typed(to)
  BY <1>2, <1>7 DEF Typed, Formed
<1>9. Faithful(to)
  BY <1>2, <1>3, <1>5, <1>7, <1>8, ChunkFaithful DEF from
<1> QED
  BY <1>1, <1>4, <1>8, <1>9, CStep

LEMMA RebuildFaithful ==
  ASSUME CInv, NEW r \in Runs, RebuildChunk(r)
  PROVE  CInv'
<1> DEFINE x == run[r]
           k == x.done + 1
           chunk == Plans[x.interval][k]
           part == x.parts[k]
           from == WithSelections(r, chunk, part)
           mixed == from.mixed \cup {i \in {k} : ~CutAs(x.parts[i], Plans[x.interval][i])}
           to == [from EXCEPT !.at = NextPhase(r), !.mixed = mixed]
<1>1. StoresFaithful'
  BY SameStores DEF RebuildChunk
<1>2. /\ Typed(x) /\ Faithful(x) /\ DOMAIN x = Fields /\ x.interval \in Intervals
      /\ x.at = "rebuild" /\ x.done \in Int
  BY DEF CInv, Typed, Formed, RebuildChunk, At
<1>3. Becomes(r, to)
  BY DEF RebuildChunk, Plan
<1>4. /\ DOMAIN from = Fields /\ from.interval = x.interval /\ from.done = k
      /\ from.selection = x.selection /\ from.signal = x.signal
      /\ from.mixed = x.mixed
  BY <1>2 DEF WithSelections, Fields
<1> HIDE DEF from
<1>5. mixed = {} => x.mixed = {} /\ CutAs(part, chunk)
  BY <1>4
<1> HIDE DEF mixed
<1>6. /\ DOMAIN to = Fields /\ to.interval = x.interval /\ to.done = k
      /\ to.selection = x.selection /\ to.signal = x.signal /\ to.mixed = mixed
      /\ to.rows = from.rows /\ to.state = from.state /\ to.at = NextPhase(r)
  BY <1>4 DEF Fields
<1> HIDE DEF to
<1>7. Typed(to)
  BY <1>2, <1>6 DEF Typed, Formed
<1>8. CASE mixed = {}
  <2>1. Progresses(x)
    BY <1>2, <1>5, <1>8 DEF Faithful
  <2>2. Faithful(to)
    BY <1>2, <1>5, <1>6, <1>7, <1>8, <2>1, ChunkFaithful DEF from
  <2> QED
    BY <1>1, <1>3, <1>7, <2>2, CStep
<1>9. CASE mixed # {}
  <2>1. to.at \in {"rebuild", "execute", "publish_analysis"}
    BY <1>2, <1>6 DEF NextPhase
  <2>2. Faithful(to)
    BY <1>2, <1>6, <1>9, <2>1 DEF Faithful, Pending, Analyses, Selected
  <2> QED
    BY <1>1, <1>3, <1>7, <2>2, CStep
<1> QED
  BY <1>8, <1>9

(* A run that only goes on keeps what it has.                              *)
LEMMA GoesFaithful ==
  ASSUME CInv, StoresFaithful', NEW r \in Runs, Selected(run[r]),
         NEW at \in {"publish_signal", "rename_analysis", "rename_signal",
                    "execute", "done"},
         Goes(r, at)
  PROVE  CInv'
<1> DEFINE to == [run[r] EXCEPT !.at = at]
<1>1. DOMAIN run[r] = Fields /\ Typed(run[r]) /\ Faithful(run[r])
  BY DEF CInv, Typed, Formed
<1>2. /\ to.at = at /\ DOMAIN to = Fields /\ to.interval = run[r].interval
      /\ to.selection = run[r].selection /\ to.done = run[r].done
      /\ to.rows = run[r].rows /\ to.mixed = run[r].mixed
      /\ to.signal = run[r].signal
  BY <1>1 DEF Fields
<1>3. Becomes(r, to)
  BY DEF Goes
<1> HIDE DEF to
<1>4. Typed(to)
  BY <1>1, <1>2 DEF Typed, Formed
<1>5. Faithful(to)
  BY <1>1, <1>2 DEF Faithful, Pending, Analyses, Selected
<1> QED
  BY <1>3, <1>4, <1>5, CStep

LEMMA PublishAnalysisFaithful ==
  ASSUME CInv, NEW r \in Runs, PublishAnalysis(r) \/ RenameAnalysis(r)
  PROVE  CInv'
<1>1. StoresFaithful'
  BY DEF CInv, StoresFaithful, PublishAnalysis, RenameAnalysis, stores
<1>2. DOMAIN run[r] = Fields /\ Typed(run[r]) /\ Faithful(run[r]) /\ Selected(run[r])
  BY DEF CInv, Typed, Formed, Selected, PublishAnalysis, RenameAnalysis, At
<1>3. ASSUME NEW at \in {"publish_signal", "rename_analysis"}, NEW found,
             Becomes(r, [run[r] EXCEPT !.analysis = found, !.at = at])
      PROVE  CInv'
  <2> DEFINE to == [run[r] EXCEPT !.analysis = found, !.at = at]
  <2>1. /\ to.at = at /\ DOMAIN to = Fields
        /\ to.interval = run[r].interval /\ to.selection = run[r].selection
        /\ to.done = run[r].done /\ to.rows = run[r].rows
        /\ to.mixed = run[r].mixed /\ to.signal = run[r].signal
    BY <1>2 DEF Fields
  <2>2. Becomes(r, to)
    BY <1>3
  <2> HIDE DEF to
  <2>3. Typed(to)
    BY <1>2, <2>1 DEF Typed, Formed
  <2>4. Faithful(to)
    BY <1>2, <1>3, <2>1 DEF Faithful, Pending, Analyses, Selected
  <2> QED
    BY <1>1, <2>2, <2>3, <2>4, CStep
<1>4. ASSUME NEW at \in {"publish_signal", "rename_analysis"},
             Becomes(r, [run[r] EXCEPT !.at = at])
      PROVE  CInv'
  BY <1>1, <1>2, <1>4, GoesFaithful DEF Goes
<1>5. \/ Raises(r)
      \/ \E at \in {"publish_signal", "rename_analysis"} :
           Becomes(r, [run[r] EXCEPT !.at = at])
      \/ \E found :
           Becomes(r, [run[r] EXCEPT !.analysis = found, !.at = "publish_signal"])
  BY DEF PublishAnalysis, RenameAnalysis
<1> QED
  BY <1>1, <1>3, <1>4, <1>5, RaisesFaithful

LEMMA PublishSignalFaithful ==
  ASSUME CInv, NEW r \in Runs, PublishSignal(r)
  PROVE  CInv'
<1>1. StoresFaithful'
  BY SameStores DEF PublishSignal
<1>2. Selected(run[r])
  BY DEF Selected, PublishSignal, At
<1>3. \/ Raises(r)
      \/ \E at \in {"rename_signal", "execute"} : Goes(r, at)
  BY DEF PublishSignal
<1> QED
  BY <1>1, <1>2, <1>3, RaisesFaithful, GoesFaithful

LEMMA RenameSignalFaithful ==
  ASSUME CInv, NEW r \in Runs, RenameSignal(r)
  PROVE  CInv'
<1>1. /\ Selected(run[r]) /\ run[r].selection \in Selections
      /\ run[r].mixed = {} => run[r].rows = RowsIn(run[r].selection, 0, Length)
      /\ DOMAIN signal = Selections /\ UNCHANGED analysis
  BY DEF CInv, StoresFaithful, Typed, Faithful, Selected, RenameSignal, At
<1>2. CASE Raises(r) /\ UNCHANGED signal
  <2>1. StoresFaithful'
    BY <1>1, <1>2, SameStores DEF stores
  <2> QED
    BY <1>2, <2>1, RaisesFaithful
<1>3. CASE /\ signal' = [signal EXCEPT ![SignalId(r)] =
                           [parent |-> run[r].analysis.by, rows |-> run[r].rows,
                            mixed |-> run[r].mixed]]
           /\ Goes(r, "execute")
  <2> DEFINE new == [parent |-> run[r].analysis.by, rows |-> run[r].rows,
                     mixed |-> run[r].mixed]
  <2>1. new.rows = run[r].rows /\ new.mixed = run[r].mixed
    OBVIOUS
  <2>2. signal' = [signal EXCEPT ![run[r].selection] = new]
    BY <1>3 DEF SignalId
  <2> HIDE DEF new
  <2>3. ASSUME NEW s \in Selections, signal'[s] # None, signal'[s].mixed = {}
        PROVE  signal'[s].rows = RowsIn(s, 0, Length)
    <3>1. CASE s = run[r].selection
      <4>1. signal'[s] = new
        BY <1>1, <2>2, <3>1
      <4>2. run[r].mixed = {}
        BY <2>1, <2>3, <4>1
      <4> QED
        BY <1>1, <2>1, <3>1, <4>1, <4>2
    <3>2. CASE s # run[r].selection
      BY <1>1, <2>2, <2>3, <3>2 DEF CInv, StoresFaithful
    <3> QED
      BY <3>1, <3>2
  <2>4. StoresFaithful'
    BY <1>1, <2>2, <2>3 DEF CInv, StoresFaithful
  <2> QED
    BY <1>1, <1>3, <2>4, GoesFaithful
<1> QED
  BY <1>2, <1>3 DEF RenameSignal

LEMMA ExecuteFaithful ==
  ASSUME CInv, NEW r \in Runs, Execute(r)
  PROVE  CInv'
<1>1. StoresFaithful'
  BY SameStores DEF Execute
<1>2. Selected(run[r])
  BY DEF Selected, Execute, At
<1>3. Raises(r) \/ Goes(r, "done")
  BY DEF Execute
<1> QED
  BY <1>1, <1>2, <1>3, RaisesFaithful, GoesFaithful

LEMMA TroubleFaithful ==
  ASSUME CInv, NEW r \in Runs, Trouble(r)
  PROVE  CInv'
<1>1. StoresFaithful'
  BY SameStores DEF Trouble
<1> QED
  BY <1>1, RaisesFaithful, ForgetsFaithful DEF Trouble

LEMMA CInvNext == CInv /\ [Next]_vars => CInv'
<1> SUFFICES ASSUME CInv, [Next]_vars PROVE CInv'
  OBVIOUS
<1>1. ASSUME UNCHANGED <<stores, run>> PROVE CInv'
  <2>1. StoresFaithful' /\ run' = run
    BY <1>1, SameStores
  <2> QED
    BY <2>1 DEF CInv, Typed, Formed, Faithful, Pending, Analyses, Progresses,
                Selected
<1>2. CASE UNCHANGED vars
  BY <1>1, <1>2 DEF vars
<1>3. ASSUME NEW r \in Runs, Start(r) \/ Step(r) \/ Trouble(r) PROVE CInv'
  BY <1>3, StartFaithful, LoadAnalysisFaithful, LoadSignalFaithful, MakeFaithful,
     AnalyseFaithful, RebuildFaithful, PublishAnalysisFaithful,
     PublishSignalFaithful, RenameSignalFaithful,
     ExecuteFaithful, TroubleFaithful DEF Step
<1>4. CASE Cleanup
  BY <1>1, <1>4 DEF Cleanup
<1> QED
  BY <1>2, <1>3, <1>4 DEF Next

-----------------------------------------------------------------------------
(* A finished run has executed the selections of the single pass, whatever *)
(* its chunks, the snapshots it found and the runs beside it: the state    *)
(* handed from chunk to chunk loses nothing, nor do cached parts as long   *)
(* as they are cut like the chunks they are put to.                        *)
THEOREM ResultsAreOnePass == Spec => []CacheKeepsResults
<1>1. CInv => CacheKeepsResults
  <2> SUFFICES ASSUME CInv, NEW r \in Runs, run[r].at = "done", run[r].mixed = {}
               PROVE  run[r].rows = OnePass[run[r].selection]
    BY DEF CacheKeepsResults, At
  <2>1. /\ run[r].selection \in Selections
        /\ run[r].rows = RowsIn(run[r].selection, 0, Length)
    BY DEF CInv, Typed, Faithful, Selected
  <2> QED
    BY <2>1, OnePassIs
<1>2. CInv /\ [Next]_vars => CInv'
  BY CInvNext
<1> QED
  BY <1>1, <1>2, CInvInit, PTL DEF Spec
=============================================================================
