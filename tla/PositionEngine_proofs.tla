------------------------ MODULE PositionEngine_proofs ------------------------
(***************************************************************************)
(* Proofs about PositionEngine, for every list of symbols, every set of    *)
(* prices, snapshots, flows and legal configurations and any number of     *)
(* calls.                                                                  *)
(*                                                                         *)
(* A sum over symbols and the loop over a snapshot are recursive           *)
(* functions.  What they compute is shown by the least number of symbols   *)
(* for which it would not hold.                                            *)
(***************************************************************************)
EXTENDS PositionEngine, FiniteSetTheorems, WellFoundedInduction, TLAPS

LEMMA LeastNumber ==
  ASSUME NEW T \in SUBSET Nat, T # {}
  PROVE  \E n \in T : \A m \in T : n <= m
<1> DEFINE Less == {p \in Nat \X Nat : p[1] < p[2]}
<1>1. IsWellFoundedOn(Less, Nat)
  BY NatLessThanWellFounded, Zenon DEF OpToRel
<1>2. PICK n \in T : \A m \in T : <<m, n>> \notin Less
  <2> HIDE DEF Less
  <2> QED
    BY <1>1, WFMin
<1>3. \A m \in T : n <= m
  <2> TAKE m \in T
  <2>1. <<m, n>> \in Nat \X Nat
    OBVIOUS
  <2>2. ~(<<m, n>>[1] < <<m, n>>[2])
    BY <1>2, <2>1
  <2> QED
    BY <2>2
<1> QED
  BY <1>3

-----------------------------------------------------------------------------
(* A sum over a finite set, as the fold of the community modules takes it. *)
Pick(s) == CHOOSE x \in s : TRUE

Adds(g, F, D) ==
  g = [s \in D |-> IF s = {} THEN 0 ELSE F[Pick(s)] + g[s \ {Pick(s)}]]

Sums(g, F, S) == Adds(g, F, SUBSET S) /\ \A s \in SUBSET S : g[s] \in Int

AnyFirst(g, F, S) == \A s \in SUBSET S : \A x \in s : g[s] = F[x] + g[s \ {x}]

UpTo(S, n) == {s \in SUBSET S : Cardinality(s) <= n}

LEMMA PickIn ==
  ASSUME NEW S, IsFiniteSet(S), NEW s \in SUBSET S, s # {}
  PROVE  /\ Pick(s) \in s /\ s \ {Pick(s)} \in SUBSET S
         /\ IsFiniteSet(s) /\ Cardinality(s) \in Nat
         /\ Cardinality(s \ {Pick(s)}) \in Nat
         /\ Cardinality(s \ {Pick(s)}) = Cardinality(s) - 1
<1>1. Pick(s) \in s
  BY DEF Pick
<1>2. IsFiniteSet(s)
  BY FS_Subset
<1> QED
  BY <1>1, <1>2, FS_RemoveElement, FS_CardinalityType

LEMMA SumsUpTo ==
  ASSUME NEW S, IsFiniteSet(S), NEW F \in [S -> Int]
  PROVE  \A n \in Nat : \E g \in [UpTo(S, n) -> Int] : Adds(g, F, UpTo(S, n))
<1> DEFINE Works(n) == \E g \in [UpTo(S, n) -> Int] : Adds(g, F, UpTo(S, n))
           Fails0 == {n \in Nat : ~Works(n)}
<1> SUFFICES ASSUME Fails0 # {} PROVE FALSE
  OBVIOUS
<1>1. PICK n \in Fails0 : \A m \in Fails0 : n <= m
  <2> HIDE DEF Works
  <2> QED
    BY LeastNumber
<1>2. n \in Nat /\ ~Works(n) /\ \A m \in 0 .. n - 1 : Works(m)
  <2> HIDE DEF Works
  <2> QED
    BY <1>1
<1>3. CASE n = 0
  <2> DEFINE g == [s \in UpTo(S, 0) |-> 0]
  <2>1. \A s \in UpTo(S, 0) : s = {}
    BY FS_EmptySet, FS_Subset, FS_CardinalityType DEF UpTo
  <2>2. g = [s \in UpTo(S, 0) |-> IF s = {} THEN 0 ELSE F[Pick(s)] + g[s \ {Pick(s)}]]
    BY <2>1
  <2>3. g \in [UpTo(S, 0) -> Int]
    OBVIOUS
  <2> QED
    BY <1>2, <1>3, <2>2, <2>3 DEF Adds
<1>4. CASE n # 0
  <2>1. n - 1 \in 0 .. n - 1
    BY <1>2, <1>4
  <2>2. PICK h \in [UpTo(S, n - 1) -> Int] : Adds(h, F, UpTo(S, n - 1))
    BY <1>2, <2>1
  <2> DEFINE g == [s \in UpTo(S, n) |->
                     IF s = {} THEN 0 ELSE F[Pick(s)] + h[s \ {Pick(s)}]]
  <2>3. ASSUME NEW s \in UpTo(S, n), s # {}
        PROVE  /\ Pick(s) \in S /\ s \ {Pick(s)} \in UpTo(S, n - 1)
               /\ s \ {Pick(s)} \in UpTo(S, n)
    BY <1>2, <2>3, PickIn DEF UpTo
  <2>4. g \in [UpTo(S, n) -> Int]
    BY <2>3
  <2>5. ASSUME NEW s \in UpTo(S, n - 1), s \in UpTo(S, n) PROVE g[s] = h[s]
    BY <2>2, <2>5 DEF Adds
  <2>6. ASSUME NEW s \in UpTo(S, n)
        PROVE  g[s] = IF s = {} THEN 0 ELSE F[Pick(s)] + g[s \ {Pick(s)}]
    <3>1. CASE s = {}
      BY <3>1
    <3>2. CASE s # {}
      <4>1. g[s \ {Pick(s)}] = h[s \ {Pick(s)}]
        BY <2>3, <2>5, <3>2
      <4>2. g[s] = F[Pick(s)] + h[s \ {Pick(s)}]
        BY <3>2
      <4> HIDE DEF g
      <4> QED
        BY <3>2, <4>1, <4>2
    <3> HIDE DEF g
    <3> QED
      BY <3>1, <3>2
  <2>7. Adds(g, F, UpTo(S, n))
    <3>1. g = [s \in UpTo(S, n) |-> g[s]]
      BY <2>4
    <3> HIDE DEF g
    <3> QED
      BY <2>6, <3>1 DEF Adds
  <2> HIDE DEF g
  <2> QED
    BY <1>2, <2>4, <2>7
<1> QED
  BY <1>3, <1>4

LEMMA SumExists ==
  ASSUME NEW S, IsFiniteSet(S), NEW F \in [S -> Int]
  PROVE  \E g : Sums(g, F, S)
<1>1. Cardinality(S) \in Nat
  BY FS_CardinalityType
<1>2. UpTo(S, Cardinality(S)) = SUBSET S
  BY FS_Subset DEF UpTo
<1>3. \E g \in [UpTo(S, Cardinality(S)) -> Int] : Adds(g, F, UpTo(S, Cardinality(S)))
  BY <1>1, SumsUpTo
<1>4. PICK g \in [SUBSET S -> Int] : Adds(g, F, SUBSET S)
  BY <1>2, <1>3
<1>5. Sums(g, F, S)
  BY <1>4 DEF Sums
<1> QED
  BY <1>5

(* What holds of a set when it holds of all it leaves without one element  *)
(* holds of every subset of a finite set.                                  *)
LEMMA SubsetInduction ==
  ASSUME NEW S, IsFiniteSet(S), NEW Good,
         \A s \in SUBSET S : (\A x \in s : s \ {x} \in Good) => s \in Good
  PROVE  SUBSET S \subseteq Good
<1> DEFINE Sizes == {n \in Nat : \E s \in SUBSET S : Cardinality(s) = n /\ s \notin Good}
<1> SUFFICES ASSUME NEW bad \in SUBSET S, bad \notin Good PROVE FALSE
  OBVIOUS
<1>1. Cardinality(bad) \in Sizes
  BY FS_Subset, FS_CardinalityType
<1>2. PICK n \in Sizes : \A m \in Sizes : n <= m
  BY <1>1, LeastNumber
<1>3. PICK s \in SUBSET S : Cardinality(s) = n /\ s \notin Good
  BY <1>2
<1>4. PICK x \in s : s \ {x} \notin Good
  BY <1>3
<1>5. IsFiniteSet(s)
  BY FS_Subset
<1>6. Cardinality(s \ {x}) \in Nat /\ Cardinality(s \ {x}) = n - 1
  BY <1>3, <1>5, FS_RemoveElement, FS_CardinalityType
<1>7. Cardinality(s \ {x}) \in Sizes /\ n \in Nat
  BY <1>2, <1>4, <1>6
<1> HIDE DEF Sizes
<1> QED
  BY <1>2, <1>6, <1>7

LEMMA SumUnique ==
  ASSUME NEW S, IsFiniteSet(S), NEW F, NEW g, NEW h,
         Adds(g, F, SUBSET S), Adds(h, F, SUBSET S)
  PROVE  \A s \in SUBSET S : g[s] = h[s]
<1> DEFINE Good == {s \in SUBSET S : g[s] = h[s]}
<1>1. ASSUME NEW s \in SUBSET S, \A x \in s : s \ {x} \in Good PROVE s \in Good
  <2>1. g[s] = IF s = {} THEN 0 ELSE F[Pick(s)] + g[s \ {Pick(s)}]
    BY DEF Adds
  <2>2. h[s] = IF s = {} THEN 0 ELSE F[Pick(s)] + h[s \ {Pick(s)}]
    BY DEF Adds
  <2>3. s # {} => s \ {Pick(s)} \in Good
    BY <1>1, PickIn
  <2> QED
    BY <2>1, <2>2, <2>3
<1>2. SUBSET S \subseteq Good
  <2> HIDE DEF Good
  <2>1. \A s \in SUBSET S : (\A x \in s : s \ {x} \in Good) => s \in Good
    BY <1>1
  <2> QED
    BY <2>1, SubsetInduction
<1> QED
  BY <1>2

(* The sum of a function over a finite set is the fold over its domain.    *)
LEMMA SumIs ==
  ASSUME NEW S, IsFiniteSet(S), NEW F \in [S -> Int],
         NEW g, Sums(g, F, S)
  PROVE  SumFunction(F) = g[S]
<1> DEFINE Fold(iter) ==
      iter = [s \in SUBSET S |->
                IF s = {} THEN 0
                ELSE F[CHOOSE x \in s : TRUE] + iter[s \ {CHOOSE x \in s : TRUE}]]
<1>1. SumFunction(F) = (CHOOSE iter : Fold(iter))[S]
  <2>1. DOMAIN F = S
    OBVIOUS
  <2> QED
    BY <2>1, Zenon DEF SumFunction, SumFunctionOnSet, FoldFunctionOnSet, MapThenFoldSet
<1>2. Fold(g)
  BY DEF Sums, Adds, Pick
<1> DEFINE h == CHOOSE iter : Fold(iter)
<1>3. Fold(h)
  <2> HIDE DEF Fold
  <2> QED
    BY <1>2
<1>4. Adds(h, F, SUBSET S)
  <2> HIDE DEF h
  <2> QED
    BY <1>3 DEF Sums, Adds, Pick
<1>5. h[S] = g[S]
  <2> HIDE DEF h, Fold
  <2> QED
    BY <1>4, SumUnique DEF Sums
<1> QED
  BY <1>1, <1>5

LEMMA SumType ==
  ASSUME NEW S, IsFiniteSet(S), NEW F \in [S -> Int]
  PROVE  SumFunction(F) \in Int
<1>1. PICK g : Sums(g, F, S)
  BY SumExists
<1>2. SumFunction(F) = g[S]
  BY <1>1, SumIs
<1> QED
  BY <1>1, <1>2 DEF Sums

(* Any element may be taken first.                                         *)
LEMMA AnyPick ==
  ASSUME NEW S, IsFiniteSet(S), NEW F \in [S -> Int],
         NEW g, Sums(g, F, S)
  PROVE  AnyFirst(g, F, S)
<1> DEFINE Good == {s \in SUBSET S : \A x \in s : g[s] = F[x] + g[s \ {x}]}
<1>1. ASSUME NEW s \in SUBSET S, \A x \in s : s \ {x} \in Good PROVE s \in Good
  <2> SUFFICES ASSUME NEW x \in s PROVE g[s] = F[x] + g[s \ {x}]
    OBVIOUS
  <2> DEFINE p == Pick(s)
  <2>1. p \in s /\ g[s] = F[p] + g[s \ {p}]
    BY PickIn DEF Sums, Adds
  <2> HIDE DEF p
  <2>2. CASE x = p
    BY <2>1, <2>2
  <2>3. CASE x # p
    <3> DEFINE rest == (s \ {p}) \ {x}
    <3>1. g[s \ {p}] = F[x] + g[rest]
      BY <1>1, <2>1, <2>3
    <3>2. g[s \ {x}] = F[p] + g[rest]
      <4>1. g[s \ {x}] = F[p] + g[(s \ {x}) \ {p}]
        BY <1>1, <2>1, <2>3
      <4>2. (s \ {x}) \ {p} = rest
        OBVIOUS
      <4> QED
        BY <4>1, <4>2
    <3>3. F[x] \in Int /\ F[p] \in Int /\ g[rest] \in Int
      BY <2>1 DEF Sums
    <3> HIDE DEF Good, rest
    <3> QED
      BY <2>1, <3>1, <3>2, <3>3
  <2> QED
    BY <2>2, <2>3
<1>2. SUBSET S \subseteq Good
  <2> HIDE DEF Good
  <2>1. \A s \in SUBSET S : (\A x \in s : s \ {x} \in Good) => s \in Good
    BY <1>1
  <2> QED
    BY <2>1, SubsetInduction
<1> QED
  BY <1>2 DEF AnyFirst

(* A sum over fewer, smaller terms is smaller.                             *)
LEMMA PartMonotone ==
  ASSUME NEW S, IsFiniteSet(S), NEW F \in [S -> Int], NEW G \in [S -> Int],
         NEW g, Sums(g, F, S),
         NEW h, Sums(h, G, S),
         NEW T \in SUBSET S, \A x \in T : F[x] <= G[x]
  PROVE  g[T] <= h[T]
<1> DEFINE Good == {s \in SUBSET S : s \subseteq T => g[s] <= h[s]}
<1>1. ASSUME NEW s \in SUBSET S, \A x \in s : s \ {x} \in Good PROVE s \in Good
  <2> SUFFICES ASSUME s \subseteq T PROVE g[s] <= h[s]
    OBVIOUS
  <2>1. CASE s = {}
    BY <2>1 DEF Sums, Adds
  <2>2. CASE s # {}
    <3> DEFINE p == Pick(s)
    <3>1. p \in s /\ g[s] = F[p] + g[s \ {p}] /\ h[s] = G[p] + h[s \ {p}]
      BY <2>2, PickIn DEF Sums, Adds
    <3> HIDE DEF p
    <3>2. g[s \ {p}] <= h[s \ {p}] /\ F[p] <= G[p]
      BY <1>1, <3>1
    <3>3. g[s \ {p}] \in Int /\ h[s \ {p}] \in Int /\ F[p] \in Int /\ G[p] \in Int
      BY <3>1 DEF Sums
    <3> HIDE DEF Good
    <3> QED
      BY <3>1, <3>2, <3>3
  <2> QED
    BY <2>1, <2>2
<1>2. SUBSET S \subseteq Good
  <2> HIDE DEF Good
  <2>1. \A s \in SUBSET S : (\A x \in s : s \ {x} \in Good) => s \in Good
    BY <1>1
  <2> QED
    BY <2>1, SubsetInduction
<1> QED
  BY <1>2

LEMMA SumMonotone ==
  ASSUME NEW S, IsFiniteSet(S), NEW F \in [S -> Int], NEW G \in [S -> Int],
         \A x \in S : F[x] <= G[x]
  PROVE  SumFunction(F) <= SumFunction(G)
<1>1. PICK g : Sums(g, F, S)
  BY SumExists
<1>2. PICK h : Sums(h, G, S)
  BY SumExists
<1>3. SumFunction(F) = g[S]
  BY <1>1, SumIs
<1>4. SumFunction(G) = h[S]
  BY <1>2, SumIs
<1>5. g[S] <= h[S]
  BY <1>1, <1>2, PartMonotone
<1> QED
  BY <1>3, <1>4, <1>5

(* One term changes.                                                       *)
LEMMA SumUpdate ==
  ASSUME NEW S, IsFiniteSet(S), NEW F \in [S -> Int], NEW G \in [S -> Int],
         NEW x \in S, \A y \in S : y # x => G[y] = F[y]
  PROVE  SumFunction(G) = SumFunction(F) + G[x] - F[x]
<1>1. PICK g : Sums(g, F, S)
  BY SumExists
<1>2. PICK h : Sums(h, G, S)
  BY SumExists
<1>3. SumFunction(F) = g[S] /\ g[S] = F[x] + g[S \ {x}]
  <2>1. AnyFirst(g, F, S)
    BY <1>1, AnyPick
  <2>2. SumFunction(F) = g[S]
    BY <1>1, SumIs
  <2> QED
    BY <2>1, <2>2 DEF AnyFirst
<1>4. SumFunction(G) = h[S] /\ h[S] = G[x] + h[S \ {x}]
  <2>1. AnyFirst(h, G, S)
    BY <1>2, AnyPick
  <2>2. SumFunction(G) = h[S]
    BY <1>2, SumIs
  <2> QED
    BY <2>1, <2>2 DEF AnyFirst
<1>5. g[S \ {x}] <= h[S \ {x}] /\ h[S \ {x}] <= g[S \ {x}]
  <2>1. /\ S \ {x} \in SUBSET S
        /\ \A y \in S \ {x} : F[y] <= G[y]
        /\ \A y \in S \ {x} : G[y] <= F[y]
    OBVIOUS
  <2>2. g[S \ {x}] <= h[S \ {x}]
    BY <1>1, <1>2, <2>1, PartMonotone
  <2>3. h[S \ {x}] <= g[S \ {x}]
    BY <1>1, <1>2, <2>1, PartMonotone
  <2> QED
    BY <2>2, <2>3
<1>6. g[S \ {x}] \in Int /\ h[S \ {x}] \in Int /\ F[x] \in Int /\ G[x] \in Int
  BY <1>1, <1>2 DEF Sums
<1> QED
  BY <1>3, <1>4, <1>5, <1>6

(* Terms that are zero may be left out.                                    *)
LEMMA SumRestrict ==
  ASSUME NEW S, IsFiniteSet(S), NEW F \in [S -> Int], NEW T \in SUBSET S,
         NEW G \in [T -> Int], \A x \in T : G[x] = F[x],
         \A x \in S \ T : F[x] = 0
  PROVE  SumFunction(G) = SumFunction(F)
<1>1. PICK g : Sums(g, F, S)
  BY SumExists
<1>2. IsFiniteSet(T)
  BY FS_Subset
<1>3. PICK h : Sums(h, G, T)
  BY <1>2, SumExists
<1> DEFINE Good == {s \in SUBSET S : g[s] = h[s \cap T]}
<1>4. ASSUME NEW s \in SUBSET S, \A x \in s : s \ {x} \in Good PROVE s \in Good
  <2>1. CASE s = {}
    <3>1. s \cap T = {} /\ g[s] = 0 /\ h[{}] = 0
      BY <1>1, <1>3, <2>1 DEF Sums, Adds
    <3> QED
      BY <3>1
  <2>2. CASE s # {}
    <3> DEFINE p == Pick(s)
    <3>1. p \in s /\ g[s] = F[p] + g[s \ {p}]
      BY <1>1, <2>2, PickIn DEF Sums, Adds
    <3> HIDE DEF p
    <3>2. g[s \ {p}] = h[(s \ {p}) \cap T]
      BY <1>4, <3>1
    <3>3. CASE p \in T
      <4>1. (s \cap T) \ {p} = (s \ {p}) \cap T
        OBVIOUS
      <4>2. h[s \cap T] = G[p] + h[(s \cap T) \ {p}]
        <5>1. AnyFirst(h, G, T)
          BY <1>2, <1>3, AnyPick
        <5> QED
          BY <3>1, <3>3, <5>1 DEF AnyFirst
      <4> QED
        BY <3>1, <3>2, <3>3, <4>1, <4>2
    <3>4. CASE p \notin T
      <4>1. s \cap T = (s \ {p}) \cap T /\ F[p] = 0
        BY <3>1, <3>4
      <4>2. g[s \ {p}] \in Int
        BY <1>1 DEF Sums
      <4>3. g[s] = g[s \ {p}]
        BY <3>1, <4>1, <4>2
      <4> QED
        BY <3>2, <4>1, <4>3
    <3> QED
      BY <3>3, <3>4
  <2> QED
    BY <2>1, <2>2
<1>5. SUBSET S \subseteq Good
  <2> HIDE DEF Good
  <2>1. \A s \in SUBSET S : (\A x \in s : s \ {x} \in Good) => s \in Good
    BY <1>4
  <2> QED
    BY <2>1, SubsetInduction
<1>6. g[S] = h[T]
  <2>1. S \cap T = T
    OBVIOUS
  <2> QED
    BY <1>5, <2>1
<1>7. SumFunction(F) = g[S]
  BY <1>1, SumIs
<1>8. SumFunction(G) = h[T]
  BY <1>2, <1>3, SumIs
<1> QED
  BY <1>6, <1>7, <1>8

-----------------------------------------------------------------------------
(* A loop over numbers: what holds at the start and is kept by each turn   *)
(* holds at the end.                                                       *)
LEMMA LoopInduction ==
  ASSUME NEW n \in Nat, NEW Good, 0 \in Good,
         \A i \in 1 .. n : i - 1 \in Good => i \in Good
  PROVE  n \in Good
<1> DEFINE Bad == {i \in 0 .. n : i \notin Good}
<1> SUFFICES ASSUME n \notin Good PROVE FALSE
  OBVIOUS
<1>1. Bad \in SUBSET Nat /\ Bad # {}
  OBVIOUS
<1>2. PICK i \in Bad : \A j \in Bad : i <= j
  BY <1>1, LeastNumber
<1>3. i \in 1 .. n /\ i - 1 \in 0 .. n
  BY <1>2
<1>4. i - 1 \in Bad
  BY <1>2, <1>3
<1> QED
  BY <1>2, <1>3, <1>4

(* One turn of the loop over a snapshot, and the loop.                     *)
RowsFor(selections, i) == {row \in selections : row.symbol = Order[i]}

Turn(done, selections, marks, sizing, i) ==
  IF RowsFor(selections, i) = {} THEN done
  ELSE ProcessOne(done, CHOOSE row \in RowsFor(selections, i) : TRUE, marks, sizing)

Loops(f, n, start, selections, marks, sizing) ==
  f = [i \in 0 .. n |-> IF i = 0 THEN start
                        ELSE Turn(f[i - 1], selections, marks, sizing, i)]

LEMMA LoopExists ==
  ASSUME NEW start, NEW selections, NEW marks, NEW sizing
  PROVE  \A n \in Nat : \E f : Loops(f, n, start, selections, marks, sizing)
<1> DEFINE Works(n) == \E f : Loops(f, n, start, selections, marks, sizing)
           Good(n) == {i \in 0 .. n : Works(i)}
<1> SUFFICES ASSUME NEW n \in Nat PROVE Works(n)
  OBVIOUS
<1>1. 0 \in Good(n)
  <2> DEFINE f == [i \in 0 .. 0 |-> start]
  <2>1. f = [i \in 0 .. 0 |-> IF i = 0 THEN start
                              ELSE Turn(f[i - 1], selections, marks, sizing, i)]
    OBVIOUS
  <2> HIDE DEF f
  <2>2. Loops(f, 0, start, selections, marks, sizing)
    BY <2>1 DEF Loops
  <2> QED
    BY <2>2
<1>2. ASSUME NEW m \in 1 .. n, m - 1 \in Good(n) PROVE m \in Good(n)
  <2>1. PICK h : Loops(h, m - 1, start, selections, marks, sizing)
    BY <1>2
  <2> DEFINE f == [i \in 0 .. m |->
                     IF i = m THEN Turn(h[m - 1], selections, marks, sizing, m) ELSE h[i]]
  <2>2. ASSUME NEW i \in 0 .. m
        PROVE  f[i] = IF i = 0 THEN start ELSE Turn(f[i - 1], selections, marks, sizing, i)
    <3>1. CASE i = m
      BY <3>1
    <3>2. CASE i # m
      <4>1. i \in 0 .. m - 1 /\ f[i] = h[i]
        BY <3>2
      <4>2. h[i] = IF i = 0 THEN start ELSE Turn(h[i - 1], selections, marks, sizing, i)
        BY <2>1, <4>1 DEF Loops
      <4>3. i # 0 => f[i - 1] = h[i - 1]
        BY <3>2
      <4> HIDE DEF f
      <4> QED
        BY <4>1, <4>2, <4>3
    <3> QED
      BY <3>1, <3>2
  <2>3. f = [i \in 0 .. m |-> f[i]]
    OBVIOUS
  <2> HIDE DEF f
  <2>4. Loops(f, m, start, selections, marks, sizing)
    BY <2>2, <2>3 DEF Loops
  <2> QED
    BY <2>4
<1> HIDE DEF Works
<1>3. n \in Good(n)
  <2> HIDE DEF Good
  <2> QED
    BY <1>1, <1>2, LoopInduction
<1> QED
  BY <1>3

LEMMA LoopIs ==
  ASSUME NEW start, NEW selections, NEW marks, NEW sizing
  PROVE  \E f : /\ Loops(f, Len(Order), start, selections, marks, sizing)
               /\ ProcessAll(start, selections, marks, sizing) = f[Len(Order)]
<1> DEFINE n == Len(Order)
           Loop(f) == f = [i \in 0 .. n |->
             IF i = 0 THEN start
             ELSE IF RowsFor(selections, i) = {} THEN f[i - 1]
             ELSE ProcessOne(f[i - 1], CHOOSE row \in RowsFor(selections, i) : TRUE,
                             marks, sizing)]
           f == CHOOSE g : Loop(g)
<1>1. ProcessAll(start, selections, marks, sizing) = f[n]
  BY Zenon DEF ProcessAll, RowsFor
<1>2. n \in Nat
  BY OrderAssumption
<1>3. PICK g : Loops(g, n, start, selections, marks, sizing)
  BY <1>2, LoopExists
<1>4. Loop(g)
  BY <1>3 DEF Loops, Turn
<1>5. Loop(f)
  <2> HIDE DEF Loop
  <2> QED
    BY <1>4
<1>6. Loops(f, n, start, selections, marks, sizing)
  <2> HIDE DEF f
  <2> QED
    BY <1>5 DEF Loops, Turn
<1> QED
  BY <1>1, <1>6

-----------------------------------------------------------------------------
(* A position: its cost has the sign of its quantity and is at least one   *)
(* for each lot, and what is not held costs nothing.                       *)
Positioned(q, cost, adds) ==
  /\ q > 0 => cost >= q /\ adds >= 1
  /\ q < 0 => cost <= q /\ adds >= 1
  /\ q = 0 => cost = 0 /\ adds = 0

LEMMA Quotient ==
  ASSUME NEW m \in Int, NEW k \in Nat \ {0}
  PROVE  m \div k \in Int /\ (m \div k) * k <= m /\ m < (m \div k) * k + k
OBVIOUS

LEMMA WholeQuotient ==
  ASSUME NEW m \in Int, NEW k \in Nat \ {0}
  PROVE  (m * k) \div k = m
<1> DEFINE r == (m * k) \div k
<1>1. r \in Int /\ r * k <= m * k /\ m * k < r * k + k
  BY Quotient
<1> HIDE DEF r
<1>2. (r - m) * k <= 0 /\ 0 < (r - m + 1) * k
  BY <1>1
<1>3. r - m <= 0 /\ 0 < r - m + 1
  BY <1>1, <1>2
<1> QED
  BY <1>1, <1>3 DEF r

(* What a partial close leaves still costs at least one for each lot.      *)
LEMMA LongPart ==
  ASSUME NEW cost \in Int, NEW old \in Nat, NEW k \in Nat, 0 < k, k < old, cost >= old
  PROVE  cost - (cost * k) \div old >= old - k
<1> DEFINE r == (cost * k) \div old
<1>1. r \in Int /\ r * old <= cost * k
  BY Quotient
<1> HIDE DEF r
<1>2. old * (old - k) <= cost * (old - k)
  OBVIOUS
<1>3. (r - cost + (old - k)) * old <= 0
  BY <1>1, <1>2
<1>4. r - cost + (old - k) <= 0
  BY <1>1, <1>3
<1> QED
  BY <1>1, <1>4 DEF r

LEMMA ShortPart ==
  ASSUME NEW cost \in Int, NEW old \in Nat, NEW k \in Nat, 0 < k, k < old, cost <= -old
  PROVE  cost - (cost * k) \div old <= -(old - k)
<1> DEFINE r == (cost * k) \div old
<1>1. r \in Int /\ cost * k < r * old + old
  BY Quotient
<1> HIDE DEF r
<1>2. old * (old - k) <= (-cost) * (old - k)
  OBVIOUS
<1>3. 0 < (r + 1 - cost - (old - k)) * old
  BY <1>1, <1>2
<1>4. 0 < r + 1 - cost - (old - k)
  BY <1>1, <1>3
<1> QED
  BY <1>1, <1>4 DEF r

\* What is paid for the lots is what the cost gains beyond what is realised.
Balanced(cost, closed, lots, price, released, after) ==
  cost + closed * price + lots * price = released + after

Released(old, closed, cost) ==
  IF closed = 0 THEN 0 ELSE (cost * Abs(closed)) \div Abs(old)

(* One execution keeps a position well formed, and what it realises less   *)
(* what it adds to the cost is its payment before the fee.                 *)
LEMMA Traded ==
  ASSUME NEW old \in Int, NEW cost \in Int, NEW adds \in Nat, Positioned(old, cost, adds),
         NEW lots \in Int, NEW price \in Nat \ {0}
  PROVE  LET closed == Closed(old, lots)
             released == Released(old, closed, cost)
             after == CostAfter(old, lots, cost, released, price)
         IN /\ closed \in Int /\ released \in Int /\ after \in Int
            /\ AddsAfter(old, lots, adds) \in Nat
            /\ Positioned(old + lots, after, AddsAfter(old, lots, adds))
            /\ Balanced(cost, closed, lots, price, released, after)
<1> DEFINE closed == Closed(old, lots)
           released == Released(old, closed, cost)
           after == CostAfter(old, lots, cost, released, price)
           new == old + lots
           count == AddsAfter(old, lots, adds)
<1> SUFFICES /\ closed \in Int /\ released \in Int /\ after \in Int /\ count \in Nat
             /\ Positioned(new, after, count)
             /\ cost + closed * price + lots * price = released + after
  BY DEF Balanced
<1>1. CASE old * lots >= 0
  <2>1. closed = 0 /\ released = 0
    BY <1>1 DEF Closed, Released
  <2>2. CASE lots = 0
    <3>1. old * new >= 0 /\ (old # 0 => old * new > 0)
      BY <2>2
    <3> QED
      BY <2>1, <2>2, <3>1 DEF CostAfter, AddsAfter, Positioned, Abs
  <2>3. CASE lots # 0 /\ old = 0
    <3>1. lots > 0 => lots * price >= lots
      OBVIOUS
    <3>2. lots < 0 => lots * price <= lots
      OBVIOUS
    <3>3. after = lots * price /\ count = 1
      BY <2>3, <2>1 DEF CostAfter, AddsAfter
    <3>4. lots * price \in Int
      OBVIOUS
    <3> HIDE DEF closed, released, after, count
    <3> QED
      BY <2>1, <2>3, <3>1, <3>2, <3>3, <3>4 DEF Positioned
  <2>4. CASE lots # 0 /\ old # 0
    <3>1. (old > 0 /\ lots > 0) \/ (old < 0 /\ lots < 0)
      BY <1>1, <2>4
    <3>2. lots > 0 => lots * price >= lots
      OBVIOUS
    <3>3. lots < 0 => lots * price <= lots
      OBVIOUS
    <3>4. old * new > 0
      BY <3>1
    <3>5. after = cost + lots * price /\ count = adds + 1
      BY <3>1, <3>4, <2>1 DEF CostAfter, AddsAfter, Abs
    <3>6. lots * price \in Int
      OBVIOUS
    <3> HIDE DEF closed, released, after, count
    <3> QED
      BY <2>1, <3>1, <3>2, <3>3, <3>5, <3>6 DEF Positioned
  <2> QED
    BY <2>2, <2>3, <2>4
<1>2. CASE old * lots < 0 /\ Abs(lots) < Abs(old)
  <2>1. (old > 0 /\ lots < 0) \/ (old < 0 /\ lots > 0)
    BY <1>2
  <2>2. closed = -lots /\ closed # 0 /\ Abs(closed) = Abs(lots)
    BY <1>2, <2>1 DEF Closed, Sign, Least, Abs
  <2>3. released = (cost * Abs(lots)) \div Abs(old)
    BY <2>2 DEF Released
  <2>4. released \in Int
    <3>1. Abs(old) \in Nat \ {0} /\ cost * Abs(lots) \in Int
      BY <2>1 DEF Abs
    <3> QED
      BY <2>3, <3>1, Quotient
  <2>5. old * new > 0 /\ new # 0 /\ Abs(new) <= Abs(old)
    BY <1>2, <2>1 DEF Abs
  <2>6. after = cost - released /\ count = adds
    BY <2>5 DEF CostAfter, AddsAfter, Abs
  <2>7. CASE old > 0
    <3>1. cost - released >= old - (-lots)
      <4>1. -lots \in Nat /\ 0 < -lots /\ -lots < old /\ cost >= old /\ old \in Nat
        BY <1>2, <2>1, <2>7 DEF Positioned, Abs
      <4>2. cost - (cost * (-lots)) \div old >= old - (-lots)
        BY <4>1, LongPart
      <4>3. released = (cost * (-lots)) \div old
        BY <2>3, <4>1 DEF Abs
      <4> QED
        BY <4>2, <4>3
    <3> HIDE DEF closed, released, after, count
    <3> QED
      BY <2>1, <2>2, <2>4, <2>5, <2>6, <2>7, <3>1 DEF Positioned, Abs
  <2>8. CASE old < 0
    <3>1. cost - released <= -((-old) - lots)
      <4>1. lots \in Nat /\ 0 < lots /\ lots < -old /\ cost <= -(-old) /\ -old \in Nat
        BY <1>2, <2>1, <2>8 DEF Positioned, Abs
      <4>2. cost - (cost * lots) \div (-old) <= -((-old) - lots)
        BY <4>1, ShortPart
      <4>3. released = (cost * lots) \div (-old)
        BY <2>3, <4>1 DEF Abs
      <4> QED
        BY <4>2, <4>3
    <3> HIDE DEF closed, released, after, count
    <3> QED
      BY <2>1, <2>2, <2>4, <2>5, <2>6, <2>8, <3>1 DEF Positioned, Abs
  <2> QED
    BY <2>1, <2>7, <2>8
<1>3. CASE old * lots < 0 /\ Abs(lots) >= Abs(old)
  <2>1. (old > 0 /\ lots < 0) \/ (old < 0 /\ lots > 0)
    BY <1>3
  <2>2. closed = old /\ closed # 0
    BY <1>3, <2>1 DEF Closed, Sign, Least, Abs
  <2>3. released = cost
    <3>1. Abs(old) \in Nat \ {0}
      BY <2>1 DEF Abs
    <3>2. released = (cost * Abs(old)) \div Abs(old)
      BY <2>2 DEF Released
    <3> QED
      BY <3>1, <3>2, WholeQuotient
  <2>4. old * new <= 0
    BY <1>3, <2>1 DEF Abs
  <2>5. after = new * price
    BY <2>4 DEF CostAfter
  <2>6. count = IF new = 0 THEN 0 ELSE 1
    BY <2>4 DEF AddsAfter
  <2>7. new > 0 => new * price >= new
    OBVIOUS
  <2>8. new < 0 => new * price <= new
    OBVIOUS
  <2>9. new * price \in Int /\ new * price = old * price + lots * price
    OBVIOUS
  <2>10. old * price \in Int /\ lots * price \in Int
    OBVIOUS
  <2> HIDE DEF closed, released, after, count
  <2> QED
    BY <2>2, <2>3, <2>5, <2>6, <2>7, <2>8, <2>9, <2>10 DEF Positioned
<1>4. Abs(lots) \in Int /\ Abs(old) \in Int
  BY DEF Abs
<1> QED
  BY <1>1, <1>2, <1>3, <1>4

-----------------------------------------------------------------------------
(* The account.                                                            *)
Accounts ==
  [cash : Int, q : [Symbols -> Int], cost : [Symbols -> Int], adds : [Symbols -> Nat],
   margin : Int \cup {Null}, active : Int \cup {Null}, pnl : Int, resets : Nat,
   decided : Nat]

Lawful(l) == \A s \in Symbols : Positioned(l.q[s], l.cost[s], l.adds[s])

LEMMA Numbers ==
  ASSUME config \in Configs
  PROVE  /\ config.capital \in Nat \ {0} /\ config.buffer \in Nat /\ config.rate \in Nat
         /\ config.leverage \in Nat \ {0} /\ config.maxRows \in Nat \ {0}
         /\ Null \notin Int
BY PositionAssumption, NumbersAssumption DEF LegalFields, LegalCapital, LegalBounds

LEMMA Fee ==
  ASSUME config \in Configs, NEW n \in Nat
  PROVE  Cost(n) \in Nat
<1>1. n * config.rate \in Nat
  BY Numbers
<1> QED
  BY <1>1 DEF Cost

LEMMA FeeMonotone ==
  ASSUME config \in Configs, NEW n \in Nat, NEW m \in Nat, n <= m
  PROVE  Cost(n) <= Cost(m)
<1>1. config.rate \in Nat
  BY Numbers
<1>2. n * config.rate \in Nat /\ m * config.rate \in Nat /\ n * config.rate <= m * config.rate
  BY <1>1
<1> QED
  BY <1>2 DEF Cost

(* What one execution writes, before the round is booked.                  *)
Result(l, s, lots, price) ==
  Closed(l.q[s], lots) * price - Released(l.q[s], Closed(l.q[s], lots), l.cost[s])
    - Cost(Abs(lots * price))

Moved(l, s, lots, price) ==
  [cash |-> l.cash + Result(l, s, lots, price),
   q |-> [l.q EXCEPT ![s] = l.q[s] + lots],
   cost |-> [l.cost EXCEPT ![s] =
               CostAfter(l.q[s], lots, l.cost[s],
                         Released(l.q[s], Closed(l.q[s], lots), l.cost[s]), price)],
   adds |-> [l.adds EXCEPT ![s] = AddsAfter(l.q[s], lots, l.adds[s])],
   margin |-> l.margin, active |-> l.active, pnl |-> l.pnl, resets |-> l.resets,
   decided |-> l.decided]

LEMMA ExecuteIs ==
  ASSUME NEW l \in Accounts, NEW s \in Symbols, NEW lots, NEW price
  PROVE  Execute(l, s, lots, price) =
           IF lots = 0 THEN l
           ELSE IF Rolling
           THEN BookRound(Moved(l, s, lots, price), l.q[s], l.q[s] + lots, price,
                          Result(l, s, lots, price))
           ELSE Moved(l, s, lots, price)
<1> DEFINE result == Result(l, s, lots, price)
           released == Released(l.q[s], Closed(l.q[s], lots), l.cost[s])
           x == l.cash + result
           y == l.q[s] + lots
           c == CostAfter(l.q[s], lots, l.cost[s], released, price)
           a == AddsAfter(l.q[s], lots, l.adds[s])
           traded == [l EXCEPT !.cash = x, !.q[s] = y, !.cost[s] = c, !.adds[s] = a]
<1>1. traded = Moved(l, s, lots, price)
  <2> HIDE DEF x, y, c, a
  <2>1. l = [cash |-> l.cash, q |-> l.q, cost |-> l.cost, adds |-> l.adds,
             margin |-> l.margin, active |-> l.active, pnl |-> l.pnl,
             resets |-> l.resets, decided |-> l.decided]
    BY DEF Accounts
  <2>2. traded = [cash |-> x, q |-> [l.q EXCEPT ![s] = y], cost |-> [l.cost EXCEPT ![s] = c],
                  adds |-> [l.adds EXCEPT ![s] = a], margin |-> l.margin,
                  active |-> l.active, pnl |-> l.pnl, resets |-> l.resets,
                  decided |-> l.decided]
    <3> DEFINE one == [l EXCEPT !.cash = x]
               two == [one EXCEPT !.q = [l.q EXCEPT ![s] = y]]
               three == [two EXCEPT !.cost = [l.cost EXCEPT ![s] = c]]
               four == [three EXCEPT !.adds = [l.adds EXCEPT ![s] = a]]
    <3>1. traded = four
      OBVIOUS
    <3>2. one = [cash |-> x, q |-> l.q, cost |-> l.cost, adds |-> l.adds,
                 margin |-> l.margin, active |-> l.active, pnl |-> l.pnl,
                 resets |-> l.resets, decided |-> l.decided]
      BY <2>1
    <3> HIDE DEF one
    <3>3. two = [cash |-> x, q |-> [l.q EXCEPT ![s] = y], cost |-> l.cost, adds |-> l.adds,
                 margin |-> l.margin, active |-> l.active, pnl |-> l.pnl,
                 resets |-> l.resets, decided |-> l.decided]
      BY <3>2
    <3> HIDE DEF two
    <3>4. three = [cash |-> x, q |-> [l.q EXCEPT ![s] = y],
                   cost |-> [l.cost EXCEPT ![s] = c], adds |-> l.adds,
                   margin |-> l.margin, active |-> l.active, pnl |-> l.pnl,
                   resets |-> l.resets, decided |-> l.decided]
      BY <3>3
    <3> HIDE DEF three
    <3>5. four = [cash |-> x, q |-> [l.q EXCEPT ![s] = y],
                  cost |-> [l.cost EXCEPT ![s] = c], adds |-> [l.adds EXCEPT ![s] = a],
                  margin |-> l.margin, active |-> l.active, pnl |-> l.pnl,
                  resets |-> l.resets, decided |-> l.decided]
      BY <3>4
    <3> HIDE DEF four
    <3> QED
      BY <3>1, <3>5
  <2> QED
    BY <2>2 DEF Moved, x, y, c, a
<1>2. Execute(l, s, lots, price) =
        IF lots = 0 THEN l
        ELSE IF Rolling THEN BookRound(traded, l.q[s], l.q[s] + lots, price, result)
        ELSE traded
  BY Zenon DEF Execute, Result, Released
<1> HIDE DEF traded
<1> QED
  BY <1>1, <1>2

LEMMA MovedKeeps ==
  ASSUME config \in Configs, NEW l \in Accounts, Lawful(l), NEW s \in Symbols,
         NEW lots \in Int, NEW price \in Nat \ {0}
  PROVE  LET m == Moved(l, s, lots, price) IN
         /\ m \in Accounts /\ Lawful(m)
         /\ Result(l, s, lots, price) \in Int
         /\ m.cash - m.cost[s] = l.cash - l.cost[s] + Payment(lots, price)
<1> DEFINE m == Moved(l, s, lots, price)
           closed == Closed(l.q[s], lots)
           released == Released(l.q[s], closed, l.cost[s])
           after == CostAfter(l.q[s], lots, l.cost[s], released, price)
           count == AddsAfter(l.q[s], lots, l.adds[s])
           fee == Cost(Abs(lots * price))
<1>1. l.q[s] \in Int /\ l.cost[s] \in Int /\ l.adds[s] \in Nat /\ l.cash \in Int
  BY DEF Accounts
<1>2. /\ closed \in Int /\ released \in Int /\ after \in Int /\ count \in Nat
      /\ Positioned(l.q[s] + lots, after, count)
      /\ Balanced(l.cost[s], closed, lots, price, released, after)
  <2>1. Positioned(l.q[s], l.cost[s], l.adds[s])
    BY DEF Lawful
  <2> DEFINE old == l.q[s]
             cost == l.cost[s]
             adds == l.adds[s]
  <2>2. old \in Int /\ cost \in Int /\ adds \in Nat /\ Positioned(old, cost, adds)
    BY <1>1, <2>1
  <2>3. /\ closed = Closed(old, lots) /\ released = Released(old, Closed(old, lots), cost)
        /\ after = CostAfter(old, lots, cost, Released(old, Closed(old, lots), cost), price)
        /\ count = AddsAfter(old, lots, adds)
    OBVIOUS
  <2> HIDE DEF closed, released, after, count
  <2> SUFFICES /\ closed \in Int /\ released \in Int /\ after \in Int /\ count \in Nat
               /\ Positioned(old + lots, after, count)
               /\ Balanced(cost, closed, lots, price, released, after)
    OBVIOUS
  <2> HIDE DEF old, cost, adds
  <2>4. LET k == Closed(old, lots)
            freed == Released(old, k, cost)
            left == CostAfter(old, lots, cost, freed, price)
        IN /\ k \in Int /\ freed \in Int /\ left \in Int
           /\ AddsAfter(old, lots, adds) \in Nat
           /\ Positioned(old + lots, left, AddsAfter(old, lots, adds))
           /\ Balanced(cost, k, lots, price, freed, left)
    BY <2>2, Traded, Zenon
  <2> QED
    BY <2>3, <2>4, Zenon
<1>3. fee \in Nat
  <2>1. lots * price \in Int
    OBVIOUS
  <2>2. Abs(lots * price) \in Nat
    BY <2>1 DEF Abs
  <2> QED
    BY <2>2, Fee
<1>4. Result(l, s, lots, price) = closed * price - released - fee
  BY DEF Result
<1>5. closed * price \in Int /\ lots * price \in Int
  BY <1>2
<1>6. m = [cash |-> l.cash + Result(l, s, lots, price),
           q |-> [l.q EXCEPT ![s] = l.q[s] + lots],
           cost |-> [l.cost EXCEPT ![s] = after],
           adds |-> [l.adds EXCEPT ![s] = count],
           margin |-> l.margin, active |-> l.active, pnl |-> l.pnl, resets |-> l.resets,
           decided |-> l.decided]
  BY DEF Moved
<1> HIDE DEF m, closed, released, after, count, fee
<1>7. Result(l, s, lots, price) \in Int
  BY <1>2, <1>3, <1>4, <1>5
<1>8. m \in Accounts
  BY <1>1, <1>2, <1>6, <1>7 DEF Accounts
<1>9. Lawful(m)
  <2> SUFFICES ASSUME NEW r \in Symbols PROVE Positioned(m.q[r], m.cost[r], m.adds[r])
    BY DEF Lawful
  <2>1. l.q \in [Symbols -> Int] /\ l.cost \in [Symbols -> Int] /\ l.adds \in [Symbols -> Nat]
    BY DEF Accounts
  <2>2. CASE r = s
    BY <1>2, <1>6, <2>1, <2>2
  <2>3. CASE r # s
    <3>1. m.q[r] = l.q[r] /\ m.cost[r] = l.cost[r] /\ m.adds[r] = l.adds[r]
      BY <1>6, <2>1, <2>3
    <3> QED
      BY <3>1 DEF Lawful
  <2> QED
    BY <2>2, <2>3
<1>10. m.cash - m.cost[s] = l.cash - l.cost[s] + Payment(lots, price)
  <2>1. m.cash = l.cash + Result(l, s, lots, price) /\ m.cost[s] = after
    BY <1>6 DEF Accounts
  <2>2. Payment(lots, price) = -(lots * price) - fee
    BY DEF Payment, fee
  <2> DEFINE gross == closed * price
             paid == lots * price
             cash == m.cash
             left == m.cost[s]
             had == l.cash
             cost == l.cost[s]
             payment == Payment(lots, price)
  <2>3. /\ gross \in Int /\ paid \in Int /\ cost + gross + paid = released + after
        /\ cash = had + (gross - released - fee) /\ left = after
        /\ payment = -paid - fee
    BY <1>2, <1>4, <1>5, <2>1, <2>2 DEF Balanced
  <2>4. released \in Int /\ after \in Int /\ fee \in Int /\ had \in Int /\ cost \in Int
    BY <1>1, <1>2, <1>3
  <2> HIDE DEF gross, paid, cash, left, had, cost, payment
  <2>5. cash - left = had - cost + payment
    BY <2>3, <2>4
  <2> QED
    BY <2>5 DEF cash, left, had, cost, payment
<1> QED
  BY <1>7, <1>8, <1>9, <1>10 DEF m

-----------------------------------------------------------------------------
(* Rolling rounds: one is open exactly while something is held, and then   *)
(* it is one symbol; the margin of the next one is in its band.            *)
Rounds(l) ==
  IF Rolling
  THEN /\ l.margin \in config.min .. config.max
       /\ \A r, t \in Held(l) : r = t
       /\ (Held(l) = {}) = (l.active = Null)
       /\ l.active = Null => l.pnl = 0
  ELSE l.margin = Null

RoundIs(l, start) == Rolling /\ l.active # Null => l.pnl = l.cash - start

Good(l) == l \in Accounts /\ Lawful(l) /\ Rounds(l)

LEMMA RollingNumbers ==
  ASSUME config \in Configs, Rolling
  PROVE  /\ config.min \in Nat /\ config.max \in Nat /\ 0 < config.min
         /\ config.initial \in config.min .. config.max
         /\ config.reset \in config.min .. config.max
         /\ Single /\ config.existing = "ignore"
BY PositionAssumption DEF Rolling, Single, LegalSizing, LegalHolding

(* Booking a result touches the round alone.                               *)
Booked(b, m, old, new, result) ==
  /\ b \in Accounts
  /\ b.cash = m.cash /\ b.q = m.q /\ b.cost = m.cost /\ b.adds = m.adds
  /\ b.decided = m.decided
  /\ b.margin \in config.min .. config.max
  /\ old = 0 => b.active # Null /\ b.pnl = result
  /\ old # 0 /\ new # 0 => b.active = m.active /\ b.pnl = m.pnl + result
  /\ old # 0 /\ new = 0 => b.active = Null /\ b.pnl = 0

LEMMA BookIs ==
  ASSUME config \in Configs, Rolling, NEW m \in Accounts, NEW old \in Int, NEW new \in Int,
         NEW price \in Nat \ {0}, NEW result \in Int, m.margin \in config.min .. config.max,
         old # 0 => m.active # Null
  PROVE  Booked(BookRound(m, old, new, price, result), m, old, new, result)
<1> DEFINE b == BookRound(m, old, new, price, result)
<1> USE RollingNumbers, Numbers
<1> SUFFICES Booked(b, m, old, new, result)
  OBVIOUS
<1> USE DEF Booked
<1>0. m = [cash |-> m.cash, q |-> m.q, cost |-> m.cost, adds |-> m.adds,
           margin |-> m.margin, active |-> m.active, pnl |-> m.pnl,
           resets |-> m.resets, decided |-> m.decided]
  BY DEF Accounts
<1>1. CASE old = 0
  <2> DEFINE active == Abs(new * price) \div config.leverage
             one == [m EXCEPT !.active = active]
             two == [one EXCEPT !.pnl = result]
  <2>1. b = two
    BY <1>1 DEF BookRound
  <2>2. active \in Int
    <3>1. new * price \in Int
      OBVIOUS
    <3>2. Abs(new * price) \in Int
      BY <3>1 DEF Abs
    <3> QED
      BY <3>2
  <2> HIDE DEF active
  <2>3. one = [cash |-> m.cash, q |-> m.q, cost |-> m.cost, adds |-> m.adds,
               margin |-> m.margin, active |-> active, pnl |-> m.pnl,
               resets |-> m.resets, decided |-> m.decided]
    BY <1>0
  <2> HIDE DEF one
  <2>4. two = [cash |-> m.cash, q |-> m.q, cost |-> m.cost, adds |-> m.adds,
               margin |-> m.margin, active |-> active, pnl |-> result,
               resets |-> m.resets, decided |-> m.decided]
    BY <2>3
  <2> HIDE DEF two, b
  <2>5. b \in Accounts
    BY <2>1, <2>2, <2>4 DEF Accounts
  <2> QED
    BY <1>1, <2>1, <2>2, <2>4, <2>5 DEF b
<1>2. CASE old # 0
  <2> DEFINE booked == [m EXCEPT !.pnl = @ + result]
  <2>1. booked = [cash |-> m.cash, q |-> m.q, cost |-> m.cost, adds |-> m.adds,
                  margin |-> m.margin, active |-> m.active, pnl |-> m.pnl + result,
                  resets |-> m.resets, decided |-> m.decided]
    BY <1>0
  <2>2. m.pnl + result \in Int
    BY DEF Accounts
  <2>3. booked \in Accounts
    BY <2>1, <2>2 DEF Accounts
  <2>4. CASE new # 0
    <3>1. b = booked
      BY <1>2, <2>4 DEF BookRound
    <3> HIDE DEF b, booked
    <3> QED
      BY <1>2, <2>1, <2>3, <2>4, <3>1 DEF b
  <2>5. CASE new = 0
    <3>1. b = SettleRound(booked)
      BY <1>2, <2>5 DEF BookRound
    <3> HIDE DEF booked
    <3> DEFINE candidate == booked.active + booked.pnl
               margin == NextMargin(candidate)
               resets == booked.resets + (IF NextMargin(candidate) = candidate THEN 0 ELSE 1)
               one == [booked EXCEPT !.margin = margin]
               two == [one EXCEPT !.active = Null]
               three == [two EXCEPT !.pnl = 0]
               four == [three EXCEPT !.resets = resets]
    <3>2. b = four
      BY <2>3, <3>1 DEF SettleRound, Accounts
    <3>3. margin \in config.min .. config.max
      BY DEF NextMargin
    <3>4. resets \in Nat
      BY <2>3 DEF Accounts
    <3> HIDE DEF margin, resets
    <3>5. one = [cash |-> m.cash, q |-> m.q, cost |-> m.cost, adds |-> m.adds,
                 margin |-> margin, active |-> m.active, pnl |-> m.pnl + result,
                 resets |-> m.resets, decided |-> m.decided]
      BY <2>1
    <3> HIDE DEF one
    <3>6. two = [cash |-> m.cash, q |-> m.q, cost |-> m.cost, adds |-> m.adds,
                 margin |-> margin, active |-> Null, pnl |-> m.pnl + result,
                 resets |-> m.resets, decided |-> m.decided]
      BY <3>5
    <3> HIDE DEF two
    <3>7. three = [cash |-> m.cash, q |-> m.q, cost |-> m.cost, adds |-> m.adds,
                   margin |-> margin, active |-> Null, pnl |-> 0,
                   resets |-> m.resets, decided |-> m.decided]
      BY <3>6
    <3> HIDE DEF three
    <3>8. four = [cash |-> m.cash, q |-> m.q, cost |-> m.cost, adds |-> m.adds,
                  margin |-> margin, active |-> Null, pnl |-> 0,
                  resets |-> resets, decided |-> m.decided]
      BY <3>7
    <3> HIDE DEF four, b
    <3>9. b \in Accounts
      BY <3>2, <3>3, <3>4, <3>8 DEF Accounts
    <3> QED
      BY <1>2, <2>5, <3>2, <3>3, <3>8, <3>9 DEF b
  <2> QED
    BY <2>4, <2>5
<1> QED
  BY <1>1, <1>2

(* What one execution of a symbol does.                                    *)
Executed(l, m, s, lots, price) ==
  /\ m.q[s] = l.q[s] + lots /\ m.adds[s] = AddsAfter(l.q[s], lots, l.adds[s])
  /\ \A r \in Symbols : r # s =>
       m.q[r] = l.q[r] /\ m.cost[r] = l.cost[r] /\ m.adds[r] = l.adds[r]
  /\ m.cash - m.cost[s] = l.cash - l.cost[s] + Payment(lots, price)
  /\ m.decided = l.decided

RoundKept(l, m) ==
  /\ Held(l) = {} => RoundIs(m, l.cash)
  /\ Held(l) # {} => \A start \in Int : RoundIs(l, start) => RoundIs(m, start)

LEMMA NothingExecuted ==
  ASSUME config \in Configs, NEW l, Good(l), NEW s \in Symbols, NEW price \in Nat \ {0}
  PROVE  Executed(l, l, s, 0, price) /\ RoundKept(l, l)
<1>1. l.q[s] \in Int /\ l.cost[s] \in Int /\ l.adds[s] \in Nat /\ l.cash \in Int
  BY DEF Good, Accounts
<1>2. l.adds[s] = AddsAfter(l.q[s], 0, l.adds[s])
  <2> DEFINE old == l.q[s]
             adds == l.adds[s]
  <2>1. Positioned(l.q[s], l.cost[s], l.adds[s])
    BY DEF Good, Lawful
  <2>2. old \in Int /\ adds \in Nat /\ (old = 0 => adds = 0)
    BY <1>1, <2>1 DEF Positioned
  <2> SUFFICES adds = AddsAfter(old, 0, adds)
    BY DEF old, adds
  <2> HIDE DEF old, adds
  <2>3. old + 0 = old
    BY <2>2
  <2>4. CASE old = 0
    BY <2>2, <2>3, <2>4 DEF AddsAfter
  <2>5. CASE old # 0
    <3>1. old * old > 0
      <4>1. CASE old > 0
        BY <2>2, <4>1
      <4>2. CASE old < 0
        BY <2>2, <4>2
      <4> QED
        BY <2>2, <2>5, <4>1, <4>2
    <3>2. ~(Abs(old) > Abs(old))
      BY <2>2 DEF Abs
    <3>3. AddsAfter(old, 0, adds) =
            IF old = 0 THEN 0
            ELSE IF old * old <= 0 THEN 1
            ELSE IF Abs(old) > Abs(old) THEN adds + 1 ELSE adds
      BY <2>3 DEF AddsAfter
    <3> HIDE DEF AddsAfter
    <3>4. ~(old * old <= 0)
      BY <2>2, <3>1
    <3> QED
      BY <2>5, <3>2, <3>3, <3>4, Zenon
  <2> QED
    BY <2>4, <2>5
<1>3. Payment(0, price) = 0
  <2>1. 0 * price = 0 /\ 0 * config.rate = 0
    BY Numbers
  <2> QED
    BY <2>1 DEF Payment, Cost, Abs
<1>4. Held(l) = {} => RoundIs(l, l.cash)
  BY DEF Good, Rounds, RoundIs
<1> QED
  BY <1>1, <1>2, <1>3, <1>4 DEF Executed, RoundKept

LEMMA ExecuteKeeps ==
  ASSUME config \in Configs, NEW l, Good(l), NEW s \in Symbols, NEW lots \in Int,
         NEW price \in Nat \ {0}, Rolling => Held(l) \subseteq {s}
  PROVE  LET m == Execute(l, s, lots, price) IN
         Good(m) /\ Executed(l, m, s, lots, price) /\ RoundKept(l, m)
<1> DEFINE m == Moved(l, s, lots, price)
           result == Result(l, s, lots, price)
<1>1. l \in Accounts /\ Lawful(l) /\ Rounds(l)
  BY DEF Good
<1>2. /\ m \in Accounts /\ Lawful(m) /\ result \in Int
      /\ m.cash - m.cost[s] = l.cash - l.cost[s] + Payment(lots, price)
  BY <1>1, MovedKeeps
<1>3. l.q \in [Symbols -> Int] /\ l.cost \in [Symbols -> Int] /\ l.adds \in [Symbols -> Nat]
      /\ l.cash \in Int /\ l.pnl \in Int
  BY <1>1 DEF Accounts
<1>4. /\ m.q[s] = l.q[s] + lots /\ m.adds[s] = AddsAfter(l.q[s], lots, l.adds[s])
      /\ \A r \in Symbols : r # s =>
           m.q[r] = l.q[r] /\ m.cost[r] = l.cost[r] /\ m.adds[r] = l.adds[r]
      /\ m.decided = l.decided /\ m.margin = l.margin /\ m.active = l.active
      /\ m.pnl = l.pnl /\ m.cash = l.cash + result
  BY <1>3 DEF Moved
<1>5. CASE lots = 0
  BY <1>1, <1>5, ExecuteIs, NothingExecuted
<1>6. CASE lots # 0 /\ ~Rolling
  <2>1. Execute(l, s, lots, price) = m
    BY <1>1, <1>6, ExecuteIs
  <2>2. Rounds(m)
    BY <1>1, <1>4, <1>6 DEF Rounds
  <2>3. RoundKept(l, m)
    BY <1>6 DEF RoundKept, RoundIs
  <2>4. Executed(l, m, s, lots, price)
    BY <1>2, <1>4 DEF Executed
  <2> HIDE DEF m
  <2> QED
    BY <1>2, <2>1, <2>2, <2>3, <2>4 DEF Good
<1>7. CASE lots # 0 /\ Rolling
  <2> DEFINE b == BookRound(m, l.q[s], l.q[s] + lots, price, result)
  <2>1. Execute(l, s, lots, price) = b
    BY <1>1, <1>7, ExecuteIs
  <2> HIDE DEF m, result
  <2>2. Held(l) = IF l.q[s] = 0 THEN {} ELSE {s}
    BY <1>7 DEF Held
  <2>3. l.q[s] # 0 => m.active # Null
    BY <1>1, <1>4, <1>7, <2>2 DEF Rounds
  <2>4. l.q[s] \in Int /\ l.q[s] + lots \in Int /\ m.margin \in config.min .. config.max
    BY <1>1, <1>3, <1>4, <1>7 DEF Rounds
  <2>5. /\ b \in Accounts
        /\ b.cash = m.cash /\ b.q = m.q /\ b.cost = m.cost /\ b.adds = m.adds
        /\ b.decided = m.decided
        /\ b.margin \in config.min .. config.max
        /\ l.q[s] = 0 => b.active # Null /\ b.pnl = result
        /\ l.q[s] # 0 /\ l.q[s] + lots # 0 => b.active = m.active /\ b.pnl = m.pnl + result
        /\ l.q[s] # 0 /\ l.q[s] + lots = 0 => b.active = Null /\ b.pnl = 0
    <3> DEFINE old == l.q[s]
               new == l.q[s] + lots
    <3>1. /\ m \in Accounts /\ old \in Int /\ new \in Int /\ result \in Int
          /\ m.margin \in config.min .. config.max /\ (old # 0 => m.active # Null)
      BY <1>2, <2>3, <2>4
    <3>2. b = BookRound(m, old, new, price, result)
      OBVIOUS
    <3> HIDE DEF b
    <3> SUFFICES Booked(b, m, old, new, result)
      BY DEF old, new, Booked
    <3> HIDE DEF old, new
    <3>3. Booked(BookRound(m, old, new, price, result), m, old, new, result)
      BY <1>7, <3>1, BookIs, Zenon
    <3> QED
      BY <3>2, <3>3
  <2> HIDE DEF b
  <2>6. Held(b) = IF l.q[s] + lots = 0 THEN {} ELSE {s}
    BY <1>4, <2>2, <2>5 DEF Held
  <2>7. Lawful(b)
    BY <1>2, <2>5 DEF Lawful
  <2>8. Rounds(b)
    <3>1. (Held(b) = {}) = (b.active = Null)
      BY <1>7, <2>3, <2>4, <2>5, <2>6
    <3>2. b.active = Null => b.pnl = 0
      BY <1>7, <2>3, <2>4, <2>5
    <3> QED
      BY <1>7, <2>5, <2>6, <3>1, <3>2 DEF Rounds
  <2>9. Executed(l, b, s, lots, price)
    BY <1>2, <1>4, <2>5 DEF Executed
  <2>10. RoundKept(l, b)
    <3>1. CASE l.q[s] = 0
      <4>1. b.pnl = b.cash - l.cash
        BY <1>2, <1>3, <1>4, <2>5, <3>1
      <4> QED
        BY <2>2, <3>1, <4>1 DEF RoundKept, RoundIs
    <3>2. CASE l.q[s] # 0
      <4> SUFFICES ASSUME NEW start \in Int, RoundIs(l, start), b.active # Null
                   PROVE  b.pnl = b.cash - start
        BY <2>2, <3>2 DEF RoundKept, RoundIs
      <4>1. l.pnl = l.cash - start
        BY <1>4, <1>7, <2>3, <3>2 DEF RoundIs
      <4>2. b.pnl = l.pnl + result /\ b.cash = l.cash + result
        BY <1>4, <2>5, <3>2
      <4> QED
        BY <1>2, <1>3, <4>1, <4>2
    <3> QED
      BY <3>1, <3>2
  <2> QED
    BY <2>1, <2>5, <2>7, <2>8, <2>9, <2>10 DEF Good
<1> QED
  BY <1>5, <1>6, <1>7

-----------------------------------------------------------------------------
(* Sums over the account: what is not held has no notional and no cost, so *)
(* each of them is a sum over all symbols.                                 *)
Marks == [Symbols -> Nat \ {0}]

Exposures(l, marks) == [r \in Symbols |-> Abs(Notional(l, r, marks))]

Notionals(l, marks) == [r \in Symbols |-> Notional(l, r, marks)]

Open(l, marks) == [r \in Symbols |-> Notional(l, r, marks) - l.cost[r]]

LEMMA SymbolsFinite == IsFiniteSet(Symbols)
<1> DEFINE f == [i \in 1 .. Len(Order) |-> Order[i]]
<1>1. Len(Order) \in Nat /\ DOMAIN Order = 1 .. Len(Order)
  BY OrderAssumption
<1>2. IsFiniteSet(1 .. Len(Order))
  BY <1>1, FS_Interval
<1>3. f \in Surjection(1 .. Len(Order), Symbols)
  BY <1>1 DEF Surjection, Symbols
<1> HIDE DEF f
<1> QED
  BY <1>2, <1>3, FS_Surjection

LEMMA SumsOver ==
  ASSUME NEW l \in Accounts, Lawful(l), NEW marks \in Marks
  PROVE  /\ \A r \in Symbols : Notional(l, r, marks) \in Int
         /\ Exposures(l, marks) \in [Symbols -> Int]
         /\ Notionals(l, marks) \in [Symbols -> Int]
         /\ Open(l, marks) \in [Symbols -> Int]
         /\ Gross(l, marks) = SumFunction(Exposures(l, marks))
         /\ Net(l, marks) = SumFunction(Notionals(l, marks))
         /\ Equity(l, marks) = l.cash + SumFunction(Open(l, marks))
<1>1. \A r \in Symbols : l.q[r] \in Int /\ l.cost[r] \in Int /\ marks[r] \in Nat
  BY DEF Accounts, Marks
<1>2. \A r \in Symbols : Notional(l, r, marks) \in Int
  BY <1>1 DEF Notional
<1>3. \A r \in Symbols : Abs(Notional(l, r, marks)) \in Int
  BY <1>2 DEF Abs
<1>4. \A r \in Symbols : Notional(l, r, marks) - l.cost[r] \in Int
  BY <1>1, <1>2
<1>5. /\ Exposures(l, marks) \in [Symbols -> Int]
      /\ Notionals(l, marks) \in [Symbols -> Int]
      /\ Open(l, marks) \in [Symbols -> Int]
  BY <1>2, <1>3, <1>4 DEF Exposures, Notionals, Open
<1>6. Held(l) \in SUBSET Symbols
  BY DEF Held
<1>7. \A r \in Symbols \ Held(l) : Notional(l, r, marks) = 0 /\ l.cost[r] = 0
  <2> SUFFICES ASSUME NEW r \in Symbols \ Held(l)
               PROVE  Notional(l, r, marks) = 0 /\ l.cost[r] = 0
    OBVIOUS
  <2>1. l.q[r] = 0
    BY DEF Held
  <2>2. 0 * marks[r] = 0
    BY <1>1
  <2> QED
    BY <2>1, <2>2 DEF Lawful, Positioned, Notional
<1>8. Gross(l, marks) = SumFunction(Exposures(l, marks))
  <2> DEFINE G == [r \in Held(l) |-> Abs(Notional(l, r, marks))]
             F == Exposures(l, marks)
             T == Held(l)
  <2>1. G \in [T -> Int] /\ \A r \in T : G[r] = F[r]
    BY <1>3, <1>6 DEF Exposures
  <2>2. \A r \in Symbols \ T : F[r] = 0
    BY <1>7 DEF Exposures, Abs
  <2>3. Gross(l, marks) = SumFunction(G)
    BY DEF Gross
  <2>4. T \in SUBSET Symbols /\ F \in [Symbols -> Int]
    BY <1>5, <1>6
  <2> SUFFICES SumFunction(G) = SumFunction(F)
    BY <2>3
  <2> HIDE DEF G, F, T
  <2> QED
    BY <2>1, <2>2, <2>4, SymbolsFinite, SumRestrict
<1>9. Net(l, marks) = SumFunction(Notionals(l, marks))
  <2> DEFINE G == [r \in Held(l) |-> Notional(l, r, marks)]
             F == Notionals(l, marks)
             T == Held(l)
  <2>1. G \in [T -> Int] /\ \A r \in T : G[r] = F[r]
    BY <1>2, <1>6 DEF Notionals
  <2>2. \A r \in Symbols \ T : F[r] = 0
    BY <1>7 DEF Notionals
  <2>3. Net(l, marks) = SumFunction(G)
    BY DEF Net
  <2>4. T \in SUBSET Symbols /\ F \in [Symbols -> Int]
    BY <1>5, <1>6
  <2> SUFFICES SumFunction(G) = SumFunction(F)
    BY <2>3
  <2> HIDE DEF G, F, T
  <2> QED
    BY <2>1, <2>2, <2>4, SymbolsFinite, SumRestrict
<1>10. Equity(l, marks) = l.cash + SumFunction(Open(l, marks))
  <2> DEFINE G == [r \in Held(l) |-> Notional(l, r, marks) - l.cost[r]]
             F == Open(l, marks)
             T == Held(l)
  <2>1. G \in [T -> Int] /\ \A r \in T : G[r] = F[r]
    BY <1>4, <1>6 DEF Open
  <2>2. \A r \in Symbols \ T : F[r] = 0
    BY <1>7 DEF Open
  <2>3. Equity(l, marks) = l.cash + SumFunction(G)
    BY DEF Equity
  <2>4. T \in SUBSET Symbols /\ F \in [Symbols -> Int]
    BY <1>5, <1>6
  <2> SUFFICES SumFunction(G) = SumFunction(F)
    BY <2>3
  <2> HIDE DEF G, F, T
  <2> QED
    BY <2>1, <2>2, <2>4, SymbolsFinite, SumRestrict
<1> QED
  BY <1>2, <1>5, <1>8, <1>9, <1>10

LEMMA SumsType ==
  ASSUME NEW l \in Accounts, Lawful(l), NEW marks \in Marks
  PROVE  Gross(l, marks) \in Int /\ Net(l, marks) \in Int /\ Equity(l, marks) \in Int
<1>1. l.cash \in Int
  BY DEF Accounts
<1> QED
  BY <1>1, SumsOver, SymbolsFinite, SumType

(* What an execution at the mark does to the sums: equity pays the fee.    *)
LEMMA CostsMove ==
  ASSUME NEW l \in Accounts, NEW m \in Accounts, NEW s \in Symbols,
         \A r \in Symbols : r # s => m.cost[r] = l.cost[r]
  PROVE  /\ SumFunction(l.cost) \in Int /\ SumFunction(m.cost) \in Int
         /\ SumFunction(m.cost) = SumFunction(l.cost) + m.cost[s] - l.cost[s]
<1>1. l.cost \in [Symbols -> Int] /\ m.cost \in [Symbols -> Int]
  BY DEF Accounts
<1> QED
  BY <1>1, SymbolsFinite, SumType, SumUpdate

LEMMA EquityPaysTheFee ==
  ASSUME config \in Configs, NEW l \in Accounts, Lawful(l), NEW m \in Accounts, Lawful(m),
         NEW s \in Symbols, NEW lots \in Int, NEW marks \in Marks,
         Executed(l, m, s, lots, marks[s])
  PROVE  Equity(m, marks) = Equity(l, marks) - Cost(Abs(lots * marks[s]))
<1> DEFINE F == Open(l, marks)
           G == Open(m, marks)
           price == marks[s]
           q == l.q[s]
           f == SumFunction(F)
           g == SumFunction(G)
           fee == Cost(Abs(lots * price))
           paid == lots * price
<1>1. /\ F \in [Symbols -> Int] /\ G \in [Symbols -> Int]
      /\ Equity(l, marks) = l.cash + f /\ Equity(m, marks) = m.cash + g
  BY SumsOver
<1>2. \A r \in Symbols : r # s => G[r] = F[r]
  BY DEF Open, Notional, Executed
<1>3. g = f + G[s] - F[s] /\ f \in Int /\ g \in Int
  <2> HIDE DEF F, G
  <2> QED
    BY <1>1, <1>2, SymbolsFinite, SumUpdate, SumType
<1>4. F[s] = q * price - l.cost[s] /\ G[s] = (q + lots) * price - m.cost[s]
  BY DEF Open, Notional, Executed
<1>5. q \in Int /\ price \in Nat
  BY DEF Accounts, Marks
<1>6. (q + lots) * price = q * price + paid /\ q * price \in Int /\ paid \in Int
  BY <1>5
<1>7. fee \in Int
  <2>1. Abs(paid) \in Nat
    BY <1>6 DEF Abs
  <2> QED
    BY <2>1, Fee
<1>8. m.cash - m.cost[s] = l.cash - l.cost[s] + (-paid - fee)
  BY DEF Executed, Payment
<1> DEFINE had == l.cash
           has == m.cash
           was == l.cost[s]
           is == m.cost[s]
           base == q * price
<1>9. had \in Int /\ has \in Int /\ was \in Int /\ is \in Int
  BY DEF Accounts
<1>10. base \in Int /\ F[s] = base - was /\ G[s] = base + paid - is
  <2> HIDE DEF F, G
  <2>1. F[s] = base - was
    BY <1>4, Zenon
  <2> DEFINE wide == (q + lots) * price
  <2>2. G[s] = wide - is /\ wide = base + paid
    BY <1>4, <1>6, Zenon
  <2>3. base \in Int /\ paid \in Int
    BY <1>6
  <2>4. is \in Int /\ was \in Int
    BY <1>9
  <2> HIDE DEF wide, base, paid, is, was
  <2> QED
    BY <2>1, <2>2, <2>3, <2>4
<1>11. has - is = had - was + (-paid - fee)
  BY <1>8
<1>12. Equity(l, marks) = had + f /\ Equity(m, marks) = has + g
  BY <1>1
<1> SUFFICES Equity(m, marks) = Equity(l, marks) - fee
  OBVIOUS
<1> HIDE DEF F, G, f, g, fee, paid, had, has, was, is, base
<1> QED
  BY <1>3, <1>6, <1>7, <1>9, <1>10, <1>11, <1>12

-----------------------------------------------------------------------------
(* Limits.  A function iterated over a set; the search for an opening is   *)
(* one over the intervals whose lower end breaks no limit.                 *)
Iterated(f, X, step, x, n) ==
  f \in [0 .. n -> X] /\ f[0] = x /\ \A i \in 1 .. n : f[i] = step[f[i - 1]]

LEMMA Iterates ==
  ASSUME NEW X, NEW step \in [X -> X], NEW x \in X
  PROVE  \A n \in Nat : \E f : Iterated(f, X, step, x, n)
<1> USE DEF Iterated
<1> DEFINE Works(n) == \E f : Iterated(f, X, step, x, n)
           Reached(n) == {i \in 0 .. n : Works(i)}
<1> SUFFICES ASSUME NEW n \in Nat PROVE Works(n)
  OBVIOUS
<1>1. 0 \in Reached(n)
  <2> DEFINE f == [i \in 0 .. 0 |-> x]
  <2>1. f \in [0 .. 0 -> X] /\ f[0] = x
    OBVIOUS
  <2> HIDE DEF f
  <2>2. Works(0)
    BY <2>1
  <2> QED
    BY <2>2
<1>2. ASSUME NEW m \in 1 .. n, m - 1 \in Reached(n) PROVE m \in Reached(n)
  <2>1. PICK h : /\ h \in [0 .. m - 1 -> X]
                    /\ h[0] = x /\ \A i \in 1 .. m - 1 : h[i] = step[h[i - 1]]
    BY <1>2
  <2> DEFINE f == [i \in 0 .. m |-> IF i = m THEN step[h[m - 1]] ELSE h[i]]
  <2>2. f \in [0 .. m -> X] /\ f[0] = x
    BY <2>1
  <2>3. ASSUME NEW i \in 1 .. m PROVE f[i] = step[f[i - 1]]
    <3>1. f[i - 1] = h[i - 1]
      OBVIOUS
    <3>2. CASE i = m
      BY <3>1, <3>2
    <3>3. CASE i # m
      <4>1. i \in 1 .. m - 1 /\ f[i] = h[i]
        BY <3>3
      <4> HIDE DEF f
      <4> QED
        BY <2>1, <3>1, <4>1
    <3> QED
      BY <3>2, <3>3
  <2> HIDE DEF f
  <2>4. Works(m)
    BY <2>2, <2>3
  <2> QED
    BY <2>4
<1> HIDE DEF Works
<1>3. n \in Reached(n)
  <2> HIDE DEF Reached
  <2> QED
    BY <1>1, <1>2, LoopInduction
<1> QED
  BY <1>3

Unbroken(l, s, post, marks, sizing, turnover, traded) ==
  Violations(l, s, post, marks, sizing, turnover, traded) = {}

(* What an opening is cut to.                                              *)
CutTo(amount, l, s, old, open, marks, sizing, turnover, closing) ==
  /\ amount \in 1 .. Abs(open) /\ ~AddsExhausted(l, s, old, open)
  /\ Unbroken(l, s, old + Sign(open) * amount, marks, sizing,
              turnover + amount, closing + amount)

Limited(r, l, s, old, open, marks, sizing, turnover, closing) ==
  /\ r.open \in Int
  /\ r.open # 0 =>
       \E amount \in Nat : /\ r.open = Sign(open) * amount
                           /\ CutTo(amount, l, s, old, open, marks, sizing, turnover, closing)

LEMMA LimitOpeningIs ==
  ASSUME NEW l, NEW s, NEW old \in Int, NEW open \in Int, NEW marks, NEW sizing,
         NEW turnover, NEW closing
  PROVE  Limited(LimitOpening(l, s, old, open, marks, sizing, turnover, closing),
                 l, s, old, open, marks, sizing, turnover, closing)
<1> DEFINE Broken(amount) ==
             Violations(l, s, old + Sign(open) * amount, marks, sizing,
                        turnover + amount, closing + amount)
           Half(last) == (last.low + last.high) \div 2
           Narrowed(last) ==
             IF Broken(Half(last)) # {} THEN [last EXCEPT !.high = Half(last)]
             ELSE [last EXCEPT !.low = Half(last)]
           Loop(f) == f = [i \in 0 .. Halvings |->
             IF i = 0 THEN [low |-> 0, high |-> Abs(open)]
             ELSE LET last == f[i - 1]
                      middle == (last.low + last.high) \div 2
                  IN IF Broken(middle) # {} THEN [last EXCEPT !.high = middle]
                     ELSE [last EXCEPT !.low = middle]]
           search == CHOOSE f : Loop(f)
           X == {x \in [low : Nat, high : Nat] :
                   /\ x.low <= x.high /\ x.high <= Abs(open)
                   /\ x.low # 0 => Broken(x.low) = {}}
           first == [low |-> 0, high |-> Abs(open)]
           step == [x \in X |-> Narrowed(x)]
           r == LimitOpening(l, s, old, open, marks, sizing, turnover, closing)
<1>1. r = IF open = 0 THEN [open |-> 0, flags |-> {}]
          ELSE IF AddsExhausted(l, s, old, open) THEN [open |-> 0, flags |-> {"adds"}]
          ELSE IF Broken(Abs(open)) = {} THEN [open |-> open, flags |-> {}]
          ELSE [open |-> Sign(open) * search[Halvings].low, flags |-> Broken(Abs(open))]
  BY Zenon DEF LimitOpening
<1>2. Abs(open) \in Nat /\ Sign(open) \in Int /\ Sign(open) * Abs(open) = open
  BY DEF Abs, Sign
<1> HIDE DEF Broken, search, r
<1>3. first \in X
  BY <1>2
<1>4. \A x \in X : Narrowed(x) \in X
  <2> SUFFICES ASSUME NEW x \in X PROVE Narrowed(x) \in X
    OBVIOUS
  <2> DEFINE middle == Half(x)
  <2>1. x.low \in Nat /\ x.high \in Nat /\ x = [low |-> x.low, high |-> x.high]
    OBVIOUS
  <2>2. middle \in Nat /\ x.low <= middle /\ middle <= x.high
    BY <2>1
  <2>3. Narrowed(x) = IF Broken(middle) # {} THEN [low |-> x.low, high |-> middle]
                      ELSE [low |-> middle, high |-> x.high]
    BY <2>1
  <2> HIDE DEF middle, Narrowed
  <2> QED
    BY <1>2, <2>1, <2>2, <2>3
<1>5. step \in [X -> X]
  BY <1>4
<1>6. PICK g : Iterated(g, X, step, first, Halvings)
  <2>1. Halvings \in Nat
    BY DEF Halvings
  <2> HIDE DEF X, step, first
  <2>2. \A n \in Nat : \E f : Iterated(f, X, step, first, n)
    BY <1>3, <1>5, Iterates
  <2> QED
    BY <2>1, <2>2
<1>7. Halvings = 8
  BY DEF Halvings
<1>8. Loop(g)
  <2>1. ASSUME NEW i \in 0 .. Halvings
        PROVE  g[i] = IF i = 0 THEN first ELSE Narrowed(g[i - 1])
    <3>1. i # 0 => g[i - 1] \in X /\ g[i] = step[g[i - 1]]
      <4> HIDE DEF X, step, first
      <4> QED
        BY <1>6, <1>7 DEF Iterated
    <3>2. g[0] = first
      BY <1>6 DEF Iterated
    <3> HIDE DEF X, first, Narrowed
    <3> QED
      BY <3>1, <3>2
  <2>2. g = [i \in 0 .. Halvings |-> IF i = 0 THEN first ELSE Narrowed(g[i - 1])]
    <3>1. g \in [0 .. Halvings -> X]
      BY <1>6 DEF Iterated
    <3> HIDE DEF X, first, Narrowed
    <3> QED
      BY <2>1, <3>1
  <2> QED
    BY <2>2, Zenon
<1>9. Loop(search)
  <2> HIDE DEF Loop
  <2> QED
    BY <1>8 DEF search
<1>10. search = [i \in 0 .. Halvings |-> IF i = 0 THEN first ELSE Narrowed(search[i - 1])]
  BY <1>9, Zenon
<1>11. search[Halvings] \in X
  <2> DEFINE Reached == {i \in 0 .. Halvings : search[i] \in X}
  <2> HIDE DEF X, first, Narrowed
  <2>1. 0 \in Reached
    BY <1>3, <1>7, <1>10
  <2>2. ASSUME NEW i \in 1 .. Halvings, i - 1 \in Reached PROVE i \in Reached
    <3>1. search[i] = Narrowed(search[i - 1]) /\ search[i - 1] \in X
      BY <1>7, <1>10, <2>2
    <3> QED
      BY <1>4, <1>7, <3>1
  <2>3. Halvings \in Nat
    BY <1>7
  <2>4. Halvings \in Reached
    <3> HIDE DEF Reached
    <3> QED
      BY <2>1, <2>2, <2>3, LoopInduction
  <2> QED
    BY <2>4
<1> DEFINE low == search[Halvings].low
<1>12. low \in Nat /\ low <= Abs(open) /\ (low # 0 => Broken(low) = {})
  BY <1>11, <1>2
<1> HIDE DEF low
<1>13. ASSUME NEW amount \in 1 .. Abs(open), Broken(amount) = {}, ~AddsExhausted(l, s, old, open)
       PROVE  CutTo(amount, l, s, old, open, marks, sizing, turnover, closing)
  BY <1>13 DEF CutTo, Broken, Unbroken
<1>14. CASE open = 0 \/ AddsExhausted(l, s, old, open)
  <2>1. r.open = 0
    BY <1>1, <1>14
  <2> QED
    BY <2>1 DEF Limited, r
<1>15. CASE open # 0 /\ ~AddsExhausted(l, s, old, open) /\ Broken(Abs(open)) = {}
  <2>1. r.open = open
    BY <1>1, <1>15
  <2>2. Abs(open) \in 1 .. Abs(open)
    BY <1>15 DEF Abs
  <2> QED
    BY <1>2, <1>13, <1>15, <2>1, <2>2 DEF Limited, r
<1>16. CASE open # 0 /\ ~AddsExhausted(l, s, old, open) /\ Broken(Abs(open)) # {}
  <2>1. r.open = Sign(open) * low
    BY <1>1, <1>16 DEF low
  <2>2. r.open \in Int
    BY <1>2, <1>12, <2>1
  <2>3. r.open # 0 => low # 0
    BY <1>2, <2>1
  <2>4. low # 0 => CutTo(low, l, s, old, open, marks, sizing, turnover, closing)
    BY <1>2, <1>12, <1>13, <1>16
  <2> QED
    BY <1>12, <2>1, <2>2, <2>3, <2>4 DEF Limited, r
<1> QED
  BY <1>14, <1>15, <1>16

-----------------------------------------------------------------------------
(* The parts of a signal.  What closes goes from the position towards      *)
(* zero; what opens begins where the close has left off, at zero after a   *)
(* close that is not empty, and never leads back across it.                *)
Closes(close, old) ==
  /\ close \in Int
  /\ old >= 0 => -old <= close /\ close <= 0
  /\ old <= 0 => 0 <= close /\ close <= -old

Opens(open, close, old) ==
  /\ open \in Int
  /\ open > 0 => old + close >= 0
  /\ open < 0 => old + close <= 0
  /\ open # 0 /\ close # 0 => close = -old /\ (old > 0 => open < 0) /\ (old < 0 => open > 0)

Parts(legs, old) == Closes(legs.close, old) /\ Opens(legs.open, legs.close, old)

LEMMA ProductSign ==
  ASSUME NEW m \in Int, NEW n \in Int
  PROVE  /\ m * n \in Int
         /\ (m * n < 0) <=> (m < 0 /\ n > 0) \/ (m > 0 /\ n < 0)
         /\ (m * n > 0) <=> (m > 0 /\ n > 0) \/ (m < 0 /\ n < 0)
<1>1. CASE m = 0 \/ n = 0
  BY <1>1
<1>2. CASE m > 0 /\ n > 0
  BY <1>2
<1>3. CASE m > 0 /\ n < 0
  BY <1>3
<1>4. CASE m < 0 /\ n > 0
  BY <1>4
<1>5. CASE m < 0 /\ n < 0
  BY <1>5
<1> QED
  BY <1>1, <1>2, <1>3, <1>4, <1>5

LEMMA ReverseParts ==
  ASSUME NEW old \in Int, NEW signed \in Int
  PROVE  Parts(ReverseLegs(old, signed), old)
<1>1. (old * signed < 0) <=> (old < 0 /\ signed > 0) \/ (old > 0 /\ signed < 0)
  BY ProductSign
<1>2. old * signed \in Int
  OBVIOUS
<1> DEFINE product == old * signed
<1>3. ReverseLegs(old, signed) =
        IF product >= 0 THEN [close |-> 0, open |-> signed]
        ELSE IF config.reverse = "flatten_only" THEN [close |-> -old, open |-> 0]
        ELSE IF config.reverse = "flatten_then_open" THEN [close |-> -old, open |-> signed]
        ELSE IF Abs(signed) <= Abs(old) THEN [close |-> signed, open |-> 0]
        ELSE [close |-> -old, open |-> signed + old]
  BY DEF ReverseLegs
<1> HIDE DEF product
<1>4. CASE product >= 0
  <2>1. ReverseLegs(old, signed) = [close |-> 0, open |-> signed]
    BY <1>3, <1>4
  <2>2. (signed > 0 => old >= 0) /\ (signed < 0 => old <= 0)
    BY <1>1, <1>4 DEF product
  <2> QED
    BY <2>1, <2>2 DEF Parts, Closes, Opens
<1>5. CASE ~(product >= 0)
  <2>1. (old < 0 /\ signed > 0) \/ (old > 0 /\ signed < 0)
    BY <1>1, <1>2, <1>5 DEF product
  <2> DEFINE legs == ReverseLegs(old, signed)
  <2>2. \/ legs = [close |-> -old, open |-> 0]
        \/ legs = [close |-> -old, open |-> signed]
        \/ Abs(signed) <= Abs(old) /\ legs = [close |-> signed, open |-> 0]
        \/ ~(Abs(signed) <= Abs(old)) /\ legs = [close |-> -old, open |-> signed + old]
    BY <1>3, <1>5
  <2> HIDE DEF legs
  <2>3. Parts(legs, old)
    BY <2>1, <2>2 DEF Parts, Closes, Opens, Abs
  <2> QED
    BY <2>3 DEF legs
<1> QED
  BY <1>4, <1>5

LEMMA TargetParts ==
  ASSUME NEW old \in Int, NEW target \in Int
  PROVE  Parts(TargetLegs(old, target), old)
<1>1. (old * target < 0) <=> (old < 0 /\ target > 0) \/ (old > 0 /\ target < 0)
  BY ProductSign
<1> DEFINE legs == TargetLegs(old, target)
<1>2. \/ old * target < 0 /\ legs = [close |-> -old, open |-> target]
      \/ ~(old * target < 0) /\ Abs(target) < Abs(old) /\ legs = [close |-> target - old, open |-> 0]
      \/ ~(old * target < 0) /\ ~(Abs(target) < Abs(old)) /\ legs = [close |-> 0, open |-> target - old]
  BY DEF TargetLegs
<1> HIDE DEF legs
<1>3. Parts(legs, old)
  <2>1. CASE old * target < 0
    <3>1. legs = [close |-> -old, open |-> target]
      BY <1>2, <2>1
    <3> QED
      BY <1>1, <2>1, <3>1 DEF Parts, Closes, Opens
  <2>2. CASE ~(old * target < 0)
    <3>1. ~((old < 0 /\ target > 0) \/ (old > 0 /\ target < 0))
      BY <1>1, <2>2
    <3>2. \/ Abs(target) < Abs(old) /\ legs = [close |-> target - old, open |-> 0]
          \/ ~(Abs(target) < Abs(old)) /\ legs = [close |-> 0, open |-> target - old]
      BY <1>2, <2>2
    <3> QED
      BY <3>1, <3>2 DEF Parts, Closes, Opens, Abs
  <2> QED
    BY <2>1, <2>2
<1> QED
  BY <1>3 DEF legs

LEMMA BaseType ==
  ASSUME config \in Configs, NEW l, Good(l), NEW old \in Int, NEW sizing \in Int,
         config.mode # "target_weight",
         config.mode = "position_fraction" /\ old = 0 => config.zero = "bootstrap_fixed_notional"
  PROVE  BaseNotional(l, old, sizing) \in Int
<1>1. LegalFields(config) /\ LegalSizing(config) /\ config.leverage \in Nat
  BY PositionAssumption, Numbers
<1>2. config.mode \in AmountModes => config.amount \in Nat
  BY <1>1 DEF LegalFields, LegalSizing
<1>3. config.mode \in FractionModes => config.fraction \in Nat
  BY <1>1 DEF LegalFields, LegalSizing
<1>4. config.mode = "position_fraction" /\ old = 0 => config.bootstrap \in Nat
  BY <1>1 DEF LegalFields, LegalSizing
<1>5. config.mode \in {"fixed_margin", "fixed_notional", "equity_fraction",
                       "equity_margin_fraction", "position_fraction", "rolling_margin"}
  BY <1>1 DEF LegalFields, AmountModes, FractionModes
<1>6. CASE config.mode = "fixed_margin" \/ config.mode = "fixed_notional"
  BY <1>1, <1>2, <1>6 DEF BaseNotional, AmountModes
<1>7. CASE config.mode = "rolling_margin"
  <2>1. l.margin \in Int
    BY <1>7, RollingNumbers DEF Good, Rounds, Rolling
  <2> QED
    BY <1>1, <1>7, <2>1 DEF BaseNotional
<1>8. CASE config.mode = "equity_margin_fraction"
  <2>1. config.fraction * sizing * config.leverage \in Int
    BY <1>1, <1>3, <1>8 DEF FractionModes
  <2> QED
    BY <1>8, <2>1 DEF BaseNotional
<1>9. CASE config.mode = "equity_fraction"
  <2>1. config.fraction * sizing \in Int
    BY <1>3, <1>9 DEF FractionModes
  <2> QED
    BY <1>9, <2>1 DEF BaseNotional
<1>10. CASE config.mode = "position_fraction"
  <2>1. config.fraction \in Nat /\ Abs(old) \in Nat
    BY <1>3, <1>10 DEF FractionModes, Abs
  <2>2. config.fraction * Abs(old) \in Int
    BY <2>1
  <2>3. BaseNotional(l, old, sizing) =
          IF old # 0 THEN (config.fraction * Abs(old)) \div 4 ELSE config.bootstrap
    BY <1>10 DEF BaseNotional
  <2> QED
    BY <1>4, <1>10, <2>2, <2>3
<1> QED
  BY <1>5, <1>6, <1>7, <1>8, <1>9, <1>10

LEMMA LegsParts ==
  ASSUME config \in Configs, NEW l, Good(l), NEW old \in Int, NEW sizing \in Int,
         NEW row, row.side \in {"LONG", "SHORT", "FLAT"}, row.weight \in Int,
         config.zero = "error" => old # 0
  PROVE  Parts(Legs(l, row, old, sizing), old)
<1>1. LegalFields(config) /\ LegalSizing(config)
  BY PositionAssumption
<1>2. CASE row.side = "FLAT"
  <2>1. Legs(l, row, old, sizing) = [close |-> -old, open |-> 0]
    BY <1>2 DEF Legs, Skipped
  <2> QED
    BY <2>1 DEF Parts, Closes, Opens
<1>3. CASE row.side # "FLAT" /\ Skipped(row, old)
  <2>1. Legs(l, row, old, sizing) = [close |-> 0, open |-> 0]
    BY <1>3 DEF Legs, Skipped
  <2> QED
    BY <2>1 DEF Parts, Closes, Opens
<1>4. CASE row.side # "FLAT" /\ ~Skipped(row, old) /\ config.mode = "target_weight"
  <2> DEFINE target == (row.weight * sizing) \div 4
  <2>1. Legs(l, row, old, sizing) = TargetLegs(old, target)
    BY <1>4 DEF Legs
  <2>2. target \in Int
    <3>1. row.weight * sizing \in Int
      OBVIOUS
    <3> QED
      BY <3>1
  <2> HIDE DEF target
  <2> QED
    BY <2>1, <2>2, TargetParts
<1>5. CASE row.side # "FLAT" /\ ~Skipped(row, old) /\ config.mode # "target_weight"
  <2> DEFINE base == BaseNotional(l, old, sizing)
             signed == IF row.side = "LONG" THEN base ELSE -base
  <2>1. Legs(l, row, old, sizing) = ReverseLegs(old, signed)
    BY <1>5 DEF Legs
  <2>2. config.mode = "position_fraction" /\ old = 0 => config.zero = "bootstrap_fixed_notional"
    BY <1>1, <1>5 DEF Skipped, LegalFields, LegalSizing
  <2>3. base \in Int
    BY <1>5, <2>2, BaseType
  <2>4. signed \in Int
    BY <2>3
  <2> HIDE DEF base, signed
  <2> QED
    BY <2>1, <2>4, ReverseParts
<1> QED
  BY <1>2, <1>3, <1>4, <1>5

LEMMA CutCloses ==
  ASSUME config \in Configs, NEW old \in Int, NEW close, Closes(close, old),
         NEW sizing \in Int, NEW turnover \in Int
  PROVE  Closes(LimitClose(close, sizing, turnover), old)
<1> DEFINE limit == (config.maxTurnover * sizing) \div 4
           left == IF limit > turnover THEN limit - turnover ELSE 0
<1>1. CASE config.maxTurnover = Null
  BY <1>1 DEF LimitClose
<1>2. CASE config.maxTurnover # Null
  <2>1. config.maxTurnover \in Nat
    BY <1>2, PositionAssumption DEF LegalFields
  <2>2. config.maxTurnover * sizing \in Int
    BY <2>1
  <2>3. limit \in Int
    BY <2>2
  <2>4. LimitClose(close, sizing, turnover) = Sign(close) * Least(Abs(close), left)
    BY <1>2 DEF LimitClose
  <2> HIDE DEF limit
  <2>5. left \in Nat
    BY <2>3
  <2> HIDE DEF left
  <2>6. close \in Int
    BY DEF Closes
  <2>7. Closes(Sign(close) * Least(Abs(close), left), old)
    <3> DEFINE size == Least(Abs(close), left)
    <3>1. size \in Nat /\ size <= Abs(close)
      BY <2>5, <2>6 DEF Least, Abs
    <3> DEFINE cut == Sign(close) * size
    <3> SUFFICES Closes(cut, old)
      OBVIOUS
    <3> HIDE DEF size
    <3>2. cut = IF close < 0 THEN -size ELSE size
      BY <3>1 DEF Sign
    <3> HIDE DEF cut
    <3> QED
      BY <2>6, <3>1, <3>2 DEF Closes, Abs
  <2> QED
    BY <2>4, <2>7
<1> QED
  BY <1>1, <1>2

(* Rounding to lots: both parts lose less than a lot, and a full close     *)
(* nothing.                                                                *)
ClosedLots(q, price, close) ==
  IF close = -(q * price) THEN -q ELSE Sign(close) * (Abs(close) \div price)

OpenedLots(open, price) == Sign(open) * (Abs(open) \div price)

Towards(n, amount) == IF amount < 0 THEN -n ELSE n

LEMMA RoundParts ==
  ASSUME NEW m \in Int, NEW price \in Nat \ {0}
  PROVE  \E n \in Nat : /\ Sign(m) * (Abs(m) \div price) = Towards(n, m)
                        /\ n * price <= Abs(m) /\ Abs(m) < n * price + price
<1>1. Abs(m) \in Nat
  BY DEF Abs
<1> DEFINE n == Abs(m) \div price
<1>2. n \in Int /\ n * price <= Abs(m) /\ Abs(m) < n * price + price
  BY <1>1, Quotient
<1> HIDE DEF n
<1>3. n >= 0
  <2> SUFFICES ASSUME n <= -1 PROVE FALSE
    BY <1>2
  <2>1. n * price <= -price
    BY <1>2
  <2> QED
    BY <1>1, <1>2, <2>1
<1>4. Sign(m) * n = Towards(n, m)
  BY <1>2 DEF Sign, Towards
<1> QED
  BY <1>2, <1>3, <1>4 DEF n

LEMMA ClosedIs ==
  ASSUME NEW q \in Int, NEW price \in Nat \ {0}, NEW close, Closes(close, q * price)
  PROVE  /\ Closes(ClosedLots(q, price, close), q)
         /\ Abs(ClosedLots(q, price, close) * price) <= Abs(close)
         /\ close = -(q * price) => ClosedLots(q, price, close) = -q
         /\ close = 0 => ClosedLots(q, price, close) = 0
<1> DEFINE old == q * price
           lots == ClosedLots(q, price, close)
<1>1. old \in Int /\ close \in Int /\ (old >= 0 <=> q >= 0) /\ (old <= 0 <=> q <= 0)
      /\ (old = 0 <=> q = 0)
  <2>1. old \in Int /\ close \in Int
    BY DEF Closes
  <2>2. CASE q > 0
    BY <2>1, <2>2
  <2>3. CASE q < 0
    BY <2>1, <2>3
  <2>4. CASE q = 0
    BY <2>1, <2>4
  <2> QED
    BY <2>2, <2>3, <2>4
<1>2. CASE close = -old
  <2>1. lots = -q
    BY <1>2 DEF ClosedLots
  <2>2. (-q) * price = -old
    OBVIOUS
  <2> HIDE DEF lots, old
  <2>3. Abs(lots * price) = Abs(close)
    BY <1>2, <2>1, <2>2
  <2>4. Closes(lots, q)
    BY <2>1 DEF Closes
  <2>5. Abs(close) \in Int
    BY <1>1 DEF Abs
  <2> QED
    BY <1>1, <1>2, <2>1, <2>3, <2>4, <2>5 DEF lots, old
<1>3. CASE close # -old
  <2>1. PICK n \in Nat : /\ Sign(close) * (Abs(close) \div price) = Towards(n, close)
                         /\ n * price <= Abs(close) /\ Abs(close) < n * price + price
    BY <1>1, RoundParts
  <2>2. lots = Towards(n, close)
    BY <1>3, <2>1 DEF ClosedLots
  <2>3. Closes(close, old)
    OBVIOUS
  <2> HIDE DEF lots, old
  <2>4. close = 0 => n = 0
    <3> SUFFICES ASSUME close = 0, n >= 1 PROVE FALSE
      BY <2>1
    <3>1. n * price >= price
      OBVIOUS
    <3> QED
      BY <2>1, <3>1 DEF Abs
  <2>5. Abs(q) * price = Abs(old)
    <3>1. CASE q >= 0
      BY <1>1, <3>1 DEF Abs, old
    <3>2. CASE q < 0
      BY <1>1, <3>2 DEF Abs, old
    <3> QED
      BY <3>1, <3>2
  <2>6. n <= Abs(q)
    <3>1. Abs(q) \in Nat /\ Abs(old) \in Nat
      BY <1>1 DEF Abs
    <3>2. Abs(close) <= Abs(old)
      BY <1>1, <2>3 DEF Abs, Closes
    <3>3. Abs(close) \in Int /\ n * price \in Int
      BY <1>1, <2>1 DEF Abs
    <3> DEFINE size == Abs(q)
    <3> HIDE DEF size
    <3> SUFFICES ASSUME n >= size + 1 PROVE FALSE
      BY <3>1 DEF size
    <3>4. size \in Nat /\ size * price = Abs(old) /\ n >= size + 1
      BY <2>5, <3>1 DEF size
    <3>5. n * price >= size * price + price
      BY <3>4
    <3> QED
      BY <2>1, <3>1, <3>2, <3>3, <3>4, <3>5
  <2>7. Closes(lots, q)
    BY <1>1, <2>2, <2>3, <2>4, <2>6 DEF Closes, Towards, Abs
  <2>8. Abs(lots * price) = n * price
    <3>1. n * price \in Nat /\ (-n) * price = -(n * price)
      OBVIOUS
    <3>2. Abs(n * price) = n * price /\ Abs(-(n * price)) = n * price
      BY <3>1 DEF Abs
    <3> QED
      BY <2>2, <3>1, <3>2 DEF Towards
  <2> QED
    BY <1>3, <2>1, <2>2, <2>4, <2>7, <2>8 DEF lots, old, Towards
<1> QED
  BY <1>2, <1>3

(* A signal in lots: the position ends on the near side of what was asked  *)
(* for and less than a lot from it, and grows only by an opening.          *)
Near(position, post, price) ==
  Abs(position) <= Abs(post) /\ Abs(post - position) < price

Grows(q, new) == q * new > 0 /\ Abs(new) > Abs(q)

Rounded(q, lots, price, close, open) ==
  /\ lots \in Int
  /\ open # 0 => Near((q + lots) * price, q * price + close + open, price)
  /\ Abs(lots * price) <= Abs(close) + Abs(open)
  /\ Grows(q, q + lots) => q # 0 /\ open # 0 /\ (q * price + close) * open > 0

LEMMA LotsAre ==
  ASSUME NEW q \in Int, NEW price \in Nat \ {0},
         NEW close, Closes(close, q * price), NEW open, Opens(open, close, q * price)
  PROVE  Rounded(q, ClosedLots(q, price, close) + OpenedLots(open, price), price, close, open)
<1> DEFINE old == q * price
           closed == ClosedLots(q, price, close)
           opened == OpenedLots(open, price)
           lots == closed + opened
<1>1. close \in Int /\ open \in Int
  BY DEF Closes, Opens
<1>2. /\ Closes(closed, q) /\ Abs(closed * price) <= Abs(close)
      /\ close = -(q * price) => closed = -q
      /\ close = 0 => closed = 0
  BY ClosedIs
<1>3. PICK n \in Nat : /\ opened = Towards(n, open) /\ n * price <= Abs(open)
                       /\ Abs(open) < n * price + price
  BY <1>1, RoundParts DEF OpenedLots
<1>4. closed \in Int /\ opened \in Int /\ lots \in Int
  BY <1>2, <1>3 DEF Closes, Towards
<1>5. open = 0 => n = 0
  <2> SUFFICES ASSUME open = 0, n >= 1 PROVE FALSE
    BY <1>3
  <2>1. n * price >= price
    OBVIOUS
  <2> QED
    BY <1>3, <2>1 DEF Abs
<1> SUFFICES Rounded(q, lots, price, close, open)
  OBVIOUS
<1>6. Abs(lots * price) <= Abs(close) + Abs(open)
  <2> DEFINE c == closed * price
             o == opened * price
  <2>1. lots * price = c + o /\ c \in Int /\ o \in Int
    BY <1>4
  <2>2. Abs(o) <= Abs(open)
    <3>1. n * price \in Nat /\ (-n) * price = -(n * price)
      BY <1>3
    <3>2. o = n * price \/ o = -(n * price)
      BY <1>3, <3>1 DEF Towards
    <3> HIDE DEF o
    <3> QED
      BY <1>1, <1>3, <3>1, <3>2 DEF Abs
  <2>3. Abs(c) <= Abs(close)
    BY <1>2
  <2> DEFINE whole == lots * price
  <2> SUFFICES Abs(whole) <= Abs(close) + Abs(open)
    OBVIOUS
  <2>4. whole = c + o
    BY <2>1
  <2> HIDE DEF c, o, whole
  <2> QED
    BY <1>1, <2>1, <2>2, <2>3, <2>4 DEF Abs
<1>7. open # 0 => Near((q + lots) * price, q * price + close + open, price)
  <2> SUFFICES ASSUME open # 0 PROVE Near((q + lots) * price, q * price + close + open, price)
    OBVIOUS
  <2> DEFINE base == q + closed
             start == base * price
             some == n * price
             position == (q + lots) * price
             post == q * price + close + open
  <2>1. base \in Int /\ start \in Int /\ some \in Nat
    BY <1>3, <1>4
  <2>2. start = q * price + close
    <3>1. CASE close = 0
      BY <1>2, <3>1
    <3>2. CASE close # 0
      <4>1. close = -(q * price)
        BY <3>2 DEF Opens
      <4>2. base = 0
        BY <1>2, <1>4, <4>1
      <4> HIDE DEF base
      <4>3. start = 0
        BY <4>2
      <4> QED
        BY <1>1, <4>1, <4>3
    <3> QED
      BY <3>1, <3>2
  <2>3. (open > 0 => start >= 0) /\ (open < 0 => start <= 0)
    BY <2>2 DEF Opens
  <2>4. position = start + (IF open < 0 THEN -some ELSE some)
    <3>1. q + lots = base + opened /\ (base + opened) * price = start + opened * price
      BY <1>4
    <3>2. (-n) * price = -some
      OBVIOUS
    <3>3. opened * price = IF open < 0 THEN -some ELSE some
      BY <1>3, <3>2 DEF Towards
    <3>4. position = start + opened * price
      BY <3>1
    <3> HIDE DEF start, some, position
    <3> QED
      BY <3>3, <3>4
  <2>5. post = start + open
    BY <2>2
  <2>6. some <= Abs(open) /\ Abs(open) < some + price
    BY <1>3
  <2> SUFFICES Near(position, post, price)
    OBVIOUS
  <2> HIDE DEF base, start, some, position, post
  <2> QED
    BY <1>1, <2>1, <2>3, <2>4, <2>5, <2>6 DEF Near, Abs
<1>8. Grows(q, q + lots) => q # 0 /\ open # 0 /\ (q * price + close) * open > 0
  <2> DEFINE new == q + lots
  <2> SUFFICES ASSUME q * new > 0, Abs(new) > Abs(q)
               PROVE  q # 0 /\ open # 0 /\ (q * price + close) * open > 0
    BY DEF Grows
  <2>1. new \in Int /\ new = q + closed + opened
    BY <1>4
  <2> HIDE DEF new, closed, opened, lots
  <2>2. (q > 0 /\ new > 0) \/ (q < 0 /\ new < 0)
    BY <2>1, ProductSign
  <2>3. open # 0
    <3> SUFFICES ASSUME open = 0 PROVE FALSE
      OBVIOUS
    <3>1. opened = 0
      BY <1>3, <1>5 DEF Towards
    <3> QED
      BY <1>2, <1>4, <2>1, <2>2, <3>1 DEF Closes, Abs
  <2>4. old \in Int /\ (q > 0 => old > 0) /\ (q < 0 => old < 0)
    OBVIOUS
  <2> HIDE DEF old
  <2>5. Opens(open, close, old) /\ (close = -old => closed = -q)
    BY <1>2 DEF old
  <2>6. close = 0
    <3> SUFFICES ASSUME close # 0 PROVE FALSE
      OBVIOUS
    <3>1. closed = -q
      BY <2>3, <2>5 DEF Opens
    <3>2. (old > 0 => open < 0) /\ (old < 0 => open > 0)
      BY <2>3, <2>5 DEF Opens
    <3> QED
      BY <1>1, <1>3, <1>4, <2>1, <2>2, <2>4, <3>1, <3>2 DEF Towards
  <2>7. (old > 0 /\ open > 0) \/ (old < 0 /\ open < 0)
    BY <1>1, <2>2, <2>3, <2>4, <2>5, <2>6 DEF Opens
  <2>8. old * open > 0
    BY <1>1, <2>4, <2>7, ProductSign
  <2>9. q * price + close = old
    BY <2>4, <2>6 DEF old
  <2> QED
    BY <2>2, <2>3, <2>8, <2>9
<1> HIDE DEF lots
<1> QED
  BY <1>4, <1>6, <1>7, <1>8 DEF Rounded

(* What breaking no limit says.                                            *)
AtMost(limit, value, sizing) == limit # Null => 4 * value <= limit * sizing

Gross0(l, s, post, marks) == SumFunction([r \in Symbols |-> Abs(After(l, s, post, marks)[r])])

Net0(l, s, post, marks) == SumFunction(After(l, s, post, marks))

Backed(gross, equity) ==
  gross + config.leverage * config.buffer <= config.leverage * equity

LEMMA AfterType ==
  ASSUME NEW l \in Accounts, Lawful(l), NEW s \in Symbols, NEW marks \in Marks,
         NEW post \in Int
  PROVE  LET exposed == [r \in Symbols |-> Abs(After(l, s, post, marks)[r])] IN
         /\ After(l, s, post, marks) \in [Symbols -> Int]
         /\ exposed \in [Symbols -> Int]
         /\ Gross0(l, s, post, marks) \in Int /\ Net0(l, s, post, marks) \in Int
<1> DEFINE F == After(l, s, post, marks)
           exposed == [r \in Symbols |-> Abs(F[r])]
<1>1. F \in [Symbols -> Int]
  BY SumsOver DEF After
<1>2. exposed \in [Symbols -> Int]
  <2> HIDE DEF F
  <2> QED
    BY <1>1 DEF Abs
<1>3. Gross0(l, s, post, marks) = SumFunction(exposed) /\ Net0(l, s, post, marks) = SumFunction(F)
  BY DEF Gross0, Net0
<1> HIDE DEF F, exposed
<1>4. SumFunction(exposed) \in Int /\ SumFunction(F) \in Int
  BY <1>1, <1>2, SymbolsFinite, SumType
<1> QED
  BY <1>1, <1>2, <1>3, <1>4 DEF F, exposed

LEMMA UnbrokenIs ==
  ASSUME config \in Configs, NEW l, Good(l), NEW s \in Symbols, NEW marks \in Marks,
         NEW post \in Int, NEW sizing \in Int, NEW turnover \in Int, NEW traded \in Nat,
         Unbroken(l, s, post, marks, sizing, turnover, traded)
  PROVE  /\ AtMost(config.maxGross, Gross0(l, s, post, marks), sizing)
         /\ AtMost(config.maxNet, Abs(Net0(l, s, post, marks)), sizing)
         /\ AtMost(config.maxWeight, Abs(post), sizing)
         /\ config.maxSymbol # Null => Abs(post) <= config.maxSymbol
         /\ AtMost(config.maxTurnover, turnover, sizing)
         /\ Backed(Gross0(l, s, post, marks), Equity(l, marks) - Cost(traded))
<1> DEFINE gross == Gross0(l, s, post, marks)
           net == Net0(l, s, post, marks)
           Beyond(limit, value) == limit # Null /\ 4 * value > limit * sizing
           Breach(code, broken) == IF broken THEN {code} ELSE {}
           held == gross + config.leverage * config.buffer
                     > config.leverage * (Equity(l, marks) - Cost(traded))
           all == {Breach("gross", Beyond(config.maxGross, gross)),
                   Breach("net", Beyond(config.maxNet, Abs(net))),
                   Breach("weight", Beyond(config.maxWeight, Abs(post))),
                   Breach("symbol", config.maxSymbol # Null /\ Abs(post) > config.maxSymbol),
                   Breach("turnover", Beyond(config.maxTurnover, turnover)),
                   Breach("margin", held)}
<1>1. UNION all = {}
  BY Zenon DEF Unbroken, Violations, Gross0, Net0
<1>2. \A x \in all : x = {}
  <2> HIDE DEF all
  <2> QED
    BY <1>1
<1>3. /\ Breach("gross", Beyond(config.maxGross, gross)) = {}
      /\ Breach("net", Beyond(config.maxNet, Abs(net))) = {}
      /\ Breach("weight", Beyond(config.maxWeight, Abs(post))) = {}
      /\ Breach("symbol", config.maxSymbol # Null /\ Abs(post) > config.maxSymbol) = {}
      /\ Breach("turnover", Beyond(config.maxTurnover, turnover)) = {}
      /\ Breach("margin", held) = {}
  <2> HIDE DEF Breach, held, Beyond, gross, net
  <2> QED
    BY <1>2
<1>4. /\ ~Beyond(config.maxGross, gross) /\ ~Beyond(config.maxNet, Abs(net))
      /\ ~Beyond(config.maxWeight, Abs(post))
      /\ ~(config.maxSymbol # Null /\ Abs(post) > config.maxSymbol)
      /\ ~Beyond(config.maxTurnover, turnover) /\ ~held
  <2> HIDE DEF held, Beyond, gross, net
  <2> QED
    BY <1>3
<1>5. /\ gross \in Int /\ net \in Int /\ Equity(l, marks) \in Int /\ Cost(traded) \in Int
  BY AfterType, SumsType, Fee DEF Good
<1>6. /\ config.maxGross # Null => config.maxGross \in Int
      /\ config.maxNet # Null => config.maxNet \in Int
      /\ config.maxWeight # Null => config.maxWeight \in Int
      /\ config.maxSymbol # Null => config.maxSymbol \in Int
      /\ config.maxTurnover # Null => config.maxTurnover \in Int
  BY PositionAssumption DEF LegalFields
<1>7. Abs(net) \in Int /\ Abs(post) \in Int
  BY <1>5 DEF Abs
<1>8. ASSUME NEW limit, limit # Null => limit \in Int, NEW value \in Int, ~Beyond(limit, value)
      PROVE  AtMost(limit, value, sizing)
  <2> SUFFICES ASSUME limit # Null PROVE 4 * value <= limit * sizing
    BY DEF AtMost
  <2>1. limit * sizing \in Int
    BY <1>8
  <2> QED
    BY <1>8, <2>1
<1>9. Backed(gross, Equity(l, marks) - Cost(traded))
  <2> DEFINE equity == Equity(l, marks) - Cost(traded)
             some == config.leverage * config.buffer
             limit == config.leverage * equity
  <2>1. equity \in Int /\ config.leverage \in Nat /\ config.buffer \in Nat
    BY <1>5, Numbers
  <2>2. some \in Int /\ limit \in Int
    <3> HIDE DEF equity
    <3> QED
      BY <2>1
  <2>3. ~(gross + some > limit)
    BY <1>4
  <2> SUFFICES gross + some <= limit
    BY DEF Backed
  <2> HIDE DEF some, limit, gross
  <2> QED
    BY <1>5, <2>2, <2>3
<1> HIDE DEF gross, net, Beyond
<1>10. config.maxSymbol # Null => Abs(post) <= config.maxSymbol
  BY <1>4, <1>6, <1>7
<1>11. /\ AtMost(config.maxGross, gross, sizing)
       /\ AtMost(config.maxNet, Abs(net), sizing)
       /\ AtMost(config.maxWeight, Abs(post), sizing)
       /\ AtMost(config.maxTurnover, turnover, sizing)
  BY <1>4, <1>5, <1>6, <1>7, <1>8
<1> QED
  BY <1>9, <1>10, <1>11 DEF gross, net

(* An opening within the limits stays within them once rounded and         *)
(* executed, the net exposure to within a lot.                             *)
RowWithin(row) ==
  LET Within(limit, value) == limit = Null \/ 4 * value <= limit * row.sizing
  IN row.opened =>
       /\ Within(config.maxGross, row.gross)
       /\ config.maxNet = Null \/ 4 * (row.net - row.price) < config.maxNet * row.sizing
       /\ Within(config.maxWeight, Abs(row.position * row.price))
       /\ config.maxSymbol = Null \/ Abs(row.position * row.price) <= config.maxSymbol
       /\ Within(config.maxTurnover, row.turnover)
       /\ row.gross + config.leverage * config.buffer <= config.leverage * row.equity

LEMMA ExposureShrinks ==
  ASSUME NEW l \in Accounts, Lawful(l), NEW m \in Accounts, Lawful(m), NEW s \in Symbols,
         NEW marks \in Marks, NEW post \in Int,
         \A r \in Symbols : r # s => m.q[r] = l.q[r],
         Near(Notional(m, s, marks), post, marks[s])
  PROVE  /\ Gross(m, marks) <= Gross0(l, s, post, marks)
         /\ Abs(Net(m, marks)) - marks[s] < Abs(Net0(l, s, post, marks))
<1> DEFINE F == After(l, s, post, marks)
           E == [r \in Symbols |-> Abs(F[r])]
           position == Notional(m, s, marks)
           price == marks[s]
<1>1. F \in [Symbols -> Int] /\ E \in [Symbols -> Int]
  BY AfterType
<1>2. /\ Exposures(m, marks) \in [Symbols -> Int] /\ Notionals(m, marks) \in [Symbols -> Int]
      /\ Gross(m, marks) = SumFunction(Exposures(m, marks))
      /\ Net(m, marks) = SumFunction(Notionals(m, marks))
      /\ position \in Int
  BY SumsOver
<1>3. Gross0(l, s, post, marks) = SumFunction(E) /\ Net0(l, s, post, marks) = SumFunction(F)
  BY DEF Gross0, Net0
<1>4. F[s] = post /\ \A r \in Symbols : r # s => F[r] = Notional(m, r, marks)
  BY DEF After, Notional
<1>5. \A r \in Symbols : E[r] = Abs(F[r])
  OBVIOUS
<1>6. Abs(position) <= Abs(post) /\ Abs(post - position) < price /\ price \in Nat
  BY DEF Near, Marks
<1> HIDE DEF E, F
<1>7. Gross(m, marks) <= Gross0(l, s, post, marks)
  <2>1. \A r \in Symbols : Exposures(m, marks)[r] <= E[r]
    <3> SUFFICES ASSUME NEW r \in Symbols PROVE Abs(Notional(m, r, marks)) <= Abs(F[r])
      BY <1>5 DEF Exposures
    <3>1. Notional(m, r, marks) \in Int
      BY SumsOver
    <3> QED
      BY <1>4, <1>6, <3>1 DEF Abs
  <2> QED
    BY <1>1, <1>2, <1>3, <2>1, SymbolsFinite, SumMonotone
<1>8. Abs(Net(m, marks)) - price < Abs(Net0(l, s, post, marks))
  <2> DEFINE G == Notionals(m, marks)
             g == SumFunction(G)
             f == SumFunction(F)
  <2>1. G[s] = position /\ \A r \in Symbols : r # s => G[r] = F[r]
    BY <1>4 DEF Notionals
  <2> HIDE DEF position
  <2>2. G \in [Symbols -> Int] /\ Net(m, marks) = g /\ Net0(l, s, post, marks) = f
    BY <1>2, <1>3
  <2> HIDE DEF G
  <2>3. g = f + G[s] - F[s] /\ f \in Int /\ g \in Int
    BY <1>1, <2>1, <2>2, SymbolsFinite, SumUpdate, SumType
  <2>4. g = f + position - post
    BY <1>4, <2>1, <2>3
  <2> SUFFICES Abs(g) - price < Abs(f)
    BY <2>2
  <2> HIDE DEF f, g, price
  <2> QED
    BY <1>2, <1>6, <2>3, <2>4 DEF Abs
<1> QED
  BY <1>7, <1>8

LEMMA LimitsKept ==
  ASSUME config \in Configs, NEW l, Good(l), NEW m, Good(m), NEW s \in Symbols,
         NEW marks \in Marks, NEW sizing \in Int, NEW turnover \in Int,
         NEW lots, NEW close \in Int, NEW open \in Int, open # 0,
         Rounded(l.q[s], lots, marks[s], close, open), Executed(l, m, s, lots, marks[s]),
         Unbroken(l, s, Notional(l, s, marks) + close + open, marks, sizing,
                  turnover + Abs(close) + Abs(open), Abs(close) + Abs(open)),
         NEW row, row.sizing = sizing, row.turnover = turnover + Abs(lots * marks[s]),
         row.price = marks[s], row.position = m.q[s], row.gross = Gross(m, marks),
         row.net = Abs(Net(m, marks)), row.equity = Equity(m, marks)
  PROVE  RowWithin(row)
<1> DEFINE price == marks[s]
           post == Notional(l, s, marks) + close + open
           position == Notional(m, s, marks)
           size == Abs(close) + Abs(open)
           all == turnover + Abs(close) + Abs(open)
           paid == Abs(lots * price)
           gross == Gross0(l, s, post, marks)
           net == Net0(l, s, post, marks)
<1>1. /\ l \in Accounts /\ Lawful(l) /\ m \in Accounts /\ Lawful(m)
      /\ price \in Nat \ {0}
  BY DEF Good, Marks
<1>2. post \in Int /\ position \in Int
  BY <1>1, SumsOver
<1>3. size \in Nat /\ all = turnover + size
  BY DEF Abs
<1>4. lots \in Int /\ Near((l.q[s] + lots) * price, l.q[s] * price + close + open, price)
      /\ paid <= size
  BY DEF Rounded
<1>5. Near(position, post, price)
  BY <1>4 DEF Notional, Executed
<1>6. paid \in Nat
  <2>1. lots * price \in Int
    BY <1>1, <1>4
  <2> HIDE DEF price
  <2> QED
    BY <2>1 DEF Abs
<1>7. Equity(m, marks) = Equity(l, marks) - Cost(paid)
  BY <1>1, <1>4, EquityPaysTheFee
<1>8. Gross(m, marks) <= gross /\ Abs(Net(m, marks)) - price < Abs(net)
  <2>1. \A r \in Symbols : r # s => m.q[r] = l.q[r]
    BY DEF Executed
  <2>2. Near(Notional(m, s, marks), post, marks[s])
    BY <1>5
  <2> HIDE DEF post
  <2>3. /\ Gross(m, marks) <= Gross0(l, s, post, marks)
        /\ Abs(Net(m, marks)) - marks[s] < Abs(Net0(l, s, post, marks))
    BY <1>1, <1>2, <2>1, <2>2, ExposureShrinks
  <2> QED
    BY <2>3
<1>9. /\ AtMost(config.maxGross, gross, sizing) /\ AtMost(config.maxNet, Abs(net), sizing)
      /\ AtMost(config.maxWeight, Abs(post), sizing)
      /\ config.maxSymbol # Null => Abs(post) <= config.maxSymbol
      /\ AtMost(config.maxTurnover, all, sizing)
      /\ Backed(gross, Equity(l, marks) - Cost(size))
  <2>1. Unbroken(l, s, post, marks, sizing, all, size) /\ all \in Int
    BY <1>3
  <2> HIDE DEF post, all, size
  <2> QED
    BY <1>2, <1>3, <2>1, UnbrokenIs
<1>10. /\ Gross(m, marks) \in Int /\ Net(m, marks) \in Int /\ Equity(m, marks) \in Int
       /\ Equity(l, marks) \in Int /\ gross \in Int /\ net \in Int
  <2> HIDE DEF post
  <2> QED
    BY <1>1, <1>2, SumsType, AfterType
<1>11. /\ config.maxGross # Null => config.maxGross \in Nat
       /\ config.maxNet # Null => config.maxNet \in Nat
       /\ config.maxWeight # Null => config.maxWeight \in Nat
       /\ config.maxSymbol # Null => config.maxSymbol \in Nat
       /\ config.maxTurnover # Null => config.maxTurnover \in Nat
  BY PositionAssumption DEF LegalFields
<1>12. row.position * row.price = position
  BY DEF Notional
<1>13. ASSUME NEW limit, limit # Null => limit \in Nat, NEW high \in Int, NEW low \in Int,
              low <= high, AtMost(limit, high, sizing)
       PROVE  limit = Null \/ 4 * low <= limit * sizing
  <2> SUFFICES ASSUME limit # Null PROVE 4 * low <= limit * sizing
    OBVIOUS
  <2>1. 4 * high <= limit * sizing /\ limit * sizing \in Int
    BY <1>13 DEF AtMost
  <2> QED
    BY <1>13, <2>1
<1>14. Abs(position) <= Abs(post) /\ Abs(position) \in Int /\ Abs(post) \in Int
  <2> HIDE DEF position, post
  <2> QED
    BY <1>2, <1>5 DEF Near, Abs
<1>15. turnover + paid <= all /\ turnover + paid \in Int /\ all \in Int
  <2> HIDE DEF paid, all, size
  <2> QED
    BY <1>3, <1>4, <1>6
<1>16. Abs(net) \in Int /\ Abs(Net(m, marks)) \in Int
  <2> HIDE DEF net
  <2> QED
    BY <1>10 DEF Abs
<1>17. config.maxNet = Null \/ 4 * (Abs(Net(m, marks)) - price) < config.maxNet * sizing
  <2> SUFFICES ASSUME config.maxNet # Null
               PROVE  4 * (Abs(Net(m, marks)) - price) < config.maxNet * sizing
    OBVIOUS
  <2> DEFINE mine == Abs(Net(m, marks))
             whole == Abs(net)
             limit == config.maxNet * sizing
  <2>1. 4 * whole <= limit
    BY <1>9 DEF AtMost
  <2>2. limit \in Int
    BY <1>11
  <2>3. mine - price < whole /\ mine \in Int /\ whole \in Int /\ price \in Int
    BY <1>1, <1>8, <1>16
  <2> SUFFICES 4 * (mine - price) < limit
    OBVIOUS
  <2> HIDE DEF mine, whole, limit, price
  <2> QED
    BY <2>1, <2>2, <2>3
<1>18. Gross(m, marks) + config.leverage * config.buffer <= config.leverage * Equity(m, marks)
  <2> DEFINE e == Equity(l, marks)
             asked == Cost(size)
             had == Cost(paid)
             some == config.leverage * config.buffer
             limit == config.leverage * (e - asked)
             mine == config.leverage * (e - had)
             leverage == config.leverage
             g == Gross(m, marks)
  <2>1. asked \in Nat /\ had \in Nat /\ had <= asked
    <3> HIDE DEF paid, size
    <3> QED
      BY <1>3, <1>4, <1>6, Fee, FeeMonotone
  <2>2. leverage \in Nat \ {0} /\ some \in Nat /\ e \in Int
    BY <1>10, Numbers
  <2> HIDE DEF e, asked, had, leverage
  <2>3. limit \in Int /\ mine \in Int /\ limit <= mine
    <3> DEFINE one == e - asked
               two == e - had
    <3>1. one \in Int /\ two \in Int /\ one <= two
      BY <2>1, <2>2
    <3> SUFFICES config.leverage * one \in Int /\ config.leverage * two \in Int
                 /\ config.leverage * one <= config.leverage * two
      OBVIOUS
    <3> HIDE DEF one, two
    <3> QED
      BY <2>2, <3>1 DEF leverage
  <2>4. gross + some <= limit
    BY <1>9 DEF Backed, e, asked
  <2>5. config.leverage * Equity(m, marks) = mine
    BY <1>7 DEF e, had
  <2>6. g <= gross /\ g \in Int /\ gross \in Int
    BY <1>8, <1>10
  <2> SUFFICES g + some <= mine
    BY <2>5
  <2> HIDE DEF some, limit, mine, g, gross
  <2> QED
    BY <2>2, <2>3, <2>4, <2>6
<1> HIDE DEF price, post, position, size, all, paid, gross, net
<1>19. config.maxGross = Null \/ 4 * row.gross <= config.maxGross * row.sizing
  BY <1>8, <1>9, <1>10, <1>11, <1>13
<1>20. config.maxWeight = Null \/ 4 * Abs(row.position * row.price) <= config.maxWeight * row.sizing
  BY <1>9, <1>11, <1>12, <1>13, <1>14
<1>21. config.maxSymbol = Null \/ Abs(row.position * row.price) <= config.maxSymbol
  BY <1>9, <1>11, <1>12, <1>14
<1>22. config.maxTurnover = Null \/ 4 * row.turnover <= config.maxTurnover * row.sizing
  <2>1. row.turnover = turnover + paid
    BY DEF paid, price
  <2> QED
    BY <1>9, <1>11, <1>13, <1>15, <2>1
<1>23. config.maxNet = Null \/ 4 * (row.net - row.price) < config.maxNet * row.sizing
  BY <1>17 DEF price
<1>24. row.gross + config.leverage * config.buffer <= config.leverage * row.equity
  BY <1>18
<1> QED
  BY <1>19, <1>20, <1>21, <1>22, <1>23, <1>24 DEF RowWithin

-----------------------------------------------------------------------------
(* One selection.                                                          *)
LEMMA PaymentType ==
  ASSUME config \in Configs, NEW lots \in Int, NEW price \in Nat \ {0}
  PROVE  Payment(lots, price) \in Int
<1> DEFINE paid == lots * price
<1>1. paid \in Int
  OBVIOUS
<1> HIDE DEF paid
<1>2. Abs(paid) \in Nat
  BY <1>1 DEF Abs
<1>3. Cost(Abs(paid)) \in Int
  BY <1>2, Fee
<1> QED
  BY <1>1, <1>3 DEF Payment, paid

AddsWithin(l) == config.maxAdds # Null => \A r \in Symbols : l.adds[r] <= config.maxAdds

LEMMA AddsBounded ==
  ASSUME NEW q \in Int, NEW lots \in Int, NEW adds \in Nat, NEW bound \in Nat \ {0},
         adds <= bound, Grows(q, q + lots) => adds < bound
  PROVE  AddsAfter(q, lots, adds) <= bound
<1> DEFINE new == q + lots
           product == q * new
<1>1. new \in Int /\ product \in Int
  OBVIOUS
<1>2. AddsAfter(q, lots, adds) =
        IF new = 0 THEN 0 ELSE IF product <= 0 THEN 1
        ELSE IF Abs(new) > Abs(q) THEN adds + 1 ELSE adds
  BY DEF AddsAfter
<1>3. product > 0 /\ Abs(new) > Abs(q) => adds < bound
  BY DEF Grows
<1> HIDE DEF new, product
<1> QED
  BY <1>1, <1>2, <1>3

LEMMA AddsKept ==
  ASSUME config \in Configs, NEW l, Good(l), NEW m, NEW s \in Symbols, NEW lots \in Int,
         NEW price, Executed(l, m, s, lots, price), AddsWithin(l),
         config.maxAdds # Null /\ Grows(l.q[s], l.q[s] + lots) => l.adds[s] < config.maxAdds
  PROVE  AddsWithin(m)
<1> SUFFICES ASSUME config.maxAdds # Null, NEW r \in Symbols PROVE m.adds[r] <= config.maxAdds
  BY DEF AddsWithin
<1>1. config.maxAdds \in Nat \ {0}
  BY PositionAssumption DEF LegalBounds
<1>2. l.q[s] \in Int /\ l.adds[s] \in Nat /\ l.adds[s] <= config.maxAdds
      /\ l.adds[r] <= config.maxAdds
  BY DEF Good, Accounts, AddsWithin
<1>3. CASE r = s
  <2> DEFINE q == l.q[s]
             adds == l.adds[s]
             bound == config.maxAdds
  <2>1. q \in Int /\ adds \in Nat /\ bound \in Nat \ {0} /\ adds <= bound
        /\ (Grows(q, q + lots) => adds < bound)
    BY <1>1, <1>2
  <2>2. m.adds[r] = AddsAfter(q, lots, adds)
    BY <1>3 DEF Executed
  <2> HIDE DEF q, adds
  <2> SUFFICES m.adds[r] <= bound
    OBVIOUS
  <2> HIDE DEF bound
  <2> QED
    BY <2>1, <2>2, AddsBounded
<1>4. CASE r # s
  BY <1>2, <1>4 DEF Executed
<1> QED
  BY <1>3, <1>4

Listed(rows) == \E R : rows \in Seq(R) /\ \A r \in R : RowWithin(r)

LEMMA ListedAppend ==
  ASSUME NEW rows, Listed(rows), NEW r, RowWithin(r)
  PROVE  Listed(Append(rows, r))
<1>1. PICK R : rows \in Seq(R) /\ \A x \in R : RowWithin(x)
  BY DEF Listed
<1> DEFINE S == R \cup {r}
<1>2. rows \in Seq(S)
  BY <1>1
<1>3. Append(rows, r) \in Seq(S)
  BY <1>2
<1>4. \A x \in S : RowWithin(x)
  BY <1>1
<1> QED
  BY <1>3, <1>4 DEF Listed

LEMMA OpeningParts ==
  ASSUME NEW legs, NEW old \in Int, Parts(legs, old), NEW amount \in 1 .. Abs(legs.open)
  PROVE  LET open == Sign(legs.open) * amount IN
         /\ Opens(open, legs.close, old) /\ open # 0 /\ Abs(open) = amount
         /\ (old + legs.close) * open > 0 => (old + legs.close) * legs.open > 0
<1> DEFINE asked == legs.open
           close == legs.close
           open == Sign(asked) * amount
           base == old + close
<1>1. asked \in Int /\ close \in Int /\ base \in Int /\ Opens(asked, close, old)
  BY DEF Parts, Opens, Closes
<1>2. /\ amount \in Nat \ {0} /\ (asked > 0 => open = amount) /\ (asked < 0 => open = -amount)
      /\ asked # 0
  <2>1. amount \in 1 .. Abs(asked)
    OBVIOUS
  <2> HIDE DEF asked
  <2> QED
    BY <1>1, <2>1 DEF Sign, Abs
<1> HIDE DEF asked, close, open, base
<1>3. Opens(open, close, old) /\ open # 0 /\ Abs(open) = amount /\ open \in Int
  BY <1>1, <1>2 DEF Opens, Abs
<1>4. base * open > 0 => base * asked > 0
  BY <1>1, <1>2, <1>3, ProductSign
<1> QED
  BY <1>3, <1>4 DEF asked, close, open, base

LegalRow(row) ==
  row.symbol \in Symbols /\ row.weight \in Int /\ row.side \in {"LONG", "SHORT", "FLAT"}

Stepped(done, next, s, lots, price) ==
  /\ Good(next.account) /\ AddsWithin(next.account) /\ Listed(next.rows)
  /\ Executed(done.account, next.account, s, lots, price)
  /\ RoundKept(done.account, next.account)
  /\ next.turnover \in Int /\ next.paid = done.paid + Payment(lots, price)

LEMMA ProcessOneKeeps ==
  ASSUME config \in Configs, NEW done, Good(done.account), AddsWithin(done.account),
         Listed(done.rows), done.turnover \in Int, done.paid \in Int,
         NEW row, LegalRow(row), NEW marks \in Marks, NEW sizing \in Int,
         config.zero = "error" => done.account.q[row.symbol] # 0,
         Rolling => Held(done.account) \subseteq {row.symbol}
  PROVE  \E lots \in Int :
           Stepped(done, ProcessOne(done, row, marks, sizing), row.symbol, lots,
                   marks[row.symbol])
<1> DEFINE l == done.account
           s == row.symbol
           price == marks[s]
           q == l.q[s]
           old == Notional(l, s, marks)
           legs == Legs(l, row, old, sizing)
           close == LimitClose(legs.close, sizing, done.turnover)
           limited == LimitOpening(l, s, old + close, legs.open, marks, sizing,
                                   done.turnover + Abs(close), Abs(close))
           opening == IF close # legs.close THEN [open |-> 0, flags |-> {"turnover"}]
                      ELSE limited
           open == opening.open
           lots == RoundDelta(l, s, price, close, open)
           m == Execute(l, s, lots, price)
           turnover == done.turnover + Abs(lots * price)
           r == Instruction(m, row, marks, sizing, legs.close + legs.open, lots, opening,
                            turnover)
           next == ProcessOne(done, row, marks, sizing)
<1>1. /\ next.account = m /\ next.rows = Append(done.rows, r)
      /\ next.turnover = turnover /\ next.paid = done.paid + Payment(lots, price)
  BY DEF ProcessOne, Progress
<1>2. /\ s \in Symbols /\ price \in Nat \ {0} /\ q \in Int /\ old = q * price /\ old \in Int
      /\ l \in Accounts
  BY DEF LegalRow, Marks, Good, Accounts, Notional
<1>3. config.zero = "error" => old # 0
  <2> SUFFICES ASSUME q # 0 PROVE old # 0
    OBVIOUS
  <2> HIDE DEF q, price, old
  <2>1. q > 0 \/ q < 0
    BY <1>2
  <2>2. old # 0
    BY <1>2, <2>1, ProductSign
  <2> QED
    BY <2>2
<1>4. Parts(legs, old)
  <2> HIDE DEF l, old
  <2> QED
    BY <1>2, <1>3, LegsParts DEF LegalRow, l
<1> HIDE DEF legs
<1>5. Closes(close, old)
  <2>1. Closes(legs.close, old)
    BY <1>4 DEF Parts
  <2> HIDE DEF l, old
  <2> QED
    BY <1>2, <2>1, CutCloses
<1>6. close \in Int /\ legs.open \in Int
  BY <1>4, <1>5 DEF Closes, Parts, Opens
<1> DEFINE Cut(amount) ==
             CutTo(amount, l, s, old + close, legs.open, marks, sizing,
                   done.turnover + Abs(close), Abs(close))
<1> HIDE DEF close
<1>7. open \in Int /\ (open # 0 => /\ close = legs.close
                                   /\ \E amount \in Nat :
                                        open = Sign(legs.open) * amount /\ Cut(amount))
  <2>1. Limited(limited, l, s, old + close, legs.open, marks, sizing,
                done.turnover + Abs(close), Abs(close))
    <3> HIDE DEF old, l
    <3>1. old + close \in Int
      BY <1>2, <1>6
    <3> DEFINE base == old + close
    <3> SUFFICES Limited(LimitOpening(l, s, base, legs.open, marks, sizing,
                                      done.turnover + Abs(close), Abs(close)),
                         l, s, base, legs.open, marks, sizing,
                         done.turnover + Abs(close), Abs(close))
      OBVIOUS
    <3> HIDE DEF base
    <3> QED
      BY <1>6, <3>1, LimitOpeningIs DEF base
  <2> HIDE DEF limited, l, old
  <2> QED
    BY <2>1 DEF Limited
<1> HIDE DEF opening
<1>8. Opens(open, close, old)
  <2>1. CASE open = 0
    BY <2>1 DEF Opens
  <2>2. CASE open # 0
    <3>1. PICK amount \in Nat : open = Sign(legs.open) * amount /\ Cut(amount)
      BY <1>7, <2>2
    <3>2. amount \in 1 .. Abs(legs.open)
      BY <3>1 DEF CutTo
    <3> HIDE DEF old
    <3>3. Opens(Sign(legs.open) * amount, legs.close, old)
      BY <1>2, <1>4, <3>2, OpeningParts
    <3> QED
      BY <1>7, <2>2, <3>1, <3>3
  <2> QED
    BY <2>1, <2>2
<1>9. Rounded(q, lots, price, close, open)
  <2>1. lots = ClosedLots(q, price, close) + OpenedLots(open, price)
    BY DEF RoundDelta, ClosedLots, OpenedLots
  <2>2. Closes(close, q * price) /\ Opens(open, close, q * price)
    BY <1>2, <1>5, <1>8
  <2> HIDE DEF q, price, lots
  <2> QED
    BY <1>2, <2>1, <2>2, LotsAre
<1>10. lots \in Int
  BY <1>9 DEF Rounded
<1> HIDE DEF lots
<1>11. Good(m) /\ Executed(l, m, s, lots, price) /\ RoundKept(l, m)
  <2> HIDE DEF l, price
  <2>1. Good(l) /\ (Rolling => Held(l) \subseteq {s})
    BY DEF l
  <2> QED
    BY <1>2, <1>10, <2>1, ExecuteKeeps
<1> HIDE DEF m, next, r
<1>12. open # 0 =>
         /\ Unbroken(l, s, old + close + open, marks, sizing,
                     done.turnover + Abs(close) + Abs(open), Abs(close) + Abs(open))
         /\ (old + close) * open > 0 => ~AddsExhausted(l, s, old + close, legs.open)
                                        /\ (old + close) * legs.open > 0
  <2> SUFFICES ASSUME open # 0
               PROVE  /\ Unbroken(l, s, old + close + open, marks, sizing,
                                  done.turnover + Abs(close) + Abs(open), Abs(close) + Abs(open))
                      /\ (old + close) * open > 0 =>
                           ~AddsExhausted(l, s, old + close, legs.open)
                             /\ (old + close) * legs.open > 0
    OBVIOUS
  <2>1. PICK amount \in Nat : open = Sign(legs.open) * amount /\ Cut(amount)
    BY <1>7
  <2> HIDE DEF old, l
  <2>2. amount \in 1 .. Abs(legs.open) /\ ~AddsExhausted(l, s, old + close, legs.open)
        /\ Unbroken(l, s, old + close + open, marks, sizing,
                    done.turnover + Abs(close) + amount, Abs(close) + amount)
    BY <2>1 DEF CutTo
  <2>3. close = legs.close
    BY <1>7
  <2> DEFINE part == Sign(legs.open) * amount
  <2>4. /\ Abs(part) = amount
        /\ (old + legs.close) * part > 0 => (old + legs.close) * legs.open > 0
    BY <1>2, <1>4, <2>2, OpeningParts
  <2>5. open = part
    BY <2>1
  <2> HIDE DEF part, open
  <2>6. Abs(open) = amount /\ ((old + close) * open > 0 => (old + close) * legs.open > 0)
    BY <2>3, <2>4, <2>5
  <2> QED
    BY <2>2, <2>6
<1>13. AddsWithin(m)
  <2>1. config.maxAdds # Null /\ Grows(q, q + lots) => l.adds[s] < config.maxAdds
    <3> SUFFICES ASSUME config.maxAdds # Null, Grows(q, q + lots)
                 PROVE  l.adds[s] < config.maxAdds
      OBVIOUS
    <3>1. q # 0 /\ open # 0 /\ (q * price + close) * open > 0
      BY <1>9 DEF Rounded
    <3>2. ~AddsExhausted(l, s, old + close, legs.open) /\ (old + close) * legs.open > 0
      <4> HIDE DEF q, price, old, open
      <4> QED
        BY <1>2, <1>12, <3>1
    <3>3. ~(l.adds[s] >= config.maxAdds)
      BY <3>1, <3>2 DEF AddsExhausted
    <3>4. config.maxAdds \in Nat /\ l.adds[s] \in Nat
      BY <1>2, PositionAssumption DEF LegalBounds, Accounts
    <3> QED
      BY <3>3, <3>4
  <2>2. Good(l) /\ AddsWithin(l)
    OBVIOUS
  <2>3. config.maxAdds # Null /\ Grows(l.q[s], l.q[s] + lots) => l.adds[s] < config.maxAdds
    BY <2>1
  <2> HIDE DEF l, price
  <2> QED
    BY <1>2, <1>10, <1>11, <2>2, <2>3, AddsKept
<1>14. turnover \in Int
  <2> DEFINE paid == lots * price
  <2>1. paid \in Int
    BY <1>2, <1>10
  <2> HIDE DEF paid
  <2>2. Abs(paid) \in Int
    BY <2>1 DEF Abs
  <2> QED
    BY <2>2 DEF paid
<1>15. /\ r.sizing = sizing /\ r.turnover = turnover /\ r.price = price
       /\ r.position = m.q[s] /\ r.gross = Gross(m, marks) /\ r.net = Abs(Net(m, marks))
       /\ r.equity = Equity(m, marks) /\ (r.opened => open # 0)
  BY DEF r, Instruction
<1>16. RowWithin(r)
  <2>1. CASE open = 0
    BY <1>15, <2>1 DEF RowWithin
  <2>2. CASE open # 0
    <3>1. Unbroken(l, s, Notional(l, s, marks) + close + open, marks, sizing,
                   done.turnover + Abs(close) + Abs(open), Abs(close) + Abs(open))
      BY <1>12, <2>2
    <3>2. Rounded(l.q[s], lots, marks[s], close, open) /\ Executed(l, m, s, lots, marks[s])
      BY <1>9, <1>11
    <3>3. r.turnover = done.turnover + Abs(lots * marks[s]) /\ r.price = marks[s]
      BY <1>15
    <3>4. Good(l)
      OBVIOUS
    <3> HIDE DEF l, open
    <3> QED
      BY <1>2, <1>6, <1>7, <1>11, <1>15, <2>2, <3>1, <3>2, <3>3, <3>4, LimitsKept
  <2> QED
    BY <2>1, <2>2
<1>17. Listed(next.rows)
  BY <1>1, <1>16, ListedAppend
<1> HIDE DEF turnover, price
<1>18. Stepped(done, next, s, lots, price)
  BY <1>1, <1>11, <1>13, <1>14, <1>17 DEF Stepped
<1> QED
  BY <1>10, <1>18 DEF next, price

(* The loop over a snapshot: what it has not come to is as it was.         *)
Booking(done) == done.account.cash - SumFunction(done.account.cost) - done.paid

Symbolic(selections) == {row.symbol : row \in selections}

Safe(done) ==
  /\ Good(done.account) /\ AddsWithin(done.account) /\ Listed(done.rows)
  /\ done.turnover \in Int /\ done.paid \in Int

Sizable(l, selections) ==
  /\ LegalSnapshot(selections)
  /\ config.zero = "error" => \A row \in selections : l.q[row.symbol] # 0
  /\ Rolling => /\ \A row, other \in selections : row = other
                /\ \A row \in selections : Held(l) \subseteq {row.symbol}

Running(done, i, start, selections) ==
  /\ Safe(done)
  /\ Held(done.account) \subseteq Held(start.account) \cup Symbolic(selections)
  /\ Booking(done) = Booking(start)
  /\ \A j \in i + 1 .. Len(Order) : done.account.q[Order[j]] = start.account.q[Order[j]]
  /\ RoundKept(start.account, done.account)
  /\ Rolling => \/ done.account = start.account
                \/ \A j \in i + 1 .. Len(Order) : RowsFor(selections, j) = {}

LEMMA BookingKept ==
  ASSUME config \in Configs, NEW done, Safe(done), NEW next, NEW s \in Symbols,
         NEW lots \in Int, NEW price \in Nat \ {0}, Stepped(done, next, s, lots, price)
  PROVE  Booking(next) = Booking(done) /\ next.paid \in Int
<1> DEFINE l == done.account
           m == next.account
           payment == Payment(lots, price)
           before == SumFunction(l.cost)
           after == SumFunction(m.cost)
           cash == l.cash
           left == m.cash
           cost == l.cost[s]
           rest == m.cost[s]
           paid == done.paid
<1>1. /\ l \in Accounts /\ m \in Accounts /\ Executed(l, m, s, lots, price)
      /\ paid \in Int /\ next.paid = paid + payment
  BY DEF Safe, Stepped, Good
<1>2. payment \in Int
  BY PaymentType
<1>3. before \in Int /\ after \in Int /\ after = before + rest - cost
  <2>1. \A r \in Symbols : r # s => m.cost[r] = l.cost[r]
    BY <1>1 DEF Executed
  <2> HIDE DEF l, m
  <2> QED
    BY <1>1, <2>1, CostsMove
<1>4. cash \in Int /\ left \in Int /\ cost \in Int /\ rest \in Int
  BY <1>1 DEF Accounts
<1>5. left - rest = cash - cost + payment
  BY <1>1 DEF Executed
<1>6. Booking(next) = left - after - (paid + payment) /\ Booking(done) = cash - before - paid
  BY <1>1 DEF Booking
<1> HIDE DEF payment, before, after, cash, left, cost, rest, paid
<1> QED
  BY <1>1, <1>2, <1>3, <1>4, <1>5, <1>6

LEMMA TurnKeeps ==
  ASSUME config \in Configs, NEW start, NEW selections, Sizable(start.account, selections),
         NEW marks \in Marks, NEW sizing \in Int,
         NEW i \in 1 .. Len(Order), NEW done, Running(done, i - 1, start, selections)
  PROVE  Running(Turn(done, selections, marks, sizing, i), i, start, selections)
<1> DEFINE next == Turn(done, selections, marks, sizing, i)
           s == Order[i]
           row == CHOOSE r \in RowsFor(selections, i) : TRUE
<1>0. /\ Len(Order) \in Nat /\ s \in Symbols
      /\ \A j \in i + 1 .. Len(Order) : j \in i - 1 + 1 .. Len(Order) /\ Order[j] \in Symbols
                                        /\ Order[j] # s
  BY OrderAssumption DEF Symbols
<1>1. CASE RowsFor(selections, i) = {}
  <2>1. next = done
    BY <1>1 DEF Turn
  <2> HIDE DEF next
  <2>2. Running(next, i, start, selections)
    BY <1>0, <2>1 DEF Running
  <2> QED
    BY <2>2 DEF next
<1>2. CASE RowsFor(selections, i) # {}
  <2>1. next = ProcessOne(done, row, marks, sizing)
    BY <1>2 DEF Turn
  <2>2. row \in selections /\ row.symbol = s
    BY <1>2 DEF RowsFor
  <2> HIDE DEF row
  <2>3. LegalRow(row)
    BY <1>0, <2>2 DEF Sizable, LegalSnapshot, LegalRow
  <2>4. /\ Safe(done) /\ done.account.q[s] = start.account.q[s]
        /\ Held(done.account) \subseteq Held(start.account) \cup Symbolic(selections)
        /\ Booking(done) = Booking(start) /\ RoundKept(start.account, done.account)
    BY <1>0 DEF Running
  <2>5. config.zero = "error" => done.account.q[row.symbol] # 0
    BY <2>2, <2>4 DEF Sizable
  <2>6. Rolling => done.account = start.account
    BY <1>0, <1>2 DEF Running
  <2>7. Rolling => Held(done.account) \subseteq {row.symbol}
    BY <2>2, <2>6 DEF Sizable
  <2>8. PICK lots \in Int : Stepped(done, next, row.symbol, lots, marks[row.symbol])
    BY <2>1, <2>3, <2>4, <2>5, <2>7, ProcessOneKeeps DEF Safe
  <2> DEFINE price == marks[s]
  <2>9. price \in Nat \ {0} /\ Stepped(done, next, s, lots, price)
    BY <1>0, <2>2, <2>8 DEF Marks
  <2> SUFFICES Running(next, i, start, selections)
    OBVIOUS
  <2> HIDE DEF next, s, price
  <2>10. Booking(next) = Booking(start) /\ next.paid \in Int
    BY <1>0, <2>4, <2>9, BookingKept
  <2>11. Safe(next)
    BY <2>9, <2>10 DEF Safe, Stepped
  <2>12. Executed(done.account, next.account, s, lots, price)
         /\ RoundKept(done.account, next.account)
    BY <2>9 DEF Stepped
  <2>13. Held(next.account) \subseteq Held(done.account) \cup {s}
    BY <2>12 DEF Executed, Held
  <2>14. s \in Symbolic(selections)
    BY <2>2 DEF Symbolic
  <2>15. \A j \in i + 1 .. Len(Order) : next.account.q[Order[j]] = start.account.q[Order[j]]
    <3> SUFFICES ASSUME NEW j \in i + 1 .. Len(Order)
                 PROVE  next.account.q[Order[j]] = start.account.q[Order[j]]
      OBVIOUS
    <3>1. Order[j] \in Symbols /\ Order[j] # s
      BY <1>0
    <3>2. done.account.q[Order[j]] = start.account.q[Order[j]]
      BY <1>0 DEF Running
    <3> QED
      BY <2>12, <3>1, <3>2 DEF Executed
  <2>16. RoundKept(start.account, next.account)
    <3>1. CASE Rolling
      BY <2>6, <2>12, <3>1
    <3>2. CASE ~Rolling
      BY <3>2 DEF RoundKept, RoundIs
    <3> QED
      BY <3>1, <3>2
  <2>17. ASSUME Rolling, NEW j \in i + 1 .. Len(Order) PROVE RowsFor(selections, j) = {}
    <3> SUFFICES ASSUME NEW other \in RowsFor(selections, j) PROVE FALSE
      OBVIOUS
    <3>1. other = row
      BY <2>2, <2>17 DEF Sizable, RowsFor
    <3> QED
      BY <1>0, <2>2, <3>1 DEF RowsFor
  <2> QED
    BY <2>4, <2>10, <2>11, <2>13, <2>14, <2>15, <2>16, <2>17 DEF Running
<1> QED
  BY <1>1, <1>2

LEMMA ProcessAllKeeps ==
  ASSUME config \in Configs, NEW start, Safe(start),
         NEW selections, Sizable(start.account, selections),
         NEW marks \in Marks, NEW sizing \in Int
  PROVE  Running(ProcessAll(start, selections, marks, sizing), Len(Order), start, selections)
<1> DEFINE n == Len(Order)
           done == ProcessAll(start, selections, marks, sizing)
<1>1. PICK f : Loops(f, n, start, selections, marks, sizing) /\ done = f[n]
  BY LoopIs
<1>2. n \in Nat
  BY OrderAssumption
<1> DEFINE Kept == {i \in 0 .. n : Running(f[i], i, start, selections)}
<1> SUFFICES n \in Kept
  BY <1>1
<1> HIDE DEF done
<1>3. 0 \in Kept
  <2>1. f[0] = start
    BY <1>1, <1>2 DEF Loops
  <2>2. RoundKept(start.account, start.account)
    BY DEF RoundKept, RoundIs, Safe, Good, Rounds
  <2>3. Running(start, 0, start, selections)
    BY <2>2 DEF Running
  <2> QED
    BY <1>2, <2>1, <2>3
<1>4. ASSUME NEW i \in 1 .. n, i - 1 \in Kept PROVE i \in Kept
  <2>1. f[i] = Turn(f[i - 1], selections, marks, sizing, i)
    BY <1>1, <1>2 DEF Loops
  <2>2. Running(f[i - 1], i - 1, start, selections)
    BY <1>4
  <2>3. Running(f[i], i, start, selections)
    BY <2>1, <2>2, TurnKeeps
  <2> QED
    BY <1>2, <2>3
<1> HIDE DEF Kept
<1> QED
  BY <1>2, <1>3, <1>4, LoopInduction

-----------------------------------------------------------------------------
(* A replacement leaves at most the selected symbol.                       *)
OneHeld(l) == \A r, t \in Held(l) : r = t

LEMMA SnapshotFinite ==
  ASSUME NEW selections, LegalSnapshot(selections)
  PROVE  IsFiniteSet(selections) /\ Cardinality(selections) \in Nat
<1> DEFINE f == [row \in selections |-> row.symbol]
<1>1. f \in Injection(selections, Symbols)
  BY DEF LegalSnapshot, Injection, IsInjective
<1> HIDE DEF f
<1>2. IsFiniteSet(selections)
  BY <1>1, SymbolsFinite, FS_Injection
<1> QED
  BY <1>2, FS_CardinalityType

LEMMA AtMostOne ==
  ASSUME NEW S, IsFiniteSet(S), Cardinality(S) <= 1, NEW x \in S, NEW y \in S
  PROVE  x = y
<1> SUFFICES ASSUME x # y PROVE FALSE
  OBVIOUS
<1>1. IsFiniteSet({x}) /\ Cardinality({x}) = 1
  BY FS_Singleton
<1>2. IsFiniteSet({x} \cup {y}) /\ Cardinality({x} \cup {y}) = 2
  <2> DEFINE one == {x}
  <2>1. IsFiniteSet(one) /\ Cardinality(one) = 1 /\ y \notin one
    BY <1>1
  <2> SUFFICES IsFiniteSet(one \cup {y}) /\ Cardinality(one \cup {y}) = 2
    OBVIOUS
  <2> HIDE DEF one
  <2>2. /\ IsFiniteSet(one \cup {y})
        /\ Cardinality(one \cup {y}) = IF y \in one THEN Cardinality(one)
                                       ELSE Cardinality(one) + 1
    BY <2>1, FS_AddElement
  <2> QED
    BY <2>1, <2>2
<1>3. {x} \cup {y} \in SUBSET S
  OBVIOUS
<1> DEFINE T == {x} \cup {y}
<1> HIDE DEF T
<1>4. Cardinality(T) <= Cardinality(S) /\ Cardinality(T) = 2 /\ Cardinality(S) \in Nat
  BY <1>2, <1>3, FS_Subset, FS_CardinalityType DEF T
<1> QED
  BY <1>4

LEMMA HeldFinite ==
  ASSUME NEW l
  PROVE  IsFiniteSet(Held(l)) /\ Cardinality(Held(l)) \in Nat
<1>1. Held(l) \in SUBSET Symbols
  BY DEF Held
<1>2. IsFiniteSet(Held(l))
  BY <1>1, SymbolsFinite, FS_Subset
<1> QED
  BY <1>2, FS_CardinalityType

LEMMA OneIsFew ==
  ASSUME config \in Configs, NEW l, OneHeld(l)
  PROVE  Cardinality(Held(l)) <= config.maxRows
<1>1. config.maxRows \in Nat \ {0}
  BY Numbers
<1>2. CASE Held(l) = {}
  BY <1>1, <1>2, FS_EmptySet
<1>3. CASE Held(l) # {}
  <2>1. PICK s : Held(l) = {s}
    BY <1>3 DEF OneHeld
  <2> QED
    BY <1>1, <2>1, FS_Singleton
<1> QED
  BY <1>2, <1>3

Begun(start, l, selections) ==
  /\ Safe(start) /\ Sizable(start.account, selections)
  /\ Held(start.account) \subseteq Held(l)
  /\ Single /\ selections # {} => Held(start.account) \subseteq {Selected(selections)}
  /\ Booking(start) = l.cash - SumFunction(l.cost)
  /\ \A round \in Int : RoundIs(l, round) => RoundIs(start.account, round)

LEMMA ReplacedKeeps ==
  ASSUME config \in Configs, NEW l, Good(l), AddsWithin(l), Single => OneHeld(l),
         NEW selections, LegalSnapshot(selections), NEW marks \in Marks,
         ~Refused(l, selections, marks)
  PROVE  Begun(Replaced(l, selections, marks), l, selections)
<1> DEFINE start == Replaced(l, selections, marks)
           others == IF Single /\ selections # {} THEN Held(l) \ {Selected(selections)} ELSE {}
<1>1. Single => \A row, other \in selections : row = other
  <2> SUFFICES ASSUME Single, NEW row \in selections, NEW other \in selections
               PROVE  row = other
    OBVIOUS
  <2>1. IsFiniteSet(selections) /\ Cardinality(selections) \in Nat
    BY SnapshotFinite
  <2>2. ~(Cardinality(selections) > 1)
    BY DEF Refused
  <2> QED
    BY <2>1, <2>2, AtMostOne
<1>2. Single => \A row \in selections : row.symbol = Selected(selections)
  BY <1>1 DEF Selected
<1>3. config.zero = "error" => \A row \in selections : l.q[row.symbol] # 0
  BY DEF Refused, Held
<1>4. Rolling => Single
  BY RollingNumbers
<1>5. l \in Accounts /\ l.cash \in Int /\ l.cost \in [Symbols -> Int]
  BY DEF Good, Accounts
<1>6. SumFunction(l.cost) \in Int
  BY <1>5, SymbolsFinite, SumType
<1>7. Listed(<<>>)
  <2> DEFINE R == {}
  <2>1. <<>> \in Seq(R) /\ \A r \in R : RowWithin(r)
    OBVIOUS
  <2> HIDE DEF R
  <2> QED
    BY <2>1 DEF Listed
<1>8. start = IF others = {} THEN Progress(l, <<>>, 0, 0)
              ELSE CloseReplaced(l, CHOOSE s \in others : TRUE, marks)
  BY DEF Replaced
<1>9. CASE others = {}
  <2>1. start.account = l /\ start.rows = <<>> /\ start.turnover = 0 /\ start.paid = 0
    BY <1>8, <1>9 DEF Progress
  <2>2. Single /\ selections # {} => Held(l) \subseteq {Selected(selections)}
    BY <1>9
  <2>3. Single => \A row \in selections : Held(l) \subseteq {row.symbol}
    BY <1>2, <2>2
  <2> HIDE DEF start
  <2>4. Safe(start)
    BY <1>7, <2>1 DEF Safe
  <2>5. Sizable(l, selections)
    BY <1>1, <1>3, <1>4, <2>3 DEF Sizable
  <2>6. Booking(start) = l.cash - SumFunction(l.cost)
    <3> DEFINE total == SumFunction(l.cost)
    <3>1. Booking(start) = l.cash - total - 0
      BY <2>1 DEF Booking
    <3> HIDE DEF total
    <3>2. total \in Int
      BY <1>6 DEF total
    <3>3. l.cash - total - 0 = l.cash - total
      BY <1>5, <3>2
    <3> QED
      BY <3>1, <3>3 DEF total
  <2> QED
    BY <2>1, <2>2, <2>4, <2>5, <2>6 DEF Begun, start
<1>10. CASE others # {}
  <2> DEFINE s == CHOOSE r \in others : TRUE
             lots == -l.q[s]
             price == marks[s]
  <2>1. s \in Held(l) /\ s # Selected(selections) /\ Single /\ selections # {}
    BY <1>10
  <2>2. start = CloseReplaced(l, s, marks)
    BY <1>8, <1>10
  <2> HIDE DEF s, start, others
  <2>3. s \in Symbols /\ l.q[s] \in Int /\ lots \in Int /\ price \in Nat \ {0} /\ l.q[s] # 0
    BY <1>5, <2>1 DEF Held, Accounts, Marks
  <2>4. Held(l) = {s}
    BY <2>1 DEF OneHeld
  <2> DEFINE m == Execute(l, s, lots, price)
  <2>5. Good(m) /\ Executed(l, m, s, lots, price) /\ RoundKept(l, m)
    <3> HIDE DEF lots, price
    <3> QED
      BY <2>3, <2>4, ExecuteKeeps
  <2>6. /\ start.account = m /\ start.rows = <<>> /\ start.turnover = Abs(Notional(l, s, marks))
        /\ start.paid = Payment(lots, price)
    BY <2>2 DEF CloseReplaced, Progress
  <2> HIDE DEF m
  <2>7. m.q[s] = 0
    <3>1. m.q[s] = l.q[s] + -l.q[s]
      BY <2>5 DEF Executed
    <3> QED
      BY <2>3, <3>1
  <2>8. Held(m) = {}
    <3> SUFFICES ASSUME NEW r \in Symbols PROVE m.q[r] = 0
      BY DEF Held
    <3>1. CASE r = s
      BY <2>7, <3>1
    <3>2. CASE r # s
      BY <2>4, <2>5, <3>2 DEF Executed, Held
    <3> QED
      BY <3>1, <3>2
  <2>9. config.zero = "error" => FALSE
    <3> SUFFICES ASSUME config.zero = "error" PROVE FALSE
      OBVIOUS
    <3>1. PICK row \in selections : TRUE
      BY <2>1
    <3>2. l.q[row.symbol] # 0 /\ row.symbol \in Symbols /\ row.symbol = Selected(selections)
      BY <1>2, <1>3, <2>1 DEF LegalSnapshot
    <3> QED
      BY <2>1, <2>4, <3>2 DEF Held
  <2>10. start.turnover \in Int
    <3>1. Notional(l, s, marks) \in Int
      BY <2>3, SumsOver DEF Good
    <3> QED
      BY <2>6, <3>1 DEF Abs
  <2>11. AddsWithin(m)
    <3>1. ~Grows(l.q[s], l.q[s] + lots)
      <4>1. l.q[s] + lots = 0 /\ l.q[s] * 0 = 0
        BY <2>3
      <4> QED
        BY <4>1 DEF Grows
    <3> HIDE DEF lots, price
    <3> QED
      BY <2>3, <2>5, <3>1, AddsKept
  <2>12. start.paid \in Int
    <3> HIDE DEF lots, price
    <3> QED
      BY <2>3, <2>6, PaymentType
  <2>13. Safe(start)
    BY <1>7, <2>5, <2>6, <2>10, <2>11, <2>12 DEF Safe
  <2>14. Sizable(m, selections)
    BY <1>1, <1>4, <2>8, <2>9 DEF Sizable
  <2>15. Booking(start) = l.cash - SumFunction(l.cost)
    <3> DEFINE none == Progress(l, <<>>, 0, 0)
    <3>1. /\ none.account = l /\ none.rows = <<>> /\ none.turnover = 0 /\ none.paid = 0
      BY DEF Progress
    <3> HIDE DEF none
    <3>2. Safe(none)
      BY <1>7, <3>1 DEF Safe
    <3>3. start.paid = none.paid + Payment(lots, price)
      BY <2>6, <2>12, <3>1
    <3>4. Stepped(none, start, s, lots, price)
      BY <2>5, <2>6, <2>13, <3>1, <3>3 DEF Stepped, Safe
    <3>5. Booking(start) = Booking(none)
      <4> HIDE DEF lots, price
      <4> QED
        BY <2>3, <3>2, <3>4, BookingKept
    <3> DEFINE total == SumFunction(l.cost)
    <3>6. Booking(none) = l.cash - total - 0
      BY <3>1 DEF Booking
    <3>7. l.cash - total - 0 = l.cash - total
      <4>1. total \in Int
        BY <1>6
      <4> HIDE DEF total
      <4> QED
        BY <1>5, <4>1
    <3> QED
      BY <3>5, <3>6, <3>7
  <2>16. \A round \in Int : RoundIs(l, round) => RoundIs(m, round)
    BY <2>4, <2>5 DEF RoundKept
  <2> QED
    BY <2>6, <2>8, <2>13, <2>14, <2>15, <2>16 DEF Begun, start
<1> QED
  BY <1>9, <1>10

-----------------------------------------------------------------------------
(* The invariant: the account is lawful and its round and its books say    *)
(* what was paid.  It is inductive: a step executes, credits or restores.  *)
AccountInv(l, book, round) ==
  /\ Good(l) /\ AddsWithin(l) /\ Cardinality(Held(l)) <= config.maxRows
  /\ Single => OneHeld(l)
  /\ book \in Int /\ round \in Int
  /\ l.cash - SumFunction(l.cost) = book
  /\ RoundIs(l, round)

Inv ==
  /\ config \in Configs /\ ok \in BOOLEAN /\ steps \in 0 .. MaxSteps
  /\ account.decided <= MaxSteps
  /\ AccountInv(account, cashBook, roundStart)
  /\ Listed(batch.rows)

LEMMA EmptyListed == Listed(<<>>)
<1> DEFINE R == {}
<1>1. <<>> \in Seq(R) /\ \A r \in R : RowWithin(r)
  OBVIOUS
<1> HIDE DEF R
<1> QED
  BY <1>1 DEF Listed

(* What a decision writes besides leaves the account as it is.             *)
LEMMA DecidedKeeps ==
  ASSUME config \in Configs, NEW l, NEW book, NEW round, AccountInv(l, book, round),
         NEW n \in Nat
  PROVE  AccountInv([l EXCEPT !.decided = n], book, round)
<1> DEFINE m == [l EXCEPT !.decided = n]
<1>1. l \in Accounts
  BY DEF AccountInv, Good
<1>2. /\ m.cash = l.cash /\ m.q = l.q /\ m.cost = l.cost /\ m.adds = l.adds
      /\ m.margin = l.margin /\ m.active = l.active /\ m.pnl = l.pnl
      /\ m \in Accounts
  BY <1>1 DEF Accounts
<1> HIDE DEF m
<1>3. Held(m) = Held(l)
  BY <1>2 DEF Held
<1>4. Good(m)
  BY <1>2, <1>3 DEF Good, Lawful, Rounds, AccountInv
<1>5. AddsWithin(m) /\ OneHeld(m) = OneHeld(l) /\ RoundIs(m, round)
  BY <1>2, <1>3 DEF AddsWithin, OneHeld, RoundIs, AccountInv
<1>6. m.cash - SumFunction(m.cost) = book
  BY <1>2 DEF AccountInv
<1> QED
  BY <1>3, <1>4, <1>5, <1>6 DEF AccountInv, m

(* A decision that is not refused.                                         *)
LEMMA DecisionKeeps ==
  ASSUME config \in Configs, NEW l, NEW book, NEW round, AccountInv(l, book, round),
         NEW selections, LegalSnapshot(selections), NEW marks \in Marks,
         ~Refused(l, selections, marks)
  PROVE  LET start == Replaced(l, selections, marks)
             done == ProcessAll(start, selections, marks, Equity(start.account, marks))
         IN /\ AccountInv(done.account, book + done.paid, StartsRound(start.account, round))
            /\ Listed(done.rows) /\ done.paid \in Int
<1> DEFINE start == Replaced(l, selections, marks)
           sizing == Equity(start.account, marks)
           done == ProcessAll(start, selections, marks, sizing)
           before == start.account
           m == done.account
           began == StartsRound(before, round)
<1>1. /\ Good(l) /\ AddsWithin(l)
      /\ Single => OneHeld(l)
      /\ book \in Int /\ round \in Int /\ RoundIs(l, round)
      /\ l.cash - SumFunction(l.cost) = book
  BY DEF AccountInv
<1>2. Begun(start, l, selections)
  BY <1>1, ReplacedKeeps
<1> HIDE DEF start
<1>3. /\ Safe(start) /\ Sizable(before, selections) /\ Held(before) \subseteq Held(l)
      /\ Single /\ selections # {} => Held(before) \subseteq {Selected(selections)}
      /\ Booking(start) = book /\ RoundIs(before, round)
  BY <1>1, <1>2 DEF Begun
<1>4. sizing \in Int
  BY <1>3, SumsType DEF Safe, Good
<1>5. Running(done, Len(Order), start, selections)
  <2> HIDE DEF sizing
  <2> QED
    BY <1>3, <1>4, ProcessAllKeeps
<1> HIDE DEF done, sizing
<1>6. /\ Good(m) /\ AddsWithin(m) /\ Listed(done.rows) /\ done.paid \in Int
      /\ Held(m) \subseteq Held(before) \cup Symbolic(selections)
      /\ Booking(done) = book /\ RoundKept(before, m)
  BY <1>3, <1>5 DEF Running, Safe
<1>7. Single => OneHeld(m)
  <2> SUFFICES ASSUME Single PROVE OneHeld(m)
    OBVIOUS
  <2>1. CASE selections = {}
    BY <1>1, <1>3, <1>6, <2>1 DEF Symbolic, OneHeld
  <2>2. CASE selections # {}
    <3>1. IsFiniteSet(selections) /\ Cardinality(selections) \in Nat
      BY SnapshotFinite
    <3>2. ~(Cardinality(selections) > 1)
      BY DEF Refused
    <3>3. \A row \in selections, other \in selections : row = other
      BY <3>1, <3>2, AtMostOne
    <3>4. Symbolic(selections) \subseteq {Selected(selections)}
      BY <3>3 DEF Symbolic, Selected
    <3> QED
      BY <1>3, <1>6, <2>2, <3>4 DEF OneHeld
  <2> QED
    BY <2>1, <2>2
<1>8. Cardinality(Held(m)) <= config.maxRows
  <2>1. CASE Single
    BY <1>7, <2>1, OneIsFew
  <2>2. CASE ~Single
    <3> DEFINE P == Possible(l, selections)
    <3>1. P = Held(l) \cup Symbolic(selections)
      BY <2>2 DEF Possible, Symbolic
    <3>2. P \in SUBSET Symbols
      BY <3>1 DEF Symbolic, LegalSnapshot, Held
    <3>3. ~(Cardinality(P) > config.maxRows)
      BY DEF Refused
    <3>4. Held(m) \in SUBSET P
      BY <1>3, <1>6, <3>1
    <3> HIDE DEF P
    <3>5. IsFiniteSet(P)
      BY <3>2, SymbolsFinite, FS_Subset
    <3>6. Cardinality(P) \in Nat /\ Cardinality(Held(m)) <= Cardinality(P)
      BY <3>4, <3>5, FS_Subset, FS_CardinalityType
    <3>7. config.maxRows \in Nat /\ Cardinality(Held(m)) \in Nat
      BY Numbers, HeldFinite
    <3> QED
      BY <3>3, <3>6, <3>7
  <2> QED
    BY <2>1, <2>2
<1>9. m.cash - SumFunction(m.cost) = book + done.paid
  <2> DEFINE cash == m.cash
             total == SumFunction(m.cost)
             paid == done.paid
  <2>1. cash \in Int /\ total \in Int
    <3>1. m.cost \in [Symbols -> Int] /\ cash \in Int
      BY <1>6 DEF Good, Accounts
    <3> QED
      BY <3>1, SymbolsFinite, SumType
  <2>2. cash - total - paid = book /\ paid \in Int
    BY <1>6 DEF Booking
  <2> HIDE DEF cash, total, paid
  <2>3. cash - total = book + paid
    BY <1>1, <2>1, <2>2
  <2> QED
    BY <2>3 DEF cash, total, paid
<1>10. began \in Int
  BY <1>1, <1>3 DEF StartsRound, Safe, Good, Accounts
<1>11. RoundIs(m, began)
  <2>1. CASE ~Rolling
    BY <2>1 DEF RoundIs
  <2>2. CASE Rolling
    <3>1. (Held(before) = {}) = (before.active = Null)
      BY <1>3, <2>2 DEF Safe, Good, Rounds
    <3> QED
      BY <1>1, <1>3, <1>6, <3>1 DEF RoundKept, StartsRound
  <2> QED
    BY <2>1, <2>2
<1>12. book + done.paid \in Int
  BY <1>1, <1>6
<1>13. AccountInv(m, book + done.paid, began)
  BY <1>6, <1>7, <1>8, <1>9, <1>10, <1>11, <1>12 DEF AccountInv
<1> QED
  BY <1>6, <1>13 DEF done, start, sizing

(* A risk exit.                                                            *)
LEMMA ExitKeeps ==
  ASSUME config \in Configs, NEW l, NEW book, NEW round, AccountInv(l, book, round),
         NEW s \in Held(l), NEW lots \in 1 .. Abs(l.q[s]), NEW price \in Nat \ {0}
  PROVE  LET delta == -(Sign(l.q[s]) * lots)
             m == Execute(l, s, delta, price)
         IN AccountInv(m, book + Payment(delta, price), round) /\ m.decided = l.decided
<1> DEFINE q == l.q[s]
           delta == -(Sign(q) * lots)
           m == Execute(l, s, delta, price)
           payment == Payment(delta, price)
<1>1. /\ Good(l) /\ AddsWithin(l)
      /\ Single => OneHeld(l)
      /\ book \in Int /\ round \in Int /\ RoundIs(l, round)
      /\ l.cash - SumFunction(l.cost) = book
  BY DEF AccountInv
<1>2. s \in Symbols /\ q \in Int /\ q # 0
  BY <1>1 DEF Held, Good, Accounts
<1>3. delta \in Int /\ Abs(q + delta) <= Abs(q)
  <2>1. lots \in 1 .. Abs(q)
    OBVIOUS
  <2> HIDE DEF q
  <2>2. Abs(q) \in Nat
    BY <1>2 DEF Abs
  <2>3. lots \in Nat /\ lots <= Abs(q)
    BY <2>1, <2>2
  <2>4. delta = IF q < 0 THEN lots ELSE -lots
    BY <2>3 DEF Sign
  <2> HIDE DEF delta
  <2> QED
    BY <1>2, <2>3, <2>4 DEF Abs
<1>4. Rolling => Held(l) \subseteq {s}
  BY <1>1, RollingNumbers DEF OneHeld
<1> HIDE DEF delta
<1>5. Good(m) /\ Executed(l, m, s, delta, price) /\ RoundKept(l, m)
  BY <1>1, <1>2, <1>3, <1>4, ExecuteKeeps
<1> HIDE DEF m
<1>6. AddsWithin(m)
  <2>1. ~Grows(l.q[s], l.q[s] + delta)
    <3> DEFINE new == q + delta
    <3>1. Abs(new) <= Abs(q) /\ Abs(new) \in Int /\ Abs(q) \in Int
      BY <1>2, <1>3 DEF Abs
    <3>2. ~(Abs(new) > Abs(q))
      <4> HIDE DEF new, q
      <4> QED
        BY <3>1
    <3> QED
      BY <3>2 DEF Grows
  <2> QED
    BY <1>1, <1>2, <1>3, <1>5, <2>1, AddsKept
<1>7. Held(m) \in SUBSET Held(l)
  BY <1>5 DEF Executed, Held
<1>8. Cardinality(Held(m)) <= config.maxRows
  <2>1. Cardinality(Held(m)) <= Cardinality(Held(l)) /\ Cardinality(Held(l)) <= config.maxRows
    BY <1>7, HeldFinite, FS_Subset DEF AccountInv
  <2>2. Cardinality(Held(m)) \in Nat /\ Cardinality(Held(l)) \in Nat /\ config.maxRows \in Nat
    BY HeldFinite, Numbers
  <2> QED
    BY <2>1, <2>2
<1>9. payment \in Int
  BY <1>3, PaymentType
<1>10. m.cash - SumFunction(m.cost) = book + payment
  <2> DEFINE total == SumFunction(l.cost)
             after == SumFunction(m.cost)
             cash == l.cash
             left == m.cash
             cost == l.cost[s]
             rest == m.cost[s]
  <2>1. l \in Accounts /\ m \in Accounts /\ \A r \in Symbols : r # s => m.cost[r] = l.cost[r]
    BY <1>1, <1>5 DEF Good, Executed
  <2>2. total \in Int /\ after \in Int /\ after = total + rest - cost
    BY <1>2, <2>1, CostsMove
  <2>3. cash \in Int /\ left \in Int /\ cost \in Int /\ rest \in Int
    BY <1>2, <2>1 DEF Accounts
  <2>4. left - rest = cash - cost + payment /\ cash - total = book
    BY <1>1, <1>5 DEF Executed
  <2> SUFFICES left - after = book + payment
    OBVIOUS
  <2> HIDE DEF total, after, cash, left, cost, rest, payment
  <2> QED
    BY <1>1, <1>9, <2>2, <2>3, <2>4
<1>11. RoundIs(m, round)
  BY <1>1, <1>5 DEF RoundKept
<1>12. Single => OneHeld(m)
  BY <1>1, <1>7 DEF OneHeld
<1>13. book + payment \in Int
  <2> HIDE DEF payment
  <2> QED
    BY <1>1, <1>9
<1>14. AccountInv(m, book + payment, round)
  BY <1>1, <1>5, <1>6, <1>8, <1>10, <1>11, <1>12, <1>13 DEF AccountInv
<1>15. m.decided = l.decided
  BY <1>5 DEF Executed
<1> QED
  BY <1>14, <1>15 DEF m, delta

(* A payment from outside.                                                 *)
LEMMA CreditKeeps ==
  ASSUME config \in Configs, NEW l, NEW book, NEW round, AccountInv(l, book, round),
         NEW amount \in Int
  PROVE  AccountInv(Credited(l, amount), book + amount, round)
         /\ Credited(l, amount).decided = l.decided
<1> DEFINE m == Credited(l, amount)
           x == l.cash + amount
           y == IF Rolling /\ l.active # Null THEN l.pnl + amount ELSE l.pnl
           one == [l EXCEPT !.cash = x]
<1>1. l \in Accounts /\ l.cash \in Int /\ l.pnl \in Int /\ x \in Int /\ y \in Int
  BY DEF AccountInv, Good, Accounts
<1>2. m = [one EXCEPT !.pnl = y]
  BY <1>1 DEF Credited, Accounts
<1> HIDE DEF x, y
<1>3. one = [cash |-> x, q |-> l.q, cost |-> l.cost, adds |-> l.adds, margin |-> l.margin,
             active |-> l.active, pnl |-> l.pnl, resets |-> l.resets, decided |-> l.decided]
  BY <1>1 DEF Accounts
<1> HIDE DEF one, m
<1>4. m = [cash |-> x, q |-> l.q, cost |-> l.cost, adds |-> l.adds, margin |-> l.margin,
           active |-> l.active, pnl |-> y, resets |-> l.resets, decided |-> l.decided]
  BY <1>2, <1>3
<1>5. m \in Accounts
  BY <1>1, <1>4 DEF Accounts
<1>6. Held(m) = Held(l)
  BY <1>4 DEF Held
<1>7. Rolling /\ l.active = Null => y = l.pnl
  BY DEF y
<1>8. Good(m)
  BY <1>4, <1>5, <1>6, <1>7 DEF Good, Lawful, Rounds, AccountInv
<1>9. AddsWithin(m) /\ OneHeld(m) = OneHeld(l)
  BY <1>4, <1>6 DEF AddsWithin, OneHeld, AccountInv
<1>10. RoundIs(m, round)
  <2> SUFFICES ASSUME Rolling, m.active # Null PROVE m.pnl = m.cash - round
    BY DEF RoundIs
  <2>1. m.pnl = l.pnl + amount /\ m.cash = l.cash + amount /\ l.pnl = l.cash - round
    BY <1>4 DEF x, y, AccountInv, RoundIs
  <2>2. round \in Int
    BY DEF AccountInv
  <2> DEFINE pnl == l.pnl
             cash == l.cash
             gained == m.pnl
             has == m.cash
  <2>3. gained = pnl + amount /\ has = cash + amount /\ pnl = cash - round
        /\ pnl \in Int /\ cash \in Int
    BY <1>1, <2>1
  <2> HIDE DEF pnl, cash, gained, has
  <2>4. gained = has - round
    BY <2>2, <2>3
  <2> QED
    BY <2>4 DEF gained, has
<1>11. m.cash - SumFunction(m.cost) = book + amount /\ book + amount \in Int
  <2> DEFINE cash == l.cash
             total == SumFunction(l.cost)
             has == m.cash
             after == SumFunction(m.cost)
  <2>1. cash - total = book /\ book \in Int /\ has = cash + amount /\ after = total
    BY <1>4 DEF AccountInv, x
  <2>2. total \in Int /\ cash \in Int
    BY <1>1, SymbolsFinite, SumType DEF Accounts
  <2> SUFFICES has - after = book + amount /\ book + amount \in Int
    OBVIOUS
  <2> HIDE DEF cash, total, has, after
  <2> QED
    BY <2>1, <2>2
<1>12. m.decided = l.decided
  BY <1>4
<1>13. AccountInv(m, book + amount, round)
  BY <1>6, <1>8, <1>9, <1>10, <1>11 DEF AccountInv
<1> QED
  BY <1>12, <1>13 DEF m

(* A checkpoint holds the whole account.                                   *)
LEMMA RestoredIsSame ==
  ASSUME NEW l, Good(l)
  PROVE  Restored(l) = l
<1> DEFINE cost == [s \in Symbols |-> IF s \in Held(l) THEN l.cost[s] ELSE 0]
           adds == [s \in Symbols |-> IF s \in Held(l) THEN l.adds[s] ELSE 0]
<1>1. l \in Accounts /\ Lawful(l)
  BY DEF Good
<1>2. l.cost \in [Symbols -> Int] /\ l.adds \in [Symbols -> Nat]
  BY <1>1 DEF Accounts
<1>3. \A s \in Symbols : l.q[s] = 0 => l.cost[s] = 0 /\ l.adds[s] = 0
  BY <1>1 DEF Lawful, Positioned
<1>4. cost = l.cost /\ adds = l.adds
  BY <1>2, <1>3 DEF Held
<1>5. Restored(l) = [l EXCEPT !.cost = l.cost, !.adds = l.adds]
  BY <1>4 DEF Restored
<1>6. [l EXCEPT !.cost = l.cost, !.adds = l.adds] = l
  BY <1>1 DEF Accounts
<1> QED
  BY <1>5, <1>6

-----------------------------------------------------------------------------
LEMMA SumZero ==
  ASSUME NEW F \in [Symbols -> Int], \A s \in Symbols : F[s] = 0
  PROVE  SumFunction(F) = 0
<1> DEFINE none == {}
           G == [s \in none |-> 0]
<1>1. none \in SUBSET Symbols /\ G \in [none -> Int] /\ \A s \in none : G[s] = F[s]
  OBVIOUS
<1>2. \A s \in Symbols \ none : F[s] = 0
  OBVIOUS
<1>3. IsFiniteSet(none)
  BY FS_EmptySet
<1>4. PICK g : Sums(g, G, none)
  <2> HIDE DEF none, G
  <2> QED
    BY <1>1, <1>3, SumExists
<1>5. g[none] = 0
  BY <1>4 DEF Sums, Adds
<1> HIDE DEF none, G
<1>6. SumFunction(G) = g[none]
  BY <1>1, <1>3, <1>4, SumIs
<1>7. SumFunction(G) = SumFunction(F)
  BY <1>1, <1>2, SymbolsFinite, SumRestrict
<1> QED
  BY <1>5, <1>6, <1>7

LEMMA InitInv == Init => Inv
<1> SUFFICES ASSUME Init PROVE Inv
  OBVIOUS
<1> DEFINE l == EmptyAccount
           zeros == [s \in Symbols |-> 0]
<1>1. config \in Configs /\ account = l /\ cashBook = config.capital
      /\ roundStart = config.capital /\ ok = TRUE /\ steps = 0 /\ batch.rows = <<>>
  BY DEF Init, NoBatch
<1>2. /\ l.cash = config.capital /\ l.q = zeros /\ l.cost = zeros /\ l.adds = zeros
      /\ l.margin = config.initial /\ l.active = Null /\ l.pnl = 0 /\ l.resets = 0
      /\ l.decided = 0
      /\ l = [cash |-> config.capital, q |-> zeros, cost |-> zeros, adds |-> zeros,
              margin |-> config.initial, active |-> Null, pnl |-> 0, resets |-> 0,
              decided |-> 0]
  BY DEF EmptyAccount
<1>3. config.capital \in Nat /\ MaxSteps \in Nat /\ config.initial \in Nat \cup {Null}
  BY <1>1, Numbers, PositionAssumption DEF LegalFields
<1>4. zeros \in [Symbols -> Int] /\ zeros \in [Symbols -> Nat] /\ \A s \in Symbols : zeros[s] = 0
  OBVIOUS
<1> HIDE DEF l, zeros
<1>5. l \in Accounts
  BY <1>2, <1>3, <1>4 DEF Accounts
<1>6. Held(l) = {}
  BY <1>2, <1>4 DEF Held
<1>7. Lawful(l)
  BY <1>2, <1>4 DEF Lawful, Positioned
<1>8. Rounds(l)
  <2>1. CASE Rolling
    BY <1>1, <1>2, <1>6, <2>1, RollingNumbers DEF Rounds
  <2>2. CASE ~Rolling
    <3>1. config.initial = Null
      BY <1>1, <2>2, PositionAssumption DEF LegalSizing, Rolling
    <3> QED
      BY <1>2, <2>2, <3>1 DEF Rounds
  <2> QED
    BY <2>1, <2>2
<1>9. AddsWithin(l)
  <2> SUFFICES ASSUME config.maxAdds # Null, NEW r \in Symbols PROVE l.adds[r] <= config.maxAdds
    BY DEF AddsWithin
  <2>1. config.maxAdds \in Nat
    BY <1>1, PositionAssumption DEF LegalBounds
  <2> QED
    BY <1>2, <1>4, <2>1
<1>10. Cardinality(Held(l)) <= config.maxRows
  BY <1>1, <1>6, FS_EmptySet, Numbers
<1>11. l.cash - SumFunction(l.cost) = config.capital
  <2>1. SumFunction(zeros) = 0
    BY <1>4, SumZero
  <2> QED
    BY <1>2, <1>3, <2>1
<1>12. RoundIs(l, config.capital) /\ OneHeld(l)
  BY <1>2, <1>6 DEF RoundIs, OneHeld
<1>13. AccountInv(l, config.capital, config.capital)
  BY <1>3, <1>5, <1>7, <1>8, <1>9, <1>10, <1>11, <1>12 DEF AccountInv, Good
<1> QED
  BY <1>1, <1>2, <1>3, <1>13, EmptyListed DEF Inv

(* A step leaves the configuration alone.                                  *)
LEMMA Primed ==
  ASSUME config \in Configs, config' = config, ok' \in BOOLEAN, steps' \in 0 .. MaxSteps,
         account'.decided <= MaxSteps, AccountInv(account', cashBook', roundStart'),
         Listed(batch'.rows)
  PROVE  Inv'
<1>1. AccountInv(account, cashBook, roundStart)'
  BY DEF AccountInv, Good, Lawful, Rounds, AddsWithin, RoundIs, OneHeld, Rolling, Single
<1>2. Listed(batch.rows)'
  BY DEF Listed, RowWithin
<1> QED
  BY <1>1, <1>2 DEF Inv

LEMMA FailKeeps == Inv /\ Calling /\ Fails => Inv'
<1> SUFFICES ASSUME Inv, Calling, Fails PROVE Inv'
  OBVIOUS
<1>1. /\ config \in Configs /\ config' = config /\ ok' \in BOOLEAN
      /\ steps' \in 0 .. MaxSteps /\ account' = account /\ batch' = batch
      /\ cashBook' = cashBook /\ roundStart' = roundStart
  <2>1. ok' \in BOOLEAN
    BY Zenon DEF Fails
  <2>2. steps \in 0 .. MaxSteps /\ MaxSteps \in Nat /\ steps < MaxSteps /\ steps' = steps + 1
    BY PositionAssumption DEF Inv, Calling
  <2>3. steps' \in 0 .. MaxSteps
    BY <2>2
  <2>4. config \in Configs /\ config' = config
    BY DEF Inv, Calling
  <2> QED
    BY <2>1, <2>3, <2>4, Zenon DEF Fails
<1>2. AccountInv(account', cashBook', roundStart') /\ Listed(batch'.rows)
      /\ account'.decided <= MaxSteps
  BY <1>1 DEF Inv
<1> QED
  BY <1>1, <1>2, Primed

LEMMA ProcessInv ==
  ASSUME NEW selections \in Snapshots, NEW marks \in [Symbols -> Prices], Inv,
         Process(selections, marks)
  PROVE  Inv'
<1> DEFINE start == Replaced(account, selections, marks)
           sizing == Equity(start.account, marks)
           held == AlreadyHeld(account, selections)
           done == IF held THEN Progress(account, <<>>, 0, 0)
                   ELSE ProcessAll(start, selections, marks, sizing)
           refused == \/ Refused(account, selections, marks) \/ ~Solvent(start.account, marks)
                      \/ ~Solvent(done.account, marks)
<1>1. Calling
  BY DEF Process
<1>2. IF refused THEN Fails
      ELSE /\ account' = [done.account EXCEPT !.decided = steps + 1]
           /\ batch' = [rows |-> done.rows, selections |-> selections, before |-> account.q]
           /\ cashBook' = cashBook + done.paid
           /\ roundStart' = IF held THEN roundStart ELSE StartsRound(start.account, roundStart)
           /\ UNCHANGED ok
  BY Zenon DEF Process
<1>3. CASE refused
  BY <1>1, <1>2, <1>3, FailKeeps
<1>4. CASE ~refused
  <2>1. /\ config \in Configs /\ config' = config /\ ok' \in BOOLEAN
        /\ steps' \in 0 .. MaxSteps /\ steps + 1 \in Nat /\ steps + 1 <= MaxSteps
        /\ ~Refused(account, selections, marks)
        /\ AccountInv(account, cashBook, roundStart)
    BY <1>1, <1>2, <1>4, PositionAssumption DEF Inv, Calling
  <2>2. LegalSnapshot(selections) /\ marks \in Marks
    BY PositionAssumption DEF LegalMarks, Marks
  <2> DEFINE book == cashBook + done.paid
             round == IF held THEN roundStart ELSE StartsRound(start.account, roundStart)
  <2>3. /\ account' = [done.account EXCEPT !.decided = steps + 1] /\ batch'.rows = done.rows
        /\ cashBook' = book /\ roundStart' = round
    BY <1>2, <1>4
  <2>4. AccountInv(done.account, book, round) /\ Listed(done.rows)
    <3>1. CASE held
      <4>1. done.account = account /\ done.rows = <<>> /\ done.paid = 0
        BY <3>1 DEF Progress
      <4>2. cashBook + 0 = cashBook
        BY <2>1 DEF AccountInv
      <4> HIDE DEF done
      <4> QED
        BY <2>1, <3>1, <4>1, <4>2, EmptyListed
    <3>2. CASE ~held
      <4>1. done = ProcessAll(start, selections, marks, sizing)
        BY <3>2
      <4>2. round = StartsRound(start.account, roundStart)
        BY <3>2
      <4>3. LET all == ProcessAll(start, selections, marks, sizing) IN
            /\ AccountInv(all.account, cashBook + all.paid, StartsRound(start.account, roundStart))
            /\ Listed(all.rows) /\ all.paid \in Int
        BY <2>1, <2>2, DecisionKeeps
      <4> HIDE DEF done, start, sizing, round, held
      <4> QED
        BY <4>1, <4>2, <4>3
    <3> QED
      BY <3>1, <3>2
  <2> HIDE DEF done, book, round
  <2>5. AccountInv(account', cashBook', roundStart')
    BY <2>1, <2>3, <2>4, DecidedKeeps
  <2>6. account'.decided <= MaxSteps
    BY <2>1, <2>3, <2>4 DEF AccountInv, Good, Accounts
  <2> QED
    BY <2>1, <2>3, <2>4, <2>5, <2>6, Primed
<1> QED
  BY <1>3, <1>4

LEMMA ExternalInv ==
  ASSUME NEW s \in Symbols, NEW lots, NEW marks \in [Symbols -> Prices], Inv,
         ApplyExternalDelta(s, lots, marks)
  PROVE  Inv'
<1> DEFINE delta == -(Sign(account.q[s]) * lots)
           m == Execute(account, s, delta, marks[s])
<1>1. /\ Calling /\ s \in Held(account) /\ lots \in 1 .. Abs(account.q[s])
      /\ IF ~Solvent(m, marks) THEN Fails
         ELSE /\ account' = m /\ batch' = NoBatch
              /\ cashBook' = cashBook + Payment(delta, marks[s])
              /\ UNCHANGED <<roundStart, ok>>
  BY DEF ApplyExternalDelta
<1>2. CASE ~Solvent(m, marks)
  BY <1>1, <1>2, FailKeeps
<1>3. CASE Solvent(m, marks)
  <2>1. /\ config \in Configs /\ config' = config /\ ok' \in BOOLEAN
        /\ steps' \in 0 .. MaxSteps /\ AccountInv(account, cashBook, roundStart)
        /\ account.decided <= MaxSteps
    BY <1>1, <1>3, PositionAssumption DEF Inv, Calling
  <2>2. marks[s] \in Nat \ {0}
    BY PositionAssumption DEF LegalMarks
  <2>3. AccountInv(m, cashBook + Payment(delta, marks[s]), roundStart)
        /\ m.decided = account.decided
    BY <1>1, <2>1, <2>2, ExitKeeps
  <2> HIDE DEF m, delta
  <2>4. AccountInv(account', cashBook', roundStart') /\ account'.decided <= MaxSteps
    BY <1>1, <1>3, <2>1, <2>3
  <2>5. Listed(batch'.rows)
    BY <1>1, <1>3, EmptyListed DEF NoBatch
  <2> QED
    BY <2>1, <2>4, <2>5, Primed
<1> QED
  BY <1>2, <1>3

LEMMA CashflowInv ==
  ASSUME NEW amount \in Flows, Inv, ApplyCashflow(amount)
  PROVE  Inv'
<1>1. /\ config \in Configs /\ config' = config /\ ok' \in BOOLEAN
      /\ steps' \in 0 .. MaxSteps /\ AccountInv(account, cashBook, roundStart)
      /\ account.decided <= MaxSteps /\ amount \in Int
  BY PositionAssumption, NumbersAssumption DEF Inv, Calling, ApplyCashflow
<1>2. account' = Credited(account, amount) /\ cashBook' = cashBook + amount
      /\ roundStart' = roundStart /\ batch' = NoBatch
  BY DEF ApplyCashflow
<1>3. AccountInv(account', cashBook', roundStart') /\ account'.decided = account.decided
  BY <1>1, <1>2, CreditKeeps
<1>4. Listed(batch'.rows)
  BY <1>2, EmptyListed DEF NoBatch
<1> QED
  BY <1>1, <1>3, <1>4, Primed

LEMMA RestartInv == Inv /\ Restart => Inv'
<1> SUFFICES ASSUME Inv, Restart PROVE Inv'
  OBVIOUS
<1>1. /\ config \in Configs /\ config' = config /\ ok' \in BOOLEAN
      /\ steps' \in 0 .. MaxSteps /\ AccountInv(account, cashBook, roundStart)
      /\ account.decided <= MaxSteps
  <2>1. ok \in BOOLEAN /\ (ok' = ok \/ ok' = FALSE)
    BY Zenon DEF Inv, Restart
  <2>2. ok' \in BOOLEAN
    BY <2>1, Zenon
  <2>3. /\ config \in Configs /\ config' = config /\ steps' \in 0 .. MaxSteps
        /\ AccountInv(account, cashBook, roundStart) /\ account.decided <= MaxSteps
    BY PositionAssumption DEF Inv, Calling, Restart
  <2> QED
    BY <2>2, <2>3
<1>2. Restored(account) = account
  BY <1>1, RestoredIsSame DEF AccountInv
<1>3. account' = account /\ cashBook' = cashBook /\ roundStart' = roundStart
      /\ batch' = NoBatch
  BY <1>2 DEF Restart
<1>4. AccountInv(account', cashBook', roundStart') /\ account'.decided <= MaxSteps
  BY <1>1, <1>3
<1>5. Listed(batch'.rows)
  BY <1>3, EmptyListed DEF NoBatch
<1> QED
  BY <1>1, <1>4, <1>5, Primed

LEMMA NextInv == Inv /\ [Next]_vars => Inv'
<1> SUFFICES ASSUME Inv, [Next]_vars PROVE Inv'
  OBVIOUS
<1>1. ASSUME NEW selections \in Snapshots, NEW marks \in [Symbols -> Prices],
             Process(selections, marks)
      PROVE  Inv'
  BY <1>1, ProcessInv
<1>2. ASSUME NEW s \in Symbols, NEW lots \in 1 .. config.capital,
             NEW marks \in [Symbols -> Prices], ApplyExternalDelta(s, lots, marks)
      PROVE  Inv'
  BY <1>2, ExternalInv
<1>3. ASSUME NEW amount \in Flows, ApplyCashflow(amount) PROVE Inv'
  BY <1>3, CashflowInv
<1>4. CASE Restart
  BY <1>4, RestartInv
<1>5. CASE UNCHANGED vars
  <2>1. /\ config \in Configs /\ config' = config /\ ok' \in BOOLEAN
        /\ steps' \in 0 .. MaxSteps /\ account' = account /\ batch' = batch
        /\ cashBook' = cashBook /\ roundStart' = roundStart
    BY <1>5 DEF Inv, vars
  <2>2. AccountInv(account', cashBook', roundStart') /\ Listed(batch'.rows)
        /\ account'.decided <= MaxSteps
    BY <2>1 DEF Inv
  <2> QED
    BY <2>1, <2>2, Primed
<1> QED
  BY <1>1, <1>2, <1>3, <1>4, <1>5 DEF Next

THEOREM InvHolds == Spec => []Inv
<1> QED
  BY InitInv, NextInv, PTL DEF Spec

-----------------------------------------------------------------------------
(* The state is what the configuration allows it to be, for every book of  *)
(* symbols, prices, snapshots and configurations.                          *)
THEOREM TypeCorrect == Spec => []TypeOK
<1>1. Inv => TypeOK
  <2> SUFFICES ASSUME Inv PROVE TypeOK
    OBVIOUS
  <2>1. account \in Accounts /\ Rounds(account)
    BY DEF Inv, AccountInv, Good
  <2>2. /\ account.cash \in Int /\ account.pnl \in Int /\ account.resets \in Nat
        /\ DOMAIN account.q = Symbols /\ account.decided \in Nat
        /\ \A s \in Symbols :
             account.q[s] \in Int /\ account.cost[s] \in Int /\ account.adds[s] \in Nat
    BY <2>1 DEF Accounts
  <2>3. IF Rolling THEN account.margin \in config.min .. config.max ELSE account.margin = Null
    BY <2>1 DEF Rounds
  <2>4. /\ config \in Configs /\ ok \in BOOLEAN /\ steps \in 0 .. MaxSteps
        /\ account.decided <= MaxSteps /\ cashBook \in Int /\ roundStart \in Int
        /\ MaxSteps \in Nat
    BY PositionAssumption DEF Inv, AccountInv
  <2> QED
    BY <2>2, <2>3, <2>4 DEF TypeOK
<1> QED
  BY <1>1, InvHolds, PTL

(* A later chunk accepts every checkpoint this ledger writes.              *)
THEOREM CheckpointAccepted == Spec => []CheckpointRestores
<1>1. Inv => CheckpointRestores
  <2> SUFFICES ASSUME Inv PROVE Restorable(account)
    BY DEF CheckpointRestores
  <2> DEFINE l == account
  <2>1. /\ config \in Configs /\ l \in Accounts /\ Lawful(l) /\ Rounds(l)
        /\ Cardinality(Held(l)) <= config.maxRows
    BY DEF Inv, AccountInv, Good
  <2> HIDE DEF l
  <2>2. ASSUME NEW s \in Held(l) PROVE l.cost[s] * l.q[s] > 0 /\ l.adds[s] >= 1
    <3>1. s \in Symbols /\ l.q[s] # 0
      BY DEF Held
    <3>2. l.q[s] \in Int /\ l.cost[s] \in Int /\ l.adds[s] \in Nat
      BY <2>1, <3>1 DEF Accounts
    <3> DEFINE q == l.q[s]
               cost == l.cost[s]
               adds == l.adds[s]
    <3>3. Positioned(q, cost, adds)
      BY <2>1, <3>1 DEF Lawful
    <3>4. q \in Int /\ q # 0 /\ cost \in Int /\ adds \in Nat
      BY <3>1, <3>2
    <3> SUFFICES cost * q > 0 /\ adds >= 1
      OBVIOUS
    <3> HIDE DEF q, cost, adds
    <3>5. (cost > 0 /\ q > 0) \/ (cost < 0 /\ q < 0)
      BY <3>3, <3>4 DEF Positioned
    <3>6. cost * q > 0
      BY <3>4, <3>5, ProductSign
    <3> QED
      BY <3>3, <3>4, <3>6 DEF Positioned
  <2>3. ASSUME Rolling
        PROVE  /\ l.margin # Null /\ l.margin > 0 /\ l.resets >= 0
               /\ (Held(l) # {}) = (l.active # Null)
               /\ Held(l) = {} => l.pnl = 0
    <3>1. config.min \in Nat /\ config.max \in Nat /\ 0 < config.min /\ Null \notin Int
      BY <2>1, <2>3, RollingNumbers, Numbers
    <3>2. /\ l.margin \in config.min .. config.max /\ (Held(l) = {}) = (l.active = Null)
          /\ (l.active = Null => l.pnl = 0) /\ l.resets \in Nat
      BY <2>1, <2>3 DEF Rounds, Accounts
    <3>3. l.margin \in Int /\ l.margin > 0
      BY <3>1, <3>2
    <3> QED
      BY <3>1, <3>2, <3>3
  <2>4. ~Rolling => l.margin = Null
    BY <2>1 DEF Rounds
  <2>5. Restorable(l)
    BY <2>1, <2>2, <2>3, <2>4 DEF Restorable
  <2> QED
    BY <2>5 DEF l
<1> QED
  BY <1>1, InvHolds, PTL

(* Cash less the cost of what is held is what was paid: no close, reversal,*)
(* replacement or payment loses or invents money.                          *)
THEOREM CashBalances == Spec => []CashReconciles
<1>1. Inv => CashReconciles
  BY DEF Inv, AccountInv, CashReconciles
<1> QED
  BY <1>1, InvHolds, PTL

(* The result of an open rolling round is what the cash balance gained.    *)
THEOREM RoundsBalance == Spec => []RoundPnlIsCash
<1>1. Inv => RoundPnlIsCash
  BY DEF Inv, AccountInv, RoundIs, RoundPnlIsCash
<1> QED
  BY <1>1, InvHolds, PTL

(* Every instruction that opens leaves the account within its limits.      *)
THEOREM LimitsAreKept == Spec => []LimitsHold
<1>1. Inv => LimitsHold
  <2> SUFFICES ASSUME Inv PROVE LimitsHold
    OBVIOUS
  <2>1. PICK R : batch.rows \in Seq(R) /\ \A r \in R : RowWithin(r)
    BY DEF Inv, Listed
  <2>2. \A i \in DOMAIN batch.rows : RowWithin(batch.rows[i])
    BY <2>1
  <2>3. \A s \in Symbols : config.maxAdds = Null \/ account.adds[s] <= config.maxAdds
    BY DEF Inv, AccountInv, AddsWithin
  <2> QED
    BY <2>2, <2>3 DEF LimitsHold, RowWithin
<1> QED
  BY <1>1, InvHolds, PTL
=============================================================================
