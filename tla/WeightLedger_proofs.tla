------------------------ MODULE WeightLedger_proofs ------------------------
(***************************************************************************)
(* Proofs about WeightLedger, for every configuration, market and capital: *)
(* the equity reconciles with the trades, an exclusion covers every event, *)
(* and chunks that all have bars are one pass.  The model sums by the fold *)
(* of the community modules; the first part says what such a sum is.       *)
(***************************************************************************)
EXTENDS WeightLedger, FiniteSetTheorems, WellFoundedInduction, TLAPS

LEMMA LeastNumber ==
  ASSUME NEW T \in SUBSET Nat, T # {}
  PROVE  \E n \in T : \A m \in T : n <= m
<1> DEFINE Less == {p \in Nat \X Nat : p[1] < p[2]}
<1>1. IsWellFoundedOn(Less, Nat)
  BY NatLessThanWellFounded, Zenon DEF OpToRel
<1>2. PICK n \in T : \A m \in T : <<m, n>> \notin Less
  <2> HIDE DEF Less
  <2> QED
    BY <1>1, WFMin
<1>3. \A m \in T : n <= m
  <2> TAKE m \in T
  <2>1. <<m, n>> \in Nat \X Nat
    OBVIOUS
  <2>2. ~(<<m, n>>[1] < <<m, n>>[2])
    BY <1>2, <2>1
  <2> QED
    BY <2>2
<1> QED
  BY <1>3

-----------------------------------------------------------------------------
(* A sum over a finite set, as the fold of the community modules takes it. *)
Pick(s) == CHOOSE x \in s : TRUE

Adds(g, F, D) ==
  g = [s \in D |-> IF s = {} THEN 0 ELSE F[Pick(s)] + g[s \ {Pick(s)}]]

Sums(g, F, S) == Adds(g, F, SUBSET S) /\ \A s \in SUBSET S : g[s] \in Int

AnyFirst(g, F, S) == \A s \in SUBSET S : \A x \in s : g[s] = F[x] + g[s \ {x}]

UpTo(S, n) == {s \in SUBSET S : Cardinality(s) <= n}

LEMMA PickIn ==
  ASSUME NEW S, IsFiniteSet(S), NEW s \in SUBSET S, s # {}
  PROVE  /\ Pick(s) \in s /\ s \ {Pick(s)} \in SUBSET S
         /\ IsFiniteSet(s) /\ Cardinality(s) \in Nat
         /\ Cardinality(s \ {Pick(s)}) \in Nat
         /\ Cardinality(s \ {Pick(s)}) = Cardinality(s) - 1
<1>1. Pick(s) \in s
  BY DEF Pick
<1>2. IsFiniteSet(s)
  BY FS_Subset
<1> QED
  BY <1>1, <1>2, FS_RemoveElement, FS_CardinalityType

LEMMA SumsUpTo ==
  ASSUME NEW S, IsFiniteSet(S), NEW F \in [S -> Int]
  PROVE  \A n \in Nat : \E g \in [UpTo(S, n) -> Int] : Adds(g, F, UpTo(S, n))
<1> DEFINE Works(n) == \E g \in [UpTo(S, n) -> Int] : Adds(g, F, UpTo(S, n))
           Fails0 == {n \in Nat : ~Works(n)}
<1> SUFFICES ASSUME Fails0 # {} PROVE FALSE
  OBVIOUS
<1>1. PICK n \in Fails0 : \A m \in Fails0 : n <= m
  <2> HIDE DEF Works
  <2> QED
    BY LeastNumber
<1>2. n \in Nat /\ ~Works(n) /\ \A m \in 0 .. n - 1 : Works(m)
  <2> HIDE DEF Works
  <2> QED
    BY <1>1
<1>3. CASE n = 0
  <2> DEFINE g == [s \in UpTo(S, 0) |-> 0]
  <2>1. \A s \in UpTo(S, 0) : s = {}
    BY FS_EmptySet, FS_Subset, FS_CardinalityType DEF UpTo
  <2>2. g = [s \in UpTo(S, 0) |-> IF s = {} THEN 0 ELSE F[Pick(s)] + g[s \ {Pick(s)}]]
    BY <2>1
  <2>3. g \in [UpTo(S, 0) -> Int]
    OBVIOUS
  <2> QED
    BY <1>2, <1>3, <2>2, <2>3 DEF Adds
<1>4. CASE n # 0
  <2>1. n - 1 \in 0 .. n - 1
    BY <1>2, <1>4
  <2>2. PICK h \in [UpTo(S, n - 1) -> Int] : Adds(h, F, UpTo(S, n - 1))
    BY <1>2, <2>1
  <2> DEFINE g == [s \in UpTo(S, n) |->
                     IF s = {} THEN 0 ELSE F[Pick(s)] + h[s \ {Pick(s)}]]
  <2>3. ASSUME NEW s \in UpTo(S, n), s # {}
        PROVE  /\ Pick(s) \in S /\ s \ {Pick(s)} \in UpTo(S, n - 1)
               /\ s \ {Pick(s)} \in UpTo(S, n)
    BY <1>2, <2>3, PickIn DEF UpTo
  <2>4. g \in [UpTo(S, n) -> Int]
    BY <2>3
  <2>5. ASSUME NEW s \in UpTo(S, n - 1), s \in UpTo(S, n) PROVE g[s] = h[s]
    BY <2>2, <2>5 DEF Adds
  <2>6. ASSUME NEW s \in UpTo(S, n)
        PROVE  g[s] = IF s = {} THEN 0 ELSE F[Pick(s)] + g[s \ {Pick(s)}]
    <3>1. CASE s = {}
      BY <3>1
    <3>2. CASE s # {}
      <4>1. g[s \ {Pick(s)}] = h[s \ {Pick(s)}]
        BY <2>3, <2>5, <3>2
      <4>2. g[s] = F[Pick(s)] + h[s \ {Pick(s)}]
        BY <3>2
      <4> HIDE DEF g
      <4> QED
        BY <3>2, <4>1, <4>2
    <3> HIDE DEF g
    <3> QED
      BY <3>1, <3>2
  <2>7. Adds(g, F, UpTo(S, n))
    <3>1. g = [s \in UpTo(S, n) |-> g[s]]
      BY <2>4
    <3> HIDE DEF g
    <3> QED
      BY <2>6, <3>1 DEF Adds
  <2> HIDE DEF g
  <2> QED
    BY <1>2, <2>4, <2>7
<1> QED
  BY <1>3, <1>4

LEMMA SumExists ==
  ASSUME NEW S, IsFiniteSet(S), NEW F \in [S -> Int]
  PROVE  \E g : Sums(g, F, S)
<1>1. Cardinality(S) \in Nat
  BY FS_CardinalityType
<1>2. UpTo(S, Cardinality(S)) = SUBSET S
  BY FS_Subset DEF UpTo
<1>3. \E g \in [UpTo(S, Cardinality(S)) -> Int] : Adds(g, F, UpTo(S, Cardinality(S)))
  BY <1>1, SumsUpTo
<1>4. PICK g \in [SUBSET S -> Int] : Adds(g, F, SUBSET S)
  BY <1>2, <1>3
<1>5. Sums(g, F, S)
  BY <1>4 DEF Sums
<1> QED
  BY <1>5

(* What holds of a set when it holds of all it leaves without one element  *)
(* holds of every subset of a finite set.                                  *)
LEMMA SubsetInduction ==
  ASSUME NEW S, IsFiniteSet(S), NEW Good,
         \A s \in SUBSET S : (\A x \in s : s \ {x} \in Good) => s \in Good
  PROVE  SUBSET S \subseteq Good
<1> DEFINE Sizes == {n \in Nat : \E s \in SUBSET S : Cardinality(s) = n /\ s \notin Good}
<1> SUFFICES ASSUME NEW bad \in SUBSET S, bad \notin Good PROVE FALSE
  OBVIOUS
<1>1. Cardinality(bad) \in Sizes
  BY FS_Subset, FS_CardinalityType
<1>2. PICK n \in Sizes : \A m \in Sizes : n <= m
  BY <1>1, LeastNumber
<1>3. PICK s \in SUBSET S : Cardinality(s) = n /\ s \notin Good
  BY <1>2
<1>4. PICK x \in s : s \ {x} \notin Good
  BY <1>3
<1>5. IsFiniteSet(s)
  BY FS_Subset
<1>6. Cardinality(s \ {x}) \in Nat /\ Cardinality(s \ {x}) = n - 1
  BY <1>3, <1>5, FS_RemoveElement, FS_CardinalityType
<1>7. Cardinality(s \ {x}) \in Sizes /\ n \in Nat
  BY <1>2, <1>4, <1>6
<1> HIDE DEF Sizes
<1> QED
  BY <1>2, <1>6, <1>7

LEMMA SumUnique ==
  ASSUME NEW S, IsFiniteSet(S), NEW F, NEW g, NEW h,
         Adds(g, F, SUBSET S), Adds(h, F, SUBSET S)
  PROVE  \A s \in SUBSET S : g[s] = h[s]
<1> DEFINE Good == {s \in SUBSET S : g[s] = h[s]}
<1>1. ASSUME NEW s \in SUBSET S, \A x \in s : s \ {x} \in Good PROVE s \in Good
  <2>1. g[s] = IF s = {} THEN 0 ELSE F[Pick(s)] + g[s \ {Pick(s)}]
    BY DEF Adds
  <2>2. h[s] = IF s = {} THEN 0 ELSE F[Pick(s)] + h[s \ {Pick(s)}]
    BY DEF Adds
  <2>3. s # {} => s \ {Pick(s)} \in Good
    BY <1>1, PickIn
  <2> QED
    BY <2>1, <2>2, <2>3
<1>2. SUBSET S \subseteq Good
  <2> HIDE DEF Good
  <2>1. \A s \in SUBSET S : (\A x \in s : s \ {x} \in Good) => s \in Good
    BY <1>1
  <2> QED
    BY <2>1, SubsetInduction
<1> QED
  BY <1>2

(* The sum of a function over a finite set is the fold over its domain.    *)
LEMMA SumIs ==
  ASSUME NEW S, IsFiniteSet(S), NEW F \in [S -> Int],
         NEW g, Sums(g, F, S)
  PROVE  SumFunction(F) = g[S]
<1> DEFINE Fold(iter) ==
      iter = [s \in SUBSET S |->
                IF s = {} THEN 0
                ELSE F[CHOOSE x \in s : TRUE] + iter[s \ {CHOOSE x \in s : TRUE}]]
<1>1. SumFunction(F) = (CHOOSE iter : Fold(iter))[S]
  <2>1. DOMAIN F = S
    OBVIOUS
  <2> QED
    BY <2>1, Zenon DEF SumFunction, SumFunctionOnSet, FoldFunctionOnSet, MapThenFoldSet
<1>2. Fold(g)
  BY DEF Sums, Adds, Pick
<1> DEFINE h == CHOOSE iter : Fold(iter)
<1>3. Fold(h)
  <2> HIDE DEF Fold
  <2> QED
    BY <1>2
<1>4. Adds(h, F, SUBSET S)
  <2> HIDE DEF h
  <2> QED
    BY <1>3 DEF Sums, Adds, Pick
<1>5. h[S] = g[S]
  <2> HIDE DEF h, Fold
  <2> QED
    BY <1>4, SumUnique DEF Sums
<1> QED
  BY <1>1, <1>5

LEMMA SumType ==
  ASSUME NEW S, IsFiniteSet(S), NEW F \in [S -> Int]
  PROVE  SumFunction(F) \in Int
<1>1. PICK g : Sums(g, F, S)
  BY SumExists
<1>2. SumFunction(F) = g[S]
  BY <1>1, SumIs
<1> QED
  BY <1>1, <1>2 DEF Sums

(* Any element may be taken first.                                         *)
LEMMA AnyPick ==
  ASSUME NEW S, IsFiniteSet(S), NEW F \in [S -> Int],
         NEW g, Sums(g, F, S)
  PROVE  AnyFirst(g, F, S)
<1> DEFINE Good == {s \in SUBSET S : \A x \in s : g[s] = F[x] + g[s \ {x}]}
<1>1. ASSUME NEW s \in SUBSET S, \A x \in s : s \ {x} \in Good PROVE s \in Good
  <2> SUFFICES ASSUME NEW x \in s PROVE g[s] = F[x] + g[s \ {x}]
    OBVIOUS
  <2> DEFINE p == Pick(s)
  <2>1. p \in s /\ g[s] = F[p] + g[s \ {p}]
    BY PickIn DEF Sums, Adds
  <2> HIDE DEF p
  <2>2. CASE x = p
    BY <2>1, <2>2
  <2>3. CASE x # p
    <3> DEFINE rest == (s \ {p}) \ {x}
    <3>1. g[s \ {p}] = F[x] + g[rest]
      BY <1>1, <2>1, <2>3
    <3>2. g[s \ {x}] = F[p] + g[rest]
      <4>1. g[s \ {x}] = F[p] + g[(s \ {x}) \ {p}]
        BY <1>1, <2>1, <2>3
      <4>2. (s \ {x}) \ {p} = rest
        OBVIOUS
      <4> QED
        BY <4>1, <4>2
    <3>3. F[x] \in Int /\ F[p] \in Int /\ g[rest] \in Int
      BY <2>1 DEF Sums
    <3> HIDE DEF Good, rest
    <3> QED
      BY <2>1, <3>1, <3>2, <3>3
  <2> QED
    BY <2>2, <2>3
<1>2. SUBSET S \subseteq Good
  <2> HIDE DEF Good
  <2>1. \A s \in SUBSET S : (\A x \in s : s \ {x} \in Good) => s \in Good
    BY <1>1
  <2> QED
    BY <2>1, SubsetInduction
<1> QED
  BY <1>2 DEF AnyFirst

Part(F, T) == [x \in T |-> F[x]]

(* Every part of a sum is a sum.                                           *)
LEMMA PartIs ==
  ASSUME NEW S, IsFiniteSet(S), NEW F \in [S -> Int], NEW g, Sums(g, F, S),
         NEW T \in SUBSET S
  PROVE  SumFunction(Part(F, T)) = g[T]
<1> DEFINE h == [s \in SUBSET T |-> g[s]]
<1>1. IsFiniteSet(T)
  BY FS_Subset
<1>2. Part(F, T) \in [T -> Int]
  BY DEF Part
<1>3. Sums(h, Part(F, T), T)
  <2>1. ASSUME NEW s \in SUBSET T
        PROVE  h[s] = IF s = {} THEN 0 ELSE Part(F, T)[Pick(s)] + h[s \ {Pick(s)}]
    <3>1. g[s] = IF s = {} THEN 0 ELSE F[Pick(s)] + g[s \ {Pick(s)}]
      BY DEF Sums, Adds
    <3>2. s # {} => Pick(s) \in T
      BY <1>1, PickIn
    <3> QED
      BY <3>1, <3>2 DEF Part
  <2>2. h = [s \in SUBSET T |-> h[s]]
    OBVIOUS
  <2>3. \A s \in SUBSET T : h[s] \in Int
    BY DEF Sums
  <2> HIDE DEF h
  <2> QED
    BY <2>1, <2>2, <2>3 DEF Sums, Adds
<1>4. h[T] = g[T]
  OBVIOUS
<1> HIDE DEF h
<1> QED
  BY <1>1, <1>2, <1>3, <1>4, SumIs

(* One more element.                                                       *)
LEMMA SumExtend ==
  ASSUME NEW S, IsFiniteSet(S), NEW x, x \notin S, NEW F \in [S \union {x} -> Int]
  PROVE  SumFunction(F) = SumFunction(Part(F, S)) + F[x]
<1> DEFINE U == S \union {x}
<1>1. IsFiniteSet(U)
  BY FS_AddElement
<1>2. PICK g : Sums(g, F, U)
  BY <1>1, SumExists
<1>3. AnyFirst(g, F, U)
  BY <1>1, <1>2, AnyPick
<1>4. U \ {x} = S /\ S \in SUBSET U /\ U \in SUBSET U /\ x \in U
  OBVIOUS
<1>5. g[U] = F[x] + g[S]
  BY <1>3, <1>4 DEF AnyFirst
<1>6. SumFunction(F) = g[U]
  BY <1>1, <1>2, SumIs
<1>7. SumFunction(Part(F, S)) = g[S]
  BY <1>1, <1>2, <1>4, PartIs
<1>8. g[S] \in Int /\ F[x] \in Int
  BY <1>2, <1>4 DEF Sums
<1> QED
  BY <1>5, <1>6, <1>7, <1>8

LEMMA SumNothing ==
  ASSUME NEW F \in [{} -> Int]
  PROVE  SumFunction(F) = 0
<1>1. IsFiniteSet({})
  BY FS_EmptySet
<1>2. PICK g : Sums(g, F, {})
  BY <1>1, SumExists
<1>3. SumFunction(F) = g[{}]
  BY <1>1, <1>2, SumIs
<1> QED
  BY <1>2, <1>3 DEF Sums, Adds

(* Term by term.                                                           *)
LEMMA SumPlus ==
  ASSUME NEW S, IsFiniteSet(S), NEW F \in [S -> Int], NEW G \in [S -> Int],
         NEW H \in [S -> Int], \A x \in S : H[x] = F[x] + G[x]
  PROVE  SumFunction(H) = SumFunction(F) + SumFunction(G)
<1>1. PICK f : Sums(f, F, S)
  BY SumExists
<1>2. PICK g : Sums(g, G, S)
  BY SumExists
<1>3. PICK h : Sums(h, H, S)
  BY SumExists
<1> DEFINE Good == {s \in SUBSET S : h[s] = f[s] + g[s]}
<1>4. ASSUME NEW s \in SUBSET S, \A x \in s : s \ {x} \in Good PROVE s \in Good
  <2>1. CASE s = {}
    BY <1>1, <1>2, <1>3, <2>1 DEF Sums, Adds
  <2>2. CASE s # {}
    <3> DEFINE p == Pick(s)
    <3>1. p \in s /\ p \in S /\ f[s] = F[p] + f[s \ {p}] /\ g[s] = G[p] + g[s \ {p}]
          /\ h[s] = H[p] + h[s \ {p}]
      BY <1>1, <1>2, <1>3, <2>2, PickIn DEF Sums, Adds
    <3> HIDE DEF p
    <3>2. h[s \ {p}] = f[s \ {p}] + g[s \ {p}]
      BY <1>4, <3>1
    <3>3. /\ f[s \ {p}] \in Int /\ g[s \ {p}] \in Int /\ F[p] \in Int /\ G[p] \in Int
          /\ H[p] = F[p] + G[p]
      BY <1>1, <1>2, <3>1 DEF Sums
    <3>4. h[s] = f[s] + g[s]
      BY <3>1, <3>2, <3>3
    <3> QED
      BY <3>4
  <2> QED
    BY <2>1, <2>2
<1>5. SUBSET S \subseteq Good
  <2> HIDE DEF Good
  <2>1. \A s \in SUBSET S : (\A x \in s : s \ {x} \in Good) => s \in Good
    BY <1>4
  <2> QED
    BY <2>1, SubsetInduction
<1>6. h[S] = f[S] + g[S]
  BY <1>5
<1>7. SumFunction(F) = f[S] /\ SumFunction(G) = g[S] /\ SumFunction(H) = h[S]
  BY <1>1, <1>2, <1>3, SumIs
<1> QED
  BY <1>6, <1>7

Image(e, S) == {e[x] : x \in S}

Renames(e, S, R, F, G) ==
  /\ IsFiniteSet(S) /\ e \in [S -> R] /\ \A x, y \in S : e[x] = e[y] => x = y
  /\ F \in [S -> Int] /\ G \in [Image(e, S) -> Int] /\ \A x \in S : F[x] = G[e[x]]

(* A sum over an image, of a function that meets no value twice.           *)
LEMMA SumImage ==
  ASSUME NEW S, NEW R, NEW e, NEW F, NEW G, Renames(e, S, R, F, G)
  PROVE  SumFunction(G) = SumFunction(F)
<1> USE DEF Renames
<1> DEFINE T == Image(e, S)
<1>1. IsFiniteSet(T)
  <2>1. e \in Surjection(S, T)
    BY DEF Surjection, Image
  <2> QED
    BY <2>1, FS_Surjection
<1>2. PICK f : Sums(f, F, S)
  BY SumExists
<1>3. PICK g : Sums(g, G, T)
  BY <1>1, SumExists
<1>4. AnyFirst(g, G, T)
  BY <1>1, <1>3, AnyPick
<1> DEFINE Good == {s \in SUBSET S : f[s] = g[Image(e, s)]}
<1>5. ASSUME NEW s \in SUBSET S, \A x \in s : s \ {x} \in Good PROVE s \in Good
  <2>1. CASE s = {}
    <3>1. Image(e, s) = {}
      BY <2>1 DEF Image
    <3>2. f[{}] = 0 /\ g[{}] = 0
      BY <1>2, <1>3 DEF Sums, Adds
    <3> QED
      BY <2>1, <3>1, <3>2
  <2>2. CASE s # {}
    <3> DEFINE p == Pick(s)
    <3>1. p \in s /\ p \in S /\ f[s] = F[p] + f[s \ {p}]
      BY <1>2, <2>2, PickIn DEF Sums, Adds
    <3> HIDE DEF p
    <3>2. Image(e, s) \in SUBSET T /\ e[p] \in Image(e, s)
      BY <3>1 DEF Image
    <3>3. g[Image(e, s)] = G[e[p]] + g[Image(e, s) \ {e[p]}]
      BY <1>4, <3>2 DEF AnyFirst
    <3>4. Image(e, s) \ {e[p]} = Image(e, s \ {p})
      BY <3>1 DEF Image
    <3>5. f[s \ {p}] = g[Image(e, s \ {p})]
      BY <1>5, <3>1
    <3>6. F[p] = G[e[p]]
      BY <3>1
    <3>7. f[s] = g[Image(e, s)]
      BY <3>1, <3>3, <3>4, <3>5, <3>6
    <3> QED
      BY <3>7
  <2> QED
    BY <2>1, <2>2
<1>6. SUBSET S \subseteq Good
  <2> HIDE DEF Good
  <2>1. \A s \in SUBSET S : (\A x \in s : s \ {x} \in Good) => s \in Good
    BY <1>5
  <2> QED
    BY <2>1, SubsetInduction
<1>7. f[S] = g[T]
  BY <1>6
<1>8. G \in [T -> Int]
  OBVIOUS
<1> HIDE DEF T
<1> QED
  BY <1>1, <1>2, <1>3, <1>7, <1>8, SumIs

(* Two sets that share nothing.                                            *)
LEMMA SumUnion ==
  ASSUME NEW S, IsFiniteSet(S), NEW T, IsFiniteSet(T), S \cap T = {},
         NEW F \in [S \union T -> Int]
  PROVE  SumFunction(F) = SumFunction(Part(F, S)) + SumFunction(Part(F, T))
<1> DEFINE U == S \union T
<1>1. IsFiniteSet(U)
  BY FS_Union
<1>2. PICK g : Sums(g, F, U)
  BY <1>1, SumExists
<1>3. AnyFirst(g, F, U)
  BY <1>1, <1>2, AnyPick
<1> DEFINE Good == {s \in SUBSET T : g[S \union s] = g[S] + g[s]}
<1>4. ASSUME NEW s \in SUBSET T, \A x \in s : s \ {x} \in Good PROVE s \in Good
  <2>1. CASE s = {}
    <3>1. g[{}] = 0 /\ g[S] \in Int
      BY <1>2 DEF Sums, Adds
    <3> QED
      BY <2>1, <3>1
  <2>2. CASE s # {}
    <3>1. PICK p \in s : TRUE
      BY <2>2
    <3>2. (S \union s) \ {p} = S \union (s \ {p})
      BY <3>1
    <3>3. S \union s \in SUBSET U /\ s \in SUBSET U /\ s \ {p} \in SUBSET U /\ S \in SUBSET U
          /\ p \in U
      BY <3>1
    <3>4. g[S \union s] = F[p] + g[S \union (s \ {p})] /\ g[s] = F[p] + g[s \ {p}]
      <4>1. g[s] = F[p] + g[s \ {p}]
        BY <1>3, <3>1, <3>3 DEF AnyFirst
      <4>2. g[S \union s] = F[p] + g[(S \union s) \ {p}]
        BY <1>3, <3>1, <3>3 DEF AnyFirst
      <4> QED
        BY <4>1, <4>2, <3>2
    <3>5. g[S \union (s \ {p})] = g[S] + g[s \ {p}]
      BY <1>4, <3>1
    <3>6. F[p] \in Int /\ g[S] \in Int /\ g[s \ {p}] \in Int
      BY <1>2, <3>3 DEF Sums
    <3>7. g[S \union s] = g[S] + g[s]
      BY <3>4, <3>5, <3>6
    <3> QED
      BY <3>7
  <2> QED
    BY <2>1, <2>2
<1>5. SUBSET T \subseteq Good
  <2> HIDE DEF Good
  <2>1. \A s \in SUBSET T : (\A x \in s : s \ {x} \in Good) => s \in Good
    BY <1>4
  <2> QED
    BY <2>1, SubsetInduction
<1>6. g[U] = g[S] + g[T]
  BY <1>5
<1>7. S \in SUBSET U /\ T \in SUBSET U
  OBVIOUS
<1>8. SumFunction(F) = g[U]
  BY <1>1, <1>2, SumIs
<1>9. SumFunction(Part(F, S)) = g[S] /\ SumFunction(Part(F, T)) = g[T]
  BY <1>1, <1>2, <1>7, PartIs
<1> QED
  BY <1>6, <1>8, <1>9

(* Terms that are zero may be left out.                                    *)
LEMMA SumRestrict ==
  ASSUME NEW S, IsFiniteSet(S), NEW F \in [S -> Int], NEW T \in SUBSET S,
         \A x \in S \ T : F[x] = 0
  PROVE  SumFunction(F) = SumFunction(Part(F, T))
<1>1. PICK g : Sums(g, F, S)
  BY SumExists
<1>2. AnyFirst(g, F, S)
  BY <1>1, AnyPick
<1> DEFINE Good == {s \in SUBSET S : T \subseteq s => g[s] = g[T]}
<1>3. ASSUME NEW s \in SUBSET S, \A x \in s : s \ {x} \in Good PROVE s \in Good
  <2>1. CASE s = T \/ ~(T \subseteq s)
    BY <2>1
  <2>2. CASE s # T /\ T \subseteq s
    <3>1. PICK p \in s : p \notin T
      BY <2>2
    <3>2. T \subseteq s \ {p} /\ F[p] = 0 /\ s \ {p} \in SUBSET S
      BY <2>2, <3>1
    <3>3. g[s] = F[p] + g[s \ {p}]
      BY <1>2, <3>1 DEF AnyFirst
    <3>4. g[s \ {p}] = g[T]
      BY <1>3, <3>1, <3>2
    <3>5. g[T] \in Int
      BY <1>1 DEF Sums
    <3>6. g[s] = g[T]
      BY <3>2, <3>3, <3>4, <3>5
    <3> QED
      BY <3>6
  <2> QED
    BY <2>1, <2>2
<1>4. SUBSET S \subseteq Good
  <2> HIDE DEF Good
  <2>1. \A s \in SUBSET S : (\A x \in s : s \ {x} \in Good) => s \in Good
    BY <1>3
  <2> QED
    BY <2>1, SubsetInduction
<1>5. g[S] = g[T]
  BY <1>4
<1>6. SumFunction(F) = g[S] /\ SumFunction(Part(F, T)) = g[T]
  BY <1>1, SumIs, PartIs
<1> QED
  BY <1>5, <1>6

-----------------------------------------------------------------------------
(* What a run is given, and the types of its ledger.                       *)
Given == config \in Configs /\ market \in [Times -> [Symbols -> Rows]]

TargetType == [fill : Int, symbol : Symbols, weight : Int]

TradeType ==
  [fill : Int, symbol : Symbols, change : Int, price : Int, fee : Int, slippage : Int]

ReturnType == [bar : Int, net : Int, costs : Int, funding : Int]

LedgerType ==
  [q : [Symbols -> Int], average : [Symbols -> Nat \union {Null}],
   requested : [Symbols -> Int], marks : [Symbols -> Nat \union {Null}],
   equity : Int, peak : Int, warnings : SUBSET (Int \X Symbols),
   trades : Seq(SUBSET TradeType), returns : Seq(ReturnType), ok : BOOLEAN]

LEMMA PricesAre ==
  /\ \A p \in Prices : p.open \in Nat \ {0} /\ p.close \in Nat \ {0}
  /\ Null \notin Prices /\ Null \notin Int /\ IsFiniteSet(Symbols)
  BY NumbersAssumption DEF Prices

LEMMA Settings ==
  ASSUME Given
  PROVE  /\ config.longs \in Nat /\ config.shorts \in Nat /\ config.leverage \in Nat
         /\ config.fee \in Nat /\ config.slip \in Nat
         /\ config.maxWeight \in Nat \union {Null}
         /\ config.maxTurnover \in Nat \union {Null}
         /\ IsFiniteSet(config.selections) /\ config.chunk \in Nat \ {0}
         /\ config.funding # Null => IsFiniteSet(config.funding)
  BY NumbersAssumption, WeightAssumption DEF Given

LEMMA Quoted ==
  ASSUME Given, NEW t \in Times, NEW s \in Symbols
  PROVE  /\ Value(t, s) \in Prices \union {Null}
         /\ s \in Trading(t) => market[t][s] \in Prices
         /\ s \in Marked(t) <=> Value(t, s) # Null
<1>1. market[t][s] \in Prices \union {Null}
  BY NumbersAssumption DEF Given
<1>2. config.marks # Null => config.marks[t][s] \in Prices \union {Null}
  BY NumbersAssumption DEF Given
<1> QED
  BY <1>1, <1>2 DEF Value, Trading, Marked

LEMMA EventNumbers ==
  ASSUME Given, NEW e \in Fundings
  PROVE  Event(e)
  BY NumbersAssumption DEF Fundings, Given

LEMMA FundingsFinite ==
  ASSUME Given
  PROVE  IsFiniteSet(Fundings)
<1>1. CASE config.funding = Null
  BY <1>1, FS_EmptySet DEF Fundings
<1>2. CASE config.funding # Null
  BY <1>2, Settings, FS_Subset DEF Fundings
<1> QED
  BY <1>1, <1>2

-----------------------------------------------------------------------------
(* Targets.                                                                *)
LEMMA SizeType ==
  ASSUME Given, NEW row \in config.selections
  PROVE  Size(row) \in Int
<1>1. IsFiniteSet(Peers(row)) /\ row \in Peers(row)
  BY Settings, FS_Subset DEF Peers
<1>2. Cardinality(Peers(row)) \in Nat /\ Cardinality(Peers(row)) > 0
  BY <1>1, FS_EmptySet, FS_CardinalityType
<1> DEFINE F == [r \in Peers(row) |-> r.strength]
<1>3. F \in [Peers(row) -> Int]
  BY WeightAssumption DEF Peers, Given
<1>4. SumFunction(F) \in Int
  <2> HIDE DEF F
  <2> QED
    BY <1>1, <1>3, SumType
<1>5. Budget(row.side) \in Nat
  BY Settings DEF Budget
<1>6. row.strength \in Nat
  BY WeightAssumption DEF Given
<1>7. \A total \in Int : total > 0 => (Budget(row.side) * row.strength) \div total \in Int
  BY <1>5, <1>6
<1>8. Budget(row.side) \div Cardinality(Peers(row)) \in Int
  BY <1>2, <1>5
<1>9. Size(row) = IF SumFunction(F) > 0
                  THEN (Budget(row.side) * row.strength) \div SumFunction(F)
                  ELSE Budget(row.side) \div Cardinality(Peers(row))
  BY DEF Size
<1> HIDE DEF F
<1> QED
  BY <1>4, <1>7, <1>8, <1>9

LEMMA TargetsTyped ==
  ASSUME Given
  PROVE  /\ Targets \in SUBSET TargetType
         /\ \A row \in Targets : row.fill \in Times
<1> SUFFICES ASSUME NEW row \in config.selections
             PROVE  /\ row.signal + config.delay \in Times /\ row.symbol \in Symbols
                    /\ TargetWeight(row) \in Int
  BY DEF Targets, TargetType, Times
<1>1. row.signal + config.delay \in Times /\ row.symbol \in Symbols
  BY NumbersAssumption, WeightAssumption DEF Given
<1>2. Size(row) \in Int
  BY SizeType
<1>3. config.maxWeight \in Nat \union {Null}
  BY Settings
<1> QED
  BY <1>1, <1>2, <1>3 DEF TargetWeight, UnconstrainedWeight

LEMMA ExcludedTyped ==
  ASSUME NEW targets \in SUBSET TargetType, NEW excluded
  PROVE  WithoutExcluded(targets, excluded) \in SUBSET TargetType
  BY DEF WithoutExcluded, TargetType

-----------------------------------------------------------------------------
(* How far a rebalance moves.                                              *)
WeightOf(targets, s) ==
  LET rows == {row \in targets : row.symbol = s}
  IN IF rows = {} THEN 0 ELSE (CHOOSE row \in rows : TRUE).weight

Active(l, targets) == Held(l) \union {row.symbol : row \in targets}

LEMMA WeightType ==
  ASSUME NEW targets \in SUBSET TargetType, NEW s
  PROVE  /\ WeightOf(targets, s) \in Int
         /\ (\A row \in targets : row.symbol = s => row.weight = 0)
              => WeightOf(targets, s) = 0
<1> DEFINE rows == {row \in targets : row.symbol = s}
<1>1. CASE rows = {}
  BY <1>1 DEF WeightOf
<1>2. CASE rows # {}
  <2>1. (CHOOSE row \in rows : TRUE) \in rows
    BY <1>2
  <2> QED
    BY <1>2, <2>1 DEF WeightOf, TargetType
<1> QED
  BY <1>1, <1>2

LEMMA ActiveFinite ==
  ASSUME NEW l, NEW targets \in SUBSET TargetType
  PROVE  Active(l, targets) \in SUBSET Symbols /\ IsFiniteSet(Active(l, targets))
<1>1. Active(l, targets) \in SUBSET Symbols
  BY DEF Active, Held, TargetType
<1> QED
  BY <1>1, PricesAre, FS_Subset

LEMMA QuartersType ==
  ASSUME NEW w \in Int, NEW e \in Int
  PROVE  /\ Quarters(w, e) \in Int
         /\ w >= 0 /\ e >= 0 => Quarters(w, e) >= 0
         /\ w = 0 => Quarters(w, e) = 0
<1>1. w * e \in Int /\ (w >= 0 /\ e >= 0 => w * e >= 0) /\ (w = 0 => w * e = 0)
  OBVIOUS
<1>2. \A n \in Int : n \div 4 \in Int /\ (n >= 0 => n \div 4 >= 0) /\ (n = 0 => n \div 4 = 0)
  OBVIOUS
<1> QED
  BY <1>1, <1>2 DEF Quarters

LEMMA Limited ==
  ASSUME Given, NEW l, l.q \in [Symbols -> Int], NEW t \in Times,
         NEW targets \in SUBSET TargetType, NEW equity \in Nat,
         Active(l, targets) \subseteq Trading(t)
  PROVE  /\ LimitTurnover(l, t, targets, equity) \in [Active(l, targets) -> Int]
         /\ \A s \in Active(l, targets) :
              l.q[s] = 0 /\ WeightOf(targets, s) = 0
                => LimitTurnover(l, t, targets, equity)[s] = 0
<1> DEFINE active == Active(l, targets)
           old == [s \in active |-> l.q[s] * market[t][s].open]
           delta == [s \in active |-> Quarters(WeightOf(targets, s), equity) - old[s]]
           sizes == [s \in active |-> Abs(delta[s])]
           turnover == SumFunction(sizes)
           limit == Quarters(config.maxTurnover, equity)
           moved == [s \in active |->
                       IF config.maxTurnover = Null \/ turnover <= limit
                       THEN old[s] + delta[s]
                       ELSE old[s] + ((delta[s] * limit) \div turnover)]
<1>1. LimitTurnover(l, t, targets, equity) = moved
  BY DEF LimitTurnover, WeightOf, Active
<1>2. ASSUME NEW s \in active
      PROVE  /\ old[s] \in Int /\ delta[s] \in Int /\ sizes[s] \in Int
             /\ l.q[s] = 0 /\ WeightOf(targets, s) = 0 => old[s] = 0 /\ delta[s] = 0
  <2>1. s \in Symbols /\ l.q[s] \in Int
    BY ActiveFinite
  <2>2. market[t][s].open \in Nat
    <3>1. market[t][s] \in Prices
      BY <2>1, Quoted
    <3> QED
      BY <3>1, PricesAre
  <2>3. l.q[s] * market[t][s].open \in Int /\ (l.q[s] = 0 => l.q[s] * market[t][s].open = 0)
    BY <2>1, <2>2
  <2>4. old[s] \in Int /\ (l.q[s] = 0 => old[s] = 0)
    BY <2>3
  <2>5. WeightOf(targets, s) \in Int
    BY WeightType
  <2>6. /\ Quarters(WeightOf(targets, s), equity) \in Int
        /\ WeightOf(targets, s) = 0 => Quarters(WeightOf(targets, s), equity) = 0
    <3>1. equity \in Int
      OBVIOUS
    <3> QED
      BY <2>5, <3>1, QuartersType
  <2>7. delta[s] = Quarters(WeightOf(targets, s), equity) - old[s]
    OBVIOUS
  <2>8. sizes[s] = Abs(delta[s])
    OBVIOUS
  <2> HIDE DEF old, delta, sizes
  <2>9. delta[s] \in Int
    BY <2>4, <2>6, <2>7
  <2>10. sizes[s] \in Int
    BY <2>8, <2>9 DEF Abs
  <2> QED
    BY <2>4, <2>6, <2>7, <2>9, <2>10
<1>3. turnover \in Int
  <2>1. sizes \in [active -> Int]
    BY <1>2
  <2>2. IsFiniteSet(active)
    BY ActiveFinite
  <2> HIDE DEF sizes, active
  <2> QED
    BY <2>1, <2>2, SumType
<1>4. config.maxTurnover # Null => limit \in Int /\ limit >= 0
  <2> SUFFICES ASSUME config.maxTurnover # Null PROVE limit \in Int /\ limit >= 0
    OBVIOUS
  <2>1. config.maxTurnover \in Int /\ config.maxTurnover >= 0
    <3>1. config.maxTurnover \in Nat
      BY Settings
    <3> QED
      BY <3>1
  <2>2. equity \in Int /\ equity >= 0
    OBVIOUS
  <2> QED
    BY <2>1, <2>2, QuartersType
<1>5. ASSUME NEW s \in active
      PROVE  /\ moved[s] \in Int
             /\ l.q[s] = 0 /\ WeightOf(targets, s) = 0 => moved[s] = 0
  <2>1. moved[s] = IF config.maxTurnover = Null \/ turnover <= limit
                   THEN old[s] + delta[s]
                   ELSE old[s] + ((delta[s] * limit) \div turnover)
    OBVIOUS
  <2> HIDE DEF moved, old, delta, turnover, limit
  <2>2. \A o, d \in Int : o + d \in Int /\ (o = 0 /\ d = 0 => o + d = 0)
    OBVIOUS
  <2>3. \A o, d, a, b \in Int : b > 0 =>
          o + ((d * a) \div b) \in Int /\ (o = 0 /\ d = 0 => o + ((d * a) \div b) = 0)
    OBVIOUS
  <2>4. ~(config.maxTurnover = Null \/ turnover <= limit) => turnover > 0
    BY <1>3, <1>4
  <2> QED
    BY <1>2, <1>3, <1>4, <2>1, <2>2, <2>3, <2>4
<1> QED
  BY <1>1, <1>5

-----------------------------------------------------------------------------
(* What a fill does.  A symbol moves by some quantity, at the traded open; *)
(* what the fill gains is the distance of that open to the valued one.     *)
Averaged(l) ==
  \A s \in Symbols : IF l.q[s] = 0 THEN l.average[s] = Null ELSE l.average[s] \in Nat

AllTrades(l) == UNION {l.trades[n] : n \in DOMAIN l.trades}

Bought(trades) == SumFunction([x \in trades |-> x.change * x.price])

Outlay(t, move) ==
  [s \in Symbols |-> IF move[s] = 0 THEN 0 ELSE move[s] * market[t][s].open]

Gain(t, move) ==
  [s \in Symbols |->
     IF move[s] = 0 THEN 0 ELSE move[s] * (Value(t, s).open - market[t][s].open)]

SameMoney(a, b) ==
  /\ a.equity = b.equity /\ a.peak = b.peak /\ a.marks = b.marks
  /\ a.returns = b.returns /\ a.warnings = b.warnings /\ a.ok = b.ok

FillOf(l, t, filled, move) ==
  /\ move \in [Symbols -> Int]
  /\ filled.ledger \in LedgerType /\ SameMoney(filled.ledger, l)
  /\ Averaged(filled.ledger)
  /\ \A s \in Symbols : filled.ledger.q[s] = l.q[s] + move[s]
  /\ \A s \in Symbols : move[s] # 0 => market[t][s] \in Prices /\ Value(t, s) \in Prices
  /\ filled.trades \in SUBSET TradeType /\ IsFiniteSet(filled.trades)
  /\ \A x \in filled.trades : x.fill = t
  /\ AllTrades(filled.ledger) = AllTrades(l) \union filled.trades
  /\ Bought(filled.trades) = SumFunction(Outlay(t, move))
  /\ filled.basis = SumFunction(Gain(t, move))

Unmoved(l, targets, move) ==
  \A s \in Symbols : l.q[s] = 0 /\ WeightOf(targets, s) = 0 => move[s] = 0

LEMMA AbsIs == \A n \in Int : /\ Abs(n) \in Nat /\ (n # 0 => Abs(n) > 0)
  BY DEF Abs

LEMMA Averages ==
  ASSUME NEW old \in Int, NEW new \in Int, NEW price \in Nat, NEW average,
         IF old = 0 THEN average = Null ELSE average \in Nat
  PROVE  IF new = 0 THEN AverageEntry(old, new, average, price) = Null
         ELSE AverageEntry(old, new, average, price) \in Nat
<1>1. CASE new = 0
  BY <1>1 DEF AverageEntry
<1>2. CASE new # 0 /\ (average = Null \/ old * new <= 0 \/ Abs(new) <= Abs(old))
  <2>1. average # Null => average \in Nat
    OBVIOUS
  <2> QED
    BY <1>2, <2>1 DEF AverageEntry
<1>3. CASE new # 0 /\ ~(average = Null \/ old * new <= 0 \/ Abs(new) <= Abs(old))
  <2>1. average \in Nat /\ Abs(old) \in Nat /\ Abs(new - old) \in Nat
        /\ Abs(new) \in Nat /\ Abs(new) > 0
    BY <1>3, AbsIs
  <2>2. Abs(old) * average \in Nat /\ Abs(new - old) * price \in Nat
    BY <2>1
  <2>3. \A a, b, c \in Nat : c > 0 => (a + b) \div c \in Nat
    OBVIOUS
  <2>4. AverageEntry(old, new, average, price)
          = (Abs(old) * average + Abs(new - old) * price) \div Abs(new)
    BY <1>3 DEF AverageEntry
  <2> QED
    BY <1>3, <2>1, <2>2, <2>3, <2>4
<1> QED
  BY <1>1, <1>2, <1>3

LEMMA CostType ==
  ASSUME NEW n \in Int, NEW rate \in Int
  PROVE  Cost(n, rate) \in Int
<1>1. n * rate \in Int
  OBVIOUS
<1> QED
  BY <1>1 DEF Cost

LEMMA TradesAppend ==
  ASSUME NEW l \in LedgerType, NEW trades \in SUBSET TradeType, NEW k,
         k.trades = Append(l.trades, trades)
  PROVE  AllTrades(k) = AllTrades(l) \union trades
<1> DEFINE n == Len(l.trades)
<1>1. l.trades \in Seq(SUBSET TradeType)
  BY DEF LedgerType
<1>2. /\ n \in Nat /\ DOMAIN l.trades = 1 .. n /\ DOMAIN k.trades = 1 .. n + 1
      /\ \A i \in 1 .. n : k.trades[i] = l.trades[i]
      /\ k.trades[n + 1] = trades
  BY <1>1
<1>3. 1 .. n + 1 = (1 .. n) \union {n + 1}
  BY <1>2
<1> HIDE DEF n
<1>4. \A x : x \in AllTrades(k) <=> \E i \in 1 .. n + 1 : x \in k.trades[i]
  BY <1>2 DEF AllTrades
<1>5. \A x : x \in AllTrades(l) <=> \E i \in 1 .. n : x \in l.trades[i]
  BY <1>2 DEF AllTrades
<1> QED
  BY <1>2, <1>3, <1>4, <1>5

(* The parts of a fill that goes through.                                  *)
Limit(l, t, targets, equity) == LimitTurnover(l, t, targets, equity)

Moving(l, t, targets, equity) ==
  [s \in Symbols |->
     IF s \in Active(l, targets)
     THEN (Limit(l, t, targets, equity)[s] \div market[t][s].open) - l.q[s] ELSE 0]

TradeOf(t, move, s) ==
  [fill |-> t, symbol |-> s, change |-> move[s], price |-> market[t][s].open,
   fee |-> Cost(Abs(move[s] * market[t][s].open), config.fee),
   slippage |-> Cost(Abs(move[s] * market[t][s].open), config.slip)]

Fillable(l, t, targets) ==
  \A s \in Active(l, targets) : s \in Trading(t) /\ Complete(t, s) /\ Value(t, s) # Null

SoldIn(t, move, active) == {TradeOf(t, move, s) : s \in {x \in active : move[x] # 0}}

Sold(l, t, targets, move) == SoldIn(t, move, Active(l, targets))

Gains(l, t, targets, move) ==
  [s \in Active(l, targets) |-> move[s] * (Value(t, s).open - market[t][s].open)]

Quantities(l, t, targets, equity) ==
  [s \in Symbols |-> IF s \in Active(l, targets)
                     THEN Limit(l, t, targets, equity)[s] \div market[t][s].open
                     ELSE l.q[s]]

Requested(l, t, targets, equity) ==
  [s \in Symbols |-> IF s \in Active(l, targets) THEN Limit(l, t, targets, equity)[s]
                     ELSE l.requested[s]]

Entries(l, t, targets, equity, move) ==
  [s \in Symbols |->
     IF s \notin {x \in Active(l, targets) : move[x] # 0} THEN l.average[s]
     ELSE AverageEntry(l.q[s], Limit(l, t, targets, equity)[s] \div market[t][s].open,
                       l.average[s], market[t][s].open)]

GoesThrough(l, t, targets, equity, move) ==
  LET filled == Filled(l, t, targets, equity)
  IN /\ Fillable(l, t, targets)
     /\ filled.trades = Sold(l, t, targets, move)
     /\ filled.basis = SumFunction(Gains(l, t, targets, move))
     /\ filled.ledger =
          [l EXCEPT !.q = Quantities(l, t, targets, equity),
                    !.requested = Requested(l, t, targets, equity),
                    !.average = Entries(l, t, targets, equity, move),
                    !.trades = Append(l.trades, Sold(l, t, targets, move))]

LEMMA FilledParts ==
  ASSUME NEW l \in LedgerType, NEW t, NEW targets \in SUBSET TargetType, NEW equity,
         Filled(l, t, targets, equity).ledger.ok
  PROVE  GoesThrough(l, t, targets, equity, Moving(l, t, targets, equity))
<1> DEFINE move == Moving(l, t, targets, equity)
<1> DEFINE active == Held(l) \union {row.symbol : row \in targets}
           limited == LimitTurnover(l, t, targets, equity)
           quantity == [s \in active |-> limited[s] \div market[t][s].open]
           change == [s \in active |-> quantity[s] - l.q[s]]
           traded == {s \in active : change[s] # 0}
           Trade(s) == [fill |-> t, symbol |-> s, change |-> change[s],
                   price |-> market[t][s].open,
                   fee |-> Cost(Abs(change[s] * market[t][s].open), config.fee),
                   slippage |-> Cost(Abs(change[s] * market[t][s].open), config.slip)]
           refused == \/ active \ Trading(t) # {}
                      \/ \E s \in active : ~Complete(t, s) \/ Value(t, s) = Null
           heavy == SumFunction([s \in active |-> Abs(limited[s])])
                      > Quarters(config.leverage, equity)
<1>1. Failed(l).ok = FALSE
  BY DEF Failed, LedgerType
<1>2. refused => Filled(l, t, targets, equity).ledger = Failed(l)
  BY DEF Filled
<1>3. ~refused /\ heavy => Filled(l, t, targets, equity).ledger = Failed(l)
  BY DEF Filled
<1>4. ~refused /\ ~heavy
  BY <1>1, <1>2, <1>3
<1> DEFINE sold == {Trade(s) : s \in traded}
           gains == [s \in active |-> change[s] * (Value(t, s).open - market[t][s].open)]
           held == [s \in Symbols |-> IF s \in active THEN quantity[s] ELSE l.q[s]]
           asked == [s \in Symbols |-> IF s \in active THEN limited[s] ELSE l.requested[s]]
           entries == [s \in Symbols |->
                         IF s \notin traded THEN l.average[s]
                         ELSE AverageEntry(l.q[s], quantity[s], l.average[s], market[t][s].open)]
<1>5. Filled(l, t, targets, equity) =
        [ledger |-> [l EXCEPT !.q = held, !.requested = asked, !.average = entries,
                              !.trades = Append(l.trades, sold)],
         trades |-> sold, basis |-> SumFunction(gains)]
  BY <1>4 DEF Filled
<1>6. active = Active(l, targets) /\ active \in SUBSET Symbols
  BY ActiveFinite DEF Active
<1>7. \A s \in active : change[s] = move[s]
  BY <1>6 DEF Moving, Limit
<1>8. traded = {s \in active : move[s] # 0}
  BY <1>7
<1>9. \A s \in traded : Trade(s) = TradeOf(t, move, s)
  BY <1>7 DEF TradeOf
<1>10. sold = {TradeOf(t, move, s) : s \in traded}
  <2> HIDE DEF traded, Trade
  <2> QED
    BY <1>9
<1>11. gains = [s \in active |-> move[s] * (Value(t, s).open - market[t][s].open)]
  BY <1>7
<1>12. held = [s \in Symbols |-> IF s \in active THEN limited[s] \div market[t][s].open
                                 ELSE l.q[s]]
  OBVIOUS
<1>13. entries = [s \in Symbols |-> IF s \notin traded THEN l.average[s]
               ELSE AverageEntry(l.q[s], limited[s] \div market[t][s].open, l.average[s],
                                 market[t][s].open)]
  <2>1. \A s \in traded : quantity[s] = limited[s] \div market[t][s].open
    OBVIOUS
  <2> HIDE DEF traded, quantity
  <2> QED
    BY <2>1
<1>14. Fillable(l, t, targets)
  BY <1>4, <1>6 DEF Fillable
<1> HIDE DEF sold, gains, held, asked, entries, quantity, change, traded, Trade
<1>15. LET filled == Filled(l, t, targets, equity)
       IN /\ filled.trades = sold /\ filled.basis = SumFunction(gains)
          /\ filled.ledger = [l EXCEPT !.q = held, !.requested = asked, !.average = entries,
                                       !.trades = Append(l.trades, sold)]
  BY <1>5
<1>16. asked = [s \in Symbols |-> IF s \in active THEN limited[s] ELSE l.requested[s]]
  BY DEF asked
<1>17. active = Active(l, targets) /\ limited = Limit(l, t, targets, equity)
  BY <1>6 DEF Limit
<1>18. /\ sold = Sold(l, t, targets, move) /\ gains = Gains(l, t, targets, move)
       /\ held = Quantities(l, t, targets, equity)
       /\ asked = Requested(l, t, targets, equity)
       /\ entries = Entries(l, t, targets, equity, move)
  <2> HIDE DEF active, limited
  <2>1. sold = Sold(l, t, targets, move)
    BY <1>8, <1>10, <1>17 DEF Sold, SoldIn
  <2>2. gains = Gains(l, t, targets, move)
    BY <1>11, <1>17 DEF Gains
  <2>3. held = Quantities(l, t, targets, equity)
    BY <1>12, <1>17 DEF Quantities
  <2>4. asked = Requested(l, t, targets, equity)
    BY <1>16, <1>17 DEF Requested
  <2>5. entries = Entries(l, t, targets, equity, move)
    BY <1>8, <1>13, <1>17 DEF Entries
  <2> QED
    BY <2>1, <2>2, <2>3, <2>4, <2>5
<1> QED
  BY <1>14, <1>15, <1>18 DEF GoesThrough

LEMMA MovingIs ==
  ASSUME Given, NEW l \in LedgerType, NEW t \in Times,
         NEW targets \in SUBSET TargetType, NEW equity \in Nat,
         Fillable(l, t, targets)
  PROVE  LET move == Moving(l, t, targets, equity)
             limited == Limit(l, t, targets, equity)
         IN /\ move \in [Symbols -> Int]
            /\ limited \in [Active(l, targets) -> Int]
            /\ Unmoved(l, targets, move)
            /\ Quantities(l, t, targets, equity) \in [Symbols -> Int]
            /\ \A s \in Symbols : Quantities(l, t, targets, equity)[s] = l.q[s] + move[s]
            /\ \A s \in Symbols : s \notin Active(l, targets) => move[s] = 0
            /\ \A s \in Active(l, targets) :
                 market[t][s] \in Prices /\ Value(t, s) \in Prices
<1> DEFINE active == Active(l, targets)
           limited == Limit(l, t, targets, equity)
           move == Moving(l, t, targets, equity)
<1>1. l.q \in [Symbols -> Int] /\ active \in SUBSET Symbols /\ active \subseteq Trading(t)
  BY ActiveFinite DEF LedgerType, Fillable
<1>2. /\ limited \in [active -> Int]
      /\ \A s \in active : l.q[s] = 0 /\ WeightOf(targets, s) = 0 => limited[s] = 0
  BY <1>1, Limited DEF Limit
<1>3. \A s \in active : market[t][s] \in Prices /\ Value(t, s) \in Prices
  BY <1>1, Quoted DEF Fillable
<1>4. ASSUME NEW s \in Symbols
      PROVE  /\ move[s] \in Int
             /\ Quantities(l, t, targets, equity)[s] \in Int
             /\ Quantities(l, t, targets, equity)[s] = l.q[s] + move[s]
             /\ s \notin active => move[s] = 0
             /\ l.q[s] = 0 /\ WeightOf(targets, s) = 0 => move[s] = 0
  <2>1. l.q[s] \in Int
    BY <1>1
  <2>2. CASE s \notin active
    BY <2>1, <2>2 DEF Moving, Quantities
  <2>3. CASE s \in active
    <3>1. market[t][s].open \in Nat \ {0}
      BY <1>3, <2>3, PricesAre
    <3>2. limited[s] \in Int /\ (l.q[s] = 0 /\ WeightOf(targets, s) = 0 => limited[s] = 0)
      BY <1>2, <2>3
    <3>3. /\ move[s] = (limited[s] \div market[t][s].open) - l.q[s]
          /\ Quantities(l, t, targets, equity)[s] = limited[s] \div market[t][s].open
      BY <2>3 DEF Moving, Quantities
    <3>4. /\ limited[s] \div market[t][s].open \in Int
          /\ limited[s] = 0 => limited[s] \div market[t][s].open = 0
      BY <3>1, <3>2
    <3> HIDE DEF limited, move
    <3> QED
      BY <2>1, <2>3, <3>2, <3>3, <3>4
  <2> QED
    BY <2>2, <2>3
<1>5. move = [s \in Symbols |-> move[s]]
      /\ Quantities(l, t, targets, equity)
           = [s \in Symbols |-> Quantities(l, t, targets, equity)[s]]
  BY DEF Moving, Quantities
<1> HIDE DEF move, limited, active
<1>6. move \in [Symbols -> Int] /\ Quantities(l, t, targets, equity) \in [Symbols -> Int]
  BY <1>4, <1>5
<1> QED
  BY <1>2, <1>3, <1>4, <1>6 DEF Unmoved, move, limited, active

LEMMA TradeTyped ==
  ASSUME Given, NEW t \in Times, NEW s \in Symbols, NEW move \in [Symbols -> Int],
         market[t][s] \in Prices
  PROVE  /\ TradeOf(t, move, s) \in TradeType
         /\ TradeOf(t, move, s).fill = t /\ TradeOf(t, move, s).symbol = s
         /\ TradeOf(t, move, s).change = move[s]
         /\ TradeOf(t, move, s).price = market[t][s].open
<1>1. market[t][s].open \in Nat /\ move[s] \in Int
  BY PricesAre
<1>2. move[s] * market[t][s].open \in Int
  BY <1>1
<1>3. Abs(move[s] * market[t][s].open) \in Int
  BY <1>2, AbsIs
<1>4. config.fee \in Int /\ config.slip \in Int
  BY Settings
<1>5. /\ Cost(Abs(move[s] * market[t][s].open), config.fee) \in Int
      /\ Cost(Abs(move[s] * market[t][s].open), config.slip) \in Int
  BY <1>3, <1>4, CostType
<1>6. t \in Int
  BY DEF Times
<1> QED
  BY <1>1, <1>5, <1>6 DEF TradeOf, TradeType

(* What is paid for the trades is what the moves cost.                     *)
LEMMA BoughtIs ==
  ASSUME Given, NEW t \in Times, NEW active \in SUBSET Symbols,
         NEW move \in [Symbols -> Int],
         \A s \in active : market[t][s] \in Prices,
         \A s \in Symbols : s \notin active => move[s] = 0
  PROVE  /\ SoldIn(t, move, active) \in SUBSET TradeType
         /\ IsFiniteSet(SoldIn(t, move, active))
         /\ \A x \in SoldIn(t, move, active) : x.fill = t
         /\ Bought(SoldIn(t, move, active)) = SumFunction(Outlay(t, move))
<1> DEFINE traded == {x \in active : move[x] # 0}
           sold == SoldIn(t, move, active)
           e == [s \in traded |-> TradeOf(t, move, s)]
           F == Outlay(t, move)
           G == [x \in sold |-> x.change * x.price]
<1>1. IsFiniteSet(traded) /\ traded \in SUBSET Symbols
  BY PricesAre, FS_Subset
<1>2. \A s \in traded : /\ TradeOf(t, move, s) \in TradeType
                        /\ TradeOf(t, move, s).fill = t /\ TradeOf(t, move, s).symbol = s
                        /\ TradeOf(t, move, s).change = move[s]
                        /\ TradeOf(t, move, s).price = market[t][s].open
  BY TradeTyped
<1>3. sold = Image(e, traded) /\ e \in [traded -> TradeType]
  <2>1. sold = {TradeOf(t, move, s) : s \in traded}
    BY DEF SoldIn
  <2> HIDE DEF traded, sold
  <2> QED
    BY <1>2, <2>1 DEF Image
<1> HIDE DEF sold
<1>4. sold \in SUBSET TradeType /\ \A x \in sold : x.fill = t
  <2> HIDE DEF traded
  <2> QED
    BY <1>2, <1>3 DEF Image
<1>5. IsFiniteSet(sold)
  <2>1. e \in Surjection(traded, sold)
    <3> HIDE DEF traded
    <3> QED
      BY <1>3 DEF Surjection, Image
  <2> HIDE DEF e, traded
  <2> QED
    BY <1>1, <2>1, FS_Surjection
<1>6. F \in [Symbols -> Int] /\ \A s \in Symbols \ traded : F[s] = 0
  <2> SUFFICES ASSUME NEW s \in Symbols
               PROVE  F[s] \in Int /\ (s \notin traded => F[s] = 0)
    BY DEF Outlay
  <2>1. F[s] = IF move[s] = 0 THEN 0 ELSE move[s] * market[t][s].open
    BY DEF Outlay
  <2>2. move[s] # 0 => market[t][s].open \in Int /\ s \in traded
    BY PricesAre
  <2>3. move[s] \in Int
    OBVIOUS
  <2>4. \A p \in Int : move[s] * p \in Int
    BY <2>3
  <2> HIDE DEF F, traded
  <2> QED
    BY <2>1, <2>2, <2>4
<1>7. Part(F, traded) \in [traded -> Int]
  BY <1>1, <1>6 DEF Part
<1>8. \A s \in traded : Part(F, traded)[s] = G[e[s]] /\ G[e[s]] \in Int
  <2> TAKE s \in traded
  <2>1. e[s] = TradeOf(t, move, s) /\ e[s] \in sold
    BY <1>3 DEF Image
  <2>2. G[e[s]] = TradeOf(t, move, s).change * TradeOf(t, move, s).price
    BY <2>1
  <2>3. F[s] = move[s] * market[t][s].open
    BY DEF Outlay
  <2>4. Part(F, traded)[s] = F[s] /\ F[s] \in Int
    BY <1>1, <1>6 DEF Part
  <2> HIDE DEF F, G, e, traded
  <2> QED
    BY <1>2, <2>2, <2>3, <2>4
<1>9. G \in [sold -> Int]
  <2>1. \A x \in sold : G[x] \in Int
    <3> TAKE x \in sold
    <3>1. x.change \in Int /\ x.price \in Int
      BY <1>4 DEF TradeType
    <3> QED
      BY <3>1
  <2> QED
    BY <2>1
<1>10. \A x, y \in traded : e[x] = e[y] => x = y
  <2> TAKE x, y \in traded
  <2>1. e[x].symbol = x /\ e[y].symbol = y
    BY <1>2
  <2> QED
    BY <2>1
<1>11. SumFunction(G) = SumFunction(Part(F, traded))
  <2>1. G \in [Image(e, traded) -> Int]
    BY <1>3, <1>9
  <2> DEFINE H == Part(F, traded)
  <2>2. H \in [traded -> Int] /\ \A x \in traded : H[x] = G[e[x]]
    BY <1>7, <1>8
  <2>3. e \in [traded -> TradeType]
    BY <1>3
  <2>4. IsFiniteSet(traded)
    BY <1>1
  <2> HIDE DEF e, G, F, H, traded
  <2>5. SumFunction(G) = SumFunction(H)
    <3>1. Renames(e, traded, TradeType, H, G)
      BY <1>10, <2>1, <2>2, <2>3, <2>4 DEF Renames
    <3> QED
      BY <3>1, SumImage
  <2> QED
    BY <2>5 DEF H
<1>12. SumFunction(F) = SumFunction(Part(F, traded))
  <2> HIDE DEF F, traded
  <2> QED
    BY <1>1, <1>6, PricesAre, SumRestrict
<1> QED
  BY <1>4, <1>5, <1>11, <1>12 DEF Bought, sold

LEMMA GainsAre ==
  ASSUME Given, NEW l, NEW t \in Times, NEW targets \in SUBSET TargetType,
         NEW move \in [Symbols -> Int],
         \A s \in Active(l, targets) : market[t][s] \in Prices /\ Value(t, s) \in Prices,
         \A s \in Symbols : s \notin Active(l, targets) => move[s] = 0
  PROVE  SumFunction(Gains(l, t, targets, move)) = SumFunction(Gain(t, move))
<1> DEFINE active == Active(l, targets)
           F == Gain(t, move)
<1>1. active \in SUBSET Symbols
  BY ActiveFinite
<1>2. ASSUME NEW s \in Symbols
      PROVE  /\ F[s] \in Int /\ (s \notin active => F[s] = 0)
             /\ s \in active => Gains(l, t, targets, move)[s] = F[s]
  <2>1. F[s] = IF move[s] = 0 THEN 0 ELSE move[s] * (Value(t, s).open - market[t][s].open)
    BY DEF Gain
  <2>2. s \in active => Value(t, s).open \in Int /\ market[t][s].open \in Int
    BY PricesAre
  <2>3. s \in active => Gains(l, t, targets, move)[s]
                          = move[s] * (Value(t, s).open - market[t][s].open)
    BY DEF Gains
  <2>4. move[s] \in Int /\ \A p, r \in Int : move[s] * (p - r) \in Int
                                             /\ (move[s] = 0 => move[s] * (p - r) = 0)
    OBVIOUS
  <2> HIDE DEF F
  <2> QED
    BY <2>1, <2>2, <2>3, <2>4
<1>3. F \in [Symbols -> Int] /\ \A s \in Symbols \ active : F[s] = 0
  <2>1. F = [s \in Symbols |-> F[s]]
    BY DEF Gain
  <2> HIDE DEF F
  <2> QED
    BY <1>2, <2>1
<1>4. Gains(l, t, targets, move) = Part(F, active)
  <2> DEFINE G == Gains(l, t, targets, move)
  <2>1. G = [s \in active |-> G[s]]
    BY DEF Gains
  <2> HIDE DEF F, G
  <2>2. \A s \in active : G[s] = F[s]
    BY <1>1, <1>2 DEF G
  <2> QED
    BY <2>1, <2>2 DEF Part, G
<1> HIDE DEF F, active
<1>5. SumFunction(F) = SumFunction(Part(F, active))
  BY <1>1, <1>3, PricesAre, SumRestrict
<1> QED
  BY <1>4, <1>5 DEF F

LEMMA FilledIs ==
  ASSUME Given, NEW l \in LedgerType, Averaged(l), NEW t \in Times,
         NEW targets \in SUBSET TargetType, NEW equity \in Nat,
         Filled(l, t, targets, equity).ledger.ok
  PROVE  \E move : /\ FillOf(l, t, Filled(l, t, targets, equity), move)
                   /\ Unmoved(l, targets, move)
<1> DEFINE move == Moving(l, t, targets, equity)
           filled == Filled(l, t, targets, equity)
           k == filled.ledger
           sold == Sold(l, t, targets, move)
           active == Active(l, targets)
           limited == Limit(l, t, targets, equity)
<1>1. /\ Fillable(l, t, targets)
      /\ filled.trades = sold
      /\ filled.basis = SumFunction(Gains(l, t, targets, move))
      /\ k = [l EXCEPT !.q = Quantities(l, t, targets, equity),
                       !.requested = Requested(l, t, targets, equity),
                       !.average = Entries(l, t, targets, equity, move),
                       !.trades = Append(l.trades, sold)]
  <2>1. GoesThrough(l, t, targets, equity, move)
    BY FilledParts
  <2> HIDE DEF move
  <2> QED
    BY <2>1 DEF GoesThrough
<1>2. /\ move \in [Symbols -> Int] /\ Unmoved(l, targets, move)
      /\ limited \in [active -> Int]
      /\ Quantities(l, t, targets, equity) \in [Symbols -> Int]
      /\ \A s \in Symbols : Quantities(l, t, targets, equity)[s] = l.q[s] + move[s]
      /\ \A s \in Symbols : s \notin active => move[s] = 0
      /\ \A s \in active : market[t][s] \in Prices /\ Value(t, s) \in Prices
  BY <1>1, MovingIs
<1>3. active \in SUBSET Symbols
  BY ActiveFinite
<1> HIDE DEF move, filled, active, limited, sold
<1>4. /\ sold \in SUBSET TradeType /\ IsFiniteSet(sold)
      /\ \A x \in sold : x.fill = t
      /\ Bought(sold) = SumFunction(Outlay(t, move))
  <2>1. sold = SoldIn(t, move, active)
    BY DEF sold, Sold, active
  <2> QED
    BY <1>2, <1>3, <2>1, BoughtIs
<1>5. SumFunction(Gains(l, t, targets, move)) = SumFunction(Gain(t, move))
  BY <1>2, GainsAre DEF active
<1>6. Requested(l, t, targets, equity) \in [Symbols -> Int]
  <2>1. l.requested \in [Symbols -> Int]
    BY DEF LedgerType
  <2> QED
    BY <1>2, <2>1 DEF Requested, active, limited
<1> DEFINE entries == Entries(l, t, targets, equity, move)
<1>7. ASSUME NEW s \in Symbols
      PROVE  IF Quantities(l, t, targets, equity)[s] = 0 THEN entries[s] = Null
             ELSE entries[s] \in Nat
  <2>1. IF l.q[s] = 0 THEN l.average[s] = Null ELSE l.average[s] \in Nat
    BY DEF Averaged
  <2>2. l.q[s] \in Int /\ move[s] \in Int
    BY <1>2 DEF LedgerType
  <2>3. CASE s \in active /\ move[s] # 0
    <3>1. Quantities(l, t, targets, equity)[s] = limited[s] \div market[t][s].open
      BY <2>3 DEF Quantities, limited, active
    <3>2. entries[s] = AverageEntry(l.q[s], Quantities(l, t, targets, equity)[s],
                                    l.average[s], market[t][s].open)
      BY <2>3, <3>1 DEF Entries, limited, active
    <3>3. market[t][s].open \in Nat /\ Quantities(l, t, targets, equity)[s] \in Int
      BY <1>2, <2>3, PricesAre
    <3> HIDE DEF entries
    <3> QED
      BY <2>1, <2>2, <3>2, <3>3, Averages
  <2>4. CASE ~(s \in active /\ move[s] # 0)
    <3>1. entries[s] = l.average[s]
      BY <2>4 DEF Entries, active
    <3>2. move[s] = 0
      BY <1>2, <2>4
    <3>3. Quantities(l, t, targets, equity)[s] = l.q[s]
      BY <1>2, <2>2, <3>2
    <3> QED
      BY <2>1, <3>1, <3>3
  <2> QED
    BY <2>3, <2>4
<1>8. entries \in [Symbols -> Nat \union {Null}]
  <2>1. entries = [s \in Symbols |-> entries[s]]
    BY DEF Entries
  <2> HIDE DEF entries
  <2> QED
    BY <1>7, <2>1
<1> HIDE DEF entries
<1>9. Append(l.trades, sold) \in Seq(SUBSET TradeType)
  BY <1>4 DEF LedgerType
<1>10. /\ k.q = Quantities(l, t, targets, equity) /\ k.average = entries
       /\ k.requested = Requested(l, t, targets, equity)
       /\ k.trades = Append(l.trades, sold)
       /\ SameMoney(k, l)
  BY <1>1 DEF LedgerType, SameMoney, entries
<1>16. k \in LedgerType
  <2>1. k = [q |-> Quantities(l, t, targets, equity), average |-> entries,
             requested |-> Requested(l, t, targets, equity), marks |-> l.marks,
             equity |-> l.equity, peak |-> l.peak, warnings |-> l.warnings,
             trades |-> Append(l.trades, sold), returns |-> l.returns, ok |-> l.ok]
    BY <1>1 DEF LedgerType, entries
  <2> HIDE DEF k
  <2> QED
    BY <1>2, <1>6, <1>8, <1>9, <2>1 DEF LedgerType
<1> HIDE DEF k
<1>11. Averaged(k)
  BY <1>7, <1>10 DEF Averaged
<1>12. AllTrades(k) = AllTrades(l) \union sold
  BY <1>4, <1>10, TradesAppend
<1>13. \A s \in Symbols : k.q[s] = l.q[s] + move[s]
  BY <1>2, <1>10
<1>14. \A s \in Symbols : move[s] # 0 => market[t][s] \in Prices /\ Value(t, s) \in Prices
  BY <1>2
<1>15. FillOf(l, t, filled, move)
  BY <1>1, <1>2, <1>4, <1>5, <1>10, <1>11, <1>12, <1>13, <1>14, <1>16 DEF FillOf, k
<1> QED
  BY <1>2, <1>15 DEF filled

LEMMA NothingFilled ==
  ASSUME Given, NEW l \in LedgerType, Averaged(l), NEW t, NEW targets
  PROVE  \E move : /\ FillOf(l, t, [ledger |-> l, trades |-> {}, basis |-> 0], move)
                   /\ Unmoved(l, targets, move)
<1> DEFINE move == [s \in Symbols |-> 0]
           filled == [ledger |-> l, trades |-> {}, basis |-> 0]
<1>1. Outlay(t, move) = move /\ Gain(t, move) = move
  BY DEF Outlay, Gain
<1>2. move \in [Symbols -> Int] /\ \A s \in Symbols : move[s] = 0
  OBVIOUS
<1>3. SumFunction(move) = 0
  <2>1. Part(move, {}) \in [{} -> Int]
    BY DEF Part
  <2>2. SumFunction(Part(move, {})) = 0
    BY <2>1, SumNothing
  <2> HIDE DEF move
  <2> QED
    BY <1>2, <2>2, PricesAre, SumRestrict
<1>4. Bought({}) = 0
  <2> DEFINE G == [x \in {} |-> x.change * x.price]
  <2>1. G \in [{} -> Int]
    OBVIOUS
  <2> HIDE DEF G
  <2>2. SumFunction(G) = 0
    BY <2>1, SumNothing
  <2> QED
    BY <2>2 DEF Bought, G
<1>5. \A s \in Symbols : l.q[s] = l.q[s] + move[s]
  BY DEF LedgerType
<1>6. SameMoney(l, l) /\ IsFiniteSet({})
  BY FS_EmptySet DEF SameMoney
<1>7. Unmoved(l, targets, move)
  BY DEF Unmoved
<1>8. filled.ledger = l /\ filled.trades = {} /\ filled.basis = 0
  OBVIOUS
<1> HIDE DEF move, filled
<1>9. FillOf(l, t, filled, move)
  BY <1>1, <1>2, <1>3, <1>4, <1>5, <1>6, <1>8 DEF FillOf
<1> QED
  BY <1>7, <1>9 DEF filled

-----------------------------------------------------------------------------
(* The equity of a ledger is the cash of its trades, its fundings and the  *)
(* worth of what it holds at its marks.                                    *)
OutOf(trades) ==
  SumFunction([x \in trades |-> x.change * x.price + x.fee + x.slippage])

Funded(l) == SumFunction([n \in DOMAIN l.returns |-> l.returns[n].funding])

Worth(l) == SumFunction([s \in Held(l) |-> l.q[s] * l.marks[s]])

Sound(l, t) ==
  /\ l \in LedgerType /\ Averaged(l)
  /\ l.equity > 0 /\ l.equity <= l.peak
  /\ \A s \in Held(l) : l.marks[s] \in Nat
  /\ IsFiniteSet(AllTrades(l)) /\ \A x \in AllTrades(l) : x.fill < t
  /\ l.equity = Capital - OutOf(AllTrades(l)) + Funded(l) + Worth(l)

LEMMA Balanced ==
  \A q, m, p, v, o, c \in Int :
    q * p + q * (v - p) + m * (v - o) + m * o + (q + m) * (c - v) = (q + m) * c
  OBVIOUS

Vanishes(F, T) == \A x \in DOMAIN F \ T : F[x] = 0

(* A sum over some symbols is a sum over all that is zero for the others.  *)
LEMMA SumSome ==
  ASSUME NEW F \in [Symbols -> Int], NEW T \in SUBSET Symbols, Vanishes(F, T),
         NEW G, DOMAIN G = T, G = [s \in T |-> G[s]], \A s \in T : G[s] = F[s]
  PROVE  SumFunction(G) = SumFunction(F)
<1>1. G = Part(F, T)
  BY DEF Part
<1>2. SumFunction(F) = SumFunction(Part(F, T))
  BY PricesAre, SumRestrict DEF Vanishes
<1> QED
  BY <1>1, <1>2

LEMMA TradesCost ==
  ASSUME NEW trades \in SUBSET TradeType, IsFiniteSet(trades)
  PROVE  /\ OutOf(trades) \in Int /\ Bought(trades) \in Int
         /\ SumFunction([x \in trades |-> x.fee + x.slippage]) \in Int
         /\ OutOf(trades)
              = Bought(trades) + SumFunction([x \in trades |-> x.fee + x.slippage])
<1> DEFINE F == [x \in trades |-> x.change * x.price]
           G == [x \in trades |-> x.fee + x.slippage]
           H == [x \in trades |-> x.change * x.price + x.fee + x.slippage]
<1>1. ASSUME NEW x \in trades
      PROVE  F[x] \in Int /\ G[x] \in Int /\ H[x] \in Int /\ H[x] = F[x] + G[x]
  <2>1. x.change \in Int /\ x.price \in Int /\ x.fee \in Int /\ x.slippage \in Int
    BY DEF TradeType
  <2>2. x.change * x.price \in Int
    BY <2>1
  <2>3. \A a, b, c \in Int : a + b + c = a + (b + c)
    OBVIOUS
  <2> QED
    BY <2>1, <2>2, <2>3
<1>2. F \in [trades -> Int] /\ G \in [trades -> Int] /\ H \in [trades -> Int]
  BY <1>1
<1>3. OutOf(trades) = SumFunction(H) /\ Bought(trades) = SumFunction(F)
  BY DEF OutOf, Bought
<1>4. \A x \in trades : H[x] = F[x] + G[x]
  BY <1>1
<1> HIDE DEF F, G, H
<1>5. SumFunction(H) = SumFunction(F) + SumFunction(G)
  BY <1>2, <1>4, SumPlus
<1>6. SumFunction(H) \in Int /\ SumFunction(F) \in Int /\ SumFunction(G) \in Int
  BY <1>2, SumType
<1> QED
  BY <1>3, <1>5, <1>6 DEF G

LEMMA TradesAdd ==
  ASSUME NEW a \in SUBSET TradeType, IsFiniteSet(a), NEW b \in SUBSET TradeType,
         IsFiniteSet(b), a \cap b = {}
  PROVE  OutOf(a \union b) = OutOf(a) + OutOf(b)
<1> DEFINE F == [x \in a \union b |-> x.change * x.price + x.fee + x.slippage]
<1>1. ASSUME NEW x \in a \union b PROVE F[x] \in Int
  <2>1. x.change \in Int /\ x.price \in Int /\ x.fee \in Int /\ x.slippage \in Int
    BY DEF TradeType
  <2> QED
    BY <2>1
<1>2. F \in [a \union b -> Int]
  BY <1>1
<1>3. /\ Part(F, a) = [x \in a |-> x.change * x.price + x.fee + x.slippage]
      /\ Part(F, b) = [x \in b |-> x.change * x.price + x.fee + x.slippage]
  BY DEF Part
<1>4. OutOf(a \union b) = SumFunction(F)
  BY DEF OutOf
<1> HIDE DEF F
<1>5. SumFunction(F) = SumFunction(Part(F, a)) + SumFunction(Part(F, b))
  BY <1>2, SumUnion
<1> QED
  BY <1>3, <1>4, <1>5 DEF OutOf

LEMMA FundedIs ==
  ASSUME NEW l \in LedgerType
  PROVE  Funded(l) \in Int
<1> DEFINE F == [n \in DOMAIN l.returns |-> l.returns[n].funding]
<1>1. l.returns \in Seq(ReturnType)
  BY DEF LedgerType
<1>2. DOMAIN l.returns = 1 .. Len(l.returns) /\ Len(l.returns) \in Nat
  BY <1>1
<1>3. IsFiniteSet(DOMAIN l.returns)
  BY <1>2, FS_Interval
<1>4. F \in [DOMAIN l.returns -> Int]
  <2>1. \A i \in DOMAIN l.returns : l.returns[i] \in ReturnType
    BY <1>1, <1>2
  <2>2. \A i \in DOMAIN l.returns : l.returns[i].funding \in Int
    BY <2>1 DEF ReturnType
  <2> QED
    BY <2>2
<1> HIDE DEF F
<1>5. SumFunction(F) \in Int
  BY <1>3, <1>4, SumType
<1> QED
  BY <1>5 DEF Funded, F

LEMMA FundedAppend ==
  ASSUME NEW l \in LedgerType, NEW r \in ReturnType, NEW k,
         k.returns = Append(l.returns, r)
  PROVE  Funded(k) = Funded(l) + r.funding
<1> DEFINE n == Len(l.returns)
           F == [i \in DOMAIN k.returns |-> k.returns[i].funding]
<1>1. l.returns \in Seq(ReturnType)
  BY DEF LedgerType
<1>2. /\ n \in Nat /\ DOMAIN l.returns = 1 .. n /\ DOMAIN k.returns = 1 .. n + 1
      /\ \A i \in 1 .. n : k.returns[i] = l.returns[i]
      /\ k.returns[n + 1] = r
  BY <1>1
<1>3. 1 .. n + 1 = (1 .. n) \union {n + 1} /\ n + 1 \notin 1 .. n
  BY <1>2
<1>4. \A i \in 1 .. n : l.returns[i] \in ReturnType
  BY <1>1, <1>2
<1>5. ASSUME NEW i \in 1 .. n + 1 PROVE F[i] \in Int
  <2>1. k.returns[i] \in ReturnType
    BY <1>2, <1>3, <1>4
  <2> QED
    BY <1>2, <2>1 DEF ReturnType
<1>6. F \in [(1 .. n) \union {n + 1} -> Int]
  BY <1>2, <1>3, <1>5
<1>7. Part(F, 1 .. n) = [i \in DOMAIN l.returns |-> l.returns[i].funding]
  BY <1>2, <1>3 DEF Part
<1>8. F[n + 1] = r.funding
  BY <1>2, <1>3
<1>9. IsFiniteSet(1 .. n)
  BY <1>2, FS_Interval
<1> HIDE DEF F, n
<1>10. SumFunction(F) = SumFunction(Part(F, 1 .. n)) + F[n + 1]
  BY <1>3, <1>6, <1>9, SumExtend
<1> QED
  BY <1>7, <1>8, <1>10 DEF Funded, F

LEMMA CashflowType ==
  ASSUME Given, NEW t \in Times, NEW l \in LedgerType, NEW events \in SUBSET Fundings,
         Held(l) \subseteq Marked(t)
  PROVE  FundingCashflow(l, t, events) \in Int
<1> DEFINE pairs == (events \X Held(l)) \ Missing(l, events)
           F == [pair \in pairs |->
                 -(l.q[pair[2]] * FundingPrice(t, pair[2], pair[1])
                     * pair[1].rates[pair[2]]) \div 8]
<1>1. IsFiniteSet(pairs)
  <2>1. IsFiniteSet(events) /\ IsFiniteSet(Held(l))
    BY FundingsFinite, PricesAre, FS_Subset DEF Held
  <2>2. IsFiniteSet(events \X Held(l))
    BY <2>1, FS_Product
  <2> QED
    BY <2>2, FS_Subset
<1>2. ASSUME NEW pair \in pairs PROVE F[pair] \in Int
  <2>1. /\ pair[1] \in Fundings /\ pair[2] \in Symbols /\ pair[2] \in Held(l)
        /\ pair[2] \in DOMAIN pair[1].rates
    BY DEF Missing, Held
  <2>2. Event(pair[1])
    BY <2>1, EventNumbers
  <2>3. pair[1].rates[pair[2]] \in Int /\ pair[1].mark \in Nat \union {Null}
    BY <2>1, <2>2 DEF Event
  <2>4. Value(t, pair[2]) \in Prices
    BY <2>1, Quoted
  <2>5. FundingPrice(t, pair[2], pair[1]) \in Int
    <3>1. Value(t, pair[2]).close \in Nat
      BY <2>4, PricesAre
    <3> QED
      BY <2>3, <3>1 DEF FundingPrice
  <2>6. l.q[pair[2]] \in Int
    BY <2>1 DEF LedgerType
  <2>7. \A a, b, c \in Int : -(a * b * c) \div 8 \in Int
    OBVIOUS
  <2>8. F[pair] = -(l.q[pair[2]] * FundingPrice(t, pair[2], pair[1])
                      * pair[1].rates[pair[2]]) \div 8
    OBVIOUS
  <2> HIDE DEF F
  <2> QED
    BY <2>3, <2>5, <2>6, <2>7, <2>8
<1>3. F \in [pairs -> Int]
  BY <1>2
<1>4. FundingCashflow(l, t, events) = SumFunction(F)
  BY DEF FundingCashflow
<1> HIDE DEF F, pairs
<1> QED
  BY <1>1, <1>3, <1>4, SumType

-----------------------------------------------------------------------------
(* One bar, symbol by symbol.                                              *)
WorthOf(l, marks) == [s \in Symbols |-> IF l.q[s] = 0 THEN 0 ELSE l.q[s] * marks[s]]

GapOf(l, t) ==
  [s \in Symbols |-> IF l.q[s] = 0 THEN 0 ELSE l.q[s] * (Value(t, s).open - l.marks[s])]

IntrabarOf(l, t) ==
  [s \in Symbols |->
     IF l.q[s] = 0 THEN 0 ELSE l.q[s] * (Value(t, s).close - Value(t, s).open)]

ClosesOf(t) == [s \in Symbols |-> IF s \in Marked(t) THEN Value(t, s).close ELSE Null]

LEMMA WorthIs ==
  ASSUME NEW l \in LedgerType, \A s \in Held(l) : l.marks[s] \in Nat
  PROVE  /\ WorthOf(l, l.marks) \in [Symbols -> Int]
         /\ Worth(l) = SumFunction(WorthOf(l, l.marks))
<1> DEFINE F == WorthOf(l, l.marks)
           G == [s \in Held(l) |-> l.q[s] * l.marks[s]]
<1>1. ASSUME NEW s \in Symbols
      PROVE  F[s] \in Int /\ (s \notin Held(l) => F[s] = 0) /\ (s \in Held(l) => G[s] = F[s])
  <2>1. l.q[s] \in Int /\ (s \in Held(l) <=> l.q[s] # 0)
    BY DEF Held, LedgerType
  <2>2. s \in Held(l) => l.q[s] * l.marks[s] \in Int
    BY <2>1
  <2> QED
    BY <2>1, <2>2 DEF WorthOf
<1>2. F = [s \in Symbols |-> F[s]] /\ G = [s \in Held(l) |-> G[s]] /\ DOMAIN G = Held(l)
  BY DEF WorthOf
<1>3. Held(l) \in SUBSET Symbols
  BY DEF Held
<1>4. Worth(l) = SumFunction(G)
  BY DEF Worth
<1> HIDE DEF F, G
<1>5. F \in [Symbols -> Int] /\ Vanishes(F, Held(l)) /\ \A s \in Held(l) : G[s] = F[s]
  BY <1>1, <1>2, <1>3 DEF Vanishes
<1>6. SumFunction(G) = SumFunction(F)
  BY <1>2, <1>3, <1>5, SumSome
<1> QED
  BY <1>4, <1>5, <1>6 DEF F

LEMMA GapIs ==
  ASSUME Given, NEW t \in Times, NEW l \in LedgerType,
         \A s \in Held(l) : l.marks[s] \in Nat, Held(l) \subseteq Marked(t)
  PROVE  /\ GapOf(l, t) \in [Symbols -> Int]
         /\ GapPnl(l, t) = SumFunction(GapOf(l, t))
<1> DEFINE F == GapOf(l, t)
           G == [s \in Held(l) |-> l.q[s] * (Value(t, s).open - l.marks[s])]
<1>1. ASSUME NEW s \in Symbols
      PROVE  F[s] \in Int /\ (s \notin Held(l) => F[s] = 0) /\ (s \in Held(l) => G[s] = F[s])
  <2>1. l.q[s] \in Int /\ (s \in Held(l) <=> l.q[s] # 0)
    BY DEF Held, LedgerType
  <2>2. s \in Held(l) => Value(t, s).open \in Int
    <3>1. s \in Held(l) => Value(t, s) \in Prices
      BY Quoted
    <3> QED
      BY <3>1, PricesAre
  <2>3. s \in Held(l) => l.q[s] * (Value(t, s).open - l.marks[s]) \in Int
    BY <2>1, <2>2
  <2> QED
    BY <2>1, <2>3 DEF GapOf
<1>2. F = [s \in Symbols |-> F[s]] /\ G = [s \in Held(l) |-> G[s]] /\ DOMAIN G = Held(l)
  BY DEF GapOf
<1>3. Held(l) \in SUBSET Symbols
  BY DEF Held
<1>4. GapPnl(l, t) = SumFunction(G)
  BY DEF GapPnl
<1> HIDE DEF F, G
<1>5. F \in [Symbols -> Int] /\ Vanishes(F, Held(l)) /\ \A s \in Held(l) : G[s] = F[s]
  BY <1>1, <1>2, <1>3 DEF Vanishes
<1>6. SumFunction(G) = SumFunction(F)
  BY <1>2, <1>3, <1>5, SumSome
<1> QED
  BY <1>4, <1>5, <1>6 DEF F

LEMMA IntrabarIs ==
  ASSUME Given, NEW t \in Times, NEW l \in LedgerType, Held(l) \subseteq Marked(t)
  PROVE  /\ IntrabarOf(l, t) \in [Symbols -> Int]
         /\ IntrabarPnl(l, t) = SumFunction(IntrabarOf(l, t))
<1> DEFINE F == IntrabarOf(l, t)
           G == [s \in Held(l) |-> l.q[s] * (Value(t, s).close - Value(t, s).open)]
<1>1. ASSUME NEW s \in Symbols
      PROVE  F[s] \in Int /\ (s \notin Held(l) => F[s] = 0) /\ (s \in Held(l) => G[s] = F[s])
  <2>1. l.q[s] \in Int /\ (s \in Held(l) <=> l.q[s] # 0)
    BY DEF Held, LedgerType
  <2>2. s \in Held(l) => Value(t, s).open \in Int /\ Value(t, s).close \in Int
    <3>1. s \in Held(l) => Value(t, s) \in Prices
      BY Quoted
    <3> QED
      BY <3>1, PricesAre
  <2>3. s \in Held(l) => l.q[s] * (Value(t, s).close - Value(t, s).open) \in Int
    BY <2>1, <2>2
  <2> QED
    BY <2>1, <2>3 DEF IntrabarOf
<1>2. F = [s \in Symbols |-> F[s]] /\ G = [s \in Held(l) |-> G[s]] /\ DOMAIN G = Held(l)
  BY DEF IntrabarOf
<1>3. Held(l) \in SUBSET Symbols
  BY DEF Held
<1>4. IntrabarPnl(l, t) = SumFunction(G)
  BY DEF IntrabarPnl
<1> HIDE DEF F, G
<1>5. F \in [Symbols -> Int] /\ Vanishes(F, Held(l)) /\ \A s \in Held(l) : G[s] = F[s]
  BY <1>1, <1>2, <1>3 DEF Vanishes
<1>6. SumFunction(G) = SumFunction(F)
  BY <1>2, <1>3, <1>5, SumSome
<1> QED
  BY <1>4, <1>5, <1>6 DEF F

PlusOf(F, G) == [s \in Symbols |-> F[s] + G[s]]

LEMMA SumBoth ==
  ASSUME NEW F \in [Symbols -> Int], NEW G \in [Symbols -> Int]
  PROVE  /\ PlusOf(F, G) \in [Symbols -> Int]
         /\ SumFunction(F) \in Int /\ SumFunction(G) \in Int
         /\ SumFunction(PlusOf(F, G)) = SumFunction(F) + SumFunction(G)
<1> DEFINE H == PlusOf(F, G)
<1>1. H \in [Symbols -> Int] /\ \A s \in Symbols : H[s] = F[s] + G[s]
  BY DEF PlusOf
<1> HIDE DEF H
<1>2. SumFunction(H) = SumFunction(F) + SumFunction(G)
  BY <1>1, PricesAre, SumPlus
<1>3. SumFunction(F) \in Int /\ SumFunction(G) \in Int
  BY PricesAre, SumType
<1> QED
  BY <1>1, <1>2, <1>3 DEF H

(* What is held gains, move by move, what its worth changes by.            *)
LEMMA BarBalances ==
  ASSUME Given, NEW t \in Times, NEW l \in LedgerType, NEW k \in LedgerType,
         NEW move \in [Symbols -> Int],
         \A s \in Held(l) : l.marks[s] \in Nat,
         Held(l) \subseteq Marked(t), Held(k) \subseteq Marked(t),
         \A s \in Symbols : k.q[s] = l.q[s] + move[s],
         \A s \in Symbols : move[s] # 0 => market[t][s] \in Prices /\ Value(t, s) \in Prices
  PROVE  /\ {Worth(l), GapPnl(l, t), SumFunction(Gain(t, move)),
             SumFunction(Outlay(t, move)), IntrabarPnl(k, t),
             SumFunction(WorthOf(k, ClosesOf(t)))} \subseteq Int
         /\ Worth(l) + GapPnl(l, t) + SumFunction(Gain(t, move))
              + SumFunction(Outlay(t, move)) + IntrabarPnl(k, t)
              = SumFunction(WorthOf(k, ClosesOf(t)))
<1> DEFINE A == WorthOf(l, l.marks)
           B == GapOf(l, t)
           C == Gain(t, move)
           D == Outlay(t, move)
           E == IntrabarOf(k, t)
           T == WorthOf(k, ClosesOf(t))
<1>1. ASSUME NEW s \in Symbols
      PROVE  /\ C[s] \in Int /\ D[s] \in Int /\ T[s] \in Int
             /\ A[s] + B[s] + C[s] + D[s] + E[s] = T[s]
  <2> DEFINE q == l.q[s]
             m == move[s]
             p == l.marks[s]
             v == Value(t, s).open
             o == market[t][s].open
             c == Value(t, s).close
  <2>1. q \in Int /\ m \in Int /\ k.q[s] = q + m
    BY DEF LedgerType
  <2>2. q # 0 => p \in Int /\ v \in Int /\ c \in Int /\ s \in Marked(t)
    <3>1. q # 0 => Value(t, s) \in Prices /\ p \in Nat /\ s \in Marked(t)
      BY Quoted DEF Held
    <3> QED
      BY <3>1, PricesAre
  <2>3. m # 0 => v \in Int /\ o \in Int /\ c \in Int /\ s \in Marked(t)
    <3>1. m # 0 => market[t][s] \in Prices /\ Value(t, s) \in Prices
      OBVIOUS
    <3> QED
      BY <3>1, PricesAre, Quoted
  <2>4. /\ A[s] = IF q = 0 THEN 0 ELSE q * p
        /\ B[s] = IF q = 0 THEN 0 ELSE q * (v - p)
        /\ C[s] = IF m = 0 THEN 0 ELSE m * (v - o)
        /\ D[s] = IF m = 0 THEN 0 ELSE m * o
    BY DEF WorthOf, GapOf, Gain, Outlay
  <2>5. E[s] = IF q + m = 0 THEN 0 ELSE (q + m) * (c - v)
    BY <2>1 DEF IntrabarOf
  <2>6. T[s] = IF q + m = 0 THEN 0 ELSE (q + m) * ClosesOf(t)[s]
    BY <2>1 DEF WorthOf
  <2>7. s \in Marked(t) => ClosesOf(t)[s] = c
    BY DEF ClosesOf
  <2> HIDE DEF A, B, C, D, E, T, q, m, p, v, o, c
  <2>8. \A x, y \in Int : x * y \in Int /\ 0 * y = 0
    OBVIOUS
  <2>9. CASE q = 0 /\ m = 0
    BY <2>4, <2>5, <2>6, <2>9
  <2>10. CASE q # 0 /\ m = 0
    <3>1. q * p \in Int /\ q * (v - p) \in Int /\ q * (c - v) \in Int /\ q * c \in Int
          /\ q * p + q * (v - p) + q * (c - v) = q * c
      BY <2>1, <2>2, <2>10
    <3>2. q + m = q
      BY <2>1, <2>10
    <3>3. A[s] = q * p /\ B[s] = q * (v - p) /\ C[s] = 0 /\ D[s] = 0
          /\ E[s] = q * (c - v) /\ T[s] = q * c
      BY <2>2, <2>4, <2>5, <2>6, <2>7, <2>10, <3>2
    <3> QED
      BY <3>1, <3>3
  <2>11. CASE q = 0 /\ m # 0
    <3>1. m * (v - o) \in Int /\ m * o \in Int /\ m * (c - v) \in Int /\ m * c \in Int
          /\ m * (v - o) + m * o + m * (c - v) = m * c
      BY <2>1, <2>3, <2>11
    <3>2. q + m = m
      BY <2>1, <2>11
    <3>3. A[s] = 0 /\ B[s] = 0 /\ C[s] = m * (v - o) /\ D[s] = m * o
          /\ E[s] = m * (c - v) /\ T[s] = m * c
      BY <2>3, <2>4, <2>5, <2>6, <2>7, <2>11, <3>2
    <3> QED
      BY <3>1, <3>3
  <2>12. CASE q # 0 /\ m # 0
    <3>1. p \in Int /\ v \in Int /\ o \in Int /\ c \in Int /\ q + m \in Int /\ c - v \in Int
      BY <2>1, <2>2, <2>3, <2>12
    <3>2. q * p \in Int /\ q * (v - p) \in Int /\ m * (v - o) \in Int /\ m * o \in Int
          /\ (q + m) * (c - v) \in Int /\ (q + m) * c \in Int
      BY <2>1, <3>1
    <3>3. q * p + q * (v - p) + m * (v - o) + m * o + (q + m) * (c - v) = (q + m) * c
      BY <2>1, <3>1, Balanced
    <3>4. (q + m = 0) => (q + m) * (c - v) = 0 /\ (q + m) * c = 0
      BY <2>8, <3>1
    <3>5. E[s] = (q + m) * (c - v) /\ T[s] = (q + m) * c
      BY <2>2, <2>5, <2>6, <2>7, <2>12, <3>4
    <3> QED
      BY <2>4, <2>12, <3>2, <3>3, <3>5
  <2> QED
    BY <2>9, <2>10, <2>11, <2>12
<1>2. /\ A \in [Symbols -> Int] /\ Worth(l) = SumFunction(A)
      /\ B \in [Symbols -> Int] /\ GapPnl(l, t) = SumFunction(B)
      /\ E \in [Symbols -> Int] /\ IntrabarPnl(k, t) = SumFunction(E)
  BY WorthIs, GapIs, IntrabarIs
<1>3. /\ C = [s \in Symbols |-> C[s]] /\ D = [s \in Symbols |-> D[s]]
      /\ T = [s \in Symbols |-> T[s]]
  BY DEF Gain, Outlay, WorthOf
<1> HIDE DEF A, B, C, D, E, T
<1>4. C \in [Symbols -> Int] /\ D \in [Symbols -> Int] /\ T \in [Symbols -> Int]
  BY <1>1, <1>3
<1> DEFINE AB == PlusOf(A, B)
           ABC == PlusOf(AB, C)
           ABCD == PlusOf(ABC, D)
           ABCDE == PlusOf(ABCD, E)
<1>5. \A s \in Symbols : T[s] = ABCDE[s]
  BY <1>1 DEF PlusOf
<1>6. ABCDE = [s \in Symbols |-> ABCDE[s]]
  BY DEF PlusOf
<1>7. ABCDE = T
  <2> HIDE DEF ABCDE
  <2>1. T = [s \in Symbols |-> T[s]]
    BY <1>4
  <2> QED
    BY <1>5, <1>6, <2>1
<1> HIDE DEF ABCDE
<1>8. AB \in [Symbols -> Int] /\ SumFunction(A) \in Int /\ SumFunction(B) \in Int
      /\ SumFunction(AB) = SumFunction(A) + SumFunction(B)
  BY <1>2, SumBoth
<1> HIDE DEF AB
<1>9. ABC \in [Symbols -> Int] /\ SumFunction(C) \in Int
      /\ SumFunction(ABC) = SumFunction(AB) + SumFunction(C)
  BY <1>4, <1>8, SumBoth
<1> HIDE DEF ABC
<1>10. ABCD \in [Symbols -> Int] /\ SumFunction(D) \in Int
       /\ SumFunction(ABCD) = SumFunction(ABC) + SumFunction(D)
  BY <1>4, <1>9, SumBoth
<1> HIDE DEF ABCD
<1>11. SumFunction(E) \in Int /\ SumFunction(ABCDE) = SumFunction(ABCD) + SumFunction(E)
  BY <1>2, <1>10, SumBoth DEF ABCDE
<1>12. SumFunction(T) = SumFunction(A) + SumFunction(B) + SumFunction(C)
                          + SumFunction(D) + SumFunction(E)
       /\ SumFunction(T) \in Int
  BY <1>7, <1>8, <1>9, <1>10, <1>11
<1> QED
  BY <1>2, <1>8, <1>9, <1>10, <1>11, <1>12 DEF C, D, T

-----------------------------------------------------------------------------
(* A bar keeps the ledger sound.                                           *)
LEMMA SoundLater ==
  ASSUME NEW l, NEW t \in Int, Sound(l, t)
  PROVE  Sound(l, t + 1)
<1>1. \A x \in AllTrades(l) : x.fill < t + 1
  <2>1. \A x \in AllTrades(l) : x.fill \in Int
    BY DEF Sound, AllTrades, LedgerType, TradeType
  <2> QED
    BY <2>1 DEF Sound
<1> QED
  BY <1>1 DEF Sound

LEMMA SameAccount ==
  ASSUME NEW l \in LedgerType, NEW k \in LedgerType,
         k.q = l.q, k.average = l.average, k.marks = l.marks, k.equity = l.equity,
         k.peak = l.peak, k.trades = l.trades, k.returns = l.returns,
         NEW t, Sound(l, t)
  PROVE  Sound(k, t)
<1>1. Held(k) = Held(l) /\ AllTrades(k) = AllTrades(l) /\ Averaged(k)
  BY DEF Held, AllTrades, Averaged, Sound
<1>2. Funded(k) = Funded(l)
  BY DEF Funded
<1>3. Worth(k) = Worth(l)
  BY <1>1 DEF Worth
<1> QED
  BY <1>1, <1>2, <1>3 DEF Sound

LEMMA FailedSound ==
  ASSUME NEW l, NEW t, Sound(l, t)
  PROVE  Sound(Failed(l), t) /\ Failed(l).ok = FALSE
<1>1. l \in LedgerType
  BY DEF Sound
<1>2. Failed(l) = [l EXCEPT !.ok = FALSE]
  BY DEF Failed
<1>3. /\ Failed(l) \in LedgerType /\ Failed(l).ok = FALSE
      /\ Failed(l).q = l.q /\ Failed(l).average = l.average /\ Failed(l).marks = l.marks
      /\ Failed(l).equity = l.equity /\ Failed(l).peak = l.peak
      /\ Failed(l).trades = l.trades /\ Failed(l).returns = l.returns
  BY <1>1, <1>2 DEF LedgerType
<1> QED
  BY <1>1, <1>3, SameAccount

Noted(l, events) == l.warnings \union {<<pair[1].time, pair[2]>> : pair \in Missing(l, events)}

LEMMA NotedType ==
  ASSUME Given, NEW k \in LedgerType, NEW events \in SUBSET Fundings
  PROVE  Noted(k, events) \in SUBSET (Int \X Symbols)
<1>1. k.warnings \in SUBSET (Int \X Symbols)
  BY DEF LedgerType
<1>2. ASSUME NEW pair \in Missing(k, events)
      PROVE  pair[1].time \in Int /\ pair[2] \in Symbols
  <2>1. pair[1] \in Fundings /\ pair[2] \in Symbols
    BY DEF Missing, Held
  <2> QED
    BY <2>1, EventNumbers DEF Event
<1> QED
  BY <1>1, <1>2 DEF Noted

AccountOf(l, k, trades, basis, t, events) ==
  LET costs == SumFunction([trade \in trades |-> trade.fee + trade.slippage])
      paid == FundingCashflow(k, t, events)
      equity == l.equity + GrossPnl(GapPnl(l, t), basis, IntrabarPnl(k, t)) - costs + paid
  IN [equity |-> equity, costs |-> costs, paid |-> paid]

AccountedAs(l, k, trades, basis, t, events, b) ==
  LET a == AccountOf(l, k, trades, basis, t, events)
  IN /\ a.equity > 0 /\ Held(k) \subseteq Marked(t)
     /\ b = [k EXCEPT !.warnings = Noted(k, events), !.equity = a.equity,
                      !.peak = IF a.equity > k.peak THEN a.equity ELSE k.peak,
                      !.marks = ClosesOf(t),
                      !.returns = Append(k.returns,
                          [bar |-> t, net |-> a.equity - k.equity, costs |-> a.costs,
                           funding |-> a.paid])]

LEMMA AccountedIs ==
  ASSUME NEW l, NEW filled, NEW t, NEW events,
         filled.ledger \in LedgerType,
         AccountOf(l, filled.ledger, filled.trades, filled.basis, t, events).equity \in Int
  PROVE  \/ Accounted(l, t, filled, events) = Failed(l)
         \/ AccountedAs(l, filled.ledger, filled.trades, filled.basis, t, events,
                        Accounted(l, t, filled, events))
<1> DEFINE k == filled.ledger
           a == AccountOf(l, k, filled.trades, filled.basis, t, events)
           b == Accounted(l, t, filled, events)
           noted == [k EXCEPT !.warnings = Noted(k, events)]
           refused == \/ \E s \in Held(k) : s \notin Marked(t) \/ ~Complete(t, s)
                      \/ config.policy = "error" /\ Missing(k, events) # {}
                      \/ a.equity <= 0
<1>1. b = IF refused THEN Failed(l) ELSE Booked(noted, t, a.equity, a.costs, a.paid)
  BY DEF Accounted, AccountOf, Noted
<1>2. Booked(noted, t, a.equity, a.costs, a.paid)
        = [k EXCEPT !.warnings = Noted(k, events), !.equity = a.equity,
                    !.peak = IF a.equity > k.peak THEN a.equity ELSE k.peak,
                    !.marks = ClosesOf(t),
                    !.returns = Append(k.returns,
                        [bar |-> t, net |-> a.equity - k.equity, costs |-> a.costs,
                         funding |-> a.paid])]
  BY DEF Booked, ClosesOf, LedgerType
<1> HIDE DEF b, noted
<1>3. CASE refused
  BY <1>1, <1>3 DEF b
<1>4. CASE ~refused
  BY <1>1, <1>2, <1>4 DEF AccountedAs, b
<1> QED
  BY <1>3, <1>4

LEMMA AccountedSound ==
  ASSUME Given, NEW t \in Times, NEW l, Sound(l, t), NEW filled, NEW move,
         FillOf(l, t, filled, move), NEW events \in SUBSET Fundings,
         Held(l) \subseteq Marked(t)
  PROVE  LET b == Accounted(l, t, filled, events)
         IN /\ Sound(b, t + 1)
            /\ b # Failed(l) =>
                 b.q = filled.ledger.q /\ b.warnings = Noted(filled.ledger, events)
<1> DEFINE k == filled.ledger
           a == AccountOf(l, k, filled.trades, filled.basis, t, events)
           b == Accounted(l, t, filled, events)
           costs == SumFunction([trade \in filled.trades |-> trade.fee + trade.slippage])
           paid == FundingCashflow(k, t, events)
           gap == GapPnl(l, t)
           intrabar == IntrabarPnl(k, t)
<1>1. t \in Int
  BY DEF Times
<1>2. /\ l \in LedgerType /\ k \in LedgerType /\ move \in [Symbols -> Int]
      /\ SameMoney(k, l) /\ Averaged(k)
      /\ \A s \in Symbols : k.q[s] = l.q[s] + move[s]
      /\ \A s \in Symbols : move[s] # 0 => market[t][s] \in Prices /\ Value(t, s) \in Prices
      /\ filled.trades \in SUBSET TradeType /\ IsFiniteSet(filled.trades)
      /\ \A x \in filled.trades : x.fill = t
      /\ AllTrades(k) = AllTrades(l) \union filled.trades
      /\ Bought(filled.trades) = SumFunction(Outlay(t, move))
      /\ filled.basis = SumFunction(Gain(t, move))
  BY DEF FillOf, Sound
<1>3. CASE Held(k) \subseteq Marked(t)
  <2>1. \A s \in Held(l) : l.marks[s] \in Nat
    BY DEF Sound
  <2>2. /\ {Worth(l), gap, SumFunction(Gain(t, move)), SumFunction(Outlay(t, move)),
            intrabar, SumFunction(WorthOf(k, ClosesOf(t)))} \subseteq Int
        /\ Worth(l) + gap + SumFunction(Gain(t, move))
              + SumFunction(Outlay(t, move)) + intrabar
              = SumFunction(WorthOf(k, ClosesOf(t)))
    BY <1>2, <1>3, <2>1, BarBalances
  <2>3. paid \in Int
    BY <1>2, <1>3, CashflowType
  <2>4. costs \in Int /\ OutOf(filled.trades) \in Int
        /\ OutOf(filled.trades) = Bought(filled.trades) + costs
    BY <1>2, TradesCost
  <2>5. l.equity \in Int /\ l.peak \in Int
    BY <1>2 DEF LedgerType
  <2>6. a = [equity |-> l.equity + (gap + filled.basis + intrabar) - costs + paid,
             costs |-> costs, paid |-> paid]
    BY DEF AccountOf, GrossPnl
  <2> HIDE DEF a, b, costs, paid, gap, intrabar
  <2>7. /\ a.equity = l.equity + (gap + filled.basis + intrabar) - costs + paid
        /\ a.costs = costs /\ a.paid = paid
    BY <2>6
  <2>8. a.equity \in Int
    BY <1>2, <2>2, <2>3, <2>4, <2>5, <2>7
  <2>9. \/ b = Failed(l)
        \/ AccountedAs(l, k, filled.trades, filled.basis, t, events, b)
    BY <1>2, <2>8, AccountedIs DEF a, b
  <2>10. CASE b = Failed(l)
    <3>1. Sound(l, t + 1)
      BY <1>1, SoundLater
    <3> QED
      BY <2>10, <3>1, FailedSound DEF b
  <2>11. CASE AccountedAs(l, k, filled.trades, filled.basis, t, events, b)
    <3> DEFINE r == [bar |-> t, net |-> a.equity - k.equity, costs |-> a.costs,
                     funding |-> a.paid]
               peak == IF a.equity > k.peak THEN a.equity ELSE k.peak
    <3>1. a.equity > 0 /\ Held(k) \subseteq Marked(t)
      BY <2>11 DEF AccountedAs, a
    <3>2. b = [k EXCEPT !.warnings = Noted(k, events), !.equity = a.equity,
                        !.peak = peak, !.marks = ClosesOf(t),
                        !.returns = Append(k.returns, r)]
      BY <2>11 DEF AccountedAs, a
    <3>3. k.equity \in Int /\ k.peak \in Int /\ k.peak = l.peak /\ k.returns = l.returns
          /\ k.returns \in Seq(ReturnType)
      BY <1>2 DEF LedgerType, SameMoney
    <3>4. r \in ReturnType /\ r.funding = paid
      BY <1>1, <2>3, <2>4, <2>7, <2>8, <3>3 DEF ReturnType
    <3>5. peak \in Int /\ a.equity <= peak
      BY <2>8, <3>3
    <3>6. Noted(k, events) \in SUBSET (Int \X Symbols)
      BY <1>2, NotedType
    <3>7. /\ ClosesOf(t) \in [Symbols -> Nat \union {Null}]
          /\ \A s \in Marked(t) : ClosesOf(t)[s] \in Nat
      <4>1. \A s \in Marked(t) : s \in Symbols /\ Value(t, s) \in Prices
        BY Quoted DEF Marked
      <4>2. \A s \in Marked(t) : Value(t, s).close \in Nat
        BY <4>1, PricesAre
      <4> QED
        BY <4>1, <4>2 DEF ClosesOf
    <3>8. Append(k.returns, r) \in Seq(ReturnType)
      BY <3>3, <3>4
    <3> HIDE DEF r, peak, k
    <3>9. b = [q |-> k.q, average |-> k.average, requested |-> k.requested,
               marks |-> ClosesOf(t), equity |-> a.equity, peak |-> peak,
               warnings |-> Noted(k, events), trades |-> k.trades,
               returns |-> Append(k.returns, r), ok |-> k.ok]
      BY <1>2, <3>2 DEF LedgerType
    <3>10. b \in LedgerType
      <4>1. /\ k.q \in [Symbols -> Int] /\ k.average \in [Symbols -> Nat \union {Null}]
            /\ k.requested \in [Symbols -> Int] /\ k.trades \in Seq(SUBSET TradeType)
            /\ k.ok \in BOOLEAN
        BY <1>2 DEF LedgerType
      <4> QED
        BY <2>8, <3>5, <3>6, <3>7, <3>8, <3>9, <4>1 DEF LedgerType
    <3>11. /\ b.q = k.q /\ b.average = k.average /\ b.marks = ClosesOf(t)
           /\ b.equity = a.equity /\ b.peak = peak /\ b.trades = k.trades
           /\ b.returns = Append(l.returns, r) /\ b.warnings = Noted(k, events)
      BY <3>3, <3>9
    <3>12. Held(b) = Held(k) /\ AllTrades(b) = AllTrades(k) /\ Averaged(b)
      BY <1>2, <3>11 DEF Held, AllTrades, Averaged
    <3>13. \A s \in Held(b) : b.marks[s] \in Nat
      BY <3>1, <3>7, <3>11, <3>12
    <3>14. Worth(b) = SumFunction(WorthOf(k, ClosesOf(t)))
      <4>1. WorthOf(b, b.marks) = WorthOf(k, ClosesOf(t))
        BY <3>11 DEF WorthOf
      <4> QED
        BY <3>10, <3>13, <4>1, WorthIs
    <3>15. Funded(b) = Funded(l) + paid /\ Funded(l) \in Int
      BY <1>2, <3>4, <3>11, FundedAppend, FundedIs
    <3>16. /\ AllTrades(l) \in SUBSET TradeType /\ IsFiniteSet(AllTrades(l))
           /\ \A x \in AllTrades(l) : x.fill < t /\ x.fill \in Int
      <4>1. AllTrades(l) \in SUBSET TradeType
        BY <1>2 DEF LedgerType, AllTrades
      <4> QED
        BY <4>1 DEF Sound, TradeType
    <3>17. AllTrades(l) \cap filled.trades = {}
      BY <1>1, <1>2, <3>16
    <3>18. /\ OutOf(AllTrades(b)) = OutOf(AllTrades(l)) + OutOf(filled.trades)
           /\ OutOf(AllTrades(l)) \in Int
      <4>1. OutOf(AllTrades(l)) \in Int
        BY <3>16, TradesCost
      <4>2. AllTrades(b) = AllTrades(l) \union filled.trades
        BY <1>2, <3>12 DEF k
      <4> QED
        BY <1>2, <3>16, <3>17, <4>1, <4>2, TradesAdd
    <3>19. /\ IsFiniteSet(AllTrades(b)) /\ \A x \in AllTrades(b) : x.fill < t + 1
      <4>1. AllTrades(b) = AllTrades(l) \union filled.trades
        BY <1>2, <3>12 DEF k
      <4>2. IsFiniteSet(AllTrades(l) \union filled.trades)
        <5>1. IsFiniteSet(AllTrades(l)) /\ IsFiniteSet(filled.trades)
          BY <1>2, <3>16
        <5> QED
          BY <5>1, FS_Union
      <4>3. \A x \in AllTrades(l) \union filled.trades : x.fill < t + 1
        <5>1. \A x \in filled.trades : x.fill < t + 1
          BY <1>1, <1>2
        <5>2. \A n \in Int : n < t => n < t + 1
          BY <1>1
        <5>3. \A x \in AllTrades(l) : x.fill < t + 1
          BY <3>16, <5>2
        <5> QED
          BY <5>1, <5>3
      <4> QED
        BY <4>1, <4>2, <4>3
    <3>20. l.equity = Capital - OutOf(AllTrades(l)) + Funded(l) + Worth(l)
      BY DEF Sound
    <3>21. b.equity = Capital - OutOf(AllTrades(b)) + Funded(b) + Worth(b)
      <4>1. b.equity = l.equity + (gap + filled.basis + intrabar) - costs + paid
        BY <2>7, <3>11
      <4>2. Capital \in Int
        BY WeightAssumption
      <4> QED
        BY <1>2, <2>2, <2>3, <2>4, <2>5, <3>14, <3>15, <3>18, <3>20, <4>1, <4>2
    <3>22. Sound(b, t + 1)
      BY <3>1, <3>5, <3>10, <3>11, <3>12, <3>13, <3>19, <3>21 DEF Sound
    <3> QED
      BY <3>11, <3>22 DEF b, k
  <2> QED
    BY <2>9, <2>10, <2>11
<1>4. CASE ~(Held(k) \subseteq Marked(t))
  <2>1. b = Failed(l)
    BY <1>4 DEF Accounted
  <2>2. Sound(l, t + 1)
    BY <1>1, SoundLater
  <2> QED
    BY <2>1, <2>2, FailedSound
<1> QED
  BY <1>3, <1>4

-----------------------------------------------------------------------------
(* What has a record of every event of the run, and what holds only that.  *)
Covered == {s \in Symbols : \A e \in Fundings : s \in DOMAIN e.rates}

Quiet(l) == l.warnings = {} /\ Held(l) \subseteq Covered

Avoids(targets) == \A row \in targets : row.symbol \notin Covered => row.weight = 0

DueAt(t, targets) == {row \in targets : row.fill = t}

Pretrade(l, t) == l.equity + GapPnl(l, t)

FilledAt(l, t, targets) ==
  IF DueAt(t, targets) = {} THEN [ledger |-> l, trades |-> {}, basis |-> 0]
  ELSE Filled(l, t, DueAt(t, targets), Pretrade(l, t))

LEMMA BarIs ==
  ASSUME NEW l, NEW t, NEW targets, NEW events
  PROVE  \/ Bar(l, t, targets, events) = l
         \/ Bar(l, t, targets, events) = Failed(l)
         \/ /\ \A s \in Held(l) : s \in Marked(t)
            /\ ~(Pretrade(l, t) <= 0)
            /\ FilledAt(l, t, targets).ledger.ok
            /\ Bar(l, t, targets, events)
                 = Accounted(l, t, FilledAt(l, t, targets), EventsOf(t, events))
  BY DEF Bar, DueAt, Pretrade, FilledAt

LEMMA BarSound ==
  ASSUME Given, NEW t \in Times, NEW l, Sound(l, t),
         NEW targets \in SUBSET TargetType, NEW events \in SUBSET Fundings
  PROVE  /\ Sound(Bar(l, t, targets, events), t + 1)
         /\ Quiet(l) /\ Avoids(targets) => Quiet(Bar(l, t, targets, events))
<1> DEFINE b == Bar(l, t, targets, events)
           filled == FilledAt(l, t, targets)
           due == DueAt(t, targets)
<1>1. t \in Int
  BY DEF Times
<1>2. Sound(l, t + 1)
  BY <1>1, SoundLater
<1>3. l \in LedgerType
  BY DEF Sound
<1>4. CASE b = l
  BY <1>2, <1>4
<1>5. ASSUME NEW k, k = Failed(l)
      PROVE  Sound(k, t + 1) /\ (Quiet(l) => Quiet(k))
  <2>1. Sound(k, t + 1)
    BY <1>2, <1>5, FailedSound
  <2>2. k.warnings = l.warnings /\ k.q = l.q
    BY <1>3, <1>5 DEF Failed, LedgerType
  <2> QED
    BY <2>1, <2>2 DEF Quiet, Held
<1>6. CASE /\ \A s \in Held(l) : s \in Marked(t)
           /\ ~(Pretrade(l, t) <= 0)
           /\ filled.ledger.ok
           /\ b = Accounted(l, t, filled, EventsOf(t, events))
  <2>1. Held(l) \subseteq Marked(t)
    BY <1>6
  <2>2. EventsOf(t, events) \in SUBSET Fundings
    BY DEF EventsOf
  <2>3. due \in SUBSET TargetType
    BY DEF DueAt
  <2>4. \E move : FillOf(l, t, filled, move) /\ Unmoved(l, due, move)
    <3>1. CASE due = {}
      <4>1. filled = [ledger |-> l, trades |-> {}, basis |-> 0]
        BY <3>1 DEF FilledAt
      <4>2. Averaged(l)
        BY DEF Sound
      <4> HIDE DEF filled, due
      <4> QED
        BY <1>3, <4>1, <4>2, NothingFilled
    <3>2. CASE due # {}
      <4>1. filled = Filled(l, t, due, Pretrade(l, t))
        BY <3>2 DEF FilledAt
      <4>2. Pretrade(l, t) \in Nat
        <5>1. GapPnl(l, t) \in Int
          <6>1. \A s \in Held(l) : l.marks[s] \in Nat
            BY DEF Sound
          <6>2. /\ GapOf(l, t) \in [Symbols -> Int]
                /\ GapPnl(l, t) = SumFunction(GapOf(l, t))
            BY <1>3, <2>1, <6>1, GapIs
          <6> QED
            BY <6>2, PricesAre, SumType
        <5>2. l.equity \in Int
          BY <1>3 DEF LedgerType
        <5> QED
          BY <1>6, <5>1, <5>2 DEF Pretrade
      <4>3. Averaged(l)
        BY DEF Sound
      <4> DEFINE equity == Pretrade(l, t)
      <4> HIDE DEF filled, due, equity
      <4>4. equity \in Nat /\ filled = Filled(l, t, due, equity)
        BY <4>1, <4>2 DEF equity
      <4>5. Filled(l, t, due, equity).ledger.ok
        BY <1>6, <4>4
      <4> QED
        BY <1>3, <2>3, <4>3, <4>4, <4>5, FilledIs
    <3> QED
      BY <3>1, <3>2
  <2>5. PICK move : FillOf(l, t, filled, move) /\ Unmoved(l, due, move)
    BY <2>4
  <2> HIDE DEF filled, due, b
  <2>6. /\ Sound(b, t + 1)
        /\ b # Failed(l) => /\ b.q = filled.ledger.q
                            /\ b.warnings = Noted(filled.ledger, EventsOf(t, events))
    BY <1>6, <2>1, <2>2, <2>5, AccountedSound
  <2>7. ASSUME Quiet(l), Avoids(targets), b # Failed(l) PROVE Quiet(b)
    <3>1. \A s \in Held(filled.ledger) : s \in Covered
      <4> TAKE s \in Held(filled.ledger)
      <4>1. s \in Symbols /\ filled.ledger.q[s] # 0
        BY DEF Held
      <4>2. filled.ledger.q[s] = l.q[s] + move[s] /\ move[s] \in Int /\ l.q[s] \in Int
        BY <1>3, <2>5, <4>1 DEF FillOf, LedgerType
      <4>3. CASE l.q[s] # 0
        BY <2>7, <4>1, <4>3 DEF Quiet, Held
      <4>4. CASE l.q[s] = 0
        <5>1. move[s] # 0
          BY <4>1, <4>2, <4>4
        <5>2. WeightOf(due, s) # 0
          BY <2>5, <4>1, <4>4, <5>1 DEF Unmoved
        <5>3. \E row \in due : row.symbol = s /\ row.weight # 0
          BY <2>3, <5>2, WeightType
        <5> QED
          BY <2>7, <5>3 DEF Avoids, DueAt, due
      <4> QED
        BY <4>3, <4>4
    <3>2. Missing(filled.ledger, EventsOf(t, events)) = {}
      BY <2>2, <3>1 DEF Missing, Covered
    <3>3. filled.ledger.warnings = {}
      BY <2>5, <2>7 DEF FillOf, SameMoney, Quiet
    <3>4. Noted(filled.ledger, EventsOf(t, events)) = {}
      BY <3>2, <3>3 DEF Noted
    <3>5. Held(b) = Held(filled.ledger)
      BY <2>6, <2>7 DEF Held
    <3> QED
      BY <2>6, <2>7, <3>1, <3>4, <3>5 DEF Quiet
  <2> QED
    BY <1>5, <2>6, <2>7 DEF b
<1> HIDE DEF b, filled
<1>7. b = l \/ b = Failed(l)
      \/ (/\ \A s \in Held(l) : s \in Marked(t)
          /\ ~(Pretrade(l, t) <= 0)
          /\ filled.ledger.ok
          /\ b = Accounted(l, t, filled, EventsOf(t, events)))
  <2>1. Bar(l, t, targets, events) = l \/ Bar(l, t, targets, events) = Failed(l)
      \/ (/\ \A s \in Held(l) : s \in Marked(t)
          /\ ~(Pretrade(l, t) <= 0)
          /\ FilledAt(l, t, targets).ledger.ok
          /\ Bar(l, t, targets, events)
               = Accounted(l, t, FilledAt(l, t, targets), EventsOf(t, events)))
    BY BarIs
  <2> QED
    BY <2>1 DEF b, filled
<1> QED
  BY <1>4, <1>5, <1>6, <1>7 DEF b

-----------------------------------------------------------------------------
(* The bars of a window, in order.                                         *)
LEMMA RangeInduction ==
  ASSUME NEW from \in Int, NEW to \in Int, NEW Good, from \in Good,
         \A t \in from .. to - 1 : t \in Good => t + 1 \in Good
  PROVE  \A t \in from .. to : t \in Good
<1> DEFINE Bad == {n \in Nat : from + n <= to /\ from + n \notin Good}
<1> SUFFICES ASSUME NEW t \in from .. to, t \notin Good PROVE FALSE
  OBVIOUS
<1>1. t - from \in Bad
  OBVIOUS
<1>2. PICK n \in Bad : \A m \in Bad : n <= m
  <2>1. Bad \in SUBSET Nat /\ Bad # {}
    BY <1>1
  <2> HIDE DEF Bad
  <2> QED
    BY <2>1, LeastNumber
<1>3. n \in Nat /\ n # 0 /\ from + n <= to /\ from + n \notin Good
  BY <1>2
<1>4. n - 1 \in Nat /\ from + (n - 1) \in from .. to - 1
      /\ (from + (n - 1)) + 1 = from + n /\ from + (n - 1) <= to
  BY <1>3
<1>5. from + (n - 1) \notin Good
  BY <1>3, <1>4
<1>6. n - 1 \in Bad
  BY <1>4, <1>5
<1> HIDE DEF Bad
<1> QED
  BY <1>2, <1>3, <1>6

Passes(f, from, to, l, targets, events) ==
  f = [t \in from .. to |->
         IF t = from THEN l ELSE Bar(f[t - 1], t - 1, targets, events)]

LEMMA PassesExist ==
  ASSUME NEW from \in Int, NEW to \in Int, from <= to, NEW l, NEW targets, NEW events
  PROVE  \E f : Passes(f, from, to, l, targets, events)
<1> DEFINE Works(m) == \E f : Passes(f, from, m, l, targets, events)
           Good == {m \in from .. to : Works(m)}
<1>1. from \in Good
  <2> DEFINE f == [t \in from .. from |-> l]
  <2>1. f = [t \in from .. from |->
               IF t = from THEN l ELSE Bar(f[t - 1], t - 1, targets, events)]
    OBVIOUS
  <2> HIDE DEF f
  <2>2. Passes(f, from, from, l, targets, events)
    BY <2>1 DEF Passes
  <2> QED
    BY <2>2
<1>2. ASSUME NEW m \in from .. to - 1, m \in Good PROVE m + 1 \in Good
  <2>1. PICK h : Passes(h, from, m, l, targets, events)
    BY <1>2
  <2> DEFINE f == [t \in from .. m + 1 |->
                     IF t = m + 1 THEN Bar(h[m], m, targets, events) ELSE h[t]]
  <2>2. ASSUME NEW t \in from .. m + 1
        PROVE  f[t] = IF t = from THEN l ELSE Bar(f[t - 1], t - 1, targets, events)
    <3>1. CASE t = m + 1
      <4>1. f[t] = Bar(h[m], m, targets, events) /\ f[m] = h[m] /\ t # from /\ t - 1 = m
        BY <3>1
      <4> HIDE DEF f
      <4> QED
        BY <4>1
    <3>2. CASE t # m + 1
      <4>1. t \in from .. m /\ f[t] = h[t]
        BY <3>2
      <4>2. h[t] = IF t = from THEN l ELSE Bar(h[t - 1], t - 1, targets, events)
        BY <2>1, <4>1 DEF Passes
      <4>3. t # from => f[t - 1] = h[t - 1]
        BY <3>2
      <4> HIDE DEF f
      <4> QED
        BY <4>1, <4>2, <4>3
    <3> QED
      BY <3>1, <3>2
  <2>3. f = [t \in from .. m + 1 |-> f[t]]
    OBVIOUS
  <2> HIDE DEF f
  <2>4. Passes(f, from, m + 1, l, targets, events)
    BY <2>2, <2>3 DEF Passes
  <2>5. m + 1 \in from .. to
    BY <1>2
  <2> QED
    BY <2>4, <2>5
<1> HIDE DEF Works
<1>3. to \in Good
  <2>1. to \in from .. to
    OBVIOUS
  <2> HIDE DEF Good
  <2> QED
    BY <1>1, <1>2, <2>1, RangeInduction
<1> QED
  BY <1>3 DEF Works

Follows(f, from, to, targets, events) ==
  \A t \in from .. to - 1 : f[t + 1] = Bar(f[t], t, targets, events)

LEMMA PassesAt ==
  ASSUME NEW from \in Int, NEW to \in Int, NEW l, NEW targets, NEW events, NEW f,
         Passes(f, from, to, l, targets, events)
  PROVE  (from <= to => f[from] = l) /\ Follows(f, from, to, targets, events)
<1>1. ASSUME NEW t \in from .. to
      PROVE  f[t] = IF t = from THEN l ELSE Bar(f[t - 1], t - 1, targets, events)
  BY DEF Passes
<1>2. ASSUME NEW t \in from .. to - 1
      PROVE  f[t + 1] = Bar(f[t], t, targets, events)
  <2>1. t + 1 \in from .. to /\ t + 1 # from /\ (t + 1) - 1 = t
    OBVIOUS
  <2> QED
    BY <1>1, <2>1
<1>3. from <= to => from \in from .. to
  OBVIOUS
<1> QED
  BY <1>1, <1>2, <1>3 DEF Follows

SameBars(from, to, targets, events, others, more) ==
  \A t \in from .. to - 1 : /\ DueAt(t, targets) = DueAt(t, others)
                            /\ EventsOf(t, events) = EventsOf(t, more)

(* Two passes that do the same with every bar.                             *)
LEMMA SamePasses ==
  ASSUME NEW from \in Int, NEW to \in Int, NEW f, NEW g, f[from] = g[from],
         NEW targets, NEW events, NEW others, NEW more,
         Follows(f, from, to, targets, events), Follows(g, from, to, others, more),
         SameBars(from, to, targets, events, others, more)
  PROVE  \A t \in from .. to : f[t] = g[t]
<1> DEFINE Good == {t \in from .. to : f[t] = g[t]}
<1> SUFFICES ASSUME from <= to PROVE \A t \in from .. to : t \in Good
  OBVIOUS
<1>1. from \in Good
  OBVIOUS
<1>2. ASSUME NEW t \in from .. to - 1, t \in Good PROVE t + 1 \in Good
  <2>1. Bar(f[t], t, targets, events) = Bar(f[t], t, others, more)
    BY DEF Bar, DueAt, SameBars
  <2>2. f[t] = g[t] /\ t + 1 \in from .. to
    BY <1>2
  <2> QED
    BY <2>1, <2>2 DEF Follows
<1>3. \A t \in from .. to : t \in Good
  <2> HIDE DEF Good
  <2> QED
    BY <1>1, <1>2, RangeInduction
<1> QED
  BY <1>3

Refused(from, to, targets) ==
  \/ \A t \in from .. to - 1 : Trading(t) = {}
  \/ \A t \in from .. to - 1 : Marked(t) = {}
  \/ \E row \in targets : Trading(row.fill) = {}

LEMMA ProcessIs ==
  ASSUME NEW from \in Int, NEW to \in Int, from <= to, NEW l, NEW targets, NEW events
  PROVE  \E f : /\ Passes(f, from, to, l, targets, events)
               /\ Process(l, from, to, targets, events)
                    = IF Refused(from, to, targets) THEN Failed(l) ELSE f[to]
<1> DEFINE Passing(f) ==
      f = [t \in from .. to |->
             IF t = from THEN l ELSE Bar(f[t - 1], t - 1, targets, events)]
           f == CHOOSE g : Passing(g)
<1>1. Process(l, from, to, targets, events)
        = IF Refused(from, to, targets) THEN Failed(l) ELSE f[to]
  BY Zenon DEF Process, Refused
<1>2. PICK g : Passes(g, from, to, l, targets, events)
  BY PassesExist
<1>3. Passing(g)
  BY <1>2 DEF Passes
<1>4. Passing(f)
  <2> HIDE DEF Passing
  <2> QED
    BY <1>3
<1>5. Passes(f, from, to, l, targets, events)
  <2> HIDE DEF f
  <2> QED
    BY <1>4 DEF Passes
<1> HIDE DEF f
<1> QED
  BY <1>1, <1>5

LEMMA ProcessSound ==
  ASSUME Given, NEW from \in 0 .. Bars, NEW to \in 0 .. Bars, from <= to,
         NEW l, Sound(l, from), NEW targets \in SUBSET TargetType,
         NEW events \in SUBSET Fundings
  PROVE  /\ Sound(Process(l, from, to, targets, events), to)
         /\ Quiet(l) /\ Avoids(targets) => Quiet(Process(l, from, to, targets, events))
<1>1. from \in Int /\ to \in Int
  BY WeightAssumption
<1>2. PICK f : /\ Passes(f, from, to, l, targets, events)
               /\ Process(l, from, to, targets, events)
                    = IF Refused(from, to, targets) THEN Failed(l) ELSE f[to]
  BY <1>1, ProcessIs
<1> DEFINE Good == {t \in from .. to :
                      /\ Sound(f[t], t)
                      /\ Quiet(l) /\ Avoids(targets) => Quiet(f[t])
                      /\ Sound(l, t)}
<1>3. from \in Good
  BY <1>1, <1>2, PassesAt
<1>4. ASSUME NEW t \in from .. to - 1, t \in Good PROVE t + 1 \in Good
  <2>1. t \in Times /\ t \in Int /\ t + 1 \in from .. to
    BY WeightAssumption DEF Times
  <2>2. f[t + 1] = Bar(f[t], t, targets, events)
    BY <1>1, <1>2, PassesAt DEF Follows
  <2>3. Sound(f[t], t) /\ (Quiet(l) /\ Avoids(targets) => Quiet(f[t])) /\ Sound(l, t)
    BY <1>4
  <2>4. /\ Sound(Bar(f[t], t, targets, events), t + 1)
        /\ Quiet(f[t]) /\ Avoids(targets) => Quiet(Bar(f[t], t, targets, events))
    BY <2>1, <2>3, BarSound
  <2>5. Sound(l, t + 1)
    BY <2>1, <2>3, SoundLater
  <2> QED
    BY <2>1, <2>2, <2>3, <2>4, <2>5
<1>5. to \in Good
  <2>1. to \in from .. to
    BY <1>1
  <2> HIDE DEF Good
  <2> QED
    BY <1>1, <1>3, <1>4, <2>1, RangeInduction
<1>6. Sound(Failed(l), to) /\ (Quiet(l) => Quiet(Failed(l)))
  <2>1. Sound(l, to) /\ l \in LedgerType
    BY <1>5 DEF Sound
  <2>2. Failed(l).warnings = l.warnings /\ Failed(l).q = l.q
    BY <2>1 DEF Failed, LedgerType
  <2> QED
    BY <2>1, <2>2, FailedSound DEF Quiet, Held
<1> QED
  BY <1>2, <1>5, <1>6

-----------------------------------------------------------------------------
(* The start.                                                              *)
LEMMA StartSound == Sound(LedgerState, 0) /\ Quiet(LedgerState) /\ LedgerState.ok
<1> DEFINE l == LedgerState
<1>1. /\ l.q = [s \in Symbols |-> 0] /\ l.average = [s \in Symbols |-> Null]
      /\ l.equity = Capital /\ l.peak = Capital /\ l.warnings = {}
      /\ l.trades = <<>> /\ l.returns = <<>> /\ l.ok = TRUE
  BY DEF LedgerState
<1>2. l \in LedgerType
  <2>1. <<>> \in Seq(SUBSET TradeType) /\ <<>> \in Seq(ReturnType)
    OBVIOUS
  <2>2. Capital \in Int
    BY WeightAssumption
  <2>3. /\ [s \in Symbols |-> 0] \in [Symbols -> Int]
        /\ [s \in Symbols |-> Null] \in [Symbols -> Nat \union {Null}]
        /\ {} \in SUBSET (Int \X Symbols) /\ TRUE \in BOOLEAN
    OBVIOUS
  <2> QED
    BY <2>1, <2>2, <2>3 DEF LedgerState, LedgerType
<1>3. Held(l) = {} /\ Averaged(l)
  BY <1>1 DEF Held, Averaged
<1>4. AllTrades(l) = {}
  <2>1. DOMAIN l.trades = {}
    BY <1>1
  <2> QED
    BY <2>1 DEF AllTrades
<1>5. Funded(l) = 0
  <2> DEFINE F == [n \in DOMAIN l.returns |-> l.returns[n].funding]
  <2>1. DOMAIN l.returns = {}
    BY <1>1
  <2>2. F \in [{} -> Int]
    BY <2>1
  <2> HIDE DEF F
  <2>3. SumFunction(F) = 0
    BY <2>2, SumNothing
  <2> QED
    BY <2>3 DEF Funded, F
<1>6. Worth(l) = 0
  <2> DEFINE F == [s \in Held(l) |-> l.q[s] * l.marks[s]]
  <2>1. F \in [{} -> Int]
    BY <1>3
  <2> HIDE DEF F
  <2>2. SumFunction(F) = 0
    BY <2>1, SumNothing
  <2> QED
    BY <2>2 DEF Worth, F
<1>7. OutOf({}) = 0
  <2> DEFINE F == [x \in {} |-> x.change * x.price + x.fee + x.slippage]
  <2>1. F \in [{} -> Int]
    OBVIOUS
  <2> HIDE DEF F
  <2>2. SumFunction(F) = 0
    BY <2>1, SumNothing
  <2> QED
    BY <2>2 DEF OutOf, F
<1> HIDE DEF l
<1>8. Sound(l, 0)
  BY <1>1, <1>2, <1>3, <1>4, <1>5, <1>6, <1>7, WeightAssumption, FS_EmptySet DEF Sound
<1> QED
  BY <1>1, <1>3, <1>8 DEF Quiet, l

-----------------------------------------------------------------------------
(* The inductive invariant, and what follows from it.                      *)
Inv ==
  /\ Given /\ cursor \in 0 .. Bars /\ Sound(ledger, cursor)
  /\ config.policy = "exclude_symbol" => Quiet(ledger)

LEMMA EndIs ==
  ASSUME Given, NEW start \in 0 .. Bars, start < Bars
  PROVE  EndOf(start) \in 0 .. Bars /\ start < EndOf(start)
<1>1. config.chunk \in Nat \ {0} /\ Bars \in Nat
  BY Settings, WeightAssumption
<1> QED
  BY <1>1 DEF EndOf

LEMMA ChunkInputs ==
  ASSUME Given, NEW start
  PROVE  /\ ChunkTargets(start) \in SUBSET TargetType
         /\ FundingsIn(start) \in SUBSET Fundings
         /\ config.policy = "exclude_symbol" => Avoids(ChunkTargets(start))
<1>1. TargetsIn(start) \in SUBSET Targets /\ Targets \in SUBSET TargetType
  BY TargetsTyped DEF TargetsIn
<1>2. ChunkTargets(start) \in SUBSET TargetType
  BY <1>1, ExcludedTyped DEF ChunkTargets
<1>3. ASSUME config.policy = "exclude_symbol", NEW row \in ChunkTargets(start),
             row.symbol \notin Covered
      PROVE  row.weight = 0
  <2>1. PICK old \in TargetsIn(start) :
          row = [old EXCEPT !.weight = IF old.symbol \in FundingExclusions THEN 0 ELSE @]
    BY DEF ChunkTargets, WithoutExcluded
  <2>2. old \in Targets /\ old \in TargetType
    BY <1>1
  <2>3. row.symbol = old.symbol
        /\ row.weight = IF old.symbol \in FundingExclusions THEN 0 ELSE old.weight
    BY <2>1, <2>2 DEF TargetType
  <2>4. old.symbol \in Symbols
    BY <2>2 DEF TargetType
  <2>5. PICK e \in Fundings : old.symbol \notin DOMAIN e.rates
    BY <1>3, <2>3, <2>4 DEF Covered
  <2>6. config.funding # Null
    BY <2>5 DEF Fundings
  <2>7. old.symbol \in FundingExclusions
    BY <1>3, <2>2, <2>5, <2>6 DEF FundingExclusions
  <2> QED
    BY <2>3, <2>7
<1>4. FundingsIn(start) \in SUBSET Fundings
  BY DEF FundingsIn
<1> QED
  BY <1>2, <1>3, <1>4 DEF Avoids

(* Whatever chunk is processed, the ledger stays sound, and with           *)
(* exclude_symbol it holds only what every funding of the run covers.      *)
THEOREM InvHolds == Spec => []Inv
<1>1. Init => Inv
  <2> SUFFICES ASSUME Init PROVE Inv
    OBVIOUS
  <2>1. Given /\ cursor = 0 /\ (ledger = Failed(LedgerState) \/ ledger = LedgerState)
    BY DEF Init, Given
  <2>2. cursor \in 0 .. Bars
    BY <2>1, WeightAssumption
  <2>3. Sound(ledger, 0) /\ Quiet(ledger)
    <3>1. LedgerState \in LedgerType
      BY StartSound DEF Sound
    <3>2. Failed(LedgerState).warnings = LedgerState.warnings
          /\ Failed(LedgerState).q = LedgerState.q
      BY <3>1 DEF Failed, LedgerType
    <3>3. Quiet(Failed(LedgerState))
      BY <3>2, StartSound DEF Quiet, Held
    <3> QED
      BY <2>1, <3>3, StartSound, FailedSound
  <2> QED
    BY <2>1, <2>2, <2>3 DEF Inv
<1>2. Inv /\ [Next]_vars => Inv'
  <2> SUFFICES ASSUME Inv, [Next]_vars PROVE Inv'
    OBVIOUS
  <2>1. CASE ProcessChunk
    <3> DEFINE next == Process(ledger, cursor, EndOf(cursor), ChunkTargets(cursor),
                               FundingsIn(cursor))
    <3>1. /\ ledger' = next /\ cursor' = EndOf(cursor)
          /\ config' = config /\ market' = market /\ cursor < Bars
      BY <2>1 DEF ProcessChunk
    <3>2. Given /\ cursor \in 0 .. Bars /\ Sound(ledger, cursor)
          /\ (config.policy = "exclude_symbol" => Quiet(ledger))
      BY DEF Inv
    <3>3. EndOf(cursor) \in 0 .. Bars /\ cursor < EndOf(cursor)
      BY <3>1, <3>2, EndIs
    <3>4. /\ ChunkTargets(cursor) \in SUBSET TargetType
          /\ FundingsIn(cursor) \in SUBSET Fundings
          /\ config.policy = "exclude_symbol" => Avoids(ChunkTargets(cursor))
      BY <3>2, ChunkInputs
    <3>5. cursor <= EndOf(cursor)
      BY <3>2, <3>3
    <3>6. /\ Sound(next, EndOf(cursor))
          /\ Quiet(ledger) /\ Avoids(ChunkTargets(cursor)) => Quiet(next)
      BY <3>2, <3>3, <3>4, <3>5, ProcessSound
    <3>7. Given'
      BY <3>1, <3>2 DEF Given
    <3>8. Sound(ledger, cursor)'
      BY <3>1, <3>6 DEF Sound, Averaged, Held, AllTrades, OutOf, Funded, Worth
    <3>9. (config.policy = "exclude_symbol" => Quiet(ledger))'
      BY <3>1, <3>2, <3>4, <3>6 DEF Quiet, Held, Covered, Fundings
    <3> HIDE DEF next
    <3> QED
      BY <3>1, <3>3, <3>7, <3>8, <3>9 DEF Inv
  <2>2. CASE UNCHANGED vars
    BY <2>2 DEF vars, Inv, Given, Sound, Averaged, Held, AllTrades, OutOf, Funded, Worth,
                Quiet, Covered, Fundings
  <2> QED
    BY <2>1, <2>2 DEF Next
<1> QED
  BY <1>1, <1>2, PTL DEF Spec

(* The ledger has its types, a position has an average entry, and the      *)
(* equity is positive and at most its peak.                                *)
THEOREM TypeCorrect == Spec => []TypeOK
<1>1. Inv => TypeOK
  <2> SUFFICES ASSUME Inv PROVE TypeOK
    OBVIOUS
  <2>1. /\ ledger \in LedgerType /\ Averaged(ledger) /\ Given /\ cursor \in 0 .. Bars
        /\ ledger.equity > 0 /\ ledger.equity <= ledger.peak
    BY DEF Inv, Sound
  <2>2. /\ ledger.q \in [Symbols -> Int] /\ ledger.requested \in [Symbols -> Int]
        /\ ledger.marks \in [Symbols -> Nat \union {Null}]
        /\ ledger.equity \in Int /\ ledger.peak \in Int /\ ledger.ok \in BOOLEAN
    BY <2>1 DEF LedgerType
  <2>3. ledger.equity \in 1 .. ledger.peak /\ ledger.peak \in Nat
    BY <2>1, <2>2
  <2> QED
    BY <2>1, <2>2, <2>3 DEF TypeOK, Given, Averaged
<1> QED
  BY <1>1, InvHolds, PTL

(* The equity, accumulated from gaps, bases, moves inside bars, costs and  *)
(* fundings, is the cash of all trades at their prices, the fundings and   *)
(* the worth of what is held, after any number of chunks and bars.         *)
THEOREM Reconciles == Spec => []EquityReconciles
<1>1. Inv => EquityReconciles
  BY DEF Inv, Sound, EquityReconciles, AllTrades, OutOf, Funded, Worth
<1> QED
  BY <1>1, InvHolds, PTL

(* With exclude_symbol no symbol is held over an event without its record: *)
(* the exclusions of the whole run hold in every chunk.                    *)
THEOREM Excluded == Spec => []ExclusionIsComplete
<1>1. Inv => ExclusionIsComplete
  BY DEF Inv, Quiet, ExclusionIsComplete
<1> QED
  BY <1>1, InvHolds, PTL

-----------------------------------------------------------------------------
(* The chunks against one pass.  f is the ledger of the one pass after     *)
(* each bar, if nothing is refused.                                        *)
AllTargets == WithoutExcluded(Targets, FundingExclusions)

OnePassIs(f) == Passes(f, 0, Bars, LedgerState, AllTargets, Fundings)

Unfit == Targets = {} \/ NoFundingRows

OnePassFails ==
  \/ Unfit \/ Refused(0, Bars, AllTargets)
  \/ \E f : OnePassIs(f) /\ ~f[Bars].ok

OnTrack ==
  /\ Given /\ EveryChunkTrades /\ Bars # 0
  /\ cursor = Bars \/ \E k \in Nat : cursor = k * config.chunk
  /\ ~ledger.ok => OnePassFails
  /\ ledger.ok =>
       /\ ~Unfit /\ \A row \in Targets : row.fill < cursor => Trading(row.fill) # {}
       /\ \A f : OnePassIs(f) => ledger = f[cursor]

\* A chunk gives its bars what the whole run gives them.
LEMMA SameInputs ==
  ASSUME Given, NEW start \in 0 .. Bars, start < Bars,
         NEW t \in start .. EndOf(start) - 1
  PROVE  /\ DueAt(t, ChunkTargets(start)) = DueAt(t, AllTargets)
         /\ EventsOf(t, FundingsIn(start)) = EventsOf(t, Fundings)
<1>1. start \in Int /\ EndOf(start) \in Int /\ t \in Int
  BY EndIs, WeightAssumption
<1>2. \A row \in Targets : row.fill = t => row \in TargetsIn(start)
  BY <1>1 DEF TargetsIn
<1>3. TargetsIn(start) \in SUBSET Targets /\ Targets \in SUBSET TargetType
  BY TargetsTyped DEF TargetsIn
<1> DEFINE Strip(row) ==
      [row EXCEPT !.weight = IF row.symbol \in FundingExclusions THEN 0 ELSE @]
<1>4. \A row \in Targets : Strip(row).fill = row.fill
  BY <1>3 DEF TargetType
<1>5. /\ AllTargets = {Strip(row) : row \in Targets}
      /\ ChunkTargets(start) = {Strip(row) : row \in TargetsIn(start)}
  BY DEF AllTargets, ChunkTargets, WithoutExcluded
<1>6. DueAt(t, ChunkTargets(start)) = DueAt(t, AllTargets)
  <2> HIDE DEF Strip
  <2> QED
    BY <1>2, <1>3, <1>4, <1>5 DEF DueAt
<1>7. ASSUME NEW e \in Fundings, 2 * t < e.time, e.time <= 2 * t + 2
      PROVE  e \in FundingsIn(start)
  <2>1. e.time \in Int
    BY EventNumbers DEF Event
  <2>2. 2 * start <= e.time /\ e.time <= 2 * EndOf(start)
    BY <1>1, <1>7, <2>1
  <2> QED
    BY <2>2 DEF FundingsIn
<1>8. EventsOf(t, FundingsIn(start)) = EventsOf(t, Fundings)
  BY <1>7 DEF EventsOf, FundingsIn
<1> QED
  BY <1>6, <1>8

LEMMA NotRefused ==
  ASSUME Given, EveryChunkTrades, NEW start \in 0 .. Bars, start < Bars,
         start % config.chunk = 0
  PROVE  /\ \E t \in start .. EndOf(start) - 1 : Trading(t) # {}
         /\ \E t \in start .. EndOf(start) - 1 : Marked(t) # {}
<1>1. start \in Times
  BY WeightAssumption DEF Times
<1>2. /\ UNION {Trading(t) : t \in start .. EndOf(start) - 1} # {}
      /\ UNION {Marked(t) : t \in start .. EndOf(start) - 1} # {}
  BY <1>1 DEF EveryChunkTrades
<1> QED
  BY <1>2

LEMMA SameFills ==
  ASSUME NEW targets \in SUBSET TargetType, NEW excluded
  PROVE  /\ \A row \in targets :
              \E stripped \in WithoutExcluded(targets, excluded) : stripped.fill = row.fill
         /\ \A stripped \in WithoutExcluded(targets, excluded) :
              \E row \in targets : stripped.fill = row.fill
<1> DEFINE Strip(row) == [row EXCEPT !.weight = IF row.symbol \in excluded THEN 0 ELSE @]
<1>1. \A row \in targets : Strip(row).fill = row.fill
  BY DEF TargetType
<1>2. WithoutExcluded(targets, excluded) = {Strip(row) : row \in targets}
  BY DEF WithoutExcluded
<1> HIDE DEF Strip
<1> QED
  BY <1>1, <1>2

LEMMA SomeRefused ==
  ASSUME Given, NEW row \in Targets, Trading(row.fill) = {}
  PROVE  Refused(0, Bars, AllTargets)
<1>1. PICK stripped \in AllTargets : stripped.fill = row.fill
  BY TargetsTyped, SameFills DEF AllTargets
<1> QED
  BY <1>1 DEF Refused

\* A run that has failed stays as it is.
LEMMA FailureLasts ==
  ASSUME NEW f, OnePassIs(f), NEW from \in 0 .. Bars, ~f[from].ok
  PROVE  ~f[Bars].ok
<1>1. Bars \in Int /\ 0 <= Bars /\ from \in Int /\ from <= Bars
  BY WeightAssumption
<1>2. Follows(f, 0, Bars, AllTargets, Fundings)
  BY <1>1, PassesAt DEF OnePassIs
<1> DEFINE Good == {t \in from .. Bars : ~f[t].ok}
<1>3. from \in Good
  BY <1>1
<1>4. ASSUME NEW t \in from .. Bars - 1, t \in Good PROVE t + 1 \in Good
  <2>1. t \in 0 .. Bars - 1 /\ t + 1 \in from .. Bars
    BY <1>1
  <2>2. f[t + 1] = f[t]
    BY <1>2, <1>4, <2>1 DEF Bar, Follows
  <2> QED
    BY <1>4, <2>1, <2>2
<1>5. Bars \in Good
  <2>1. Bars \in from .. Bars
    BY <1>1
  <2> HIDE DEF Good
  <2> QED
    BY <1>1, <1>3, <1>4, <2>1, RangeInduction
<1> QED
  BY <1>5

\* The one pass is what any f says it is.
LEMMA OnePassAs ==
  ASSUME NEW f, OnePassIs(f)
  PROVE  Process(LedgerState, 0, Bars, AllTargets, Fundings)
           = IF Refused(0, Bars, AllTargets) THEN Failed(LedgerState) ELSE f[Bars]
<1>1. Bars \in Int /\ 0 <= Bars /\ 0 \in Int
  BY WeightAssumption
<1>2. Follows(f, 0, Bars, AllTargets, Fundings) /\ f[0] = LedgerState
  BY <1>1, PassesAt DEF OnePassIs
<1>3. PICK g : /\ OnePassIs(g)
               /\ Process(LedgerState, 0, Bars, AllTargets, Fundings)
                    = IF Refused(0, Bars, AllTargets) THEN Failed(LedgerState) ELSE g[Bars]
  BY <1>1, ProcessIs DEF OnePassIs
<1>4. Follows(g, 0, Bars, AllTargets, Fundings) /\ g[0] = LedgerState
  BY <1>1, <1>3, PassesAt DEF OnePassIs
<1>5. SameBars(0, Bars, AllTargets, Fundings, AllTargets, Fundings)
  BY DEF SameBars
<1>6. \A t \in 0 .. Bars : f[t] = g[t]
  BY <1>1, <1>2, <1>4, <1>5, SamePasses
<1>7. Bars \in 0 .. Bars
  BY <1>1
<1> QED
  BY <1>3, <1>6, <1>7

LEMMA OnePassFailsIs ==
  ASSUME OnePassFails
  PROVE  ~OnePass.ok
<1>1. ~Failed(LedgerState).ok
  BY StartSound, FailedSound
<1>2. OnePass = IF Unfit THEN Failed(LedgerState)
                ELSE Process(LedgerState, 0, Bars, AllTargets, Fundings)
  BY DEF OnePass, Unfit, AllTargets
<1>3. Bars \in Int /\ 0 <= Bars /\ 0 \in Int
  BY WeightAssumption
<1>4. CASE Unfit
  BY <1>1, <1>2, <1>4
<1>5. CASE Refused(0, Bars, AllTargets)
  BY <1>1, <1>2, <1>3, <1>5, ProcessIs
<1>6. ASSUME NEW f, OnePassIs(f), ~f[Bars].ok PROVE ~OnePass.ok
  BY <1>1, <1>2, <1>6, OnePassAs
<1> QED
  BY <1>4, <1>5, <1>6 DEF OnePassFails

LEMMA Multiples ==
  ASSUME NEW k \in Nat, NEW c \in Nat \ {0}
  PROVE  (k * c) % c = 0 /\ k * c + c = (k + 1) * c
<1>1. k * c + c = (k + 1) * c
  OBVIOUS
<1>2. (k * c) % c = 0
  OBVIOUS
<1> QED
  BY <1>1, <1>2

LEMMA ChunkOnTrack ==
  ASSUME OnTrack, Inv, ProcessChunk
  PROVE  /\ cursor' = Bars \/ \E k \in Nat : cursor' = k * config.chunk
         /\ ~ledger'.ok => OnePassFails
         /\ ledger'.ok =>
              /\ \A row \in Targets : row.fill < cursor' => Trading(row.fill) # {}
              /\ \A f : OnePassIs(f) => ledger' = f[cursor']
<1> DEFINE to == EndOf(cursor)
           targets == ChunkTargets(cursor)
           events == FundingsIn(cursor)
<1>1. /\ cursor < Bars /\ ledger.ok /\ cursor' = to
      /\ ledger' = Process(ledger, cursor, to, targets, events)
  BY DEF ProcessChunk
<1>2. /\ Given /\ cursor \in 0 .. Bars /\ Sound(ledger, cursor)
  BY DEF Inv
<1>3. to \in 0 .. Bars /\ cursor < to
  BY <1>1, <1>2, EndIs
<1>4. cursor \in Int /\ to \in Int /\ Bars \in Int /\ cursor <= to /\ to <= Bars /\ 0 <= cursor
  BY <1>2, <1>3, WeightAssumption
<1>5. config.chunk \in Nat \ {0}
  BY <1>2, Settings
<1>6. PICK k \in Nat : cursor = k * config.chunk
  BY <1>1, <1>4 DEF OnTrack
<1>7. cursor % config.chunk = 0 /\ cursor + config.chunk = (k + 1) * config.chunk
  BY <1>5, <1>6, Multiples
<1>8. cursor' = Bars \/ \E n \in Nat : cursor' = n * config.chunk
  <2>1. cursor' = Bars \/ cursor' = cursor + config.chunk
    BY <1>1 DEF EndOf
  <2>2. k + 1 \in Nat
    OBVIOUS
  <2> QED
    BY <1>7, <2>1, <2>2
<1>9. PICK g : /\ Passes(g, cursor, to, ledger, targets, events)
               /\ Process(ledger, cursor, to, targets, events)
                    = IF Refused(cursor, to, targets) THEN Failed(ledger) ELSE g[to]
  BY <1>4, ProcessIs
<1>10. EveryChunkTrades /\ \A f : OnePassIs(f) => ledger = f[cursor]
  BY <1>1 DEF OnTrack
<1>11. Refused(cursor, to, targets) => \E row \in targets : Trading(row.fill) = {}
  BY <1>1, <1>2, <1>7, <1>10, NotRefused DEF Refused
<1>12. /\ \A row \in TargetsIn(cursor) : \E stripped \in targets : stripped.fill = row.fill
       /\ \A stripped \in targets : \E row \in TargetsIn(cursor) : stripped.fill = row.fill
  <2>1. TargetsIn(cursor) \in SUBSET TargetType
    BY <1>2, TargetsTyped DEF TargetsIn
  <2> QED
    BY <2>1, SameFills DEF ChunkTargets
<1>13. g[cursor] = ledger /\ Follows(g, cursor, to, targets, events)
  BY <1>4, <1>9, PassesAt
<1>14. CASE Refused(cursor, to, targets)
  <2>1. \E row \in Targets : Trading(row.fill) = {}
    BY <1>11, <1>12, <1>14 DEF TargetsIn
  <2>2. OnePassFails
    BY <1>2, <2>1, SomeRefused DEF OnePassFails
  <2>3. ~ledger'.ok
    BY <1>1, <1>2, <1>9, <1>14, FailedSound
  <2> QED
    BY <1>8, <2>2, <2>3
<1>15. CASE ~Refused(cursor, to, targets)
  <2>1. ledger' = g[to]
    BY <1>1, <1>9, <1>15
  <2> HIDE DEF to, targets, events
  <2>2. ASSUME NEW f, OnePassIs(f) PROVE ledger' = f[to]
    <3>1. f[cursor] = g[cursor]
      BY <1>10, <1>13, <2>2
    <3>2. Follows(f, 0, Bars, AllTargets, Fundings)
      BY <1>4, <2>2, PassesAt DEF OnePassIs
    <3>3. Follows(f, cursor, to, AllTargets, Fundings)
      BY <1>4, <3>2 DEF Follows
    <3>4. Follows(g, cursor, to, targets, events)
      BY <1>13
    <3>5. SameBars(cursor, to, AllTargets, Fundings, targets, events)
      BY <1>1, <1>2, SameInputs DEF SameBars, to, targets, events
    <3>6. \A t \in cursor .. to : f[t] = g[t]
      BY <1>4, <3>1, <3>3, <3>4, <3>5, SamePasses
    <3>7. to \in cursor .. to
      BY <1>4
    <3> QED
      BY <2>1, <3>6, <3>7
  <2>3. \A row \in TargetsIn(cursor) : Trading(row.fill) # {}
    BY <1>12, <1>15 DEF Refused
  <2>4. ASSUME NEW row \in Targets, row.fill < to PROVE Trading(row.fill) # {}
    <3>1. row.fill \in Int
      BY <1>2, TargetsTyped DEF TargetType
    <3>2. CASE row.fill < cursor
      BY <1>1, <3>2 DEF OnTrack
    <3>3. CASE cursor <= row.fill
      BY <2>3, <2>4, <3>3 DEF TargetsIn, to
    <3> QED
      BY <1>4, <3>1, <3>2, <3>3
  <2>5. ~ledger'.ok => OnePassFails
    <3>1. PICK f : OnePassIs(f)
      BY <1>4, PassesExist DEF OnePassIs
    <3>2. ledger' = f[to]
      BY <2>2, <3>1
    <3> QED
      BY <1>3, <3>1, <3>2, FailureLasts DEF OnePassFails
  <2> QED
    BY <1>1, <1>8, <2>2, <2>4, <2>5
<1> QED
  BY <1>14, <1>15

-----------------------------------------------------------------------------
(* The configuration and the market never change, and with them nothing    *)
(* that is made of them: the one pass of the next state is that of this.   *)
SameInput == config' = config /\ market' = market

LEMMA SameTargets ==
  ASSUME SameInput
  PROVE  Targets' = Targets
  BY DEF SameInput, Targets, TargetWeight, UnconstrainedWeight, Size, Budget, Peers

LEMMA SameFundings ==
  ASSUME SameInput
  PROVE  Fundings' = Fundings
  BY DEF SameInput, Fundings

LEMMA SameExclusions ==
  ASSUME SameInput
  PROVE  FundingExclusions' = FundingExclusions
  BY SameTargets, SameFundings DEF SameInput, FundingExclusions

LEMMA SameMarket ==
  ASSUME SameInput, NEW t
  PROVE  Trading(t)' = Trading(t) /\ Marked(t)' = Marked(t)
         /\ \A s : Complete(t, s)' = Complete(t, s) /\ Value(t, s)' = Value(t, s)
  BY DEF SameInput, Trading, Marked, Value, Complete

LEMMA SameGap ==
  ASSUME SameInput, NEW l, NEW t
  PROVE  GapPnl(l, t)' = GapPnl(l, t)
  BY DEF SameInput, GapPnl, Value

LEMMA SameIntra ==
  ASSUME SameInput, NEW l, NEW t
  PROVE  IntrabarPnl(l, t)' = IntrabarPnl(l, t)
  BY DEF SameInput, IntrabarPnl, Value

LEMMA SameFlow ==
  ASSUME SameInput, NEW l, NEW t, NEW events
  PROVE  FundingCashflow(l, t, events)' = FundingCashflow(l, t, events)
  BY DEF SameInput, FundingCashflow, FundingPrice, Value

LEMMA SameLimit ==
  ASSUME SameInput, NEW l, NEW t, NEW targets, NEW equity
  PROVE  LimitTurnover(l, t, targets, equity)' = LimitTurnover(l, t, targets, equity)
  BY DEF SameInput, LimitTurnover

LEMMA SameFilled ==
  ASSUME SameInput, NEW l, NEW t, NEW targets, NEW equity
  PROVE  Filled(l, t, targets, equity)' = Filled(l, t, targets, equity)
<1>1. LimitTurnover(l, t, targets, equity)' = LimitTurnover(l, t, targets, equity)
  BY SameLimit
<1> QED
  BY <1>1 DEF SameInput, Filled, Trading, Complete, Value

LEMMA SameBooked ==
  ASSUME SameInput, NEW l, NEW t, NEW equity, NEW costs, NEW paid
  PROVE  Booked(l, t, equity, costs, paid)' = Booked(l, t, equity, costs, paid)
  BY DEF SameInput, Booked, Marked, Value

LEMMA SameAccounted ==
  ASSUME SameInput, NEW l, NEW t, NEW filled, NEW events
  PROVE  Accounted(l, t, filled, events)' = Accounted(l, t, filled, events)
  BY SameGap, SameIntra, SameFlow, SameBooked, SameMarket DEF SameInput, Accounted

LEMMA SameBar ==
  ASSUME SameInput, NEW l, NEW t, NEW targets, NEW events
  PROVE  Bar(l, t, targets, events)' = Bar(l, t, targets, events)
  BY SameGap, SameFilled, SameAccounted, SameMarket DEF SameInput, Bar

LEMMA SameRun ==
  ASSUME SameInput
  PROVE  /\ Given' = Given /\ EveryChunkTrades' = EveryChunkTrades /\ Unfit' = Unfit
         /\ Targets' = Targets /\ \A t : Trading(t)' = Trading(t)
         /\ \A f : OnePassIs(f)' = OnePassIs(f)
         /\ OnePassFails' = OnePassFails /\ config' = config
<1>1. Targets' = Targets /\ Fundings' = Fundings
      /\ FundingExclusions' = FundingExclusions
  BY SameTargets, SameFundings, SameExclusions
<1>2. AllTargets' = AllTargets
  BY <1>1 DEF AllTargets, WithoutExcluded
<1>3. \A t : Trading(t)' = Trading(t) /\ Marked(t)' = Marked(t)
  BY SameMarket
<1>4. config' = config /\ market' = market
  BY DEF SameInput
<1>5. Given' = Given
  BY <1>4 DEF Given
<1>6. EveryChunkTrades' = EveryChunkTrades
  BY <1>4 DEF EveryChunkTrades, EndOf, Trading, Marked, Value
<1>7. Unfit' = Unfit
  BY <1>1, <1>4 DEF Unfit, NoFundingRows
<1>8. Refused(0, Bars, AllTargets)' = Refused(0, Bars, AllTargets)
  BY <1>2, <1>3 DEF Refused
<1>9. ASSUME NEW f PROVE OnePassIs(f)' = OnePassIs(f)
  <2>1. \A t : Bar(f[t - 1], t - 1, AllTargets, Fundings)'
               = Bar(f[t - 1], t - 1, AllTargets, Fundings)
    <3> SUFFICES ASSUME NEW t
                 PROVE  Bar(f[t - 1], t - 1, AllTargets, Fundings)'
                          = Bar(f[t - 1], t - 1, AllTargets, Fundings)
      OBVIOUS
    <3>1. \A targets, events :
            Bar(f[t - 1], t - 1, targets, events)' = Bar(f[t - 1], t - 1, targets, events)
      BY SameBar
    <3> QED
      BY <1>1, <1>2, <3>1
  <2> QED
    BY <2>1 DEF OnePassIs, Passes
<1>10. OnePassFails' = OnePassFails
  BY <1>7, <1>8, <1>9 DEF OnePassFails
<1> QED
  BY <1>1, <1>3, <1>4, <1>5, <1>6, <1>7, <1>9, <1>10

-----------------------------------------------------------------------------
(* When every chunk has bars, the ledger that StreamingLedger hands from   *)
(* chunk to chunk ends as the ledger of the one pass, trade by trade and   *)
(* return by return, and one fails exactly when the other does.            *)
THEOREM OnePassChunks ==
  ASSUME Gaps = FALSE
  PROVE  Spec => []ChunksAreOnePass
<1>1. Init => OnTrack
  <2> SUFFICES ASSUME Init PROVE OnTrack
    OBVIOUS
  <2>1. /\ Given /\ EveryChunkTrades /\ cursor = 0 /\ UNION {Trading(t) : t \in Times} # {}
        /\ ledger = IF Unfit THEN Failed(LedgerState) ELSE LedgerState
    BY DEF Init, Given, Unfit
  <2>2. Bars # 0 /\ Bars \in Int /\ 0 <= Bars
    <3>1. Bars = 0 => Times = {}
      BY DEF Times
    <3> QED
      BY <2>1, <3>1, WeightAssumption
  <2>3. config.chunk \in Nat \ {0}
    BY <2>1, Settings
  <2>4. 0 = 0 * config.chunk /\ 0 \in Nat
    BY <2>3
  <2>5. \E k \in Nat : cursor = k * config.chunk
    BY <2>1, <2>4
  <2>6. CASE Unfit
    <3>1. ~ledger.ok
      BY <2>1, <2>6, StartSound, FailedSound
    <3> QED
      BY <2>1, <2>2, <2>5, <2>6, <3>1 DEF OnTrack, OnePassFails
  <2>7. CASE ~Unfit
    <3>1. ledger = LedgerState /\ ledger.ok
      BY <2>1, <2>7, StartSound
    <3>2. ASSUME NEW row \in Targets PROVE ~(row.fill < cursor)
      <4>1. row.fill \in Times
        BY <2>1, TargetsTyped
      <4> QED
        BY <2>1, <4>1 DEF Times
    <3>3. ASSUME NEW f, OnePassIs(f) PROVE ledger = f[cursor]
      <4>1. f[0] = LedgerState
        BY <2>2, <3>3, PassesAt DEF OnePassIs
      <4> QED
        BY <2>1, <3>1, <4>1
    <3> QED
      BY <2>1, <2>2, <2>5, <2>7, <3>1, <3>2, <3>3 DEF OnTrack
  <2> QED
    BY <2>6, <2>7
<1>2. OnTrack /\ Inv /\ [Next]_vars => OnTrack'
  <2> SUFFICES ASSUME OnTrack, Inv, [Next]_vars PROVE OnTrack'
    OBVIOUS
  <2>1. SameInput
    BY DEF Next, ProcessChunk, vars, SameInput
  <2>2. /\ Given' = Given /\ EveryChunkTrades' = EveryChunkTrades /\ Unfit' = Unfit
        /\ Targets' = Targets /\ \A t : Trading(t)' = Trading(t)
        /\ \A f : OnePassIs(f)' = OnePassIs(f)
        /\ OnePassFails' = OnePassFails /\ config' = config
    BY <2>1, SameRun
  <2>3. /\ cursor' = Bars \/ \E k \in Nat : cursor' = k * config.chunk
        /\ ~ledger'.ok => OnePassFails
        /\ ledger'.ok =>
             /\ ~Unfit /\ \A row \in Targets : row.fill < cursor' => Trading(row.fill) # {}
             /\ \A f : OnePassIs(f) => ledger' = f[cursor']
    <3>1. CASE ProcessChunk
      <4>1. ledger.ok
        BY <3>1 DEF ProcessChunk
      <4>2. ~Unfit
        BY <4>1 DEF OnTrack
      <4> QED
        BY <3>1, <4>2, ChunkOnTrack
    <3>2. CASE UNCHANGED vars
      <4>1. cursor' = cursor /\ ledger' = ledger
        BY <3>2 DEF vars
      <4> QED
        BY <4>1 DEF OnTrack
    <3> QED
      BY <3>1, <3>2 DEF Next
  <2> QED
    BY <2>2, <2>3 DEF OnTrack
<1>3. OnTrack => ChunksAreOnePass
  <2> SUFFICES ASSUME OnTrack PROVE ChunksAreOnePass
    OBVIOUS
  <2>1. CASE ~ledger.ok
    BY <2>1, OnePassFailsIs DEF OnTrack, ChunksAreOnePass
  <2>2. CASE ledger.ok /\ cursor = Bars
    <3>1. Bars \in Int /\ 0 <= Bars /\ 0 \in 0 .. Bars /\ Bars # 0 /\ 0 < Bars
      BY WeightAssumption DEF OnTrack
    <3>2. /\ Given /\ EveryChunkTrades /\ ~Unfit
          /\ \A row \in Targets : row.fill < Bars => Trading(row.fill) # {}
          /\ \A f : OnePassIs(f) => ledger = f[Bars]
      BY <2>2 DEF OnTrack
    <3>3. PICK f : OnePassIs(f)
      BY <3>1, PassesExist DEF OnePassIs
    <3>4. ~Refused(0, Bars, AllTargets)
      <4>1. config.chunk \in Nat \ {0}
        BY <3>2, Settings
      <4>2. 0 % config.chunk = 0
        BY <4>1
      <4>3. /\ \E t \in 0 .. EndOf(0) - 1 : Trading(t) # {}
            /\ \E t \in 0 .. EndOf(0) - 1 : Marked(t) # {}
        BY <3>1, <3>2, <4>2, NotRefused
      <4>4. EndOf(0) \in 0 .. Bars
        BY <3>1, <3>2, EndIs
      <4>5. \A t \in 0 .. EndOf(0) - 1 : t \in 0 .. Bars - 1
        BY <3>1, <4>4
      <4>6. \A row \in AllTargets : Trading(row.fill) # {}
        <5> TAKE stripped \in AllTargets
        <5>1. PICK row \in Targets : stripped.fill = row.fill
          BY <3>2, TargetsTyped, SameFills DEF AllTargets
        <5>2. row.fill < Bars
          <6>1. row.fill \in Times
            BY <3>2, TargetsTyped
          <6> QED
            BY <3>1, <6>1 DEF Times
        <5> QED
          BY <3>2, <5>1, <5>2
      <4> QED
        BY <4>3, <4>5, <4>6 DEF Refused
    <3>5. Process(LedgerState, 0, Bars, AllTargets, Fundings) = f[Bars]
      BY <3>3, <3>4, OnePassAs
    <3>6. OnePass = Process(LedgerState, 0, Bars, AllTargets, Fundings)
      BY <3>2 DEF OnePass, Unfit, AllTargets
    <3>7. ledger = OnePass
      <4>1. ledger = f[Bars]
        BY <3>2, <3>3
      <4> QED
        BY <3>5, <3>6, <4>1
    <3> QED
      BY <2>2, <3>7 DEF ChunksAreOnePass
  <2>3. CASE ledger.ok /\ cursor # Bars
    BY <2>3 DEF ChunksAreOnePass
  <2> QED
    BY <2>1, <2>2, <2>3
<1> QED
  BY <1>1, <1>2, <1>3, InvHolds, PTL DEF Spec

=============================================================================
