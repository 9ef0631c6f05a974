---------------------------- MODULE FoldTheorems ----------------------------
(***************************************************************************)
(* Induction over naturals and finite sets, and what it shows of the folds *)
(* the model is written with: sums of integers and of bags, and sequences  *)
(* put end to end.  An induction is over a set, the numbers or the sets a  *)
(* statement holds for, which the statement's proof defines.               *)
(***************************************************************************)
EXTENDS Integers, SequencesExt, FiniteSetTheorems, SequenceTheorems, WellFoundedInduction, TLAPS

(* A set with 0 and with the successor of each of its numbers holds every
   natural number. *)
LEMMA InductiveSet ==
  ASSUME NEW S, 0 \in S, \A k \in Nat : k \in S => k + 1 \in S
  PROVE  Nat \subseteq S
<1> SUFFICES ASSUME ~ (Nat \subseteq S) PROVE FALSE
  OBVIOUS
<1>0. Nat \ S # {}
  OBVIOUS
<1>1. PICK k \in Nat \ S : \A l \in Nat \ S : <<l, k>> \notin OpToRel(<, Nat)
  <2> DEFINE R == OpToRel(<, Nat)
             T == Nat \ S
  <2>1. IsWellFoundedOn(R, Nat) /\ T \subseteq Nat /\ T # {}
    BY <1>0, NatLessThanWellFounded
  <2> HIDE DEF R, T
  <2>2. \E x \in T : \A y \in T : ~ (<<y, x>> \in R)
    BY <2>1, WFMin
  <2> QED
    BY <2>2 DEF R, T
<1>2. k # 0 /\ k - 1 \in Nat /\ k - 1 < k
  OBVIOUS
<1>3. k - 1 \notin S
  BY <1>2
<1>4. <<k - 1, k>> \in OpToRel(<, Nat)
  BY <1>2 DEF OpToRel
<1> QED
  BY <1>1, <1>2, <1>3, <1>4

(* A set of sets holds every subset of a finite set if it holds each subset of
   it whose subsets with one element less it holds. *)
LEMMA InductiveSubsets ==
  ASSUME NEW S, IsFiniteSet(S), NEW G,
         \A s \in SUBSET S : (\A x \in s : s \ {x} \in G) => s \in G
  PROVE  SUBSET S \subseteq G
<1> DEFINE N == {k \in Nat : \A s \in SUBSET S : Cardinality(s) = k => s \in G}
<1>1. \A s \in SUBSET S : IsFiniteSet(s) /\ Cardinality(s) \in Nat
  BY FS_Subset, FS_CardinalityType
<1>2. 0 \in N
  BY <1>1, FS_EmptySet
<1>3. ASSUME NEW k \in Nat, k \in N PROVE k + 1 \in N
  <2>1. SUFFICES ASSUME NEW s \in SUBSET S, Cardinality(s) = k + 1 PROVE s \in G
    OBVIOUS
  <2>2. ASSUME NEW x \in s PROVE s \ {x} \in G
    <3>1. Cardinality(s \ {x}) = Cardinality(s) - 1
      BY <1>1, FS_RemoveElement
    <3>2. s \ {x} \in SUBSET S /\ Cardinality(s \ {x}) = k
      BY <2>1, <3>1
    <3> QED
      BY <1>3, <3>2
  <2> QED
    BY <2>2
<1> HIDE DEF N
<1>4. Nat \subseteq N
  BY <1>2, <1>3, InductiveSet
<1>5. ASSUME NEW s \in SUBSET S PROVE s \in G
  <2>1. Cardinality(s) \in N
    BY <1>1, <1>4
  <2> QED
    BY <2>1 DEF N
<1> QED
  BY <1>5

-----------------------------------------------------------------------------
(* g folds step over every subset of S, taking out one element at a time. *)
IsFold(g, step, base, pick, S) ==
  g = [s \in SUBSET S |-> IF s = {} THEN base ELSE step[pick[s], g[s \ {pick[s]}]]]

(* There is such a fold, whichever element is taken out: the recursion is well
   founded. *)
LEMMA FoldExists ==
  ASSUME NEW S, IsFiniteSet(S), NEW T, NEW base \in T, NEW step \in [S \X T -> T],
         NEW pick, \A s \in SUBSET S : s # {} => pick[s] \in s
  PROVE  \E g \in [SUBSET S -> T] : IsFold(g, step, base, pick, S)
<1> DEFINE Right(g, s) ==
             g[s] = IF s = {} THEN base ELSE step[pick[s], g[s \ {pick[s]}]]
           Small(k) == {s \in SUBSET S : Cardinality(s) <= k}
           N == {k \in Nat : \E g \in [SUBSET S -> T] : \A s \in Small(k) : Right(g, s)}
<1>1. \A s \in SUBSET S : IsFiniteSet(s) /\ Cardinality(s) \in Nat
  BY FS_Subset, FS_CardinalityType
<1>2. 0 \in N
  <2>1. \A s \in Small(0) : s = {}
    BY <1>1, FS_EmptySet
  <2>2. [s \in SUBSET S |-> base] \in [SUBSET S -> T]
    OBVIOUS
  <2>3. \A s \in Small(0) : Right([t \in SUBSET S |-> base], s)
    BY <2>1
  <2> QED
    BY <2>2, <2>3
<1>3. ASSUME NEW k \in Nat, k \in N PROVE k + 1 \in N
  <2>1. PICK g \in [SUBSET S -> T] : \A s \in Small(k) : Right(g, s)
    BY <1>3
  <2> DEFINE h == [s \in SUBSET S |->
                     IF Cardinality(s) = k + 1 THEN step[pick[s], g[s \ {pick[s]}]] ELSE g[s]]
  <2>2. ASSUME NEW s \in SUBSET S, s # {}
        PROVE  /\ s \ {pick[s]} \in SUBSET S
               /\ Cardinality(s \ {pick[s]}) = Cardinality(s) - 1
    BY <1>1, <2>2, FS_RemoveElement
  <2>3. ASSUME NEW s \in SUBSET S PROVE h[s] \in T
    <3>1. CASE Cardinality(s) = k + 1
      <4>1. s # {}
        <5>1. Cardinality({}) = 0 /\ k + 1 # 0
          BY FS_EmptySet
        <5> QED
          BY <3>1, <5>1
      <4>2. <<pick[s], g[s \ {pick[s]}]>> \in S \X T
        BY <4>1, <2>2
      <4> QED
        BY <3>1, <4>2
    <3>2. CASE Cardinality(s) # k + 1
      BY <3>2
    <3> QED
      BY <3>1, <3>2
  <2>4. ASSUME NEW s \in Small(k + 1) PROVE Right(h, s)
    <3>1. CASE s = {}
      <4>1. Cardinality(s) = 0
        BY <3>1, FS_EmptySet
      <4>2. s \in Small(k) /\ h[s] = g[s]
        <5>1. Cardinality(s) # k + 1 /\ Cardinality(s) <= k
          BY <4>1
        <5> QED
          BY <5>1
      <4> QED
        BY <3>1, <4>2, <2>1
    <3>2. CASE s # {}
      <4>1. h[s \ {pick[s]}] = g[s \ {pick[s]}]
        <5>1. Cardinality(s) <= k + 1 /\ Cardinality(s) \in Nat
          BY <1>1
        <5>2. Cardinality(s \ {pick[s]}) # k + 1 /\ s \ {pick[s]} \in SUBSET S
          BY <3>2, <5>1, <2>2
        <5> QED
          BY <5>2
      <4>2. CASE Cardinality(s) = k + 1
        BY <3>2, <4>1, <4>2
      <4>3. CASE Cardinality(s) # k + 1
        <5>1. s \in Small(k)
          BY <4>3, <1>1
        <5> QED
          BY <3>2, <4>1, <4>3, <5>1, <2>1
      <4> QED
        BY <4>2, <4>3
    <3> QED
      BY <3>1, <3>2
  <2>5. h \in [SUBSET S -> T]
    BY <2>3
  <2> HIDE DEF h, Right, Small
  <2> QED
    BY <2>4, <2>5
<1> HIDE DEF N
<1>4. Cardinality(S) \in N
  BY <1>1, <1>2, <1>3, InductiveSet
<1>5. PICK g \in [SUBSET S -> T] : \A s \in Small(Cardinality(S)) : Right(g, s)
  BY <1>4 DEF N
<1>6. \A s \in SUBSET S : s \in Small(Cardinality(S))
  BY FS_Subset
<1>7. \A s \in SUBSET S : Right(g, s)
  BY <1>5, <1>6
<1>8. IsFold(g, step, base, pick, S)
  BY <1>7 DEF IsFold
<1> QED
  BY <1>8

Pick(s) == CHOOSE x \in s : TRUE
IsSum(g, fun, S) ==
  g = [s \in SUBSET S |-> IF s = {} THEN 0 ELSE fun[Pick(s)] + g[s \ {Pick(s)}]]

(* The community modules' sum is the fold that takes out the element CHOOSE
   names. *)
LEMMA SumUnfolds ==
  ASSUME NEW fun, NEW S
  PROVE  SumFunctionOnSet(fun, S) = (CHOOSE g : IsSum(g, fun, S))[S]
BY DEF SumFunctionOnSet, FoldFunctionOnSet, MapThenFoldSet, IsSum, Pick

(* There is such a fold over a finite set of integers. *)
LEMMA SumIsFold ==
  ASSUME NEW S, IsFiniteSet(S), NEW fun, \A x \in S : fun[x] \in Int
  PROVE  \E g \in [SUBSET S -> Int] : IsSum(g, fun, S)
<1> DEFINE step == [p \in S \X Int |-> fun[p[1]] + p[2]]
           pick == [s \in SUBSET S |-> Pick(s)]
<1>1. step \in [S \X Int -> Int]
  OBVIOUS
<1>2. \A s \in SUBSET S : s # {} => pick[s] \in s
  BY DEF Pick
<1>3. \A x \in S, y \in Int : step[x, y] = fun[x] + y
  OBVIOUS
<1> HIDE DEF step, pick
<1>4. PICK g \in [SUBSET S -> Int] : IsFold(g, step, 0, pick, S)
  <2>1. 0 \in Int
    OBVIOUS
  <2> QED
    BY ONLY IsFiniteSet(S), <1>1, <1>2, <2>1, FoldExists
<1>5. ASSUME NEW s \in SUBSET S, s # {}
      PROVE  step[pick[s], g[s \ {pick[s]}]] = fun[Pick(s)] + g[s \ {Pick(s)}]
  BY <1>2, <1>3, <1>5 DEF pick
<1>6. IsSum(g, fun, S)
  BY <1>4, <1>5 DEF IsFold, IsSum
<1> QED
  BY <1>6

(* The sum of nothing is 0. *)
LEMMA SumEmpty == \A fun : SumFunctionOnSet(fun, {}) = 0
<1> SUFFICES ASSUME NEW fun PROVE SumFunctionOnSet(fun, {}) = 0
  OBVIOUS
<1> DEFINE it == CHOOSE g : IsSum(g, fun, {})
<1>1. \E g \in [SUBSET {} -> Int] : IsSum(g, fun, {})
  BY SumIsFold, FS_EmptySet
<1>2. IsSum(it, fun, {})
  BY <1>1
<1> HIDE DEF it
<1>3. it[{}] = 0
  BY <1>2 DEF IsSum
<1> QED
  BY <1>3, SumUnfolds DEF it

(* Any element may be taken out of a sum, not only the one CHOOSE names. *)
LEMMA SumAnyOrder ==
  ASSUME NEW S, IsFiniteSet(S), NEW fun, \A x \in S : fun[x] \in Int,
         NEW it, IsSum(it, fun, S)
  PROVE  \A s \in SUBSET S : it[s] \in Int /\ \A y \in s : it[s] = fun[y] + it[s \ {y}]
<1> DEFINE I == {s \in SUBSET S : it[s] \in Int}
           G == {s \in SUBSET S : \A y \in s : it[s] = fun[y] + it[s \ {y}]}
<1>1. it[{}] = 0
  BY DEF IsSum
<1>2. ASSUME NEW s \in SUBSET S, s # {}
      PROVE  Pick(s) \in s /\ it[s] = fun[Pick(s)] + it[s \ {Pick(s)}]
  BY <1>2 DEF IsSum, Pick
<1>3. ASSUME NEW s \in SUBSET S, \A x \in s : s \ {x} \in I PROVE s \in I
  <2>1. CASE s = {}
    BY <1>1, <2>1
  <2>2. CASE s # {}
    <3>1. Pick(s) \in s /\ it[s] = fun[Pick(s)] + it[s \ {Pick(s)}]
      BY <1>2, <2>2
    <3>2. it[s \ {Pick(s)}] \in Int /\ fun[Pick(s)] \in Int
      BY <1>3, <3>1
    <3> QED
      BY <3>1, <3>2
  <2> QED
    BY <2>1, <2>2
<1>4. SUBSET S \subseteq I
  <2> HIDE DEF I
  <2> QED
    BY <1>3, InductiveSubsets
<1>5. \A s \in SUBSET S : it[s] \in Int
  BY <1>4
<1>6. ASSUME NEW s \in SUBSET S, \A x \in s : s \ {x} \in G, NEW y \in s
      PROVE  it[s] = fun[y] + it[s \ {y}]
  <2> DEFINE x == Pick(s)
  <2>1. x \in s /\ it[s] = fun[x] + it[s \ {x}]
    BY <1>2
  <2> HIDE DEF x
  <2>2. CASE y = x
    BY <2>1, <2>2
  <2>3. CASE y # x
    <3>1. it[s \ {x}] = fun[y] + it[(s \ {x}) \ {y}]
      BY <1>6, <2>1, <2>3
    <3>2. it[s \ {y}] = fun[x] + it[(s \ {y}) \ {x}]
      BY <1>6, <2>1, <2>3
    <3>3. (s \ {x}) \ {y} = (s \ {y}) \ {x} /\ (s \ {x}) \ {y} \in SUBSET S
      OBVIOUS
    <3> DEFINE r == it[(s \ {x}) \ {y}]
    <3>4. r \in Int /\ fun[x] \in Int /\ fun[y] \in Int
      BY <1>5, <2>1, <3>3
    <3>5. it[s] = fun[x] + (fun[y] + r) /\ it[s \ {y}] = fun[x] + r
      BY <2>1, <3>1, <3>2, <3>3
    <3> HIDE DEF r
    <3> QED
      BY <3>4, <3>5
  <2> QED
    BY <2>2, <2>3
<1>7. ASSUME NEW s \in SUBSET S, \A x \in s : s \ {x} \in G PROVE s \in G
  BY <1>6, <1>7
<1>8. SUBSET S \subseteq G
  <2> HIDE DEF G
  <2> QED
    BY <1>7, InductiveSubsets
<1> QED
  BY <1>5, <1>8

(* A sum depends on the values in its set only. *)
LEMMA SumSame ==
  ASSUME NEW S, NEW fun, NEW gun, \A x \in S : fun[x] = gun[x]
  PROVE  SumFunctionOnSet(fun, S) = SumFunctionOnSet(gun, S)
<1>1. ASSUME NEW s \in SUBSET S, s # {} PROVE fun[Pick(s)] = gun[Pick(s)]
  BY <1>1 DEF Pick
<1>2. ASSUME NEW g PROVE IsSum(g, fun, S) <=> IsSum(g, gun, S)
  BY <1>1 DEF IsSum
<1>3. (CHOOSE g : IsSum(g, fun, S)) = (CHOOSE g : IsSum(g, gun, S))
  BY <1>2
<1> QED
  BY <1>3, SumUnfolds

(* A sum is any one of its values and the sum of the others. *)
LEMMA SumRemove ==
  ASSUME NEW S, IsFiniteSet(S), NEW fun, \A x \in S : fun[x] \in Int, NEW y \in S
  PROVE  /\ SumFunctionOnSet(fun, S) \in Int
         /\ SumFunctionOnSet(fun, S \ {y}) \in Int
         /\ SumFunctionOnSet(fun, S) = fun[y] + SumFunctionOnSet(fun, S \ {y})
<1> DEFINE T == S \ {y}
           big == CHOOSE g : IsSum(g, fun, S)
           small == CHOOSE g : IsSum(g, fun, T)
           G == {t \in SUBSET T : big[t] = small[t]}
<1>1. IsFiniteSet(T) /\ \A x \in T : fun[x] \in Int
  BY FS_RemoveElement
<1>2. IsSum(big, fun, S)
  BY SumIsFold
<1>3. IsSum(small, fun, T)
  BY <1>1, SumIsFold
<1>4. SumFunctionOnSet(fun, S) = big[S] /\ SumFunctionOnSet(fun, T) = small[T]
  BY SumUnfolds
<1> HIDE DEF big, small
<1>5. ASSUME NEW t \in SUBSET T, \A x \in t : t \ {x} \in G PROVE t \in G
  <2>1. CASE t = {}
    BY <1>2, <1>3, <2>1 DEF IsSum
  <2>2. CASE t # {}
    <3>1. Pick(t) \in t
      BY <2>2 DEF Pick
    <3>2. big[t] = fun[Pick(t)] + big[t \ {Pick(t)}]
      <4>1. t \in SUBSET S
        OBVIOUS
      <4> QED
        BY <1>2, <2>2, <4>1 DEF IsSum
    <3>3. small[t] = fun[Pick(t)] + small[t \ {Pick(t)}]
      BY <1>3, <2>2 DEF IsSum
    <3> QED
      BY <1>5, <3>1, <3>2, <3>3
  <2> QED
    BY <2>1, <2>2
<1>6. SUBSET T \subseteq G
  <2> HIDE DEF G, T
  <2> QED
    BY <1>1, <1>5, InductiveSubsets
<1>7. big[T] = small[T]
  BY <1>6
<1>8. \A s \in SUBSET S : big[s] \in Int /\ \A x \in s : big[s] = fun[x] + big[s \ {x}]
  BY <1>2, SumAnyOrder
<1>9. big[S] \in Int /\ big[T] \in Int /\ big[S] = fun[y] + big[T]
  BY <1>8
<1> QED
  BY <1>4, <1>7, <1>9

(* Of two sums over a set the one with the smaller values is smaller. *)
LEMMA SumMonotone ==
  ASSUME NEW S, IsFiniteSet(S), NEW fun, NEW gun,
         \A x \in S : fun[x] \in Nat /\ gun[x] \in Nat /\ fun[x] <= gun[x]
  PROVE  /\ SumFunctionOnSet(fun, S) \in Nat /\ SumFunctionOnSet(gun, S) \in Nat
         /\ SumFunctionOnSet(fun, S) <= SumFunctionOnSet(gun, S)
<1> DEFINE f(s) == SumFunctionOnSet(fun, s)
           g(s) == SumFunctionOnSet(gun, s)
           G == {s \in SUBSET S : f(s) \in Nat /\ g(s) \in Nat /\ f(s) <= g(s)}
<1>1. ASSUME NEW s \in SUBSET S, \A x \in s : s \ {x} \in G PROVE s \in G
  <2>1. CASE s = {}
    <3>1. f(s) = 0 /\ g(s) = 0
      BY <2>1, SumEmpty
    <3> HIDE DEF f, g
    <3> QED
      BY <3>1
  <2>2. CASE s # {}
    <3>1. PICK x \in s : TRUE
      BY <2>2
    <3>2. IsFiniteSet(s) /\ \A y \in s : fun[y] \in Int /\ gun[y] \in Int
      BY FS_Subset
    <3>3. f(s) = fun[x] + f(s \ {x}) /\ g(s) = gun[x] + g(s \ {x})
      BY <3>2, SumRemove
    <3>4. f(s \ {x}) \in Nat /\ g(s \ {x}) \in Nat /\ f(s \ {x}) <= g(s \ {x})
      BY <1>1
    <3>5. fun[x] \in Nat /\ gun[x] \in Nat /\ fun[x] <= gun[x]
      OBVIOUS
    <3> HIDE DEF f, g
    <3> QED
      BY <3>3, <3>4, <3>5
  <2> QED
    BY <2>1, <2>2
<1>2. SUBSET S \subseteq G
  <2> HIDE DEF G
  <2> QED
    BY <1>1, InductiveSubsets
<1> QED
  BY <1>2

(* A sum up to k + 1 is the sum up to k and the last value. *)
LEMMA SumNext ==
  ASSUME NEW k \in Nat, NEW fun, \A i \in 1..(k + 1) : fun[i] \in Int
  PROVE  /\ SumFunctionOnSet(fun, 1..(k + 1)) = fun[k + 1] + SumFunctionOnSet(fun, 1..k)
         /\ SumFunctionOnSet(fun, 1..k) \in Int
<1>1. IsFiniteSet(1..(k + 1)) /\ k + 1 \in 1..(k + 1) /\ (1..(k + 1)) \ {k + 1} = 1..k
  BY FS_Interval
<1> QED
  BY <1>1, SumRemove

(* The sum of n equal values is n times the value. *)
LEMMA SumConstant ==
  ASSUME NEW n \in Nat, NEW q \in Int, NEW fun, \A i \in 1..n : fun[i] = q
  PROVE  SumFunctionOnSet(fun, 1..n) = n * q
<1> DEFINE N == {k \in Nat : k <= n => SumFunctionOnSet(fun, 1..k) = k * q}
<1>1. 0 \in N
  <2>1. 1..0 = {} /\ 0 * q = 0
    OBVIOUS
  <2> QED
    BY <2>1, SumEmpty
<1>2. ASSUME NEW k \in Nat, k \in N PROVE k + 1 \in N
  <2>1. SUFFICES ASSUME k + 1 <= n PROVE SumFunctionOnSet(fun, 1..(k + 1)) = (k + 1) * q
    OBVIOUS
  <2>2. \A i \in 1..(k + 1) : fun[i] = q /\ fun[i] \in Int
    BY <2>1
  <2>3. SumFunctionOnSet(fun, 1..(k + 1)) = fun[k + 1] + SumFunctionOnSet(fun, 1..k)
    BY <2>2, SumNext
  <2>4. SumFunctionOnSet(fun, 1..k) = k * q /\ fun[k + 1] = q
    BY <1>2, <2>1, <2>2
  <2>5. (k + 1) * q = q + k * q
    OBVIOUS
  <2> QED
    BY <2>3, <2>4, <2>5
<1> HIDE DEF N
<1>3. n \in N
  BY <1>1, <1>2, InductiveSet
<1> QED
  BY <1>3 DEF N

-----------------------------------------------------------------------------
(* f[i] is the first i sequences of ss put end to end. *)
IsFlatten(f, ss) ==
  f = [i \in 1..Len(ss) |-> IF i = 1 THEN ss[i] ELSE f[i - 1] \o ss[i]]

(* FlattenSeq is the last of such an f. *)
LEMMA FlattenUnfolds ==
  ASSUME NEW ss
  PROVE  FlattenSeq(ss) = IF Len(ss) = 0 THEN ss
                          ELSE (CHOOSE f : IsFlatten(f, ss))[Len(ss)]
BY DEF FlattenSeq, IsFlatten

(* FlattenSeq is the last of any such f: there is no other. It suffices to name
   one to know what FlattenSeq is. *)
LEMMA FlattenBy ==
  ASSUME NEW ss, Len(ss) \in Nat, Len(ss) # 0, NEW f, IsFlatten(f, ss)
  PROVE  FlattenSeq(ss) = f[Len(ss)]
<1> DEFINE n == Len(ss)
           g == CHOOSE h : IsFlatten(h, ss)
           N == {k \in Nat : k + 1 \in 1..n => f[k + 1] = g[k + 1]}
<1>1. IsFlatten(g, ss)
  OBVIOUS
<1> HIDE DEF g
<1>2. 0 \in N
  <2>1. 1 \in 1..n
    OBVIOUS
  <2>2. f[1] = ss[1] /\ g[1] = ss[1]
    BY <1>1, <2>1 DEF IsFlatten
  <2> QED
    BY <2>2
<1>3. ASSUME NEW k \in Nat, k \in N PROVE k + 1 \in N
  <2>1. CASE k + 2 \in 1..n
    <3>1. k + 1 \in 1..n /\ k + 2 # 1 /\ (k + 2) - 1 = k + 1 /\ (k + 1) + 1 = k + 2
      BY <2>1
    <3>2. f[k + 2] = f[(k + 2) - 1] \o ss[k + 2]
      BY <2>1, <3>1 DEF IsFlatten
    <3>3. g[k + 2] = g[(k + 2) - 1] \o ss[k + 2]
      BY <1>1, <2>1, <3>1 DEF IsFlatten
    <3>4. f[k + 1] = g[k + 1]
      BY <1>3, <3>1
    <3>5. f[k + 2] = g[k + 2]
      BY <3>1, <3>2, <3>3, <3>4
    <3> QED
      BY <3>1, <3>5
  <2>2. CASE k + 2 \notin 1..n
    <3>1. (k + 1) + 1 = k + 2
      OBVIOUS
    <3> QED
      BY <2>2, <3>1
  <2> QED
    BY <2>1, <2>2
<1> HIDE DEF N
<1>4. Nat \subseteq N
  BY <1>2, <1>3, InductiveSet
<1>5. n - 1 \in N
  BY <1>4
<1>6. f[n] = g[n]
  BY <1>5 DEF N
<1> QED
  BY <1>6, FlattenUnfolds DEF g

(* f begins with first and takes one step from each place to the next. *)
IsRecursion(f, n, first, step) ==
  f = [i \in 1..n |-> IF i = 1 THEN first ELSE step[f[i - 1], i]]

(* There is such an f for every step that stays in its set. *)
LEMMA RecursionExists ==
  ASSUME NEW n \in Nat, NEW T, NEW first \in T, NEW step \in [T \X (1..n) -> T]
  PROVE  \E f \in [1..n -> T] : IsRecursion(f, n, first, step)
<1> DEFINE Right(f, i) == f[i] = IF i = 1 THEN first ELSE step[f[i - 1], i]
           N == {k \in Nat : \E f \in [1..n -> T] : \A i \in 1..n : i <= k => Right(f, i)}
<1>1. 0 \in N
  <2>1. [i \in 1..n |-> first] \in [1..n -> T]
    OBVIOUS
  <2>2. \A i \in 1..n : ~ (i <= 0)
    OBVIOUS
  <2> QED
    BY <2>1, <2>2
<1>2. ASSUME NEW k \in Nat, k \in N PROVE k + 1 \in N
  <2>1. PICK f \in [1..n -> T] : \A i \in 1..n : i <= k => Right(f, i)
    BY <1>2
  <2> DEFINE new == IF k = 0 THEN first ELSE step[f[k], k + 1]
             g == [f EXCEPT ![k + 1] = new]
  <2>2. k + 1 \in 1..n => new \in T
    <3>1. CASE k = 0
      BY <3>1
    <3>2. ASSUME k # 0, k + 1 \in 1..n PROVE new \in T
      <4>1. <<f[k], k + 1>> \in T \X (1..n)
        BY <3>2
      <4> QED
        BY <3>2, <4>1
    <3> QED
      BY <3>1, <3>2
  <2> HIDE DEF new
  <2>3. g \in [1..n -> T]
    BY <2>2
  <2>4. ASSUME NEW i \in 1..n, i <= k + 1 PROVE Right(g, i)
    <3>1. CASE i = k + 1
      <4>1. g[i] = new
        BY <3>1
      <4>2. CASE k = 0
        BY <3>1, <4>1, <4>2 DEF new
      <4>3. CASE k # 0
        <5>1. g[k] = f[k] /\ i - 1 = k /\ i # 1
          BY <3>1, <4>3
        <5> HIDE DEF g
        <5> QED
          BY <3>1, <4>1, <4>3, <5>1 DEF new
      <4> QED
        BY <4>2, <4>3
    <3>2. CASE i # k + 1
      <4>1. i <= k /\ g[i] = f[i]
        BY <2>4, <3>2
      <4>2. i # 1 => g[i - 1] = f[i - 1]
        BY <4>1
      <4> QED
        BY <2>1, <4>1, <4>2
    <3> QED
      BY <3>1, <3>2
  <2> HIDE DEF g, Right
  <2> QED
    BY <2>3, <2>4
<1> HIDE DEF N
<1>3. n \in N
  BY <1>1, <1>2, InductiveSet
<1>4. PICK f \in [1..n -> T] : \A i \in 1..n : i <= n => Right(f, i)
  BY <1>3 DEF N
<1>5. \A i \in 1..n : Right(f, i)
  <2>1. \A i \in 1..n : i <= n
    OBVIOUS
  <2> HIDE DEF Right
  <2> QED
    BY <1>4, <2>1
<1>6. f = [i \in 1..n |-> IF i = 1 THEN first ELSE step[f[i - 1], i]]
  BY <1>5
<1> QED
  BY <1>6 DEF IsRecursion

(* There is an f of which FlattenSeq is the last. *)
LEMMA FlattenExists ==
  ASSUME NEW T, NEW ss \in Seq(Seq(T)), ss # <<>>
  PROVE  \E f \in [1..Len(ss) -> Seq(T)] : IsFlatten(f, ss)
<1> DEFINE n == Len(ss)
           step == [p \in Seq(T) \X (1..n) |-> p[1] \o ss[p[2]]]
<1>1. n \in Nat \ {0} /\ \A i \in 1..n : ss[i] \in Seq(T)
  BY EmptySeq
<1> HIDE DEF n
<1>2. step \in [Seq(T) \X (1..n) -> Seq(T)]
  <2>1. ASSUME NEW p \in Seq(T) \X (1..n) PROVE p[1] \o ss[p[2]] \in Seq(T)
    <3>1. p[1] \in Seq(T) /\ ss[p[2]] \in Seq(T)
      BY <1>1
    <3> QED
      BY <3>1, ConcatProperties
  <2> QED
    BY <2>1
<1>3. \A u \in Seq(T), i \in 1..n : step[u, i] = u \o ss[i]
  OBVIOUS
<1> HIDE DEF step
<1>4. ss[1] \in Seq(T)
  BY <1>1
<1> DEFINE S == Seq(T)
           first == ss[1]
<1>5. \E f \in [1..n -> S] : IsRecursion(f, n, first, step)
  <2>1. n \in Nat \ {0} /\ first \in S /\ step \in [S \X (1..n) -> S]
    BY <1>1, <1>2, <1>4
  <2> HIDE DEF S, first
  <2> QED
    BY ONLY <2>1, RecursionExists
<1>9. PICK f \in [1..n -> Seq(T)] :
             f = [i \in 1..n |-> IF i = 1 THEN ss[1] ELSE step[f[i - 1], i]]
  BY <1>5 DEF IsRecursion
<1>6. ASSUME NEW i \in 1..n, i # 1 PROVE step[f[i - 1], i] = f[i - 1] \o ss[i]
  <2>1. i - 1 \in 1..n
    BY <1>1, <1>6
  <2> QED
    BY <1>3, <2>1
<1>7. \A i \in 1..n : f[i] = IF i = 1 THEN ss[i] ELSE f[i - 1] \o ss[i]
  BY <1>9, <1>6
<1>8. IsFlatten(f, ss)
  BY <1>7 DEF IsFlatten, n
<1> QED
  BY <1>8 DEF n

(* FlattenSeq is a sequence of the elements, and that of two sequences put end
   to end is that of the one and then that of the other. *)
LEMMA FlattenConcat ==
  ASSUME NEW T, NEW s \in Seq(Seq(T)), NEW t \in Seq(Seq(T))
  PROVE  /\ FlattenSeq(s) \in Seq(T)
         /\ FlattenSeq(s \o t) = FlattenSeq(s) \o FlattenSeq(t)
<1>1. FlattenSeq(<<>>) = <<>> /\ <<>> \in Seq(T)
  BY DEF FlattenSeq
<1>2. ASSUME NEW u \in Seq(Seq(T)) PROVE FlattenSeq(u) \in Seq(T)
  <2>1. CASE u = <<>>
    BY <1>1, <2>1
  <2>2. CASE u # <<>>
    <3>1. PICK f \in [1..Len(u) -> Seq(T)] : IsFlatten(f, u)
      BY <2>2, FlattenExists
    <3>2. Len(u) \in Nat /\ Len(u) # 0
      BY <2>2, EmptySeq
    <3>3. FlattenSeq(u) = f[Len(u)]
      BY <3>1, <3>2, FlattenBy
    <3>4. Len(u) \in 1..Len(u)
      BY <3>2
    <3> QED
      BY <3>1, <3>3, <3>4
  <2> QED
    BY <2>1, <2>2
<1>3. FlattenSeq(s) \in Seq(T) /\ FlattenSeq(t) \in Seq(T)
  BY <1>2
<1>4. CASE s = <<>>
  <2>1. s \o t = t /\ <<>> \o FlattenSeq(t) = FlattenSeq(t)
    BY <1>3, <1>4, ConcatEmptySeq
  <2> QED
    BY <1>1, <1>3, <1>4, <2>1
<1>5. CASE t = <<>>
  <2>1. s \o t = s /\ FlattenSeq(s) \o <<>> = FlattenSeq(s)
    BY <1>3, <1>5, ConcatEmptySeq
  <2> QED
    BY <1>1, <1>3, <1>5, <2>1
<1>6. CASE s # <<>> /\ t # <<>>
  <2> DEFINE a == Len(s)
             b == Len(t)
             st == s \o t
  <2>1. a \in Nat \ {0} /\ b \in Nat \ {0}
    BY <1>6, EmptySeq
  <2>2. /\ Len(st) = a + b
        /\ \A i \in 1..(a + b) : st[i] = IF i <= a THEN s[i] ELSE t[i - a]
    BY ConcatProperties
  <2>3. PICK f \in [1..a -> Seq(T)] : IsFlatten(f, s)
    BY <1>6, FlattenExists
  <2>4. PICK g \in [1..b -> Seq(T)] : IsFlatten(g, t)
    BY <1>6, FlattenExists
  <2> DEFINE h == [i \in 1..(a + b) |-> IF i <= a THEN f[i] ELSE f[a] \o g[i - a]]
  <2>5. FlattenSeq(s) = f[a] /\ FlattenSeq(t) = g[b]
    BY <2>1, <2>3, <2>4, FlattenBy
  <2> HIDE DEF st, a, b
  <2>6. \A i \in 1..a : f[i] = IF i = 1 THEN s[i] ELSE f[i - 1] \o s[i]
    BY <2>3 DEF IsFlatten, a
  <2>7. \A i \in 1..b : g[i] = IF i = 1 THEN t[i] ELSE g[i - 1] \o t[i]
    BY <2>4 DEF IsFlatten, b
  <2>8. ASSUME NEW i \in 1..(a + b)
        PROVE  h[i] = IF i = 1 THEN st[i] ELSE h[i - 1] \o st[i]
    <3>1. CASE i <= a
      <4>1. i \in 1..a /\ (i # 1 => i - 1 \in 1..a)
        BY <2>1, <3>1
      <4>2. h[i] = f[i] /\ st[i] = s[i] /\ (i # 1 => h[i - 1] = f[i - 1])
        BY <2>1, <2>2, <4>1
      <4> HIDE DEF h
      <4> QED
        BY <2>6, <4>1, <4>2
    <3>2. CASE i = a + 1
      <4>1. i # 1 /\ i - 1 = a /\ i - a = 1 /\ 1 \in 1..b /\ ~ (i <= a) /\ a \in 1..(a + b)
        BY <2>1, <3>2
      <4>2. h[i] = f[a] \o g[1] /\ h[i - 1] = f[a]
        <5>1. h[i] = f[a] \o g[i - a]
          BY <4>1
        <5>2. h[a] = f[a]
          BY <2>1, <4>1
        <5> HIDE DEF h
        <5> QED
          BY <4>1, <5>1, <5>2
      <4>5. st[i] = t[1]
        <5>1. st[i] = t[i - a]
          BY <2>2, <4>1
        <5> QED
          BY <4>1, <5>1
      <4>3. g[1] = t[1]
        BY <2>7, <4>1
      <4> HIDE DEF h
      <4> QED
        BY <4>1, <4>2, <4>3, <4>5
    <3>3. CASE i > a + 1
      <4> DEFINE k == i - a
      <4>1. k \in 1..b /\ k # 1 /\ k - 1 \in 1..b /\ (i - 1) - a = k - 1 /\ i # 1
        BY <2>1, <3>3
      <4>2. /\ h[i] = f[a] \o g[k] /\ st[i] = t[k]
            /\ h[i - 1] = f[a] \o g[k - 1]
        <5>1. i - 1 \in 1..(a + b) /\ ~ (i <= a) /\ ~ (i - 1 <= a)
          BY <2>1, <3>3
        <5> QED
          BY <2>2, <4>1, <5>1
      <4>3. g[k] = g[k - 1] \o t[k]
        BY <2>7, <4>1
      <4>4. f[a] \in Seq(T) /\ g[k - 1] \in Seq(T) /\ t[k] \in Seq(T)
        <5>1. a \in 1..a
          BY <2>1
        <5> QED
          BY <4>1, <5>1 DEF b
      <4>5. (f[a] \o g[k - 1]) \o t[k] = f[a] \o (g[k - 1] \o t[k])
        <5> DEFINE x == f[a]
                   y == g[k - 1]
                   z == t[k]
        <5>1. x \in Seq(T) /\ y \in Seq(T) /\ z \in Seq(T)
          BY <4>4
        <5> HIDE DEF x, y, z
        <5>2. (x \o y) \o z = x \o (y \o z)
          BY ONLY <5>1, ConcatAssociative, SMTT(20)
        <5> QED
          BY <5>2 DEF x, y, z
      <4> HIDE DEF h, k
      <4> QED
        BY <4>1, <4>2, <4>3, <4>5
    <3> QED
      BY <2>1, <3>1, <3>2, <3>3
  <2>9. IsFlatten(h, st)
    <3>1. h = [i \in 1..(a + b) |-> h[i]]
      OBVIOUS
    <3> HIDE DEF h
    <3> QED
      BY <2>2, <2>8, <3>1 DEF IsFlatten
  <2>10. FlattenSeq(st) = h[a + b]
    <3> HIDE DEF h
    <3>1. Len(st) \in Nat /\ Len(st) # 0
      BY <2>1, <2>2
    <3> QED
      BY <2>2, <2>9, <3>1, FlattenBy
  <2>11. h[a + b] = f[a] \o g[b]
    <3>1. a + b \in 1..(a + b) /\ ~ (a + b <= a) /\ (a + b) - a = b
      BY <2>1
    <3>2. h[a + b] = f[a] \o g[(a + b) - a]
      BY <3>1
    <3> HIDE DEF h
    <3> QED
      BY <3>1, <3>2
  <2> QED
    BY <1>3, <2>5, <2>10, <2>11 DEF a, b, st
<1> QED
  BY <1>3, <1>4, <1>5, <1>6

-----------------------------------------------------------------------------
(* The bags of members of W, possibly with none of some of them. *)
BagsOf(W) == UNION {[D -> Nat] : D \in SUBSET W}

(* The sum of two bags is a bag. *)
LEMMA BagSumTyped ==
  ASSUME NEW W, NEW b \in BagsOf(W), NEW c \in BagsOf(W)
  PROVE  b (+) c \in BagsOf(W)
<1>1. PICK D \in SUBSET W : b \in [D -> Nat]
  BY DEF BagsOf
<1>2. PICK E \in SUBSET W : c \in [E -> Nat]
  BY DEF BagsOf
<1> DEFINE at(d) == (IF d \in D THEN b[d] ELSE 0) + (IF d \in E THEN c[d] ELSE 0)
<1>3. b (+) c = [d \in D \union E |-> at(d)]
  BY <1>1, <1>2 DEF (+)
<1>4. \A d \in D \union E : at(d) \in Nat
  BY <1>1, <1>2
<1> HIDE DEF at
<1>5. b (+) c \in [D \union E -> Nat]
  BY <1>3, <1>4
<1>6. D \union E \in SUBSET W
  OBVIOUS
<1> QED
  BY <1>5, <1>6 DEF BagsOf

(* The empty bag adds nothing. *)
LEMMA EmptyBagFacts ==
  ASSUME NEW W, NEW b \in BagsOf(W)
  PROVE  EmptyBag \in BagsOf(W) /\ EmptyBag (+) b = b
<1>1. EmptyBag \in [{} -> Nat] /\ DOMAIN EmptyBag = {}
  BY DEF EmptyBag, SetToBag
<1>2. EmptyBag \in BagsOf(W)
  BY <1>1 DEF BagsOf
<1>3. PICK D \in SUBSET W : b \in [D -> Nat]
  BY DEF BagsOf
<1>4. EmptyBag (+) b = [d \in D |-> 0 + b[d]]
  BY <1>1, <1>3 DEF (+)
<1>5. \A d \in D : 0 + b[d] = b[d]
  BY <1>3
<1>6. b = [d \in D |-> b[d]]
  BY <1>3
<1> QED
  BY <1>2, <1>4, <1>5, <1>6

(* Where a sequence has x. *)
Places(s, x) == {i \in DOMAIN s : s[i] = x}

(* A sequence has x at finitely many places, at none if x is not in its
   range. *)
LEMMA PlacesFacts ==
  ASSUME NEW W, NEW s \in Seq(W), NEW x
  PROVE  /\ IsFiniteSet(Places(s, x)) /\ Cardinality(Places(s, x)) \in Nat
         /\ x \notin Range(s) <=> Cardinality(Places(s, x)) = 0
<1>1. IsFiniteSet(1..Len(s))
  BY FS_Interval
<1>2. Places(s, x) \subseteq 1..Len(s)
  BY DEF Places
<1>3. IsFiniteSet(Places(s, x)) /\ Cardinality(Places(s, x)) \in Nat
  BY <1>1, <1>2, FS_Subset, FS_CardinalityType
<1>4. x \notin Range(s) <=> Places(s, x) = {}
  BY DEF Places, Range
<1> HIDE DEF Places
<1> QED
  BY <1>3, <1>4, FS_EmptySet

(* Two sequences put end to end have x as often as both together. *)
LEMMA PlacesConcat ==
  ASSUME NEW W, NEW s \in Seq(W), NEW t \in Seq(W), NEW x
  PROVE  Cardinality(Places(s \o t, x)) = Cardinality(Places(s, x)) + Cardinality(Places(t, x))
<1> DEFINE a == Len(s)
           b == Len(t)
           A == Places(s, x)
           B == Places(t, x)
           C == {i \in (a + 1)..(a + b) : t[i - a] = x}
<1>1. /\ a \in Nat /\ b \in Nat /\ DOMAIN s = 1..a /\ DOMAIN t = 1..b
      /\ DOMAIN (s \o t) = 1..(a + b)
      /\ \A i \in 1..(a + b) : (s \o t)[i] = IF i <= a THEN s[i] ELSE t[i - a]
  BY ConcatProperties
<1> HIDE DEF a, b
<1>2. Places(s \o t, x) = A \union C
  <2>1. ASSUME NEW i PROVE i \in Places(s \o t, x) <=> i \in A \union C
    <3>1. CASE i \in 1..a
      <4>1. i \in 1..(a + b) /\ i <= a /\ i \notin (a + 1)..(a + b)
        BY <1>1, <3>1
      <4> QED
        BY <1>1, <3>1, <4>1 DEF Places
    <3>2. CASE i \in (a + 1)..(a + b)
      <4>1. i \in 1..(a + b) /\ ~ (i <= a) /\ i \notin 1..a
        BY <1>1, <3>2
      <4> QED
        BY <1>1, <3>2, <4>1 DEF Places
    <3>3. CASE i \notin 1..a /\ i \notin (a + 1)..(a + b)
      <4>1. i \notin 1..(a + b)
        BY <1>1, <3>3
      <4> QED
        BY <1>1, <3>3, <4>1 DEF Places
    <3> QED
      BY <3>1, <3>2, <3>3
  <2> QED
    BY <2>1
<1>3. A \cap C = {}
  <2>1. A \subseteq 1..a
    BY <1>1 DEF Places
  <2>2. 1..a \cap (a + 1)..(a + b) = {}
    BY <1>1
  <2> QED
    BY <2>1, <2>2
<1>4. ExistsBijection(B, C)
  <2> DEFINE shift == [i \in B |-> i + a]
  <2>1. B = {i \in 1..b : t[i] = x}
    BY <1>1 DEF Places
  <2>2. ASSUME NEW i \in B PROVE i + a \in C /\ i \in Nat
    <3>1. i \in 1..b /\ t[i] = x
      BY <2>1
    <3>2. i + a \in (a + 1)..(a + b) /\ (i + a) - a = i
      BY <1>1, <3>1
    <3> QED
      BY <3>1, <3>2
  <2>3. ASSUME NEW c \in C PROVE \E i \in B : i + a = c
    <3>1. c - a \in 1..b /\ (c - a) + a = c
      BY <1>1
    <3>2. c - a \in B
      BY <2>1, <3>1
    <3> QED
      BY <3>1, <3>2
  <2> HIDE DEF B, C
  <2>4. shift \in [B -> C]
    BY <2>2
  <2>5. \A i, j \in B : shift[i] = shift[j] => i = j
    BY <1>1, <2>2
  <2>6. shift \in Injection(B, C)
    BY <2>4, <2>5 DEF Injection, IsInjective
  <2>7. shift \in Surjection(B, C)
    BY <2>3, <2>4 DEF Surjection
  <2> QED
    BY <2>6, <2>7 DEF ExistsBijection, Bijection
<1>5. IsFiniteSet(A) /\ IsFiniteSet(B) /\ Cardinality(A) \in Nat /\ Cardinality(B) \in Nat
  BY PlacesFacts
<1> HIDE DEF A, B, C
<1>6. IsFiniteSet(C) /\ Cardinality(C) = Cardinality(B)
  BY <1>4, <1>5, FS_Bijection
<1>7. Cardinality(A \union C) = Cardinality(A) + Cardinality(C) - Cardinality(A \cap C)
  BY <1>5, <1>6, FS_Union
<1>8. Cardinality(A \cap C) = 0
  BY <1>3, FS_EmptySet
<1> QED
  BY <1>2, <1>5, <1>6, <1>7, <1>8 DEF A, B

(* The bag of two sequences put end to end is the sum of their bags. *)
LEMMA ToBagConcat ==
  ASSUME NEW W, NEW s \in Seq(W), NEW t \in Seq(W)
  PROVE  /\ ToBag(s) \in BagsOf(W)
         /\ ToBag(s \o t) = ToBag(s) (+) ToBag(t)
<1> DEFINE in(u, x) == Cardinality(Places(u, x))
<1>1. ASSUME NEW u PROVE ToBag(u) = [x \in Range(u) |-> in(u, x)]
  BY DEF ToBag, Places
<1>2. \A x : in(s, x) \in Nat /\ (x \notin Range(s) <=> in(s, x) = 0)
  BY PlacesFacts
<1>3. \A x : in(t, x) \in Nat /\ (x \notin Range(t) <=> in(t, x) = 0)
  BY PlacesFacts
<1>4. \A x : in(s \o t, x) = in(s, x) + in(t, x)
  BY PlacesConcat
<1>9. \A x : x \notin Range(s \o t) <=> in(s \o t, x) = 0
  <2>1. s \o t \in Seq(W)
    BY ConcatProperties
  <2> QED
    BY <2>1, PlacesFacts
<1> HIDE DEF in
<1>5. Range(s \o t) = Range(s) \union Range(t)
  <2>1. ASSUME NEW x PROVE x \in Range(s \o t) <=> x \in Range(s) \union Range(t)
    BY <1>2, <1>3, <1>4, <1>9
  <2> QED
    BY <2>1
<1>6. ToBag(s) \in BagsOf(W)
  <2>1. Range(s) \in SUBSET W
    BY DEF Range
  <2>2. ToBag(s) \in [Range(s) -> Nat]
    BY <1>1, <1>2
  <2> QED
    BY <2>1, <2>2 DEF BagsOf
<1>7. ToBag(s) (+) ToBag(t) =
        [x \in Range(s) \union Range(t) |->
           (IF x \in Range(s) THEN in(s, x) ELSE 0) + (IF x \in Range(t) THEN in(t, x) ELSE 0)]
  BY <1>1 DEF (+)
<1>8. \A x : (IF x \in Range(s) THEN in(s, x) ELSE 0) + (IF x \in Range(t) THEN in(t, x) ELSE 0)
               = in(s \o t, x)
  BY <1>2, <1>3, <1>4
<1> QED
  BY <1>1, <1>5, <1>6, <1>7, <1>8

(* g sums the bags of every set of places, the last place first. *)
IsBagFold(g, outs, S) ==
  g = [s \in SUBSET S |-> IF s = {} THEN EmptyBag ELSE g[s \ {Max(s)}] (+) outs[Max(s)]]

(* The greatest of a set of positive numbers with a bound. *)
LEMMA MaxFacts ==
  /\ \A k \in Nat : \A s \in SUBSET (1..k) : s # {} => Max(s) \in s
  /\ \A k \in Nat : Max(1..(k + 1)) = k + 1
<1>1. ASSUME NEW k \in Nat PROVE Max(1..(k + 1)) = k + 1
  <2>1. k + 1 \in 1..(k + 1) /\ \A y \in 1..(k + 1) : k + 1 >= y
    OBVIOUS
  <2>2. \A x \in 1..(k + 1) : (\A y \in 1..(k + 1) : x >= y) => x = k + 1
    OBVIOUS
  <2> QED
    BY <2>1, <2>2 DEF Max
<1> DEFINE HasMax(s) == \E x \in s : \A y \in s : x >= y
           N == {k \in Nat : \A s \in SUBSET (1..k) : s # {} => HasMax(s)}
<1>2. 0 \in N
  <2>1. 1..0 = {}
    OBVIOUS
  <2> QED
    BY <2>1
<1>3. ASSUME NEW k \in Nat, k \in N PROVE k + 1 \in N
  <2>1. ASSUME NEW s \in SUBSET (1..(k + 1)), s # {} PROVE HasMax(s)
    <3>1. CASE k + 1 \in s
      <4>1. \A y \in s : k + 1 >= y
        BY <2>1
      <4> QED
        BY <3>1, <4>1
    <3>2. CASE k + 1 \notin s
      <4>1. s \in SUBSET (1..k)
        BY <2>1, <3>2
      <4> HIDE DEF HasMax
      <4> QED
        BY <1>3, <2>1, <4>1
    <3> QED
      BY <3>1, <3>2
  <2> QED
    BY <2>1
<1> HIDE DEF N
<1>4. Nat \subseteq N
  BY <1>2, <1>3, InductiveSet
<1>5. ASSUME NEW k \in Nat, NEW s \in SUBSET (1..k), s # {} PROVE Max(s) \in s
  <2>1. HasMax(s)
    BY <1>4, <1>5 DEF N
  <2> QED
    BY <2>1 DEF Max
<1> QED
  BY <1>1, <1>5

(* There is such a g for a sequence of bags. *)
LEMMA BagsFold ==
  ASSUME NEW W, NEW outs \in Seq(BagsOf(W))
  PROVE  \E g \in [SUBSET DOMAIN outs -> BagsOf(W)] : IsBagFold(g, outs, DOMAIN outs)
<1> DEFINE S == DOMAIN outs
           T == BagsOf(W)
           pick == [s \in SUBSET S |-> Max(s)]
           step == [p \in S \X T |-> p[2] (+) outs[p[1]]]
<1>1. IsFiniteSet(S) /\ S = 1..Len(outs) /\ Len(outs) \in Nat /\ \A i \in S : outs[i] \in T
  <2>1. S = 1..Len(outs) /\ Len(outs) \in Nat
    OBVIOUS
  <2> HIDE DEF S, T
  <2>2. IsFiniteSet(S)
    BY <2>1, FS_Interval
  <2>3. \A i \in S : outs[i] \in T
    BY <2>1 DEF T
  <2> QED
    BY <2>1, <2>2, <2>3
<1>2. EmptyBag \in T
  <2>1. EmptyBag \in [{} -> Nat]
    BY DEF EmptyBag, SetToBag
  <2> QED
    BY <2>1 DEF BagsOf
<1>3. \A s \in SUBSET S : s # {} => pick[s] \in s
  <2> HIDE DEF S
  <2> QED
    BY <1>1, MaxFacts
<1>4. step \in [S \X T -> T]
  <2> HIDE DEF S, T
  <2>1. ASSUME NEW p \in S \X T PROVE p[2] (+) outs[p[1]] \in T
    <3>1. p[2] \in T /\ outs[p[1]] \in T
      BY <1>1
    <3> QED
      BY <3>1, BagSumTyped DEF T
  <2> QED
    BY <2>1
<1>5. PICK g \in [SUBSET S -> T] : IsFold(g, step, EmptyBag, pick, S)
  <2> HIDE DEF S, T, pick, step
  <2> QED
    BY <1>1, <1>2, <1>3, <1>4, FoldExists
<1>6. ASSUME NEW s \in SUBSET S
      PROVE  g[s] = IF s = {} THEN EmptyBag ELSE g[s \ {Max(s)}] (+) outs[Max(s)]
  <2>1. CASE s = {}
    BY <1>5, <2>1 DEF IsFold
  <2>2. CASE s # {}
    <3>1. pick[s] = Max(s) /\ pick[s] \in S /\ g[s \ {pick[s]}] \in T
      BY <1>3, <2>2
    <3>2. g[s] = step[pick[s], g[s \ {pick[s]}]]
      BY <1>5, <2>2 DEF IsFold
    <3> HIDE DEF S, T, pick
    <3>3. step[pick[s], g[s \ {pick[s]}]] = g[s \ {pick[s]}] (+) outs[pick[s]]
      BY <3>1
    <3> QED
      BY <2>2, <3>1, <3>2, <3>3
  <2> QED
    BY <2>1, <2>2
<1>7. g = [s \in SUBSET S |-> g[s]]
  OBVIOUS
<1>8. IsBagFold(g, outs, S)
  <2> HIDE DEF S
  <2> QED
    BY <1>6, <1>7 DEF IsBagFold
<1> QED
  BY <1>8

(* The FoldLeft of AggregateWordCount is such a g. *)
LEMMA BagsFoldUnfolds ==
  ASSUME NEW outs
  PROVE  FoldLeft(LAMBDA b, o : b (+) o, EmptyBag, outs) =
           (CHOOSE g : IsBagFold(g, outs, DOMAIN outs))[DOMAIN outs]
BY DEF FoldLeft, MapThenFoldSet, IsBagFold

-----------------------------------------------------------------------------
(* f is defined by a step that may look at f itself. *)
IsBy(f, step, D) == \A x \in D : f[x] = step[x, f]

(* What the step makes of x, given a function of F, is among T[x]. *)
StaysIn(step, D, F, T) == \A x \in D, g \in F : step[x, g] \in T[x]

(* The step looks at a function only where a measure is lower. *)
LooksBelow(step, D, F, below) ==
  \A x \in D, g, h \in F :
    (\A y \in D : below[y] < below[x] => g[y] = h[y]) => step[x, g] = step[x, h]

(* A step that looks below only has a function it defines: the recursion is
   well founded, in as many arguments as D has. *)
LEMMA RecursionBelow ==
  ASSUME NEW D, NEW below \in [D -> Nat], NEW K \in Nat, \A x \in D : below[x] < K,
         NEW F, NEW T, F = {g \in [D -> UNION {T[x] : x \in D}] : \A x \in D : g[x] \in T[x]},
         F # {}, NEW step, StaysIn(step, D, F, T), LooksBelow(step, D, F, below)
  PROVE  \E f \in F : IsBy(f, step, D)
<1> DEFINE To(f, k) == \A x \in D : below[x] < k => f[x] = step[x, f]
           N == {k \in Nat : \E f \in F : To(f, k)}
<1>5. \A x \in D : below[x] \in Nat
  OBVIOUS
<1>1. 0 \in N
  <2>1. PICK f \in F : TRUE
    OBVIOUS
  <2>2. \A x \in D : ~ (below[x] < 0)
    BY ONLY <1>5
  <2>3. To(f, 0)
    BY <2>2
  <2> QED
    BY <2>3
<1>2. ASSUME NEW k \in Nat, k \in N PROVE k + 1 \in N
  <2>1. PICK f \in F : To(f, k)
    BY <1>2
  <2> DEFINE g == [x \in D |-> step[x, f]]
  <2>2. g \in F
    <3>1. \A x \in D : step[x, f] \in T[x] /\ step[x, f] \in UNION {T[y] : y \in D}
      BY DEF StaysIn
    <3> QED
      BY <3>1
  <2>3. \A x \in D : g[x] = step[x, f]
    OBVIOUS
  <2> HIDE DEF g
  <2>4. ASSUME NEW x \in D, below[x] < k + 1 PROVE g[x] = step[x, g]
    <3>1. ASSUME NEW y \in D, below[y] < below[x] PROVE f[y] = g[y]
      <4>1. below[y] < k
        <5>1. below[y] \in Nat /\ below[x] \in Nat
          BY <1>5
        <5> QED
          BY ONLY <2>4, <3>1, <5>1, k \in Nat
      <4> QED
        BY <2>1, <2>3, <4>1
    <3>2. step[x, f] = step[x, g]
      BY <2>2, <3>1 DEF LooksBelow
    <3> QED
      BY <2>3, <3>2
  <2>5. To(g, k + 1)
    BY <2>4
  <2>6. k + 1 \in Nat
    BY ONLY k \in Nat
  <2> HIDE DEF To
  <2> QED
    BY ONLY <2>2, <2>5, <2>6
<1> HIDE DEF N
<1>3. K \in N
  BY <1>1, <1>2, InductiveSet
<1>4. PICK f \in F : To(f, K)
  BY <1>3 DEF N
<1> QED
  BY <1>4 DEF IsBy

(* A finite set of integers has a greatest and a least. *)
LEMMA FiniteMax ==
  ASSUME NEW S, IsFiniteSet(S), S \subseteq Int, S # {}
  PROVE  /\ \E x \in S : \A y \in S : y <= x
         /\ \E x \in S : \A y \in S : x <= y
<1> DEFINE Ends(s) == /\ \E x \in s : \A y \in s : y <= x
                      /\ \E x \in s : \A y \in s : x <= y
           G == {s \in SUBSET S : s # {} => Ends(s)}
<1>1. ASSUME NEW s \in SUBSET S, \A x \in s : s \ {x} \in G PROVE s \in G
  <2>1. CASE s = {}
    BY <2>1
  <2>2. CASE s # {}
    <3>1. PICK z \in s : TRUE
      BY <2>2
    <3>2. CASE s = {z}
      BY <3>2
    <3>3. CASE s # {z}
      <4>1. Ends(s \ {z})
        BY <1>1, <3>1, <3>3
      <4>2. PICK u \in s \ {z} : \A y \in s \ {z} : y <= u
        BY <4>1
      <4>3. PICK v \in s \ {z} : \A y \in s \ {z} : v <= y
        BY <4>1
      <4>4. \E x \in s : \A y \in s : y <= x
        <5>1. CASE z <= u
          BY <4>2, <5>1
        <5>2. CASE u <= z
          <6>1. \A y \in s : y <= z
            BY <4>2, <5>2
          <6> QED
            BY <6>1
        <5> QED
          BY <5>1, <5>2
      <4>5. \E x \in s : \A y \in s : x <= y
        <5>1. CASE v <= z
          BY <4>3, <5>1
        <5>2. CASE z <= v
          <6>1. \A y \in s : z <= y
            BY <4>3, <5>2
          <6> QED
            BY <6>1
        <5> QED
          BY <5>1, <5>2
      <4> QED
        BY <4>4, <4>5
    <3> QED
      BY <3>2, <3>3
  <2> QED
    BY <2>1, <2>2
<1> HIDE DEF G
<1>2. SUBSET S \subseteq G
  BY <1>1, InductiveSubsets
<1> QED
  BY <1>2 DEF G

-----------------------------------------------------------------------------
(* How often a sequence, or any function, has a value. *)
Copies(s, x) == Cardinality(Places(s, x))

(* A sequence has the values of its range, and no other. *)
LEMMA CopiesFacts ==
  ASSUME NEW W, NEW s \in Seq(W)
  PROVE  /\ \A x : Copies(s, x) \in Nat /\ (Copies(s, x) # 0 <=> x \in Range(s))
         /\ \A i \in DOMAIN s : Copies(s, s[i]) # 0
<1>1. \A x : Copies(s, x) \in Nat /\ (Copies(s, x) # 0 <=> x \in Range(s))
  BY PlacesFacts DEF Copies
<1>2. \A i \in DOMAIN s : s[i] \in Range(s)
  BY DEF Range
<1> QED
  BY <1>1, <1>2

(* Two sequences put end to end have x as often as both together. *)
LEMMA CopiesConcat ==
  ASSUME NEW W, NEW s \in Seq(W), NEW t \in Seq(W)
  PROVE  \A x : Copies(s \o t, x) = Copies(s, x) + Copies(t, x)
BY PlacesConcat DEF Copies

(* Nothing has no value. *)
LEMMA CopiesOfNothing == \A x : Copies(<<>>, x) = 0
<1>1. \A x : Places(<<>>, x) = {}
  BY DEF Places
<1> QED
  BY <1>1, FS_EmptySet DEF Copies

(* One sequence put end to end is that sequence. *)
LEMMA FlattenOne ==
  ASSUME NEW s
  PROVE  FlattenSeq(<<s>>) = s
<1> DEFINE ss == <<s>>
           f == [i \in 1..1 |-> s]
<1>1. Len(ss) = 1 /\ Len(ss) \in Nat /\ Len(ss) # 0 /\ ss[1] = s
  OBVIOUS
<1>2. f[1] = s
  OBVIOUS
<1>3. \A i \in 1..1 : i = 1
  OBVIOUS
<1>4. f = [i \in 1..1 |-> IF i = 1 THEN ss[i] ELSE f[i - 1] \o ss[i]]
  <2>1. \A i \in 1..1 : s = IF i = 1 THEN ss[i] ELSE f[i - 1] \o ss[i]
    BY <1>1, <1>3
  <2> HIDE DEF ss
  <2> QED
    BY <2>1
<1> HIDE DEF ss, f
<1>5. IsFlatten(f, ss)
  BY <1>1, <1>4 DEF IsFlatten
<1>6. FlattenSeq(ss) = f[1]
  BY <1>1, <1>5, FlattenBy
<1> QED
  BY <1>2, <1>6 DEF ss

(* A part of a sequence splits in two anywhere. *)
LEMMA SubSeqSplits ==
  ASSUME NEW W, NEW s \in Seq(W), NEW lo \in Nat \ {0}, NEW h \in Nat, NEW k \in Nat,
         h <= k, lo + k - 1 <= Len(s)
  PROVE  /\ SubSeq(s, lo, lo + h - 1) \in Seq(W)
         /\ SubSeq(s, lo + h, lo + h + (k - h) - 1) \in Seq(W)
         /\ SubSeq(s, lo, lo + k - 1) =
              SubSeq(s, lo, lo + h - 1) \o SubSeq(s, lo + h, lo + h + (k - h) - 1)
<1> DEFINE u == SubSeq(s, lo, lo + h - 1)
           v == SubSeq(s, lo + h, lo + h + (k - h) - 1)
           L == Len(s)
<1>1. L \in Nat /\ s \in [1..L -> W]
  OBVIOUS
<1> HIDE DEF L
<1>2. /\ \A i \in 1..h : lo + i - 1 \in 1..L
      /\ \A i \in 1..k : lo + i - 1 \in 1..L
      /\ \A i \in 1..(k - h) : lo + h + i - 1 \in 1..L
  BY <1>1 DEF L
<1>3. u = [i \in 1..h |-> s[lo + i - 1]]
  <2>1. lo + h - 1 - lo + 1 = h
    OBVIOUS
  <2>2. u = [i \in 1..(lo + h - 1 - lo + 1) |-> s[lo + i - 1]]
    OBVIOUS
  <2> QED
    BY <2>1, <2>2
<1>4. v = [i \in 1..(k - h) |-> s[lo + h + i - 1]]
  <2>1. lo + h + (k - h) - 1 - (lo + h) + 1 = k - h
    OBVIOUS
  <2>2. v = [i \in 1..(lo + h + (k - h) - 1 - (lo + h) + 1) |-> s[(lo + h) + i - 1]]
    OBVIOUS
  <2> QED
    BY <2>1, <2>2
<1>5. SubSeq(s, lo, lo + k - 1) = [i \in 1..k |-> s[lo + i - 1]]
  <2>1. lo + k - 1 - lo + 1 = k
    OBVIOUS
  <2>2. SubSeq(s, lo, lo + k - 1) = [i \in 1..(lo + k - 1 - lo + 1) |-> s[lo + i - 1]]
    OBVIOUS
  <2> QED
    BY <2>1, <2>2
<1> HIDE DEF u, v
<1>6. u \in Seq(W) /\ Len(u) = h
  BY <1>1, <1>2, <1>3
<1>7. v \in Seq(W) /\ Len(v) = k - h
  <2>1. k - h \in Nat
    OBVIOUS
  <2> QED
    BY <1>1, <1>2, <1>4, <2>1
<1>8. u \o v = [i \in 1..k |-> s[lo + i - 1]]
  <2>8. /\ u \o v \in Seq(W) /\ Len(u \o v) = Len(u) + Len(v)
        /\ \A i \in 1..(Len(u) + Len(v)) :
             (u \o v)[i] = IF i <= Len(u) THEN u[i] ELSE v[i - Len(u)]
    BY ONLY <1>6, <1>7, ConcatProperties
  <2>9. Len(u) + Len(v) = k
    BY <1>6, <1>7
  <2>1. u \o v \in Seq(W) /\ Len(u \o v) = k
    BY <2>8, <2>9
  <2>2. \A i \in 1..k : (u \o v)[i] = IF i <= h THEN u[i] ELSE v[i - h]
    BY <1>6, <2>8, <2>9
  <2>3. ASSUME NEW i \in 1..k PROVE (u \o v)[i] = s[lo + i - 1]
    <3>1. (u \o v)[i] = IF i <= h THEN u[i] ELSE v[i - h]
      BY <2>2
    <3>2. CASE i <= h
      BY <1>3, <3>1, <3>2
    <3>3. CASE ~ (i <= h)
      <4>1. i - h \in 1..(k - h) /\ lo + h + (i - h) - 1 = lo + i - 1
        BY <3>3
      <4>2. v[i - h] = s[lo + h + (i - h) - 1]
        BY <1>4, <4>1
      <4> QED
        BY <3>1, <3>3, <4>1, <4>2
    <3> QED
      BY <3>2, <3>3
  <2> DEFINE w == u \o v
  <2>4. w = [i \in 1..Len(w) |-> w[i]]
    <3>1. w \in Seq(W)
      BY <2>1
    <3> HIDE DEF w
    <3> QED
      BY ONLY <3>1
  <2>5. Len(w) = k /\ \A i \in 1..k : w[i] = s[lo + i - 1]
    BY <2>1, <2>3
  <2> HIDE DEF w
  <2>6. w = [i \in 1..k |-> w[i]]
    BY ONLY <2>4, <2>5
  <2>7. w = [i \in 1..k |-> s[lo + i - 1]]
    BY ONLY <2>5, <2>6
  <2> QED
    BY <2>7 DEF w
<1> QED
  BY <1>5, <1>6, <1>7, <1>8 DEF u, v

(* k of the sequences of ss, from the one at lo, put end to end. *)
Part(ss, lo, k) == FlattenSeq(SubSeq(ss, lo, lo + k - 1))

(* No sequence is nothing, one is itself, and all are all. *)
LEMMA PartFacts ==
  ASSUME NEW W, NEW ss \in Seq(Seq(W)), NEW lo \in 1..Len(ss) + 1
  PROVE  /\ Part(ss, lo, 0) = <<>>
         /\ lo # Len(ss) + 1 => Part(ss, lo, 1) = ss[lo]
         /\ lo = 1 => Part(ss, lo, Len(ss)) = FlattenSeq(ss)
<1> DEFINE L == Len(ss)
<1>1. L \in Nat /\ ss \in [1..L -> Seq(W)] /\ lo \in Nat \ {0}
  OBVIOUS
<1> HIDE DEF L
<1>2. Part(ss, lo, 0) = <<>>
  <2>1. SubSeq(ss, lo, lo + 0 - 1) = <<>>
    BY <1>1
  <2>2. FlattenSeq(<<>>) = <<>>
    BY DEF FlattenSeq
  <2> QED
    BY <2>1, <2>2 DEF Part
<1>3. ASSUME lo # L + 1 PROVE Part(ss, lo, 1) = ss[lo]
  <2>1. lo \in 1..L /\ lo + 1 - 1 = lo
    BY <1>1, <1>3 DEF L
  <2>2. SubSeq(ss, lo, lo) = <<ss[lo]>>
    <3>1. SubSeq(ss, lo, lo) = [i \in 1..(lo - lo + 1) |-> ss[lo + i - 1]]
      BY <1>1
    <3>2. lo - lo + 1 = 1
      BY <1>1
    <3>3. \A i \in 1..1 : ss[lo + i - 1] = ss[lo]
      <4>1. \A i \in 1..1 : lo + i - 1 = lo
        BY <1>1
      <4> QED
        BY <4>1
    <3>4. SubSeq(ss, lo, lo) = [i \in 1..1 |-> ss[lo]]
      BY <3>1, <3>2, <3>3
    <3> QED
      BY <3>4
  <2> QED
    BY <2>1, <2>2, FlattenOne DEF Part
<1>4. ASSUME lo = 1 PROVE Part(ss, lo, L) = FlattenSeq(ss)
  <2>1. lo + L - 1 = L
    BY <1>1, <1>4
  <2>2. SubSeq(ss, 1, L) = ss
    BY <1>1 DEF L
  <2> QED
    BY <1>4, <2>1, <2>2 DEF Part
<1> QED
  BY <1>2, <1>3, <1>4 DEF L

(* The parts of ss join to longer parts. *)
PartsJoin(ss, W) ==
  \A lo \in Nat \ {0}, h \in Nat, k \in Nat : h <= k /\ lo + k - 1 <= Len(ss) =>
    /\ Part(ss, lo, h) \in Seq(W) /\ Part(ss, lo + h, k - h) \in Seq(W)
    /\ Part(ss, lo, k) = Part(ss, lo, h) \o Part(ss, lo + h, k - h)

(* They do. *)
LEMMA PartSplits ==
  ASSUME NEW W, NEW ss \in Seq(Seq(W))
  PROVE  PartsJoin(ss, W)
<1>1. ASSUME NEW lo \in Nat \ {0}, NEW h \in Nat, NEW k \in Nat,
             h <= k, lo + k - 1 <= Len(ss)
      PROVE  /\ Part(ss, lo, h) \in Seq(W) /\ Part(ss, lo + h, k - h) \in Seq(W)
             /\ Part(ss, lo, k) = Part(ss, lo, h) \o Part(ss, lo + h, k - h)
  <2>1. /\ SubSeq(ss, lo, lo + h - 1) \in Seq(Seq(W))
        /\ SubSeq(ss, lo + h, lo + h + (k - h) - 1) \in Seq(Seq(W))
        /\ SubSeq(ss, lo, lo + k - 1) =
             SubSeq(ss, lo, lo + h - 1) \o SubSeq(ss, lo + h, lo + h + (k - h) - 1)
    <3>1. ss \in Seq(Seq(W))
      OBVIOUS
    <3> QED
      BY ONLY <1>1, <3>1, SubSeqSplits, SMTT(20)
  <2> DEFINE u == SubSeq(ss, lo, lo + h - 1)
             v == SubSeq(ss, lo + h, lo + h + (k - h) - 1)
  <2>2. Part(ss, lo, h) = FlattenSeq(u) /\ Part(ss, lo + h, k - h) = FlattenSeq(v)
    BY DEF Part
  <2>3. Part(ss, lo, k) = FlattenSeq(u \o v) /\ u \in Seq(Seq(W)) /\ v \in Seq(Seq(W))
    BY <2>1 DEF Part
  <2> HIDE DEF u, v
  <2>4. /\ FlattenSeq(u) \in Seq(W) /\ FlattenSeq(v) \in Seq(W)
        /\ FlattenSeq(u \o v) = FlattenSeq(u) \o FlattenSeq(v)
    BY <2>3, FlattenConcat
  <2> QED
    BY <2>2, <2>3, <2>4
<1> QED
  BY <1>1 DEF PartsJoin

(* The first k of the sequences of ss, put end to end. *)
Prefix(ss, k) == Part(ss, 1, k)

(* A prefix is the one before and the next sequence. *)
LEMMA PrefixFacts ==
  ASSUME NEW W, NEW ss \in Seq(Seq(W))
  PROVE  /\ Prefix(ss, 0) = <<>> /\ Prefix(ss, Len(ss)) = FlattenSeq(ss)
         /\ \A k \in 0..Len(ss) : Prefix(ss, k) \in Seq(W)
         /\ \A k \in 1..Len(ss) : Prefix(ss, k) = Prefix(ss, k - 1) \o ss[k]
<1> DEFINE L == Len(ss)
<1>1. L \in Nat
  OBVIOUS
<1>2. Prefix(ss, 0) = <<>> /\ Prefix(ss, L) = FlattenSeq(ss)
  <2>1. 1 \in 1..L + 1
    BY <1>1
  <2> QED
    BY <2>1, PartFacts DEF Prefix
<1>3. ASSUME NEW k \in 0..L PROVE Prefix(ss, k) \in Seq(W)
  <2>1. 1 \in Nat \ {0} /\ k \in Nat /\ k <= k /\ 1 + k - 1 <= Len(ss)
    BY <1>1
  <2>3. PartsJoin(ss, W)
    BY PartSplits
  <2>2. Part(ss, 1, k) \in Seq(W)
    BY ONLY <2>1, <2>3 DEF PartsJoin
  <2> QED
    BY <2>2 DEF Prefix
<1>4. ASSUME NEW k \in 1..L PROVE Prefix(ss, k) = Prefix(ss, k - 1) \o ss[k]
  <2> DEFINE h == k - 1
  <2>1. /\ 1 \in Nat \ {0} /\ k \in Nat /\ h \in Nat /\ h <= k /\ 1 + k - 1 <= Len(ss)
        /\ 1 + h = k /\ k - h = 1
    BY <1>1
  <2>2. k \in 1..Len(ss) + 1 /\ k # Len(ss) + 1
    BY <1>1
  <2>3. Part(ss, k, 1) = ss[k]
    BY ONLY ss \in Seq(Seq(W)), <2>2, PartFacts
  <2> HIDE DEF h
  <2>4. PartsJoin(ss, W)
    BY PartSplits
  <2>5. Part(ss, 1, k) = Part(ss, 1, h) \o Part(ss, 1 + h, k - h)
    BY ONLY <2>1, <2>4 DEF PartsJoin
  <2> QED
    BY <2>1, <2>3, <2>5 DEF Prefix, h
<1> QED
  BY <1>2, <1>3, <1>4

(* The lengths of the sequences of ss. *)
Lengths(ss) == [i \in 1..Len(ss) |-> Len(ss[i])]

(* A prefix is as long as its sequences together. *)
LEMMA PrefixLength ==
  ASSUME NEW W, NEW ss \in Seq(Seq(W))
  PROVE  \A k \in 0..Len(ss) : Len(Prefix(ss, k)) = SumFunctionOnSet(Lengths(ss), 1..k)
<1> DEFINE L == Len(ss)
           c == Lengths(ss)
           N == {k \in Nat : k <= L => Len(Prefix(ss, k)) = SumFunctionOnSet(c, 1..k)}
<1>1. L \in Nat /\ \A i \in 1..L : ss[i] \in Seq(W) /\ c[i] = Len(ss[i]) /\ c[i] \in Nat
  BY DEF Lengths
<1>2. 0 \in N
  <2>4. Prefix(ss, 0) = <<>>
    BY PrefixFacts
  <2>1. Len(Prefix(ss, 0)) = 0
    BY <2>4
  <2>2. 1..0 = {}
    OBVIOUS
  <2>3. SumFunctionOnSet(c, 1..0) = 0
    BY <2>2, SumEmpty
  <2> QED
    BY <2>1, <2>3
<1> HIDE DEF c
<1>3. ASSUME NEW k \in Nat, k \in N PROVE k + 1 \in N
  <2>1. ASSUME k + 1 <= L
        PROVE  Len(Prefix(ss, k + 1)) = SumFunctionOnSet(c, 1..(k + 1))
    <3>1. k \in 0..L /\ k + 1 \in 1..L /\ k <= L /\ (k + 1) - 1 = k
      BY <1>1, <2>1
    <3>2. Len(Prefix(ss, k)) = SumFunctionOnSet(c, 1..k)
      BY <1>3, <3>1
    <3>3. Prefix(ss, k + 1) = Prefix(ss, k) \o ss[k + 1] /\ Prefix(ss, k) \in Seq(W)
      BY <3>1, PrefixFacts
    <3>4. ss[k + 1] \in Seq(W) /\ c[k + 1] = Len(ss[k + 1])
      BY <1>1, <3>1
    <3>5. Len(Prefix(ss, k + 1)) = Len(Prefix(ss, k)) + Len(ss[k + 1])
      BY <3>3, <3>4, ConcatProperties
    <3>6. \A i \in 1..(k + 1) : c[i] \in Int
      BY <1>1, <2>1
    <3>7. SumFunctionOnSet(c, 1..(k + 1)) = c[k + 1] + SumFunctionOnSet(c, 1..k)
      BY <3>6, SumNext
    <3>8. Len(Prefix(ss, k)) \in Nat /\ Len(ss[k + 1]) \in Nat
      BY <3>3, <3>4
    <3> QED
      BY ONLY <3>2, <3>4, <3>5, <3>7, <3>8
  <2>2. k + 1 \in Nat
    BY ONLY k \in Nat
  <2> HIDE DEF L
  <2> QED
    BY ONLY <2>1, <2>2
<1> HIDE DEF N
<1>4. \A k \in Nat : k \in N
  BY <1>2, <1>3, InductiveSet
<1>5. ASSUME NEW k \in 0..L PROVE Len(Prefix(ss, k)) = SumFunctionOnSet(c, 1..k)
  <2>1. k \in Nat /\ k <= L
    BY <1>1
  <2> QED
    BY <1>4, <2>1 DEF N
<1> QED
  BY <1>5 DEF c, L

-----------------------------------------------------------------------------
(* The sum of sums. *)
LEMMA SumPlus ==
  ASSUME NEW m \in Nat, NEW f, NEW g, NEW h,
         \A i \in 1..m : f[i] \in Int /\ g[i] \in Int /\ h[i] = f[i] + g[i]
  PROVE  SumFunctionOnSet(h, 1..m) = SumFunctionOnSet(f, 1..m) + SumFunctionOnSet(g, 1..m)
<1> DEFINE sum(e, k) == SumFunctionOnSet(e, 1..k)
           G == {k \in Nat : k <= m => /\ sum(f, k) \in Int /\ sum(g, k) \in Int
                                       /\ sum(h, k) = sum(f, k) + sum(g, k)}
<1>1. 0 \in G
  <2>1. 1..0 = {}
    OBVIOUS
  <2> QED
    BY <2>1, SumEmpty
<1>2. ASSUME NEW k \in Nat, k \in G PROVE k + 1 \in G
  <2>1. SUFFICES ASSUME k + 1 <= m
                 PROVE  /\ sum(f, k + 1) \in Int /\ sum(g, k + 1) \in Int
                        /\ sum(h, k + 1) = sum(f, k + 1) + sum(g, k + 1)
    OBVIOUS
  <2>2. /\ \A i \in 1..(k + 1) : i \in 1..m
        /\ k + 1 \in 1..m /\ k <= m
    BY <2>1
  <2>3. \A i \in 1..(k + 1) : f[i] \in Int /\ g[i] \in Int /\ h[i] \in Int
    BY <2>2
  <2>4. sum(f, k + 1) = f[k + 1] + sum(f, k)
    BY <2>3, SumNext
  <2>5. sum(g, k + 1) = g[k + 1] + sum(g, k)
    BY <2>3, SumNext
  <2>6. sum(h, k + 1) = h[k + 1] + sum(h, k)
    BY <2>3, SumNext
  <2>7. sum(f, k) \in Int /\ sum(g, k) \in Int /\ sum(h, k) = sum(f, k) + sum(g, k)
    BY <1>2, <2>2
  <2>8. f[k + 1] \in Int /\ g[k + 1] \in Int /\ h[k + 1] = f[k + 1] + g[k + 1]
    BY <2>2
  <2> HIDE DEF sum
  <2> QED
    BY <2>4, <2>5, <2>6, <2>7, <2>8
<1>3. Nat \subseteq G
  <2> HIDE DEF G
  <2> QED
    BY <1>1, <1>2, InductiveSet
<1> QED
  BY <1>3

(* There are finitely many sequences of a length over a finite set. *)
LEMMA FunctionsFinite ==
  ASSUME NEW D, IsFiniteSet(D), NEW m \in Nat
  PROVE  IsFiniteSet([1..m -> D])
<1> DEFINE G == {k \in Nat : IsFiniteSet([1..k -> D])}
<1>1. 0 \in G
  <2>1. [1..0 -> D] = {[i \in 1..0 |-> 0]}
    <3>1. 1..0 = {}
      OBVIOUS
    <3> QED
      BY <3>1
  <2> DEFINE e == [i \in 1..0 |-> 0]
  <2>2. IsFiniteSet({e})
    <3> HIDE DEF e
    <3> QED
      BY FS_Singleton
  <2> QED
    BY <2>1, <2>2
<1>2. ASSUME NEW k \in Nat, k \in G PROVE k + 1 \in G
  <2> DEFINE P == [1..k -> D] \X D
             F == [1..(k + 1) -> D]
             put == [p \in P |-> [i \in 1..(k + 1) |-> IF i = k + 1 THEN p[2] ELSE p[1][i]]]
  <2>1. IsFiniteSet(P)
    BY <1>2, FS_Product
  <2>2. \A p \in P : put[p] \in F
    <3>1. ASSUME NEW p \in P, NEW i \in 1..(k + 1)
          PROVE  (IF i = k + 1 THEN p[2] ELSE p[1][i]) \in D
      <4>1. p[1] \in [1..k -> D] /\ p[2] \in D
        OBVIOUS
      <4>2. i # k + 1 => i \in 1..k
        OBVIOUS
      <4> QED
        BY <4>1, <4>2
    <3> QED
      BY <3>1
  <2>3. ASSUME NEW f \in F PROVE \E p \in P : put[p] = f
    <3> DEFINE p == <<[i \in 1..k |-> f[i]], f[k + 1]>>
    <3>1. p \in P
      <4>1. \A i \in 1..k : i \in 1..(k + 1)
        OBVIOUS
      <4>2. [i \in 1..k |-> f[i]] \in [1..k -> D]
        BY <4>1
      <4>3. f[k + 1] \in D
        OBVIOUS
      <4> QED
        BY <4>2, <4>3
    <3>2. put[p] = [i \in 1..(k + 1) |-> IF i = k + 1 THEN p[2] ELSE p[1][i]]
      BY <3>1
    <3>3. \A i \in 1..(k + 1) : (IF i = k + 1 THEN p[2] ELSE p[1][i]) = f[i]
      <4>1. p[2] = f[k + 1] /\ p[1] = [i \in 1..k |-> f[i]]
        OBVIOUS
      <4>2. \A i \in 1..(k + 1) : i # k + 1 => i \in 1..k
        OBVIOUS
      <4> HIDE DEF p
      <4> QED
        BY <4>1, <4>2
    <3>4. put[p] = [i \in 1..(k + 1) |-> f[i]]
      <4> HIDE DEF p, put
      <4> QED
        BY <3>2, <3>3
    <3>5. put[p] = f
      BY <3>4
    <3> QED
      BY <3>1, <3>5
  <2>4. put \in [P -> F]
    <3> HIDE DEF P, F
    <3>1. \A p \in P : [i \in 1..(k + 1) |-> IF i = k + 1 THEN p[2] ELSE p[1][i]] \in F
      BY <2>2
    <3> QED
      BY <3>1
  <2> HIDE DEF P, F, put
  <2>5. put \in Surjection(P, F)
    BY <2>3, <2>4 DEF Surjection
  <2>6. IsFiniteSet(F)
    BY <2>1, <2>5, FS_Surjection
  <2> QED
    BY <2>6 DEF F
<1>3. Nat \subseteq G
  <2> HIDE DEF G
  <2> QED
    BY <1>1, <1>2, InductiveSet
<1> QED
  BY <1>3
=============================================================================
