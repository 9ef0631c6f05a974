-------------------------- MODULE MapReduceProofs --------------------------
(***************************************************************************)
(* Theorems about MapReduce.tla, for inputs of any length, any number of   *)
(* workers and any order of the answers.  The invariant says that a chunk  *)
(* and its answer stay those of its place; what the result then is follows *)
(* from what the operators of TaskTypes.tla compute, which is the larger   *)
(* part of the proofs.                                                     *)
(***************************************************************************)
EXTENDS MapReduce, FoldTheorems

(* The bounds of a division without remainder. *)
LEMMA DivFacts ==
  ASSUME NEW a \in Nat, NEW b \in Nat \ {0}
  PROVE  /\ a \div b \in Nat
         /\ b * (a \div b) <= a
         /\ a < b * (a \div b) + b
OBVIOUS

(* The least number of blocks of b that hold a. *)
LEMMA CeilDivFacts ==
  ASSUME NEW a \in Nat \ {0}, NEW b \in Nat \ {0}
  PROVE  /\ CeilDiv(a, b) \in Nat \ {0}
         /\ a <= CeilDiv(a, b) * b
         /\ (CeilDiv(a, b) - 1) * b < a
<1> DEFINE q == CeilDiv(a, b)
<1>1. a + b - 1 \in Nat
  OBVIOUS
<1>2. q \in Nat /\ b * q <= a + b - 1 /\ a + b - 1 < b * q + b
  BY <1>1, DivFacts DEF CeilDiv
<1> HIDE DEF q
<1>3. b * q = q * b /\ (q - 1) * b = q * b - b
  BY <1>2
<1>4. q # 0
  BY <1>2
<1> QED
  BY <1>2, <1>3, <1>4 DEF q

(* Blocks as long as m of them need be for the length are no more than m. *)
LEMMA FewerBlocks ==
  ASSUME NEW len \in Nat \ {0}, NEW size \in Nat \ {0}, NEW m \in Nat \ {0}, len <= size * m
  PROVE  CeilDiv(len, size) <= m
<1> DEFINE q == CeilDiv(len, size)
<1>1. q \in Nat \ {0} /\ (q - 1) * size < len
  BY CeilDivFacts
<1> HIDE DEF q
<1>2. (q - 1) * size < m * size
  <2>1. size * m = m * size /\ m * size \in Nat /\ (q - 1) * size \in Int
    BY <1>1
  <2> QED
    BY <1>1, <2>1
<1>3. q - 1 < m
  <2>1. ASSUME m <= q - 1 PROVE m * size <= (q - 1) * size
    <3>1. PICK d \in Nat : q - 1 = m + d
      <4>1. q - 1 - m \in Nat
        BY <1>1, <2>1
      <4> QED
        BY <4>1, <1>1
    <3>2. (m + d) * size = m * size + d * size /\ d * size \in Nat
      OBVIOUS
    <3> QED
      BY <3>1, <3>2
  <2> QED
    BY <1>1, <1>2, <2>1
<1>4. q <= m
  BY <1>1, <1>3
<1> QED
  BY <1>4 DEF q

(* Block i of c of this size begins and ends within the length, full but for
   the last. *)
IsCut(i, size, c, L) ==
  /\ (i - 1) * size \in 0..(L - 1)
  /\ UpTo(i * size, L) \in ((i - 1) * size + 1)..L
  /\ i # c => (UpTo(i * size, L) = i * size /\ i * size < L)
  /\ i * size = (i - 1) * size + size

(* The blocks of splitSlice: at most m, none empty, the last one ending where
   the slice ends. *)
LEMMA Cuts ==
  ASSUME NEW L \in Nat \ {0}, NEW m \in Nat \ {0}, NEW size, size = CeilDiv(L, UpTo(m, L)),
         NEW c, c = CeilDiv(L, size)
  PROVE  /\ size \in Nat \ {0} /\ c \in Nat \ {0} /\ c <= m
         /\ UpTo(c * size, L) = L
         /\ \A i \in 1..c : IsCut(i, size, c, L)
<1> DEFINE most == UpTo(m, L)
<1>1. most \in Nat \ {0} /\ most <= m
  BY DEF UpTo
<1>2. size \in Nat \ {0} /\ L <= size * most
  <2> HIDE DEF most
  <2>1. size = CeilDiv(L, most)
    BY DEF most
  <2> QED
    BY <1>1, <2>1, CeilDivFacts
<1>3. c \in Nat \ {0} /\ L <= c * size /\ (c - 1) * size < L /\ c <= most
  <2> HIDE DEF most
  <2> QED
    BY <1>1, <1>2, CeilDivFacts, FewerBlocks
<1> HIDE DEF most
<1>4. ASSUME NEW i \in 1..c PROVE IsCut(i, size, c, L)
  <2>1. i * size = (i - 1) * size + size
    BY <1>2, <1>3
  <2>2. (i - 1) * size \in Nat /\ i * size \in Nat /\ (c - 1) * size \in Nat
    BY <1>2, <1>3
  <2>3. (c - 1) * size = (i - 1) * size + (c - i) * size /\ (c - i) * size \in Nat
    BY <1>2, <1>3
  <2>4. i # c => (c - 1) * size = i * size + (c - 1 - i) * size /\ (c - 1 - i) * size \in Nat
    BY <1>2, <1>3
  <2> DEFINE low == (i - 1) * size
             high == i * size
             end == (c - 1) * size
  <2>5. low \in Nat /\ high \in Nat /\ end \in Nat /\ end < L /\ high = low + size
    BY <1>3, <2>1, <2>2
  <2>6. low <= end /\ (i # c => high <= end)
    <3>1. (c - i) * size \in Nat /\ end = low + (c - i) * size
      BY <2>3
    <3>2. i # c => (c - 1 - i) * size \in Nat /\ end = high + (c - 1 - i) * size
      BY <2>4
    <3> HIDE DEF low, high, end
    <3> QED
      BY <2>5, <3>1, <3>2
  <2> HIDE DEF low, high, end
  <2>7. low \in 0..(L - 1)
    BY <2>5, <2>6
  <2>8. UpTo(high, L) \in (low + 1)..L
    BY <1>2, <2>5, <2>7 DEF UpTo
  <2>9. i # c => UpTo(high, L) = high /\ high < L
    BY <2>5, <2>6 DEF UpTo
  <2> QED
    BY <2>5, <2>7, <2>8, <2>9 DEF IsCut, low, high
<1>5. UpTo(c * size, L) = L
  BY <1>2, <1>3 DEF UpTo
<1>6. c <= m
  BY <1>1, <1>3
<1> QED
  BY <1>2, <1>3, <1>4, <1>5, <1>6

(* splitSlice and splitSliceGeneric cut a slice into at most m pieces, none
   empty, that put end to end are the slice. *)
LEMMA PiecesFacts ==
  ASSUME NEW T, NEW s \in Seq(T), NEW m \in Nat \ {0}
  PROVE  /\ Pieces(s, m) \in Seq(Seq(T))
         /\ Len(Pieces(s, m)) <= m
         /\ FlattenSeq(Pieces(s, m)) = s
         /\ \A i \in 1..Len(Pieces(s, m)) : Pieces(s, m)[i] # <<>>
<1> DEFINE L == Len(s)
<1>1. CASE s = <<>>
  <2>1. Len(s) = 0 /\ CeilDiv(0, 1) = 0
    BY <1>1 DEF CeilDiv
  <2>2. Pieces(s, m) = <<>>
    BY <1>1, <2>1 DEF Pieces
  <2>3. <<>> \in Seq(Seq(T)) /\ Len(<<>>) = 0
    BY EmptySeq
  <2>4. FlattenSeq(<<>>) = <<>>
    BY <2>3 DEF FlattenSeq
  <2>5. Pieces(s, m) \in Seq(Seq(T)) /\ Len(Pieces(s, m)) = 0
    BY <2>2, <2>3
  <2>6. FlattenSeq(Pieces(s, m)) = s
    BY ONLY <1>1, <2>2, <2>4
  <2> QED
    BY <2>5, <2>6
<1>2. CASE s # <<>>
  <2> DEFINE size == CeilDiv(L, UpTo(m, L))
             c == CeilDiv(L, size)
             cut(i) == SubSeq(s, (i - 1) * size + 1, UpTo(i * size, L))
             f == [i \in 1..c |-> SubSeq(s, 1, UpTo(i * size, L))]
  <2>1. L \in Nat \ {0}
    BY <1>2, EmptySeq
  <2>2. Pieces(s, m) = [i \in 1..c |-> cut(i)]
    BY <1>2 DEF Pieces
  <2>3. size = CeilDiv(L, UpTo(m, L)) /\ c = CeilDiv(L, size)
    OBVIOUS
  <2> HIDE DEF size, c
  <2>4. size \in Nat \ {0} /\ c \in Nat \ {0} /\ c <= m /\ UpTo(c * size, L) = L
    <3> HIDE DEF L
    <3> QED
      BY <2>1, <2>3, Cuts
  <2>6. ASSUME NEW i \in 1..c
        PROVE  /\ (i - 1) * size \in 0..(L - 1)
               /\ UpTo(i * size, L) \in ((i - 1) * size + 1)..L
               /\ i # c => UpTo(i * size, L) = i * size /\ i * size < L
               /\ i * size = (i - 1) * size + size
    <3> HIDE DEF L
    <3>1. \A k \in 1..c : IsCut(k, size, c, L)
      BY ONLY <2>1, <2>3, m \in Nat \ {0}, Cuts
    <3> QED
      BY <3>1 DEF IsCut
  <2>7. ASSUME NEW i \in 1..c
        PROVE  cut(i) \in Seq(T) /\ cut(i) # <<>> /\ f[i] \in Seq(T)
    <3> DEFINE a == (i - 1) * size
               b == UpTo(i * size, L)
    <3>1. a \in 0..(L - 1) /\ b \in (a + 1)..L
      BY <2>6
    <3> HIDE DEF a, b
    <3>2. \A k \in (a + 1)..b : s[k] \in T
      BY <3>1
    <3>3. \A k \in 1..b : s[k] \in T
      BY <3>1
    <3>4. SubSeq(s, a + 1, b) \in Seq(T) /\ Len(SubSeq(s, a + 1, b)) # 0
      <4>1. a + 1 \in Int /\ b \in Int /\ a + 1 <= b
        BY <3>1
      <4> QED
        BY <3>2, <4>1, SubSeqProperties
    <3>5. SubSeq(s, 1, b) \in Seq(T)
      <4>1. b \in Int
        BY <3>1
      <4> QED
        BY <3>3, <4>1, SubSeqProperties
    <3> QED
      BY <3>4, <3>5, EmptySeq DEF a, b
  <2>8. Pieces(s, m) \in Seq(Seq(T)) /\ Len(Pieces(s, m)) = c
    <3> HIDE DEF cut
    <3> QED
      BY <2>2, <2>4, <2>7
  <2>9. IsFlatten(f, Pieces(s, m))
    <3>1. ASSUME NEW i \in 1..c
          PROVE  f[i] = IF i = 1 THEN Pieces(s, m)[i] ELSE f[i - 1] \o Pieces(s, m)[i]
      <4>1. CASE i = 1
        <5>1. (i - 1) * size + 1 = 1
          BY <2>4, <4>1
        <5>2. Pieces(s, m)[i] = SubSeq(s, 1, UpTo(i * size, L))
          BY <2>2, <5>1
        <5> QED
          BY <4>1, <5>2
      <4>2. CASE i # 1
        <5> DEFINE a == (i - 1) * size
                   b == UpTo(i * size, L)
        <5>1. i - 1 \in 1..c /\ i - 1 # c
          BY <2>4, <4>2
        <5>2. f[i - 1] = SubSeq(s, 1, a)
          BY <5>1, <2>6
        <5>3. Pieces(s, m)[i] = SubSeq(s, a + 1, b) /\ f[i] = SubSeq(s, 1, b)
          BY <2>2
        <5>4. a \in 0..(L - 1) /\ b \in (a + 1)..L
          BY <2>6
        <5> HIDE DEF a, b, f
        <5>5. 1 \in 1..(L + 1) /\ a \in (1 - 1)..L /\ b \in a..L
          BY <2>1, <5>4
        <5>6. SubSeq(s, 1, a) \o SubSeq(s, a + 1, b) = SubSeq(s, 1, b)
          BY <5>5, ConcatAdjacentSubSeq
        <5> QED
          BY <4>2, <5>2, <5>3, <5>6
      <4> QED
        BY <4>1, <4>2
    <3>2. f = [i \in 1..c |-> f[i]]
      OBVIOUS
    <3> HIDE DEF f
    <3> QED
      BY <2>8, <3>1, <3>2 DEF IsFlatten
  <2>10. FlattenSeq(Pieces(s, m)) = f[c]
    <3> HIDE DEF f
    <3> QED
      BY <2>4, <2>8, <2>9, FlattenBy
  <2>11. f[c] = SubSeq(s, 1, L)
    BY <2>4
  <2>12. SubSeq(s, 1, L) = s
    BY SubSeqFull
  <2>13. \A i \in 1..c : Pieces(s, m)[i] # <<>>
    <3> HIDE DEF cut
    <3> QED
      BY <2>2, <2>7
  <2> QED
    BY <2>8, <2>10, <2>11, <2>12, <2>13, <2>4
<1> QED
  BY <1>1, <1>2

(* splitPrimeCount makes at most m consecutive ranges from the first number to
   the last. *)
LEMMA PrimeTiles ==
  ASSUME NEW from \in Int, NEW to \in Int, from <= to, NEW m \in Nat \ {0}, NEW c,
         c = SplitPrimeCount(from, to, m)
  PROVE  /\ Len(c) <= m
         /\ Tiles([i \in DOMAIN c |-> c[i].from], [i \in DOMAIN c |-> c[i].to], from, to)
<1> DEFINE len == to - from + 1
           size == AtLeast(1, len \div m)
           k == UpTo(m, len)
<1>1. len \in Nat \ {0} /\ to = from + len - 1
  OBVIOUS
<1> HIDE DEF len
<1>2. len \div m \in Nat /\ m * (len \div m) <= len /\ len < m * (len \div m) + m
  BY <1>1, DivFacts
<1>3. k \in Nat \ {0} /\ k <= m /\ k <= len /\ (k # m => k = len /\ len < m)
  BY <1>1 DEF UpTo
<1>4. size \in Nat \ {0} /\ (k = m => m * size <= len) /\ (k # m => size = 1)
  <2>1. CASE len \div m = 0
    <3>1. size = 1 /\ len < m
      BY <1>2, <2>1 DEF AtLeast
    <3> HIDE DEF k, size
    <3>2. k # m
      BY <1>1, <1>3, <3>1
    <3> QED
      BY <3>1, <3>2
  <2>2. CASE len \div m # 0
    <3>4. size = len \div m
      BY <1>2, <2>2 DEF AtLeast
    <3>5. \A q \in Nat \ {0} : m <= m * q
      BY ONLY m \in Nat \ {0}
    <3>1. size = len \div m /\ m * 1 <= m * (len \div m)
      BY <1>2, <2>2, <3>4, <3>5
    <3>2. m <= len
      BY <1>1, <1>2, <3>1
    <3>3. k = m
      BY <1>3, <3>2
    <3> QED
      BY <1>2, <2>2, <3>1, <3>3
  <2> QED
    BY <2>1, <2>2
<1>5. c = [i \in 1..k |-> [from |-> from + (i - 1) * size,
                           to   |-> IF i = m THEN to ELSE from + i * size - 1]]
  BY DEF SplitPrimeCount, len
<1> HIDE DEF size, k
<1>6. DOMAIN c = 1..k /\ Len(c) = k
  BY <1>3, <1>5
<1> DEFINE lows == [i \in DOMAIN c |-> c[i].from]
           highs == [i \in DOMAIN c |-> c[i].to]
<1>7. DOMAIN lows = 1..k /\ Len(highs) = k
  BY <1>3, <1>6
<1>8. \A i \in 1..k : /\ lows[i] = from + (i - 1) * size
                      /\ highs[i] = IF i = m THEN to ELSE from + i * size - 1
  BY <1>5, <1>6
<1> HIDE DEF lows, highs
<1>9. ASSUME NEW i \in 1..k
      PROVE  (i - 1) * size \in Nat /\ i * size = (i - 1) * size + size
  BY <1>3, <1>4
<1>10. lows[1] = from
  <2>1. (1 - 1) * size = 0 /\ 1 \in 1..k
    BY <1>3, <1>4
  <2> QED
    BY <1>8, <2>1
<1>11. highs[k] = to
  <2>1. k \in 1..k
    BY <1>3
  <2>2. CASE k = m
    BY <1>8, <2>1, <2>2
  <2>3. CASE k # m
    <3>1. k * size = len
      BY <1>1, <1>3, <1>4, <2>3
    <3> QED
      BY <1>1, <1>8, <2>1, <2>3, <3>1
  <2> QED
    BY <2>2, <2>3
<1>12. ASSUME NEW i \in 1..k PROVE lows[i] <= highs[i]
  <2>1. CASE i = m
    <3>1. k = m /\ m * size <= len
      BY <1>3, <1>4, <2>1
    <3> QED
      BY <1>1, <1>4, <1>8, <1>9, <2>1, <3>1
  <2>2. CASE i # m
    BY <1>4, <1>8, <1>9, <2>2
  <2> QED
    BY <2>1, <2>2
<1>13. ASSUME NEW i \in 1..k, i > 1 PROVE lows[i] = highs[i - 1] + 1
  <2>1. i - 1 \in 1..k /\ i - 1 # m
    BY <1>3, <1>13
  <2>2. highs[i - 1] = from + (i - 1) * size - 1
    BY <1>8, <2>1
  <2> QED
    BY <1>8, <1>9, <2>2
<1>14. Tiles(lows, highs, from, to)
  BY <1>7, <1>10, <1>11, <1>12, <1>13 DEF Tiles
<1> QED
  BY <1>3, <1>6, <1>14 DEF lows, highs

(* splitHashCrack makes at most m consecutive ranges over the whole
   alphabet. *)
LEMMA HashTiles ==
  ASSUME NEW T, NEW chars \in Seq(T), chars # <<>>, NEW m \in Nat \ {0}, NEW c,
         c = SplitHashCrack(chars, m)
  PROVE  /\ Len(c) <= m
         /\ Tiles([i \in DOMAIN c |-> c[i].lo], [i \in DOMAIN c |-> c[i].hi], 1, Len(chars))
<1> DEFINE len == Len(chars)
           k == UpTo(m, len)
           size == len \div k
<1>1. len \in Nat \ {0}
  BY EmptySeq
<1>2. k \in Nat \ {0} /\ k <= m /\ k <= len
  BY <1>1 DEF UpTo
<1>3. size \in Nat \ {0} /\ k * size <= len
  <2> HIDE DEF len, k
  <2>1. size \in Nat /\ k * size <= len /\ len < k * size + k
    BY <1>1, <1>2, DivFacts
  <2> HIDE DEF size
  <2>2. size # 0
    BY <1>1, <1>2, <2>1 DEF len
  <2> QED
    BY <2>1, <2>2
<1>4. c = [i \in 1..k |-> [lo |-> (i - 1) * size + 1,
                           hi |-> IF i = k THEN len ELSE i * size]]
  BY DEF SplitHashCrack
<1> HIDE DEF len, size, k
<1>5. DOMAIN c = 1..k /\ Len(c) = k
  BY <1>2, <1>4
<1> DEFINE lows == [i \in DOMAIN c |-> c[i].lo]
           highs == [i \in DOMAIN c |-> c[i].hi]
<1>6. DOMAIN lows = 1..k /\ Len(highs) = k
  BY <1>2, <1>5
<1>7. \A i \in 1..k : /\ lows[i] = (i - 1) * size + 1
                      /\ highs[i] = IF i = k THEN len ELSE i * size
  BY <1>4, <1>5
<1> HIDE DEF lows, highs
<1>8. ASSUME NEW i \in 1..k
      PROVE  (i - 1) * size \in Nat /\ i * size = (i - 1) * size + size
  BY <1>2, <1>3
<1>9. lows[1] = 1 /\ highs[k] = len
  <2>1. (1 - 1) * size = 0 /\ 1 \in 1..k /\ k \in 1..k
    BY <1>2, <1>3
  <2> QED
    BY <1>7, <2>1
<1>10. ASSUME NEW i \in 1..k PROVE lows[i] <= highs[i]
  <2>1. CASE i = k
    BY <1>1, <1>3, <1>7, <1>8, <2>1
  <2>2. CASE i # k
    BY <1>3, <1>7, <1>8, <2>2
  <2> QED
    BY <2>1, <2>2
<1>11. ASSUME NEW i \in 1..k, i > 1 PROVE lows[i] = highs[i - 1] + 1
  <2>1. i - 1 \in 1..k /\ i - 1 # k
    BY <1>2, <1>11
  <2>2. highs[i - 1] = (i - 1) * size
    BY <1>7, <2>1
  <2> QED
    BY <1>7, <1>8, <2>2
<1>12. Tiles(lows, highs, 1, len)
  BY <1>6, <1>9, <1>10, <1>11 DEF Tiles
<1> QED
  BY <1>2, <1>5, <1>12 DEF lows, highs, len

(* The shares of splitPiEstimate add up to the samples asked for. *)
LEMMA SamplesAdd ==
  ASSUME NEW total \in Int, NEW m \in Nat \ {0}
  PROVE  SumFunction(SplitPiEstimate(total, m)) = total
<1> DEFINE c == SplitPiEstimate(total, m)
           q == total \div m
<1>1. DOMAIN c = 1..m /\ q \in Int
  BY DEF SplitPiEstimate
<1>2. \A i \in 1..m : c[i] = IF i = m THEN total - q * (m - 1) ELSE q
  BY DEF SplitPiEstimate
<1> HIDE DEF c, q
<1>3. \A i \in 1..m : c[i] \in Int
  BY <1>1, <1>2
<1>4. PICK k \in Nat : m = k + 1
  <2>1. m - 1 \in Nat /\ m = (m - 1) + 1
    OBVIOUS
  <2> QED
    BY <2>1
<1>5. SumFunctionOnSet(c, 1..k) = k * q
  <2>1. \A i \in 1..k : c[i] = q
    BY <1>2, <1>4
  <2> QED
    BY <1>1, <2>1, SumConstant
<1>6. SumFunctionOnSet(c, 1..(k + 1)) = c[k + 1] + SumFunctionOnSet(c, 1..k)
  BY <1>3, <1>4, SumNext
<1>7. c[k + 1] = total - q * k
  BY <1>2, <1>4
<1>8. k * q = q * k /\ k * q \in Int
  BY <1>1
<1>9. SumFunctionOnSet(c, 1..m) = total
  BY <1>4, <1>5, <1>6, <1>7, <1>8
<1> QED
  BY <1>1, <1>9 DEF SumFunction, c

-----------------------------------------------------------------------------
(* The chunks of a job that is split are those of its input. *)
StageInv ==
  /\ phase \in {"new", "running", "done", "failed"}
  /\ phase = "new" => chunks = <<>>
  /\ phase \in {"running", "done"} => ~ SplitRefused /\ chunks = SplitInput
  /\ phase = "failed" => chunks = <<>> \/ (~ SplitRefused /\ chunks = SplitInput)

(* What is in the place of an answered task answers its chunk, and a finished
   job was aggregated from one answer to every chunk. *)
AnswerInv ==
  /\ DOMAIN outputs = DOMAIN chunks /\ outputs = [i \in DOMAIN chunks |-> outputs[i]]
  /\ phase = "new" => answered = {} /\ refused = {}
  /\ answered \subseteq DOMAIN chunks
  /\ \A i \in answered : outputs[i] \in Answers(chunks[i])
  /\ phase = "done" => answered = DOMAIN chunks /\ result = AggregateOutputs(outputs)

(* The invariant: the input stays what was submitted. *)
IndInv == n \in 1..MaxWorkers /\ Submitted /\ StageInv /\ AnswerInv

(* A job just submitted satisfies the invariant. *)
LEMMA InitIndInv == Init => IndInv
<1> SUFFICES ASSUME Init PROVE IndInv
  OBVIOUS
<1>1. StageInv
  BY DEF Init, StageInv
<1>2. AnswerInv
  <2>1. <<>> = [i \in DOMAIN <<>> |-> <<>>[i]]
    OBVIOUS
  <2> QED
    BY <2>1 DEF Init, AnswerInv
<1> QED
  BY <1>1, <1>2 DEF Init, IndInv

(* So does one just split. *)
LEMMA SplitIndInv == ASSUME IndInv, Split PROVE IndInv'
<1>1. n' \in 1..MaxWorkers /\ Submitted'
  BY DEF IndInv, Split, Submitted
<1>2. (SplitRefused' <=> SplitRefused) /\ SplitInput' = SplitInput
  BY DEF Split, SplitRefused, SplitInput
<1>3. StageInv'
  <2>1. chunks = <<>>
    BY DEF IndInv, StageInv, Split
  <2>2. CASE SplitRefused
    <3>1. phase' = "failed" /\ chunks' = <<>>
      BY <2>1, <2>2 DEF Split
    <3> QED
      BY <3>1 DEF StageInv
  <2>3. CASE ~ SplitRefused
    <3>1. phase' = "running" /\ chunks' = SplitInput'
      BY <1>2, <2>3 DEF Split
    <3>2. ~ SplitRefused'
      BY <1>2, <2>3
    <3> QED
      BY <3>1, <3>2 DEF StageInv
  <2> QED
    BY <2>2, <2>3
<1>4. AnswerInv'
  <2>1. DOMAIN outputs' = DOMAIN chunks' /\ outputs' = [i \in DOMAIN chunks' |-> outputs'[i]]
    <3>1. chunks = <<>>
      BY DEF IndInv, StageInv, Split
    <3>2. CASE SplitRefused
      BY <3>1, <3>2 DEF IndInv, AnswerInv, Split
    <3>3. CASE ~ SplitRefused
      BY <3>3 DEF Split
    <3> QED
      BY <3>2, <3>3
  <2>2. answered' = {} /\ refused' = {} /\ phase' # "new" /\ phase' # "done"
    BY DEF IndInv, AnswerInv, Split
  <2> QED
    BY <2>1, <2>2 DEF AnswerInv
<1> QED
  BY <1>1, <1>3, <1>4 DEF IndInv

(* Between the split and the end, input and chunks stay what they are. *)
LEMMA InputKept ==
  ASSUME UNCHANGED <<type, input, n, chunks>>
  PROVE  /\ Submitted' <=> Submitted
         /\ SplitRefused' <=> SplitRefused
         /\ SplitInput' = SplitInput
         /\ \A k : Answers(chunks[k])' = Answers(chunks[k])
         /\ UNCHANGED outputs => AggregateOutputs(outputs)' = AggregateOutputs(outputs)
<1>1. Submitted' <=> Submitted
  BY DEF Submitted
<1>2. (SplitRefused' <=> SplitRefused) /\ SplitInput' = SplitInput
  BY DEF SplitRefused, SplitInput
<1>3. ASSUME NEW k PROVE Answers(chunks[k])' = Answers(chunks[k])
  BY DEF Answers
<1>4. ASSUME UNCHANGED outputs PROVE AggregateOutputs(outputs)' = AggregateOutputs(outputs)
  BY <1>4 DEF AggregateOutputs
<1> QED
  BY <1>1, <1>2, <1>3, <1>4

(* An answer goes to the place of its own chunk, and a refusal to none. *)
LEMMA AnswerIndInv ==
  ASSUME IndInv, NEW i \in DOMAIN chunks, Answer(i) \/ Refuse(i)
  PROVE  IndInv'
<1>1. UNCHANGED <<type, input, n, chunks, phase>> /\ phase = "running"
  BY DEF Answer, Refuse
<1>2. Submitted' /\ n' \in 1..MaxWorkers /\ StageInv'
  BY <1>1, InputKept DEF IndInv, StageInv
<1>3. DOMAIN outputs' = DOMAIN chunks' /\ outputs' = [k \in DOMAIN chunks' |-> outputs'[k]]
  BY <1>1 DEF IndInv, AnswerInv, Answer, Refuse
<1>4. answered' \subseteq DOMAIN chunks'
  BY DEF IndInv, AnswerInv, Answer, Refuse
<1>5. \A k \in answered' : outputs'[k] \in Answers(chunks[k])
  <2>1. CASE Answer(i)
    <3>1. PICK out \in Answers(chunks[i]) : outputs' = [outputs EXCEPT ![i] = out]
      BY <2>1 DEF Answer
    <3>2. answered' = answered \union {i}
      BY <2>1 DEF Answer
    <3>3. ASSUME NEW k \in answered' PROVE outputs'[k] \in Answers(chunks[k])
      <4>1. CASE k = i
        <5>1. outputs'[k] = out
          BY <3>1, <4>1 DEF IndInv, AnswerInv
        <5> QED
          BY <4>1, <5>1
      <4>2. CASE k # i
        <5>1. k \in answered /\ outputs'[k] = outputs[k]
          BY <3>1, <3>2, <4>2 DEF IndInv, AnswerInv
        <5> QED
          BY <5>1 DEF IndInv, AnswerInv
      <4> QED
        BY <4>1, <4>2
    <3> QED
      BY <3>3
  <2>2. CASE Refuse(i)
    BY <2>2 DEF IndInv, AnswerInv, Refuse
  <2> QED
    BY <2>1, <2>2
<1>6. \A k \in answered' : outputs'[k] \in Answers(chunks[k])'
  <2>1. \A k : Answers(chunks[k])' = Answers(chunks[k])
    BY <1>1, InputKept
  <2> QED
    BY <1>1, <1>5, <2>1
<1>7. AnswerInv'
  BY <1>1, <1>3, <1>4, <1>6 DEF AnswerInv
<1> QED
  BY <1>2, <1>7 DEF IndInv

(* Aggregation reads one answer from every place. *)
LEMMA AggregateIndInv == ASSUME IndInv, Aggregate PROVE IndInv'
<1>1. UNCHANGED <<type, input, n, chunks, answered, outputs>> /\ phase = "running"
  BY DEF Aggregate
<1>2. Submitted' /\ n' \in 1..MaxWorkers
  BY <1>1, InputKept DEF IndInv
<1>3. phase' \in {"done", "failed"} /\ ~ SplitRefused' /\ chunks' = SplitInput'
  BY <1>1, InputKept DEF IndInv, StageInv, Aggregate
<1>4. StageInv'
  BY <1>3 DEF StageInv
<1>5. \A k \in answered' : outputs'[k] \in Answers(chunks[k])'
  <2>1. \A k : Answers(chunks[k])' = Answers(chunks[k])
    BY <1>1, InputKept
  <2> QED
    BY <1>1, <2>1 DEF IndInv, AnswerInv
<1>6. phase' = "done" => answered' = DOMAIN chunks' /\ result' = AggregateOutputs(outputs)'
  <2>1. AggregateOutputs(outputs)' = AggregateOutputs(outputs)
    BY <1>1, InputKept
  <2>2. ASSUME phase' = "done" PROVE refused = {} /\ result' = AggregateOutputs(outputs)
    BY <2>2 DEF Aggregate
  <2> QED
    BY <1>1, <2>1, <2>2 DEF Aggregate
<1>7. AnswerInv'
  BY <1>1, <1>3, <1>5, <1>6 DEF AnswerInv, IndInv
<1> QED
  BY <1>2, <1>4, <1>7 DEF IndInv

(* Every step keeps the invariant. *)
LEMMA NextIndInv == IndInv /\ [Next]_vars => IndInv'
<1> SUFFICES ASSUME IndInv, [Next]_vars PROVE IndInv'
  OBVIOUS
<1>1. CASE Split
  BY <1>1, SplitIndInv
<1>2. ASSUME NEW i \in DOMAIN chunks, Answer(i) \/ Refuse(i) PROVE IndInv'
  BY <1>2, AnswerIndInv
<1>3. CASE Aggregate
  BY <1>3, AggregateIndInv
<1>4. CASE UNCHANGED vars
  <2>1. UNCHANGED <<type, input, n, chunks>>
    BY <1>4 DEF vars
  <2>2. Submitted' /\ StageInv' /\ n' \in 1..MaxWorkers
    BY <1>4, <2>1, InputKept DEF IndInv, StageInv, vars
  <2>3. AnswerInv'
    <3>1. \A k : Answers(chunks[k])' = Answers(chunks[k])
      BY <2>1, InputKept
    <3>2. AggregateOutputs(outputs)' = AggregateOutputs(outputs)
      BY <1>4, <2>1, InputKept DEF vars
    <3>3. \A k \in answered' : outputs'[k] \in Answers(chunks[k])'
      BY <1>4, <3>1 DEF IndInv, AnswerInv, vars
    <3>4. phase' = "done" => result' = AggregateOutputs(outputs)'
      BY <1>4, <3>2 DEF IndInv, AnswerInv, vars
    <3> QED
      BY <1>4, <3>3, <3>4 DEF IndInv, AnswerInv, vars
  <2> QED
    BY <2>2, <2>3 DEF IndInv
<1> QED
  BY <1>1, <1>2, <1>3, <1>4 DEF Next

(* Whatever the order in which the workers answer (callWorker writes the output
   into its own task), the output of a task answers the chunk the splitter made
   for it, and ExecuteJob aggregates only answers to all of the chunks. *)
THEOREM Inductive == Spec => []IndInv
BY InitIndInv, NextIndInv, PTL DEF Spec

-----------------------------------------------------------------------------
(* The chunks of any state partition the input. *)
LEMMA PartitionOfInput == IndInv => SplitIsPartition
<1> SUFFICES ASSUME IndInv, phase # "new", chunks # <<>> PROVE SplitIsPartition
  BY DEF SplitIsPartition
<1>1. ~ SplitRefused /\ chunks = SplitInput /\ n \in Nat \ {0}
  BY InputsAssumption DEF IndInv, StageInv
<1>2. Submitted
  BY DEF IndInv
<1>3. CASE type = "word-count" \/ type = "sort"
  <2>1. IsSequence(input)
    <3>1. CASE type = "word-count"
      BY <1>2, <3>1, InputsAssumption DEF Submitted, IsText
    <3>2. CASE type = "sort"
      <4>1. input \in Seq(Int)
        BY <1>2, <3>2, InputsAssumption DEF Submitted
      <4> QED
        BY <4>1 DEF IsSequence, ToSet
    <3> QED
      BY <1>3, <3>1, <3>2
  <2>2. chunks = Pieces(input, n)
    BY <1>1, <1>3 DEF SplitInput
  <2>3. Len(chunks) <= n /\ FlattenSeq(chunks) = input
    BY <1>1, <2>1, <2>2, PiecesFacts DEF IsSequence
  <2>4. Joined = FlattenSeq(chunks)
    BY <1>3 DEF Joined
  <2> QED
    BY <1>3, <2>3, <2>4 DEF SplitIsPartition
<1>4. CASE type = "matrix-mul"
  <2> DEFINE rows == Pieces(input.a, n)
  <2>1. input.a \in Lefts
    BY <1>2, <1>4 DEF Submitted
  <2>2. input.a \in Seq(ToSet(input.a))
    BY <2>1, InputsAssumption DEF IsMatrix, IsSequence
  <2>3. rows \in Seq(Seq(ToSet(input.a))) /\ Len(rows) <= n /\ FlattenSeq(rows) = input.a
    BY <1>1, <2>2, PiecesFacts
  <2>4. chunks = [i \in DOMAIN rows |-> [rows |-> rows[i], b |-> input.b]]
    BY <1>1, <1>4 DEF SplitInput
  <2> HIDE DEF rows
  <2>5. Len(chunks) = Len(rows) /\ [i \in DOMAIN chunks |-> chunks[i].rows] = rows
    BY <2>3, <2>4
  <2>6. Joined = FlattenSeq(rows)
    BY <1>4, <2>5 DEF Joined
  <2> QED
    BY <1>4, <2>3, <2>5, <2>6 DEF SplitIsPartition
<1>5. CASE type = "grep"
  <2> DEFINE rows == Pieces(input, n)
  <2>1. input \in Seq(BOOLEAN)
    BY <1>2, <1>5, InputsAssumption DEF Submitted
  <2>2. rows \in Seq(Seq(BOOLEAN)) /\ Len(rows) <= n /\ FlattenSeq(rows) = input
    BY <1>1, <2>1, PiecesFacts
  <2>3. chunks = [i \in DOMAIN rows |-> [text |-> rows[i], startLine |-> StartLine(rows, i)]]
    BY <1>1, <1>5 DEF SplitInput, SplitGrep
  <2> HIDE DEF rows
  <2>4. Len(chunks) = Len(rows) /\ [i \in DOMAIN chunks |-> chunks[i].text] = rows
    BY <2>2, <2>3
  <2>5. Joined = FlattenSeq(rows)
    BY <1>5, <2>4 DEF Joined
  <2> QED
    BY <1>5, <2>2, <2>4, <2>5 DEF SplitIsPartition
<1>6. CASE type = "pi-estimate"
  <2>1. input \in Int
    BY <1>2, <1>6, InputsAssumption DEF Submitted
  <2>2. chunks = SplitPiEstimate(input, n)
    BY <1>1, <1>6 DEF SplitInput
  <2>3. Len(chunks) = n
    BY <1>1, <2>2 DEF SplitPiEstimate
  <2>4. Joined = input
    BY <1>1, <1>6, <2>1, <2>2, SamplesAdd DEF Joined
  <2> QED
    BY <1>1, <1>6, <2>3, <2>4 DEF SplitIsPartition
<1>7. CASE type = "prime-count"
  <2>1. input.from \in Int /\ input.to \in Int /\ input.from <= input.to
    <3>1. input.from \in Froms /\ input.to \in Tos
      BY <1>2, <1>7 DEF Submitted
    <3>2. input.from \in Int /\ input.to \in Int
      BY <3>1, InputsAssumption
    <3>3. ~ (input.from > input.to)
      BY <1>1, <1>7 DEF SplitRefused
    <3> QED
      BY <3>2, <3>3
  <2>2. chunks = SplitPrimeCount(input.from, input.to, n)
    BY <1>1, <1>7 DEF SplitInput
  <2>3. /\ Len(chunks) <= n
        /\ Tiles([i \in DOMAIN chunks |-> chunks[i].from],
                 [i \in DOMAIN chunks |-> chunks[i].to], input.from, input.to)
    BY <1>1, <2>1, <2>2, PrimeTiles
  <2> QED
    BY <1>7, <2>3 DEF SplitIsPartition
<1>8. CASE type = "hash-crack"
  <2>1. input.charset \in Seq(ToSet(input.charset))
    <3>1. input.charset \in Charsets
      BY <1>2, <1>8 DEF Submitted
    <3> QED
      BY <3>1, InputsAssumption DEF IsSequence
  <2>2. chunks = SplitHashCrack(input.charset, n)
    BY <1>1, <1>8 DEF SplitInput
  <2>3. input.charset # <<>>
    <3>1. ASSUME input.charset = <<>> PROVE FALSE
      <4>1. UpTo(n, Len(input.charset)) = 0
        BY <1>1, <3>1 DEF UpTo
      <4>2. chunks = <<>>
        BY <2>2, <4>1 DEF SplitHashCrack
      <4> QED
        BY <4>2
    <3> QED
      BY <3>1
  <2>4. /\ Len(chunks) <= n
        /\ Tiles([i \in DOMAIN chunks |-> chunks[i].lo],
                 [i \in DOMAIN chunks |-> chunks[i].hi], 1, Len(input.charset))
    BY <1>1, <2>1, <2>2, <2>3, HashTiles
  <2> QED
    BY <1>8, <2>4 DEF SplitIsPartition
<1>9. type \in {"word-count", "sort", "matrix-mul", "pi-estimate", "grep", "prime-count",
                "hash-crack"}
  BY <1>2 DEF Submitted
<1> QED
  BY <1>3, <1>4, <1>5, <1>6, <1>7, <1>8, <1>9

(* The splitters (splitSlice, splitSliceGeneric, splitPrimeCount,
   splitHashCrack, splitPiEstimate) neither lose nor repeat any of the input
   and make no more tasks than there are workers, for inputs of every length
   and any number of workers. *)
THEOREM SplitPartitions == Spec => []SplitIsPartition
BY Inductive, PartitionOfInput, PTL

(* The answers' totals are the chunks, so they add up to what was asked for,
   and no answer has more inside than in total. *)
LEMMA SamplesCounted == IndInv => EverySampleCounts
<1> SUFFICES ASSUME IndInv, Done("pi-estimate")
             PROVE  result.total = input /\ result.inside \in 0..result.total
  BY DEF EverySampleCounts
<1>1. type = "pi-estimate" /\ phase = "done"
  BY DEF Done
<1>2. ~ SplitRefused /\ chunks = SplitInput /\ n \in Nat \ {0}
  BY <1>1, InputsAssumption DEF IndInv, StageInv
<1>3. input \in Int
  BY <1>1, InputsAssumption DEF IndInv, Submitted
<1>4. chunks = SplitPiEstimate(input, n)
  BY <1>1, <1>2 DEF SplitInput
<1>5. SumFunction(chunks) = input /\ DOMAIN chunks = 1..n
  BY <1>2, <1>3, <1>4, SamplesAdd DEF SplitPiEstimate
<1>6. DOMAIN outputs = 1..n /\ result = AggregatePiEstimate(outputs)
  BY <1>1, <1>5 DEF IndInv, AnswerInv, AggregateOutputs
<1>7. ASSUME NEW i \in 1..n
      PROVE  /\ outputs[i].total = chunks[i] /\ chunks[i] \in Nat
             /\ outputs[i].inside \in Nat /\ outputs[i].inside <= outputs[i].total
  <2>1. outputs[i] \in Answers(chunks[i])
    BY <1>1, <1>5 DEF IndInv, AnswerInv
  <2>2. outputs[i] \in ExecutePiEstimate(chunks[i])
    BY <1>1, <2>1 DEF Answers
  <2>3. chunks[i] \in 1..SampleCap /\ SampleCap \in Nat
    BY <2>2, CapsAssumption DEF ExecutePiEstimate
  <2> QED
    BY <2>2, <2>3 DEF ExecutePiEstimate
<1> DEFINE totals == [i \in DOMAIN outputs |-> outputs[i].total]
           insides == [i \in DOMAIN outputs |-> outputs[i].inside]
<1>8. SumFunctionOnSet(totals, 1..n) = SumFunctionOnSet(chunks, 1..n)
  <2>1. \A i \in 1..n : totals[i] = chunks[i]
    BY <1>6, <1>7
  <2> HIDE DEF totals
  <2> QED
    BY <2>1, SumSame
<1>9. /\ SumFunctionOnSet(insides, 1..n) \in Nat /\ SumFunctionOnSet(totals, 1..n) \in Nat
      /\ SumFunctionOnSet(insides, 1..n) <= SumFunctionOnSet(totals, 1..n)
  <2>1. \A i \in 1..n : insides[i] \in Nat /\ totals[i] \in Nat /\ insides[i] <= totals[i]
    BY <1>6, <1>7
  <2>2. IsFiniteSet(1..n)
    BY <1>2, FS_Interval
  <2> HIDE DEF totals, insides
  <2> QED
    BY <2>1, <2>2, SumMonotone
<1>10. DOMAIN totals = 1..n /\ DOMAIN insides = 1..n
  BY <1>6
<1>11. result.total = SumFunction(totals) /\ result.inside = SumFunction(insides)
  BY <1>6 DEF AggregatePiEstimate
<1> HIDE DEF totals, insides
<1> QED
  BY <1>5, <1>8, <1>9, <1>10, <1>11 DEF SumFunction

(* aggregatePiEstimate reports as many samples as the job asked for, and no
   more hits than samples, for any number of samples and workers. *)
THEOREM SamplesKept == Spec => []EverySampleCounts
BY Inductive, SamplesCounted, PTL

-----------------------------------------------------------------------------
(* g sums the products of a row and a column over every set of columns. *)
IsProductSum(g, row, b, j, D) ==
  g = [s \in SUBSET D |-> IF s = {} THEN 0
                          ELSE row[Pick(s)] * b[Pick(s)][j] + g[s \ {Pick(s)}]]

(* Its value over all of D. *)
ProductSum(row, b, j, D) == (CHOOSE g : IsProductSum(g, row, b, j, D))[D]

(* The two ways to write the sum of a row times a column. *)
LEMMA RowTimesColumn ==
  ASSUME NEW row, NEW b, NEW j, NEW D
  PROVE  ProductSum(row, b, j, D) = SumFunctionOnSet([k \in D |-> row[k] * b[k][j]], D)
<1> DEFINE fun == [k \in D |-> row[k] * b[k][j]]
<1>1. ASSUME NEW s \in SUBSET D, s # {} PROVE fun[Pick(s)] = row[Pick(s)] * b[Pick(s)][j]
  BY <1>1 DEF Pick
<1> HIDE DEF fun
<1>2. ASSUME NEW g PROVE IsProductSum(g, row, b, j, D) <=> IsSum(g, fun, D)
  BY <1>1 DEF IsProductSum, IsSum
<1>3. (CHOOSE g : IsProductSum(g, row, b, j, D)) = (CHOOSE g : IsSum(g, fun, D))
  BY <1>2
<1>4. SumFunctionOnSet(fun, D) = (CHOOSE g : IsProductSum(g, row, b, j, D))[D]
  BY <1>3, SumUnfolds
<1> QED
  BY <1>4 DEF fun, ProductSum

(* The product of a piece of the rows is that piece of the product. *)
ByPieces(a, b, m) ==
  /\ Len(Pieces(a, m)) = Len(Pieces(Product(a, b), m))
  /\ \A i \in 1..Len(Pieces(a, m)) :
       /\ Product(Pieces(a, m)[i], b) = Pieces(Product(a, b), m)[i]
       /\ Len(Pieces(a, m)[i][1]) = Len(a[1])

(* That holds of matrices whose rows have equal lengths. *)
LEMMA ProductOfPieces ==
  ASSUME NEW a, IsMatrix(a), a # <<>>, Rectangular(a), NEW b, NEW m \in Nat \ {0}
  PROVE  ByPieces(a, b, m)
<1> DEFINE L == Len(a)
           size == CeilDiv(L, UpTo(m, L))
           c == CeilDiv(L, size)
           low(i) == (i - 1) * size
           high(i) == UpTo(i * size, L)
           P == Product(a, b)
           Cell(row, j, D) == SumFunction([k \in D |-> row[k] * b[k][j]])
<1>0. a \in Seq(ToSet(a)) /\ \A i \in DOMAIN a : a[i] \in Seq(Int)
  BY DEF IsMatrix, IsSequence
<1>1. L \in Nat \ {0} /\ DOMAIN a = 1..L
  BY <1>0, EmptySeq
<1>2. P = [r \in 1..L |-> [j \in DOMAIN b[1] |-> Cell(a[r], j, DOMAIN a[1])]]
  BY <1>1 DEF Product
<1> HIDE DEF P, Cell
<1>3. Len(P) = L /\ P \in Seq(ToSet(P)) /\ P # <<>>
  <2>1. Len(P) = L /\ DOMAIN P = 1..L
    BY <1>1, <1>2
  <2>2. \A r \in 1..L : P[r] \in ToSet(P)
    BY <2>1 DEF ToSet
  <2>3. P \in [1..L -> ToSet(P)]
    BY <1>2, <2>2
  <2> HIDE DEF L
  <2> QED
    BY <1>1, <2>1, <2>3
<1>4. Pieces(a, m) = [i \in 1..c |-> SubSeq(a, low(i) + 1, high(i))]
  BY DEF Pieces
<1>5. Pieces(P, m) = [i \in 1..c |-> SubSeq(P, low(i) + 1, high(i))]
  BY <1>3 DEF Pieces
<1>6. size = CeilDiv(L, UpTo(m, L)) /\ c = CeilDiv(L, size)
  OBVIOUS
<1> HIDE DEF L, size, c
<1>7. c \in Nat \ {0} /\ \A i \in 1..c : IsCut(i, size, c, L)
  BY <1>1, <1>6, Cuts
<1>8. Len(Pieces(a, m)) = c /\ Len(Pieces(P, m)) = c
  BY <1>4, <1>5, <1>7
<1>9. ASSUME NEW i \in 1..c
      PROVE  /\ Product(Pieces(a, m)[i], b) = Pieces(P, m)[i]
             /\ Len(Pieces(a, m)[i][1]) = Len(a[1])
  <2> DEFINE lo == low(i)
             hi == high(i)
             rows == SubSeq(a, lo + 1, hi)
  <2>1. lo \in 0..(L - 1) /\ hi \in (lo + 1)..L
    BY <1>7 DEF IsCut
  <2> HIDE DEF lo, hi
  <2>2. /\ Len(rows) = hi - lo /\ DOMAIN rows = 1..(hi - lo)
        /\ \A r \in 1..(hi - lo) : rows[r] = a[lo + r]
    BY <1>0, <1>1, <2>1 DEF L
  <2>3. SubSeq(P, lo + 1, hi) = [r \in 1..(hi - lo) |-> P[lo + r]]
    BY <1>1, <1>3, <2>1
  <2> HIDE DEF rows
  <2>4. 1 \in 1..(hi - lo) /\ lo + 1 \in 1..L /\ rows[1] = a[lo + 1]
    BY <1>1, <2>1, <2>2
  <2>5. Len(rows[1]) = Len(a[1]) /\ DOMAIN rows[1] = DOMAIN a[1]
    <3>1. Len(a[lo + 1]) = Len(a[1])
      BY <1>1, <2>4 DEF Rectangular
    <3>2. a[lo + 1] \in Seq(Int) /\ a[1] \in Seq(Int)
      BY <1>0, <1>1, <2>4
    <3> QED
      BY <2>4, <3>1, <3>2
  <2>6. Product(rows, b) = [r \in 1..(hi - lo) |->
                              [j \in DOMAIN b[1] |-> Cell(rows[r], j, DOMAIN rows[1])]]
    BY <2>2 DEF Product, Cell
  <2>7. ASSUME NEW r \in 1..(hi - lo)
        PROVE  [j \in DOMAIN b[1] |-> Cell(rows[r], j, DOMAIN rows[1])] = P[lo + r]
    <3>1. lo + r \in 1..L
      BY <1>1, <2>1
    <3>2. P[lo + r] = [j \in DOMAIN b[1] |-> Cell(a[lo + r], j, DOMAIN a[1])]
      BY <1>2, <3>1
    <3> QED
      BY <2>2, <2>5, <3>2
  <2>8. Product(rows, b) = SubSeq(P, lo + 1, hi)
    BY <2>3, <2>6, <2>7
  <2>9. Pieces(a, m)[i] = rows /\ Pieces(P, m)[i] = SubSeq(P, lo + 1, hi)
    BY <1>4, <1>5 DEF rows, lo, hi
  <2> QED
    BY <2>5, <2>8, <2>9
<1> QED
  BY <1>8, <1>9 DEF P, ByPieces

(* The answers are the pieces of the product, put end to end in the order of
   the tasks. *)
LEMMA ProductCounted == IndInv => ProductIsWhole
<1> SUFFICES ASSUME IndInv, Done("matrix-mul"), Rectangular(input.a), Rectangular(input.b),
                    input.b # <<>>
             PROVE  /\ Len(result) = Len(input.a)
                    /\ \A i \in DOMAIN result : \A j \in DOMAIN input.b[1] :
                         result[i][j] = MapThenSumSet(LAMBDA k : input.a[i][k] * input.b[k][j],
                                                      DOMAIN input.b)
  BY DEF ProductIsWhole
<1> DEFINE a == input.a
           b == input.b
           rows == Pieces(a, n)
<1>1. type = "matrix-mul" /\ phase = "done"
  BY DEF Done
<1>2. chunks = SplitInput /\ n \in Nat \ {0}
  BY <1>1, InputsAssumption DEF IndInv, StageInv
<1>3. a \in Lefts /\ b \in Rights
  BY <1>1 DEF IndInv, Submitted
<1>4. /\ a \in Seq(ToSet(a)) /\ \A i \in DOMAIN a : a[i] \in Seq(Int)
      /\ b \in Seq(ToSet(b))
  BY <1>3, InputsAssumption DEF IsMatrix, IsSequence
<1>5. chunks = [i \in DOMAIN rows |-> [rows |-> rows[i], b |-> b]]
  BY <1>1, <1>2 DEF SplitInput
<1>6. rows \in Seq(Seq(ToSet(a))) /\ \A i \in 1..Len(rows) : rows[i] # <<>>
  BY <1>2, <1>4, PiecesFacts
<1>7. result = FlattenSeq(outputs)
  BY <1>1 DEF IndInv, AnswerInv, AggregateOutputs
<1> HIDE DEF rows
<1>8. DOMAIN outputs = 1..Len(rows)
  BY <1>5, <1>6 DEF IndInv, AnswerInv
<1>9. ASSUME NEW i \in 1..Len(rows)
      PROVE  outputs[i] = Product(rows[i], b) /\ Len(rows[i][1]) = Len(b)
  <2>1. outputs[i] \in Answers(chunks[i])
    BY <1>1, <1>8 DEF IndInv, AnswerInv
  <2>2. outputs[i] \in ExecuteMatrixMul(chunks[i])
    BY <1>1, <2>1 DEF Answers
  <2>3. chunks[i].rows = rows[i] /\ chunks[i].b = b
    BY <1>5, <1>6
  <2> QED
    BY <2>2, <2>3 DEF ExecuteMatrixMul
<1>10. CASE a = <<>>
  <2>1. Len(a) = 0 /\ CeilDiv(0, 1) = 0
    BY <1>10 DEF CeilDiv
  <2>2. rows = <<>>
    BY <1>10, <2>1 DEF Pieces, rows
  <2>3. DOMAIN outputs = {}
    BY <1>8, <2>2
  <2>4. outputs = <<>>
    BY <2>3 DEF IndInv, AnswerInv
  <2>5. FlattenSeq(<<>>) = <<>>
    BY DEF FlattenSeq
  <2>6. result = <<>>
    BY <1>7, <2>4, <2>5
  <2>7. Len(result) = Len(input.a) /\ DOMAIN result = {}
    BY <1>10, <2>6
  <2> QED
    BY <2>7
<1>11. CASE a # <<>>
  <2> DEFINE P == Product(a, b)
  <2>1. DOMAIN a = 1..Len(a) /\ Len(a) \in Nat \ {0}
    BY <1>4, <1>11, EmptySeq
  <2>2. DOMAIN P = DOMAIN a /\ P \in Seq(ToSet(P)) /\ Len(P) = Len(a)
    <3>1. DOMAIN P = 1..Len(a)
      BY <2>1 DEF Product
    <3>2. \A r \in 1..Len(a) : P[r] \in ToSet(P)
      BY <3>1 DEF ToSet
    <3>3. P \in [1..Len(a) -> ToSet(P)]
      BY <3>2, <2>1 DEF Product
    <3> HIDE DEF P
    <3> QED
      BY <2>1, <3>1, <3>3
  <2>3. /\ Len(rows) = Len(Pieces(P, n))
        /\ \A i \in 1..Len(rows) :
             Product(rows[i], b) = Pieces(P, n)[i] /\ Len(rows[i][1]) = Len(a[1])
    <3>1. Rectangular(a) /\ IsMatrix(a)
      BY <1>3, InputsAssumption
    <3>2. n \in Nat \ {0}
      BY <1>2
    <3> HIDE DEF a, b, P
    <3>3. ByPieces(a, b, n)
      BY ONLY <1>11, <3>1, <3>2, ProductOfPieces
    <3> QED
      BY <3>3 DEF ByPieces, rows, P
  <2> HIDE DEF P
  <2>4. Pieces(P, n) \in Seq(Seq(ToSet(P))) /\ FlattenSeq(Pieces(P, n)) = P
    BY <1>2, <2>2, PiecesFacts
  <2>5. outputs = Pieces(P, n)
    <3>1. outputs = [i \in 1..Len(rows) |-> outputs[i]]
      BY <1>8 DEF IndInv, AnswerInv
    <3>2. Pieces(P, n) = [i \in 1..Len(rows) |-> Pieces(P, n)[i]]
      BY <2>3, <2>4
    <3>3. \A i \in 1..Len(rows) : outputs[i] = Pieces(P, n)[i]
      BY <1>9, <2>3
    <3> QED
      BY <3>1, <3>2, <3>3
  <2>6. result = P
    BY <1>7, <2>4, <2>5
  <2>7. DOMAIN a[1] = DOMAIN b
    <3>1. rows # <<>>
      <4>1. FlattenSeq(rows) = a
        BY <1>2, <1>4, PiecesFacts DEF rows
      <4>2. FlattenSeq(<<>>) = <<>>
        BY DEF FlattenSeq
      <4> QED
        BY <1>11, <4>1, <4>2
    <3>2. 1 \in 1..Len(rows)
      BY <1>6, <3>1, EmptySeq
    <3>3. Len(a[1]) = Len(b)
      BY <1>9, <2>3, <3>2
    <3>4. a[1] \in Seq(Int)
      BY <1>4, <2>1
    <3> QED
      BY <1>4, <3>3, <3>4
  <2>8. ASSUME NEW i \in DOMAIN P, NEW j \in DOMAIN b[1]
        PROVE  P[i][j] = MapThenSumSet(LAMBDA k : a[i][k] * b[k][j], DOMAIN b)
    <3>1. P[i][j] = SumFunction([k \in DOMAIN b |-> a[i][k] * b[k][j]])
      BY <2>2, <2>7 DEF P, Product
    <3>2. P[i][j] = SumFunctionOnSet([k \in DOMAIN b |-> a[i][k] * b[k][j]], DOMAIN b)
      BY <3>1 DEF SumFunction
    <3>3. MapThenSumSet(LAMBDA k : a[i][k] * b[k][j], DOMAIN b) =
            ProductSum(a[i], b, j, DOMAIN b)
      BY DEF MapThenSumSet, MapThenFoldSet, ProductSum, IsProductSum, Pick
    <3>4. ProductSum(a[i], b, j, DOMAIN b) =
            SumFunctionOnSet([k \in DOMAIN b |-> a[i][k] * b[k][j]], DOMAIN b)
      BY RowTimesColumn
    <3> QED
      BY <3>2, <3>3, <3>4
  <2> QED
    BY <2>2, <2>6, <2>8
<1> QED
  BY <1>10, <1>11

(* A matrix-mul job that is done has the product of its matrices
   (executeMatrixMul on pieces of the rows, aggregateMatrixMul), for matrices
   of every size and any number of workers. *)
THEOREM ProductComplete == Spec => []ProductIsWhole
BY Inductive, ProductCounted, PTL

-----------------------------------------------------------------------------
(* The words of two texts put end to end are the words of both. *)
LEMMA WordsConcat ==
  ASSUME NEW W, NEW u \in Seq(Seq(W)), NEW v \in Seq(Seq(W))
  PROVE  /\ WordsIn(u) \in BagsOf(W)
         /\ WordsIn(u \o v) = WordsIn(u) (+) WordsIn(v)
<1>1. /\ FlattenSeq(u) \in Seq(W) /\ FlattenSeq(v) \in Seq(W)
      /\ FlattenSeq(u \o v) = FlattenSeq(u) \o FlattenSeq(v)
  BY FlattenConcat
<1> QED
  BY <1>1, ToBagConcat DEF WordsIn

(* Counting the words of every chunk and adding up the counts counts the words
   of the chunks put end to end. *)
LEMMA WordsAdd ==
  ASSUME NEW W, NEW ss \in Seq(Seq(Seq(W))), NEW outs,
         outs = [i \in DOMAIN ss |-> WordsIn(ss[i])]
  PROVE  AggregateWordCount(outs) = WordsIn(FlattenSeq(ss))
<1> DEFINE S == DOMAIN outs
           c == Len(ss)
           it == CHOOSE g : IsBagFold(g, outs, S)
<1>1. c \in Nat /\ S = 1..c /\ \A i \in 1..c : ss[i] \in Seq(Seq(W))
  OBVIOUS
<1> HIDE DEF c
<1>2. \A i \in 1..c : outs[i] = WordsIn(ss[i]) /\ outs[i] \in BagsOf(W)
  BY <1>1, WordsConcat
<1>3. outs \in Seq(BagsOf(W))
  <2>1. outs \in [1..c -> BagsOf(W)]
    BY <1>1, <1>2
  <2>2. c \in Nat
    BY <1>1
  <2> QED
    BY ONLY <2>1, <2>2
<1>4. AggregateWordCount(outs) = it[S]
  BY BagsFoldUnfolds DEF AggregateWordCount
<1>5. \A s \in SUBSET S :
        it[s] = IF s = {} THEN EmptyBag ELSE it[s \ {Max(s)}] (+) outs[Max(s)]
  <2>1. IsBagFold(it, outs, S)
    <3>1. \E g \in [SUBSET S -> BagsOf(W)] : IsBagFold(g, outs, S)
      BY <1>3, BagsFold
    <3> HIDE DEF S
    <3> QED
      BY <3>1
  <2> HIDE DEF S, it
  <2> QED
    BY <2>1 DEF IsBagFold
<1> HIDE DEF it, S
<1>6. it[{}] = EmptyBag
  BY <1>5
<1>7. CASE ss = <<>>
  <2>1. c = 0 /\ S = {}
    BY <1>1, <1>7 DEF c
  <2>2. FlattenSeq(<<>>) = <<>>
    BY DEF FlattenSeq
  <2>3. ToBag(<<>>) = EmptyBag
    BY DEF ToBag, EmptyBag, SetToBag, Range
  <2> QED
    BY <1>4, <1>6, <1>7, <2>1, <2>2, <2>3 DEF WordsIn
<1>8. CASE ss # <<>>
  <2>1. c \in Nat \ {0}
    BY <1>1, <1>8, EmptySeq DEF c
  <2>2. PICK f \in [1..c -> Seq(Seq(W))] : IsFlatten(f, ss)
    BY <1>8, FlattenExists DEF c
  <2>3. FlattenSeq(ss) = f[c]
    BY <2>1, <2>2, FlattenBy DEF c
  <2>4. \A i \in 1..c : f[i] = IF i = 1 THEN ss[i] ELSE f[i - 1] \o ss[i]
    BY <2>2 DEF IsFlatten, c
  <2> DEFINE N == {k \in Nat : k + 1 \in 1..c => it[1..(k + 1)] = WordsIn(f[k + 1])}
  <2>5. ASSUME NEW k \in Nat, k + 1 \in 1..c
        PROVE  it[1..(k + 1)] = it[1..k] (+) WordsIn(ss[k + 1])
    <3>1. 1..(k + 1) \in SUBSET S /\ 1..(k + 1) # {}
      <4>1. k + 1 <= c /\ 1 \in 1..(k + 1)
        BY <2>1, <2>5
      <4>2. 1..(k + 1) \subseteq 1..c
        BY <2>1, <4>1
      <4> QED
        BY <1>1, <4>1, <4>2
    <3>2. Max(1..(k + 1)) = k + 1
      BY MaxFacts
    <3>3. (1..(k + 1)) \ {k + 1} = 1..k
      OBVIOUS
    <3>4. it[1..(k + 1)] = it[(1..(k + 1)) \ {k + 1}] (+) outs[k + 1]
      BY <1>5, <3>1, <3>2
    <3> QED
      BY <1>2, <2>5, <3>3, <3>4
  <2>6. 0 \in N
    <3>1. it[1..(0 + 1)] = it[1..0] (+) WordsIn(ss[0 + 1])
      <4>1. 0 \in Nat /\ 0 + 1 \in 1..c
        BY <2>1
      <4> QED
        BY <2>5, <4>1
    <3>2. 1..0 = {} /\ 0 + 1 = 1 /\ 1 \in 1..c
      BY <2>1
    <3>3. it[1..1] = EmptyBag (+) WordsIn(ss[1])
      BY <1>6, <3>1, <3>2
    <3>4. EmptyBag (+) WordsIn(ss[1]) = WordsIn(ss[1])
      <4>1. WordsIn(ss[1]) \in BagsOf(W)
        BY <1>2, <3>2
      <4> QED
        BY <4>1, EmptyBagFacts
    <3>5. f[1] = ss[1]
      BY <2>4, <3>2
    <3> QED
      BY <3>2, <3>3, <3>4, <3>5
  <2>7. ASSUME NEW k \in Nat, k \in N PROVE k + 1 \in N
    <3>1. SUFFICES ASSUME (k + 1) + 1 \in 1..c
                   PROVE  it[1..((k + 1) + 1)] = WordsIn(f[(k + 1) + 1])
      OBVIOUS
    <3> DEFINE j == k + 1
    <3>2. j \in Nat /\ j \in 1..c /\ j + 1 \in 1..c /\ j + 1 # 1 /\ (j + 1) - 1 = j
      <4>1. j \in Nat
        OBVIOUS
      <4>2. j + 1 \in 1..c
        BY <3>1
      <4> HIDE DEF j
      <4>3. j \in 1..c
        <5>1. j # 0
          BY DEF j
        <5> QED
          BY <2>1, <4>1, <4>2, <5>1
      <4> QED
        BY <4>1, <4>2, <4>3
    <3>3. it[1..j] = WordsIn(f[j])
      BY <2>7, <3>2
    <3> HIDE DEF j
    <3>4. it[1..(j + 1)] = WordsIn(f[j]) (+) WordsIn(ss[j + 1])
      BY <2>5, <3>2, <3>3
    <3>5. f[j + 1] = f[j] \o ss[j + 1]
      BY <2>4, <3>2
    <3>6. f[j] \in Seq(Seq(W)) /\ ss[j + 1] \in Seq(Seq(W))
      BY <1>1, <3>2
    <3>7. WordsIn(f[j] \o ss[j + 1]) = WordsIn(f[j]) (+) WordsIn(ss[j + 1])
      BY <3>6, WordsConcat
    <3>8. it[1..(j + 1)] = WordsIn(f[j + 1])
      BY <3>4, <3>5, <3>7
    <3> QED
      BY <3>8 DEF j
  <2> HIDE DEF N
  <2>8. Nat \subseteq N
    BY <2>6, <2>7, InductiveSet
  <2>9. it[1..c] = WordsIn(f[c])
    <3>1. c - 1 \in Nat /\ (c - 1) + 1 = c /\ c \in 1..c
      BY <2>1
    <3>2. c - 1 \in N
      BY <2>8, <3>1
    <3> QED
      BY <3>1, <3>2 DEF N
  <2> QED
    BY <1>1, <1>4, <2>3, <2>9
<1> QED
  BY <1>7, <1>8

(* The words of a text form a set. *)
LEMMA TextTyped ==
  ASSUME NEW text, IsText(text)
  PROVE  \E W : text \in Seq(Seq(W))
<1> DEFINE W == UNION {ToSet(text[i]) : i \in DOMAIN text}
<1>1. text \in Seq(ToSet(text)) /\ \A i \in DOMAIN text : text[i] \in Seq(ToSet(text[i]))
  BY DEF IsText, IsSequence
<1>2. ASSUME NEW i \in DOMAIN text PROVE text[i] \in Seq(W)
  <2>1. text[i] \in Seq(ToSet(text[i])) /\ ToSet(text[i]) \subseteq W
    BY <1>1
  <2> HIDE DEF W
  <2> QED
    BY <2>1
<1> HIDE DEF W
<1>3. text \in Seq(Seq(W))
  BY <1>1, <1>2
<1> QED
  BY <1>3

(* The sum of the answers is the count of the whole input. *)
LEMMA WordsCounted == IndInv => WordsAreCounted
<1> SUFFICES ASSUME IndInv, Done("word-count") PROVE result = WordsIn(input)
  BY DEF WordsAreCounted
<1>1. type = "word-count" /\ phase = "done"
  BY DEF Done
<1>2. chunks = SplitInput /\ n \in Nat \ {0}
  BY <1>1, InputsAssumption DEF IndInv, StageInv
<1>3. PICK W : input \in Seq(Seq(W))
  <2>1. IsText(input)
    BY <1>1, InputsAssumption DEF IndInv, Submitted
  <2> QED
    BY <2>1, TextTyped
<1>4. chunks = Pieces(input, n)
  BY <1>1, <1>2 DEF SplitInput
<1>5. chunks \in Seq(Seq(Seq(W))) /\ FlattenSeq(chunks) = input
  BY <1>2, <1>3, <1>4, PiecesFacts
<1>6. outputs = [i \in DOMAIN chunks |-> WordsIn(chunks[i])]
  <2>1. \A i \in DOMAIN chunks : outputs[i] \in Answers(chunks[i])
    BY <1>1 DEF IndInv, AnswerInv
  <2>2. \A i \in DOMAIN chunks : outputs[i] = WordsIn(chunks[i])
    BY <1>1, <2>1 DEF Answers
  <2>3. outputs = [i \in DOMAIN chunks |-> outputs[i]]
    BY <1>1 DEF IndInv, AnswerInv
  <2> QED
    BY <2>2, <2>3
<1>7. result = AggregateWordCount(outputs)
  BY <1>1 DEF IndInv, AnswerInv, AggregateOutputs
<1> QED
  BY <1>5, <1>6, <1>7, WordsAdd

(* A word-count job that is done counts every word as often as the text has it
   (aggregateWordCount over the chunks of splitWordCount), for texts of every
   length and any number of workers. *)
THEOREM AllWordsCounted == Spec => []WordsAreCounted
BY Inductive, WordsCounted, PTL

-----------------------------------------------------------------------------
(* A sequence of numbers in ascending order. *)
Ascends(s) == IsSorted(s, <=)

(* r has the numbers of s, each as often, in ascending order. *)
IsSortOf(r, s) == r \in Seq(Int) /\ Ascends(r) /\ \A x : Copies(r, x) = Copies(s, x)

(* r has the numbers of s and those of t, in ascending order. *)
Merges(r, s, t) ==
  r \in Seq(Int) /\ Ascends(r) /\ \A x : Copies(r, x) = Copies(s, x) + Copies(t, x)

(* A number put before a sequence it does not exceed leaves it ascending. *)
LEMMA AscendsCons ==
  ASSUME NEW v \in Int, NEW t \in Seq(Int), Ascends(t), \A i \in DOMAIN t : v <= t[i]
  PROVE  <<v>> \o t \in Seq(Int) /\ Ascends(<<v>> \o t)
<1> DEFINE u == <<v>> \o t
           L == Len(t)
<1>1. <<v>> \in Seq(Int) /\ Len(<<v>>) = 1 /\ <<v>>[1] = v
  OBVIOUS
<1>2. L \in Nat /\ DOMAIN t = 1..L /\ \A i \in 1..L : t[i] \in Int
  OBVIOUS
<1>3. u \in Seq(Int) /\ Len(u) = 1 + L
  BY <1>1, ConcatProperties
<1>4. \A i \in 1..(1 + L) : u[i] = IF i <= 1 THEN <<v>>[i] ELSE t[i - 1]
  BY <1>1, ConcatProperties
<1> HIDE DEF u, L
<1>5. ASSUME NEW i \in 1..(1 + L), NEW j \in 1..(1 + L), i < j PROVE u[i] <= u[j]
  <2>1. j - 1 \in 1..L /\ ~ (j <= 1)
    BY <1>2, <1>5
  <2>2. u[j] = t[j - 1]
    BY <1>4, <2>1
  <2>3. CASE i = 1
    <3>1. u[i] = v
      BY <1>1, <1>4, <2>3
    <3> QED
      BY <1>2, <2>1, <2>2, <3>1
  <2>4. CASE i # 1
    <3>1. i - 1 \in 1..L /\ ~ (i <= 1) /\ i - 1 < j - 1
      BY <1>2, <1>5, <2>4
    <3>2. u[i] = t[i - 1]
      BY <1>4, <3>1
    <3>3. t[i - 1] <= t[j - 1]
      BY <2>1, <3>1 DEF Ascends, IsSorted, L
    <3> QED
      BY <2>2, <3>2, <3>3
  <2> QED
    BY <2>3, <2>4
<1> QED
  BY <1>3, <1>5 DEF Ascends, IsSorted, u

(* The least first element of the two goes before the merge of the rest. *)
LEMMA MergesCons ==
  ASSUME NEW s \in Seq(Int), NEW t \in Seq(Int), Ascends(s), Ascends(t), s # <<>>,
         t # <<>> => s[1] <= t[1], NEW r, Merges(r, Tail(s), t)
  PROVE  Merges(<<s[1]>> \o r, s, t)
<1> DEFINE v == s[1]
           rest == Tail(s)
           L == Len(s)
<1>1. /\ L \in Nat \ {0} /\ DOMAIN s = 1..L /\ v \in Int /\ rest \in Seq(Int)
      /\ DOMAIN rest = 1..(L - 1) /\ \A i \in 1..(L - 1) : rest[i] = s[i + 1]
      /\ s = <<v>> \o rest
  <2>1. s = <<Head(s)>> \o Tail(s) /\ Tail(s) \in Seq(Int) /\ Len(Tail(s)) = L - 1
    BY HeadTailProperties, HeadTailAppend
  <2> QED
    BY <2>1, HeadTailProperties, EmptySeq
<1>2. r \in Seq(Int) /\ Ascends(r) /\ \A x : Copies(r, x) = Copies(rest, x) + Copies(t, x)
  BY DEF Merges
<1> HIDE DEF v, rest, L
<1>3. \A i \in 1..(L - 1) : v <= rest[i]
  BY <1>1 DEF Ascends, IsSorted, v, L
<1>4. \A i \in DOMAIN t : v <= t[i]
  <2>1. DOMAIN t = 1..Len(t) /\ Len(t) \in Nat /\ \A i \in 1..Len(t) : t[i] \in Int
    OBVIOUS
  <2>2. ASSUME NEW i \in 1..Len(t) PROVE v <= t[i]
    <3>1. t # <<>> /\ 1 \in 1..Len(t)
      BY <2>1, <2>2
    <3>2. t[1] <= t[i]
      BY <2>1, <3>1 DEF Ascends, IsSorted
    <3>3. v <= t[1]
      BY <3>1 DEF v
    <3> QED
      BY <1>1, <2>1, <3>1, <3>2, <3>3
  <2> QED
    BY <2>1, <2>2
<1>5. ASSUME NEW i \in DOMAIN r PROVE v <= r[i]
  <2>1. Copies(rest, r[i]) # 0 \/ Copies(t, r[i]) # 0
    <3>1. Copies(r, r[i]) # 0
      BY <1>2, CopiesFacts
    <3>2. Copies(r, r[i]) = Copies(rest, r[i]) + Copies(t, r[i])
      BY <1>2
    <3> QED
      BY <3>1, <3>2
  <2>2. CASE Copies(rest, r[i]) # 0
    <3>1. r[i] \in Range(rest)
      BY <1>1, <2>2, CopiesFacts
    <3> QED
      BY <1>1, <1>3, <3>1 DEF Range
  <2>3. CASE Copies(t, r[i]) # 0
    <3>1. r[i] \in Range(t)
      BY <2>3, CopiesFacts
    <3> QED
      BY <1>4, <3>1 DEF Range
  <2> QED
    BY <2>1, <2>2, <2>3
<1>6. <<v>> \o r \in Seq(Int) /\ Ascends(<<v>> \o r)
  BY <1>1, <1>2, <1>5, AscendsCons
<1>7. ASSUME NEW x PROVE Copies(<<v>> \o r, x) = Copies(s, x) + Copies(t, x)
  <2>1. <<v>> \in Seq(Int) /\ r \in Seq(Int)
    BY <1>1, <1>2
  <2>2. Copies(<<v>> \o r, x) = Copies(<<v>>, x) + Copies(r, x)
    BY ONLY <2>1, CopiesConcat
  <2>3. Copies(<<v>> \o rest, x) = Copies(<<v>>, x) + Copies(rest, x)
    BY <1>1, <2>1, CopiesConcat
  <2>4. Copies(<<v>>, x) \in Nat /\ Copies(rest, x) \in Nat /\ Copies(t, x) \in Nat
    BY <1>1, <2>1, CopiesFacts
  <2>5. Copies(s, x) = Copies(<<v>>, x) + Copies(rest, x)
    BY <1>1, <2>3
  <2>6. Copies(r, x) = Copies(rest, x) + Copies(t, x)
    BY <1>2
  <2> QED
    BY <2>2, <2>4, <2>5, <2>6
<1> QED
  BY <1>6, <1>7 DEF Merges, v

(* What is left of a sequence from place i. *)
From(s, i) == SubSeq(s, i, Len(s))

(* It ascends if the whole does; without its first element it is what is
   left from the next place. *)
LEMMA FromFacts ==
  ASSUME NEW s \in Seq(Int), NEW i \in 1..(Len(s) + 1)
  PROVE  /\ From(s, i) \in Seq(Int)
         /\ Ascends(s) => Ascends(From(s, i))
         /\ From(s, 1) = s
         /\ i = Len(s) + 1 => From(s, i) = <<>>
         /\ i # Len(s) + 1 => /\ From(s, i) # <<>> /\ From(s, i)[1] = s[i]
                              /\ Tail(From(s, i)) = From(s, i + 1)
<1> DEFINE L == Len(s)
           f == From(s, i)
<1>1. L \in Nat /\ DOMAIN s = 1..L /\ s \in [1..L -> Int] /\ i \in Nat
  OBVIOUS
<1>2. f = [k \in 1..(L - i + 1) |-> s[i + k - 1]]
  BY DEF From
<1> HIDE DEF L, f
<1>3. L - i + 1 \in Nat /\ \A k \in 1..(L - i + 1) : i + k - 1 \in 1..L
  BY <1>1 DEF L
<1>4. f \in Seq(Int) /\ Len(f) = L - i + 1
  BY <1>1, <1>2, <1>3
<1>5. Ascends(s) => Ascends(f)
  <2>1. ASSUME Ascends(s), NEW j \in 1..(L - i + 1), NEW k \in 1..(L - i + 1), j < k
        PROVE  f[j] <= f[k]
    <3>1. f[j] = s[i + j - 1] /\ f[k] = s[i + k - 1]
      BY <1>2
    <3>2. i + j - 1 \in 1..L /\ i + k - 1 \in 1..L /\ i + j - 1 < i + k - 1
      BY <1>1, <1>3, <2>1
    <3> QED
      BY <2>1, <3>1, <3>2 DEF Ascends, IsSorted, L
  <2> QED
    BY <1>4, <2>1 DEF Ascends, IsSorted
<1>6. From(s, 1) = s
  <2>1. From(s, 1) = [k \in 1..L |-> s[k]]
    BY <1>1 DEF From, L
  <2> QED
    BY <1>1, <2>1
<1>7. i = L + 1 => f = <<>>
  BY <1>1, <1>4, EmptySeq
<1>8. ASSUME i # L + 1
      PROVE  f # <<>> /\ f[1] = s[i] /\ Tail(f) = From(s, i + 1)
  <2>1. i \in 1..L /\ 1 \in 1..(L - i + 1) /\ i + 1 - 1 = i
    BY <1>1, <1>8 DEF L
  <2>2. f # <<>>
    BY <1>4, <2>1, EmptySeq
  <2>3. f[1] = s[i]
    BY <1>2, <2>1
  <2>4. Tail(f) = [k \in 1..(L - i) |-> s[i + k]]
    <3>1. Tail(f) = [k \in 1..(L - i + 1 - 1) |-> f[k + 1]]
      <4> DEFINE g == Tail(f)
      <4>1. f \in Seq(Int) /\ f # <<>>
        BY <1>4, <2>2
      <4>2. g \in Seq(Int) /\ Len(g) = Len(f) - 1 /\ \A k \in 1..Len(g) : g[k] = f[k + 1]
        BY ONLY <4>1, HeadTailProperties
      <4> HIDE DEF g
      <4>3. g = [k \in 1..Len(g) |-> g[k]]
        BY ONLY <4>2
      <4>4. g = [k \in 1..(L - i + 1 - 1) |-> f[k + 1]]
        <5>1. Len(g) = L - i + 1 - 1
          <6>1. Len(g) = Len(f) - 1
            BY ONLY <4>2
          <6>2. Len(f) = L - i + 1
            BY ONLY <1>4
          <6> QED
            BY ONLY <1>1, <6>1, <6>2 DEF L
        <5>2. \A k \in 1..(L - i + 1 - 1) : g[k] = f[k + 1]
          BY <4>2, <5>1
        <5>3. g = [k \in 1..(L - i + 1 - 1) |-> g[k]]
          BY ONLY <4>3, <5>1
        <5> QED
          BY ONLY <5>2, <5>3
      <4> QED
        BY <4>4 DEF g
    <3>2. L - i + 1 - 1 = L - i
      BY <1>1
    <3>3. \A k \in 1..(L - i) : f[k + 1] = s[i + k]
      <4>1. ASSUME NEW k \in 1..(L - i)
            PROVE  k + 1 \in 1..(L - i + 1) /\ i + (k + 1) - 1 = i + k
        BY <1>1
      <4> QED
        BY <1>2, <4>1
    <3> QED
      BY <3>1, <3>2, <3>3
  <2>5. From(s, i + 1) = [k \in 1..(L - i) |-> s[i + k]]
    <3>1. From(s, i + 1) = [k \in 1..(L - (i + 1) + 1) |-> s[(i + 1) + k - 1]]
      BY <1>1, <2>1 DEF From, L
    <3>2. L - (i + 1) + 1 = L - i /\ \A k \in 1..(L - i) : (i + 1) + k - 1 = i + k
      BY <1>1
    <3> QED
      BY <3>1, <3>2
  <2> QED
    BY <2>2, <2>3, <2>4, <2>5
<1> QED
  BY <1>4, <1>5, <1>6, <1>7, <1>8 DEF f, L

(* f[<<i, j>>] is the merge of a from i and b from j, as MergeTwo recurs. *)
IsMerge(f, a, b) ==
  f = [at \in (1..Len(a) + 1) \X (1..Len(b) + 1) |->
        CASE at[1] > Len(a) -> SubSeq(b, at[2], Len(b))
          [] at[1] <= Len(a) /\ at[2] > Len(b) -> SubSeq(a, at[1], Len(a))
          [] OTHER -> IF a[at[1]] <= b[at[2]] THEN <<a[at[1]]>> \o f[<<at[1] + 1, at[2]>>]
                                              ELSE <<b[at[2]]>> \o f[<<at[1], at[2] + 1>>]]

(* MergeTwo is the recursion's value at <<1, 1>>. *)
LEMMA MergeUnfolds ==
  ASSUME NEW a, NEW b
  PROVE  MergeTwo(a, b) = (CHOOSE f : IsMerge(f, a, b))[<<1, 1>>]
BY DEF MergeTwo, IsMerge

(* The recursion of MergeTwo is well founded. *)
LEMMA MergeExists ==
  ASSUME NEW a \in Seq(Int), NEW b \in Seq(Int)
  PROVE  \E f : IsMerge(f, a, b)
<1> DEFINE A == Len(a)
           B == Len(b)
           D == (1..A + 1) \X (1..B + 1)
           below == [p \in D |-> (A + 1 - p[1]) + (B + 1 - p[2])]
           T == [p \in D |-> Seq(Int)]
           F == {g \in [D -> UNION {T[x] : x \in D}] : \A x \in D : g[x] \in T[x]}
           to(i, j, g) ==
             IF i > A THEN From(b, j)
             ELSE IF j > B THEN From(a, i)
             ELSE IF a[i] <= b[j] THEN <<a[i]>> \o g[<<i + 1, j>>]
                                  ELSE <<b[j]>> \o g[<<i, j + 1>>]
           step == [p \in D \X F |-> to(p[1][1], p[1][2], p[2])]
           alike(g, h, i, j) == \A y \in D : below[y] < below[<<i, j>>] => g[y] = h[y]
<1>1. A \in Nat /\ B \in Nat /\ a \in [1..A -> Int] /\ b \in [1..B -> Int]
  OBVIOUS
<1>2. below \in [D -> Nat]
  <2>1. \A i \in 1..A + 1, j \in 1..B + 1 : (A + 1 - i) + (B + 1 - j) \in Nat
    BY <1>1
  <2> QED
    BY <2>1
<1>3. F = [D -> Seq(Int)]
  <2>1. <<1, 1>> \in D
    BY <1>1
  <2>2. \A x \in D : T[x] = Seq(Int)
    OBVIOUS
  <2> HIDE DEF D, T
  <2> QED
    BY <2>1, <2>2
<1>4. ASSUME NEW i \in 1..A + 1, NEW j \in 1..B + 1, NEW g \in [D -> Seq(Int)]
      PROVE  to(i, j, g) \in Seq(Int)
  <2>1. CASE i > A
    BY <2>1, FromFacts
  <2>2. CASE ~ (i > A) /\ j > B
    BY <2>2, FromFacts
  <2>3. CASE ~ (i > A) /\ ~ (j > B)
    <3>1. i \in 1..A /\ j \in 1..B /\ i + 1 \in 1..A + 1 /\ j + 1 \in 1..B + 1
      BY <1>1, <2>3
    <3>2. <<a[i]>> \in Seq(Int) /\ <<b[j]>> \in Seq(Int)
      BY <1>1, <3>1
    <3>3. g[<<i + 1, j>>] \in Seq(Int) /\ g[<<i, j + 1>>] \in Seq(Int)
      BY <3>1
    <3>4. <<a[i]>> \o g[<<i + 1, j>>] \in Seq(Int) /\ <<b[j]>> \o g[<<i, j + 1>>] \in Seq(Int)
      BY ONLY <3>2, <3>3, ConcatProperties
    <3> QED
      BY <2>3, <3>4
  <2> QED
    BY <2>1, <2>2, <2>3
<1>5. ASSUME NEW i \in 1..A + 1, NEW j \in 1..B + 1, NEW g, NEW h, alike(g, h, i, j)
      PROVE  to(i, j, g) = to(i, j, h)
  <2>1. ASSUME ~ (i > A), ~ (j > B)
        PROVE  g[<<i + 1, j>>] = h[<<i + 1, j>>] /\ g[<<i, j + 1>>] = h[<<i, j + 1>>]
    <3>1. i + 1 \in 1..A + 1 /\ j + 1 \in 1..B + 1
      BY <1>1, <2>1
    <3>2. <<i + 1, j>> \in D /\ <<i, j + 1>> \in D /\ <<i, j>> \in D
      BY <3>1
    <3>3. /\ below[<<i + 1, j>>] = (A + 1 - (i + 1)) + (B + 1 - j)
          /\ below[<<i, j + 1>>] = (A + 1 - i) + (B + 1 - (j + 1))
          /\ below[<<i, j>>] = (A + 1 - i) + (B + 1 - j)
      BY <3>2
    <3>4. below[<<i + 1, j>>] < below[<<i, j>>] /\ below[<<i, j + 1>>] < below[<<i, j>>]
      <4> HIDE DEF below
      <4> QED
        BY <1>1, <3>3
    <3> HIDE DEF below, D
    <3> QED
      BY <1>5, <3>2, <3>4
  <2> QED
    BY <2>1
<1>6. \A x \in D : x = <<x[1], x[2]>> /\ x[1] \in 1..A + 1 /\ x[2] \in 1..B + 1
  OBVIOUS
<1>7. \A x \in D, g \in F : step[x, g] = to(x[1], x[2], g)
  OBVIOUS
<1>8. \A x \in D : T[x] = Seq(Int)
  OBVIOUS
<1>9. A + B + 1 \in Nat /\ \A x \in D : below[x] < A + B + 1
  <2>1. \A i \in 1..A + 1, j \in 1..B + 1 : (A + 1 - i) + (B + 1 - j) < A + B + 1
    BY <1>1
  <2> QED
    BY <1>1, <2>1
<1> HIDE DEF to, step, T, below
<1>10. StaysIn(step, D, F, T)
  <2>1. ASSUME NEW x \in D, NEW g \in F PROVE step[x, g] \in T[x]
    <3>1. PICK i \in 1..A + 1, j \in 1..B + 1 : x = <<i, j>> /\ i = x[1] /\ j = x[2]
      BY <1>6
    <3>2. g \in [D -> Seq(Int)]
      BY <1>3
    <3> HIDE DEF D, F
    <3>3. to(i, j, g) \in Seq(Int)
      BY <1>4, <3>2
    <3> QED
      BY <1>7, <1>8, <3>1, <3>3
  <2> QED
    BY <2>1 DEF StaysIn
<1>11. LooksBelow(step, D, F, below)
  <2>1. ASSUME NEW x \in D, NEW g \in F, NEW h \in F,
               \A y \in D : below[y] < below[x] => g[y] = h[y]
        PROVE  step[x, g] = step[x, h]
    <3>1. PICK i \in 1..A + 1, j \in 1..B + 1 : x = <<i, j>> /\ i = x[1] /\ j = x[2]
      BY <1>6
    <3> HIDE DEF D, F
    <3>2. to(i, j, g) = to(i, j, h)
      <4>1. alike(g, h, i, j)
        BY ONLY <2>1, <3>1
      <4> HIDE DEF alike
      <4> QED
        BY ONLY <1>5, <3>1, <4>1
    <3>3. step[x, g] = to(i, j, g) /\ step[x, h] = to(i, j, h)
      BY <1>7, <3>1
    <3> QED
      BY ONLY <3>2, <3>3
  <2> QED
    BY <2>1 DEF LooksBelow
<1>12. F # {}
  <2>1. [x \in D |-> <<>>] \in [D -> Seq(Int)]
    BY EmptySeq
  <2> QED
    BY <1>3, <2>1
<1>13. \E f \in F : IsBy(f, step, D)
  <2>1. F = {g \in [D -> UNION {T[x] : x \in D}] : \A x \in D : g[x] \in T[x]}
    OBVIOUS
  <2> HIDE DEF D, F
  <2> QED
    BY ONLY <1>2, <1>9, <1>10, <1>11, <1>12, <2>1, RecursionBelow
<1>14. PICK f \in [D -> Seq(Int)] : \A x \in D : f[x] = step[x, f]
  BY <1>3, <1>13 DEF IsBy
<1> DEFINE merged(i, j) ==
             CASE i > A -> SubSeq(b, j, B)
               [] i <= A /\ j > B -> SubSeq(a, i, A)
               [] OTHER -> IF a[i] <= b[j] THEN <<a[i]>> \o f[<<i + 1, j>>]
                                           ELSE <<b[j]>> \o f[<<i, j + 1>>]
<1>15. ASSUME NEW i \in 1..A + 1, NEW j \in 1..B + 1 PROVE f[<<i, j>>] = merged(i, j)
  <2>1. f[<<i, j>>] = to(i, j, f)
    BY <1>3, <1>7, <1>14
  <2>2. i > A \/ i <= A
    BY <1>1
  <2>3. i > A => ~ (i <= A)
    BY <1>1
  <2> QED
    BY <2>1, <2>2, <2>3 DEF to, From
<1>16. f = [x \in D |-> f[x]]
  BY <1>14
<1>17. IsMerge(f, a, b)
  <2>1. ASSUME NEW x \in D PROVE f[x] = merged(x[1], x[2])
    <3>1. x = <<x[1], x[2]>> /\ x[1] \in 1..A + 1 /\ x[2] \in 1..B + 1
      OBVIOUS
    <3>2. f[<<x[1], x[2]>>] = merged(x[1], x[2])
      BY <1>15, <3>1
    <3> HIDE DEF A, B, D, merged
    <3> QED
      BY <3>1, <3>2
  <2> QED
    BY <1>16, <2>1 DEF IsMerge
<1> QED
  BY <1>17

(* Which of the two is the first does not matter. *)
LEMMA MergesSwap ==
  ASSUME NEW s \in Seq(Int), NEW t \in Seq(Int), NEW r, Merges(r, s, t)
  PROVE  Merges(r, t, s)
<1>1. \A x : Copies(s, x) \in Nat
  BY CopiesFacts
<1>2. \A x : Copies(t, x) \in Nat
  BY CopiesFacts
<1>3. \A x : Copies(s, x) + Copies(t, x) = Copies(t, x) + Copies(s, x)
  BY <1>1, <1>2
<1> QED
  BY <1>3 DEF Merges

(* mergeTwo merges two ascending sequences. *)
LEMMA MergeTwoMerges ==
  ASSUME NEW a \in Seq(Int), NEW b \in Seq(Int), Ascends(a), Ascends(b)
  PROVE  Merges(MergeTwo(a, b), a, b)
<1> DEFINE A == Len(a)
           B == Len(b)
           f == CHOOSE g : IsMerge(g, a, b)
           N == {k \in Nat : \A i \in 1..A + 1, j \in 1..B + 1 :
                   (A + 1 - i) + (B + 1 - j) <= k => Merges(f[<<i, j>>], From(a, i), From(b, j))}
<1>1. A \in Nat /\ B \in Nat
  OBVIOUS
<1>2. IsMerge(f, a, b)
  <2>1. \E g : IsMerge(g, a, b)
    BY MergeExists
  <2> QED
    BY <2>1
<1> HIDE DEF f
<1>3. ASSUME NEW i \in 1..A + 1, NEW j \in 1..B + 1
      PROVE  /\ i = A + 1 => f[<<i, j>>] = From(b, j)
             /\ i # A + 1 /\ j = B + 1 => f[<<i, j>>] = From(a, i)
             /\ i # A + 1 /\ j # B + 1 /\ a[i] <= b[j] =>
                  f[<<i, j>>] = <<a[i]>> \o f[<<i + 1, j>>]
             /\ i # A + 1 /\ j # B + 1 /\ ~ (a[i] <= b[j]) =>
                  f[<<i, j>>] = <<b[j]>> \o f[<<i, j + 1>>]
  <2>1. f[<<i, j>>] = CASE i > A -> SubSeq(b, j, B)
                        [] i <= A /\ j > B -> SubSeq(a, i, A)
                        [] OTHER -> IF a[i] <= b[j] THEN <<a[i]>> \o f[<<i + 1, j>>]
                                                    ELSE <<b[j]>> \o f[<<i, j + 1>>]
    BY <1>2 DEF IsMerge
  <2>2. (i = A + 1 <=> i > A) /\ (j = B + 1 <=> j > B) /\ (i # A + 1 <=> i <= A)
        /\ (i > A <=> ~ (i <= A))
    BY <1>1
  <2> HIDE DEF A, B
  <2>3. /\ i > A => f[<<i, j>>] = SubSeq(b, j, B)
        /\ i <= A /\ j > B => f[<<i, j>>] = SubSeq(a, i, A)
        /\ i <= A /\ ~ (j > B) /\ a[i] <= b[j] => f[<<i, j>>] = <<a[i]>> \o f[<<i + 1, j>>]
        /\ i <= A /\ ~ (j > B) /\ ~ (a[i] <= b[j]) =>
             f[<<i, j>>] = <<b[j]>> \o f[<<i, j + 1>>]
    BY <2>1, <2>2
  <2> QED
    BY <2>2, <2>3 DEF From, A, B
<1>4. ASSUME NEW i \in 1..A + 1 PROVE From(a, i) \in Seq(Int) /\ Ascends(From(a, i))
  BY FromFacts
<1>5. ASSUME NEW j \in 1..B + 1 PROVE From(b, j) \in Seq(Int) /\ Ascends(From(b, j))
  BY FromFacts
<1>6. ASSUME NEW i \in 1..A + 1, NEW j \in 1..B + 1, i = A + 1 \/ j = B + 1
      PROVE  Merges(f[<<i, j>>], From(a, i), From(b, j))
  <2>1. \A x : Copies(<<>>, x) = 0
    BY CopiesOfNothing
  <2>2. CASE i = A + 1
    <3>1. f[<<i, j>>] = From(b, j) /\ From(a, i) = <<>>
      BY <1>3, <2>2, FromFacts
    <3>2. \A x : Copies(From(b, j), x) \in Nat
      BY <1>5, CopiesFacts
    <3>3. \A x : Copies(From(b, j), x) = Copies(<<>>, x) + Copies(From(b, j), x)
      BY <2>1, <3>2
    <3> QED
      BY <1>5, <3>1, <3>3 DEF Merges
  <2>3. CASE i # A + 1 /\ j = B + 1
    <3>1. f[<<i, j>>] = From(a, i) /\ From(b, j) = <<>>
      BY <1>3, <2>3, FromFacts
    <3>2. \A x : Copies(From(a, i), x) \in Nat
      BY <1>4, CopiesFacts
    <3>3. \A x : Copies(From(a, i), x) = Copies(From(a, i), x) + Copies(<<>>, x)
      BY <2>1, <3>2
    <3> QED
      BY <1>4, <3>1, <3>3 DEF Merges
  <2> QED
    BY <1>6, <2>2, <2>3
<1>7. 0 \in N
  <2>1. ASSUME NEW i \in 1..A + 1, NEW j \in 1..B + 1, (A + 1 - i) + (B + 1 - j) <= 0
        PROVE  i = A + 1
    BY <1>1, <2>1
  <2>2. ASSUME NEW i \in 1..A + 1, NEW j \in 1..B + 1, (A + 1 - i) + (B + 1 - j) <= 0
        PROVE  Merges(f[<<i, j>>], From(a, i), From(b, j))
    <3>1. i = A + 1
      BY <2>1, <2>2
    <3> QED
      BY <1>6, <3>1
  <2> QED
    BY <2>2
<1>8. ASSUME NEW k \in Nat, k \in N PROVE k + 1 \in N
  <2>1. ASSUME NEW i \in 1..A + 1, NEW j \in 1..B + 1,
               (A + 1 - i) + (B + 1 - j) <= k + 1
        PROVE  Merges(f[<<i, j>>], From(a, i), From(b, j))
    <3>1. CASE i = A + 1 \/ j = B + 1
      BY <1>6, <3>1
    <3>2. CASE i # A + 1 /\ j # B + 1
      <4> DEFINE s == From(a, i)
                 t == From(b, j)
      <4>1. i + 1 \in 1..A + 1 /\ j + 1 \in 1..B + 1 /\ i \in 1..A /\ j \in 1..B
        BY <1>1, <3>2
      <4>2. /\ (A + 1 - (i + 1)) + (B + 1 - j) <= k
            /\ (A + 1 - i) + (B + 1 - (j + 1)) <= k
        BY <1>1, <2>1
      <4>3. /\ s # <<>> /\ s[1] = a[i] /\ Tail(s) = From(a, i + 1)
            /\ s \in Seq(Int) /\ Ascends(s)
        BY <1>4, <3>2, FromFacts
      <4>4. /\ t # <<>> /\ t[1] = b[j] /\ Tail(t) = From(b, j + 1)
            /\ t \in Seq(Int) /\ Ascends(t)
        BY <1>5, <3>2, FromFacts
      <4>5. a[i] \in Int /\ b[j] \in Int
        BY <4>1
      <4>6. CASE a[i] <= b[j]
        <5>1. Merges(f[<<i + 1, j>>], Tail(s), t)
          <6>1. Merges(f[<<i + 1, j>>], From(a, i + 1), From(b, j))
            BY <1>8, <4>1, <4>2
          <6> QED
            BY <4>3, <6>1
        <5>2. f[<<i, j>>] = <<s[1]>> \o f[<<i + 1, j>>]
          BY <1>3, <3>2, <4>3, <4>6
        <5> HIDE DEF s, t
        <5>3. Merges(<<s[1]>> \o f[<<i + 1, j>>], s, t)
          BY <4>3, <4>4, <4>6, <5>1, MergesCons
        <5> QED
          BY <5>2, <5>3 DEF s, t
      <4>7. CASE ~ (a[i] <= b[j])
        <5>1. Merges(f[<<i, j + 1>>], Tail(t), s)
          <6>1. Merges(f[<<i, j + 1>>], From(a, i), From(b, j + 1))
            BY <1>8, <4>1, <4>2
          <6>2. Merges(f[<<i, j + 1>>], s, Tail(t))
            BY <4>4, <6>1
          <6>3. Tail(t) \in Seq(Int)
            BY <1>5, <4>1, <4>4
          <6> HIDE DEF s, t
          <6> QED
            BY <4>3, <6>2, <6>3, MergesSwap
        <5>2. f[<<i, j>>] = <<t[1]>> \o f[<<i, j + 1>>]
          BY <1>3, <3>2, <4>4, <4>7
        <5> HIDE DEF s, t
        <5>3. t[1] <= s[1]
          <6>1. b[j] <= a[i]
            BY <4>5, <4>7
          <6> QED
            BY <4>3, <4>4, <6>1
        <5>4. Merges(<<t[1]>> \o f[<<i, j + 1>>], t, s)
          BY <4>3, <4>4, <5>1, <5>3, MergesCons
        <5>5. Merges(<<t[1]>> \o f[<<i, j + 1>>], s, t)
          BY <4>3, <4>4, <5>4, MergesSwap
        <5> QED
          BY <5>2, <5>5 DEF s, t
      <4> QED
        BY <4>6, <4>7
    <3> QED
      BY <3>1, <3>2
  <2> QED
    BY <2>1
<1> HIDE DEF N
<1>9. Nat \subseteq N
  BY <1>7, <1>8, InductiveSet
<1>10. A + B \in N /\ (A + 1 - 1) + (B + 1 - 1) <= A + B /\ 1 \in 1..A + 1 /\ 1 \in 1..B + 1
  <2>1. A + B \in Nat /\ (A + 1 - 1) + (B + 1 - 1) <= A + B /\ 1 \in 1..A + 1 /\ 1 \in 1..B + 1
    BY <1>1
  <2> QED
    BY <1>9, <2>1
<1>11. Merges(f[<<1, 1>>], From(a, 1), From(b, 1))
  BY <1>10 DEF N
<1>12. From(a, 1) = a /\ From(b, 1) = b
  BY <1>10, FromFacts
<1>13. MergeTwo(a, b) = f[<<1, 1>>]
  BY MergeUnfolds DEF f
<1> QED
  BY <1>11, <1>12, <1>13

(* The ascending sequences of integers. *)
Ascending == {s \in Seq(Int) : Ascends(s)}

(* f[k][lo] is the merge of k of the answers from the one at lo, as
   AggregateSort recurs. *)
IsMergeAll(f, outs) ==
  f = [k \in 0..Len(outs) |->
        [lo \in 1..Len(outs) - k + 1 |->
          CASE k = 0 -> <<>>
            [] k = 1 -> outs[lo]
            [] OTHER -> MergeTwo(f[k \div 2][lo], f[k - k \div 2][lo + k \div 2])]]

(* AggregateSort is the recursion's value at all the answers. *)
LEMMA MergeAllUnfolds ==
  ASSUME NEW outs
  PROVE  AggregateSort(outs) = (CHOOSE f : IsMergeAll(f, outs))[Len(outs)][1]
BY DEF AggregateSort, IsMergeAll

(* Two or more halve into two smaller parts. *)
LEMMA HalfFacts ==
  ASSUME NEW k \in Nat, k # 0, k # 1
  PROVE  /\ k \div 2 \in Nat /\ k \div 2 < k /\ k \div 2 # 0
         /\ k - k \div 2 \in Nat /\ k - k \div 2 < k
OBVIOUS

(* Nothing ascends. *)
LEMMA NothingAscends == <<>> \in Seq(Int) /\ Ascends(<<>>)
<1>1. <<>> \in Seq(Int) /\ Len(<<>>) = 0
  OBVIOUS
<1>2. \A i \in 1..0 : FALSE
  OBVIOUS
<1> QED
  BY <1>1, <1>2 DEF Ascends, IsSorted

(* The recursion of AggregateSort is well founded. *)
LEMMA MergeAllExists ==
  ASSUME NEW outs \in Seq(Ascending)
  PROVE  \E f : IsMergeAll(f, outs)
<1> DEFINE L == Len(outs)
           D == 0..L
           below == [k \in D |-> k]
           T == [k \in D |-> [1..L - k + 1 -> Ascending]]
           F == {g \in [D -> UNION {T[x] : x \in D}] : \A x \in D : g[x] \in T[x]}
           at(k, lo, a, b) == CASE k = 0 -> <<>>
                                [] k = 1 -> outs[lo]
                                [] OTHER -> MergeTwo(a[lo], b[lo + k \div 2])
           to(k, g) == [lo \in 1..L - k + 1 |-> at(k, lo, g[k \div 2], g[k - k \div 2])]
           step == [p \in D \X F |-> to(p[1], p[2])]
<1>1. L \in Nat /\ \A i \in 1..L : outs[i] \in Ascending
  OBVIOUS
<1> HIDE DEF L
<1>2. below \in [D -> Nat] /\ L + 1 \in Nat /\ \A x \in D : below[x] < L + 1
  BY <1>1
<1>3. \A k \in D : below[k] = k /\ T[k] = [1..L - k + 1 -> Ascending]
  OBVIOUS
<1>4. ASSUME NEW k \in D, k # 0, k # 1
      PROVE  /\ k \div 2 \in D /\ k - k \div 2 \in D
             /\ k \div 2 < k /\ k - k \div 2 < k
             /\ \A lo \in 1..L - k + 1 : /\ lo \in 1..L - k \div 2 + 1
                                         /\ lo + k \div 2 \in 1..L - (k - k \div 2) + 1
  <2>1. k \in Nat /\ k <= L
    BY <1>1
  <2> DEFINE h == k \div 2
  <2>2. h \in Nat /\ h < k /\ h # 0 /\ k - h \in Nat /\ k - h < k
    BY <1>4, <2>1, HalfFacts
  <2> HIDE DEF h
  <2>3. h \in D /\ k - h \in D
    BY <1>1, <2>1, <2>2
  <2>4. \A lo \in 1..L - k + 1 : lo \in 1..L - h + 1 /\ lo + h \in 1..L - (k - h) + 1
    BY <1>1, <2>1, <2>2
  <2> QED
    BY <2>2, <2>3, <2>4 DEF h
<1>5. <<>> \in Ascending
  BY NothingAscends DEF Ascending
<1>6. ASSUME NEW k \in D, NEW g \in F PROVE to(k, g) \in T[k]
  <2>1. ASSUME NEW lo \in 1..L - k + 1, k # 0, k # 1
        PROVE  MergeTwo(g[k \div 2][lo], g[k - k \div 2][lo + k \div 2]) \in Ascending
    <3> DEFINE a == g[k \div 2][lo]
               b == g[k - k \div 2][lo + k \div 2]
    <3>1. g[k \div 2] \in T[k \div 2] /\ g[k - k \div 2] \in T[k - k \div 2]
      BY <1>4, <2>1
    <3>2. /\ g[k \div 2] \in [1..L - k \div 2 + 1 -> Ascending]
          /\ g[k - k \div 2] \in [1..L - (k - k \div 2) + 1 -> Ascending]
      BY <1>3, <1>4, <2>1, <3>1
    <3>3. a \in Ascending /\ b \in Ascending
      BY <1>4, <2>1, <3>2
    <3> HIDE DEF a, b
    <3>4. Merges(MergeTwo(a, b), a, b)
      BY <3>3, MergeTwoMerges DEF Ascending
    <3>5. MergeTwo(a, b) \in Ascending
      BY <3>4 DEF Merges, Ascending
    <3> QED
      BY <3>5 DEF a, b
  <2>2. ASSUME NEW lo \in 1..L - k + 1, k = 1 PROVE outs[lo] \in Ascending
    <3>1. lo \in 1..L
      BY <1>1, <2>2
    <3> QED
      BY <1>1, <3>1
  <2>3. to(k, g) \in [1..L - k + 1 -> Ascending]
    <3>1. ASSUME NEW lo \in 1..L - k + 1 PROVE to(k, g)[lo] \in Ascending
      <4>1. to(k, g)[lo] = CASE k = 0 -> <<>>
                             [] k = 1 -> outs[lo]
                             [] OTHER -> MergeTwo(g[k \div 2][lo],
                                                  g[k - k \div 2][lo + k \div 2])
        OBVIOUS
      <4>2. CASE k = 0
        <5>1. to(k, g)[lo] = <<>>
          BY <4>1, <4>2
        <5> QED
          BY <1>5, <5>1
      <4>3. CASE k = 1
        BY <2>2, <4>1, <4>3
      <4>4. CASE k # 0 /\ k # 1
        BY <2>1, <4>1, <4>4
      <4> QED
        BY <4>2, <4>3, <4>4
    <3>2. to(k, g) = [lo \in 1..L - k + 1 |-> to(k, g)[lo]]
      OBVIOUS
    <3> HIDE DEF to
    <3> QED
      BY <3>1, <3>2
  <2> HIDE DEF to, T
  <2> QED
    BY <1>3, <2>3
<1>7. ASSUME NEW k \in D, NEW g \in F, NEW h \in F,
             \A y \in D : below[y] < below[k] => g[y] = h[y]
      PROVE  to(k, g) = to(k, h)
  <2>1. ASSUME k # 0, k # 1
        PROVE  g[k \div 2] = h[k \div 2] /\ g[k - k \div 2] = h[k - k \div 2]
    BY <1>3, <1>4, <1>7, <2>1
  <2>2. CASE k = 0 \/ k = 1
    <3>1. \A lo, a, b, c, d : at(k, lo, a, b) = at(k, lo, c, d)
      BY <2>2
    <3> HIDE DEF at
    <3> QED
      BY <3>1
  <2>3. CASE k # 0 /\ k # 1
    <3> HIDE DEF at
    <3> QED
      BY <2>1, <2>3
  <2> QED
    BY <2>2, <2>3
<1>8. \A x \in D, g \in F : step[x, g] = to(x, g)
  <2> HIDE DEF to, D, F
  <2> QED
    OBVIOUS
<1> HIDE DEF to, step, T, below
<1>9. StaysIn(step, D, F, T)
  BY <1>6, <1>8 DEF StaysIn
<1>10. LooksBelow(step, D, F, below)
  <2>1. ASSUME NEW x \in D, NEW g \in F, NEW h \in F,
               \A y \in D : below[y] < below[x] => g[y] = h[y]
        PROVE  step[x, g] = step[x, h]
    <3>1. to(x, g) = to(x, h)
      BY <1>7, <2>1
    <3> QED
      BY <1>8, <3>1
  <2> QED
    BY <2>1 DEF LooksBelow
<1>11. F # {}
  <2> DEFINE g == [k \in D |-> [lo \in 1..L - k + 1 |-> <<>>]]
  <2>1. \A k \in D : g[k] \in T[k]
    BY <1>3, <1>5
  <2>2. \A k \in D : g[k] \in UNION {T[x] : x \in D}
    BY <2>1
  <2>3. g \in [D -> UNION {T[x] : x \in D}]
    <3> HIDE DEF D
    <3>1. g = [k \in D |-> g[k]]
      OBVIOUS
    <3> HIDE DEF g
    <3> QED
      BY <2>2, <3>1
  <2> HIDE DEF g
  <2> QED
    BY <2>1, <2>3
<1>12. PICK f \in F : IsBy(f, step, D)
  <2>1. F = {g \in [D -> UNION {T[x] : x \in D}] : \A x \in D : g[x] \in T[x]}
    OBVIOUS
  <2> HIDE DEF D, F
  <2> QED
    BY ONLY <1>2, <1>9, <1>10, <1>11, <2>1, RecursionBelow
<1>13. \A k \in D : f[k] = to(k, f)
  BY <1>8, <1>12 DEF IsBy
<1>14. f = [k \in D |-> f[k]]
  OBVIOUS
<1>15. IsMergeAll(f, outs)
  <2>1. f = [k \in D |-> to(k, f)]
    BY <1>13, <1>14
  <2> QED
    BY <2>1 DEF IsMergeAll, to, L
<1> QED
  BY <1>15

(* The merge of two sorted chunks is a sort of both. *)
LEMMA MergeSorts ==
  ASSUME NEW a, NEW b, NEW s \in Seq(Int), NEW t \in Seq(Int), IsSortOf(a, s), IsSortOf(b, t)
  PROVE  IsSortOf(MergeTwo(a, b), s \o t)
<1>1. /\ a \in Seq(Int) /\ Ascends(a) /\ \A x : Copies(a, x) = Copies(s, x)
      /\ b \in Seq(Int) /\ Ascends(b) /\ \A x : Copies(b, x) = Copies(t, x)
  BY DEF IsSortOf
<1> DEFINE r == MergeTwo(a, b)
<1>2. Merges(r, a, b)
  BY <1>1, MergeTwoMerges
<1> HIDE DEF r
<1>3. r \in Seq(Int) /\ Ascends(r) /\ \A x : Copies(r, x) = Copies(a, x) + Copies(b, x)
  BY <1>2 DEF Merges
<1>4. \A x : Copies(s \o t, x) = Copies(s, x) + Copies(t, x)
  BY CopiesConcat
<1> QED
  BY <1>1, <1>3, <1>4 DEF IsSortOf, r

(* mergeKSorted makes of sorted chunks a sort of the whole. *)
LEMMA AggregateSorts ==
  ASSUME NEW ss \in Seq(Seq(Int)), NEW outs,
         outs = [i \in 1..Len(ss) |-> outs[i]],
         \A i \in 1..Len(ss) : IsSortOf(outs[i], ss[i])
  PROVE  IsSortOf(AggregateSort(outs), FlattenSeq(ss))
<1> DEFINE L == Len(ss)
           f == CHOOSE g : IsMergeAll(g, outs)
           N == {m \in Nat : \A k \in 0..L : k <= m =>
                   \A lo \in 1..L - k + 1 : IsSortOf(f[k][lo], Part(ss, lo, k))}
<1>0. PartsJoin(ss, Int)
  BY PartSplits
<1>1. L \in Nat /\ ss \in [1..L -> Seq(Int)]
  OBVIOUS
<1>2. outs \in Seq(Ascending) /\ Len(outs) = L
  <2>1. \A i \in 1..L : outs[i] \in Ascending
    BY DEF IsSortOf, Ascending
  <2> HIDE DEF L
  <2>2. outs \in [1..L -> Ascending]
    BY <2>1 DEF L
  <2>3. L \in Nat
    BY <1>1
  <2> QED
    BY ONLY <2>2, <2>3
<1>3. IsMergeAll(f, outs)
  <2>1. \E g : IsMergeAll(g, outs)
    BY <1>2, MergeAllExists
  <2> QED
    BY <2>1
<1> HIDE DEF f
<1>4. ASSUME NEW k \in 0..L, NEW lo \in 1..L - k + 1
      PROVE  /\ k = 0 => f[k][lo] = <<>>
             /\ k = 1 => f[k][lo] = outs[lo]
             /\ k # 0 /\ k # 1 =>
                  f[k][lo] = MergeTwo(f[k \div 2][lo], f[k - k \div 2][lo + k \div 2])
  <2>1. f[k][lo] = CASE k = 0 -> <<>>
                     [] k = 1 -> outs[lo]
                     [] OTHER -> MergeTwo(f[k \div 2][lo], f[k - k \div 2][lo + k \div 2])
    <3>1. f = [m \in 0..L |->
                [l \in 1..L - m + 1 |->
                  CASE m = 0 -> <<>>
                    [] m = 1 -> outs[l]
                    [] OTHER -> MergeTwo(f[m \div 2][l], f[m - m \div 2][l + m \div 2])]]
      BY <1>2, <1>3 DEF IsMergeAll
    <3>2. f[k] = [l \in 1..L - k + 1 |->
                   CASE k = 0 -> <<>>
                     [] k = 1 -> outs[l]
                     [] OTHER -> MergeTwo(f[k \div 2][l], f[k - k \div 2][l + k \div 2])]
      <4> HIDE DEF L
      <4> QED
        BY ONLY <3>1, k \in 0..L
    <3> QED
      <4> HIDE DEF L
      <4> QED
        BY ONLY <3>2, lo \in 1..L - k + 1
  <2> QED
    BY <2>1
<1>5. ASSUME NEW k \in 0..L, NEW lo \in 1..L - k + 1, k = 0 \/ k = 1
      PROVE  IsSortOf(f[k][lo], Part(ss, lo, k))
  <2>1. lo \in 1..L + 1 /\ (k = 1 => lo \in 1..L /\ lo # L + 1)
    BY <1>1, <1>5
  <2>2. CASE k = 0
    <3>1. f[k][lo] = <<>> /\ Part(ss, lo, k) = <<>>
      BY <1>4, <2>1, <2>2, PartFacts
    <3>2. IsSortOf(<<>>, <<>>)
      BY NothingAscends DEF IsSortOf
    <3> QED
      BY <3>1, <3>2
  <2>3. CASE k = 1
    <3>1. f[k][lo] = outs[lo] /\ Part(ss, lo, k) = ss[lo]
      BY <1>4, <2>1, <2>3, PartFacts
    <3> QED
      BY <2>1, <2>3, <3>1
  <2> QED
    BY <1>5, <2>2, <2>3
<1>6. 0 \in N
  <2>1. ASSUME NEW k \in 0..L, k <= 0, NEW lo \in 1..L - k + 1
        PROVE  IsSortOf(f[k][lo], Part(ss, lo, k))
    <3>1. k = 0
      BY <2>1
    <3> QED
      BY <1>5, <3>1
  <2> HIDE DEF L
  <2> QED
    BY <2>1
<1>7. ASSUME NEW m \in Nat, m \in N PROVE m + 1 \in N
  <2>1. ASSUME NEW k \in 0..L, k <= m + 1, NEW lo \in 1..L - k + 1
        PROVE  IsSortOf(f[k][lo], Part(ss, lo, k))
    <3>1. CASE k = 0 \/ k = 1
      BY <1>5, <3>1
    <3>2. CASE k # 0 /\ k # 1
      <4> DEFINE h == k \div 2
      <4>1. k \in Nat /\ k <= L
        BY <1>1
      <4>2. h \in Nat /\ h < k /\ h # 0 /\ k - h \in Nat /\ k - h < k
        BY <3>2, <4>1, HalfFacts
      <4>3. f[k][lo] = MergeTwo(f[h][lo], f[k - h][lo + h])
        BY <1>4, <3>2
      <4> HIDE DEF h, L
      <4>4. /\ h \in 0..L /\ h <= m /\ lo \in 1..L - h + 1
            /\ k - h \in 0..L /\ k - h <= m /\ lo + h \in 1..L - (k - h) + 1
        <5>1. h <= m /\ k - h <= m
          BY <2>1, <4>1, <4>2
        <5>2. h \in 0..L /\ k - h \in 0..L
          BY <1>1, <4>1, <4>2
        <5>4. lo \in Nat \ {0} /\ lo <= L - k + 1
          BY <1>1, <4>1
        <5>3. lo \in 1..L - h + 1 /\ lo + h \in 1..L - (k - h) + 1
          BY ONLY <1>1, <4>1, <4>2, <5>4
        <5> QED
          BY <5>1, <5>2, <5>3
      <4>5. IsSortOf(f[h][lo], Part(ss, lo, h))
        BY <1>7, <4>4
      <4>6. IsSortOf(f[k - h][lo + h], Part(ss, lo + h, k - h))
        BY <1>7, <4>4
      <4>7. /\ Part(ss, lo, h) \in Seq(Int) /\ Part(ss, lo + h, k - h) \in Seq(Int)
            /\ Part(ss, lo, k) = Part(ss, lo, h) \o Part(ss, lo + h, k - h)
        <5>2. lo \in Nat \ {0} /\ lo <= L - k + 1
          BY <1>1, <4>1
        <5>3. h <= k /\ lo + k - 1 <= L
          BY ONLY <1>1, <4>1, <4>2, <5>2
        <5>1. lo \in Nat \ {0} /\ h <= k /\ lo + k - 1 <= Len(ss)
          BY <5>2, <5>3 DEF L
        <5>4. k \in Nat /\ h \in Nat
          BY <4>1, <4>2
        <5> QED
          BY ONLY <1>0, <5>1, <5>4 DEF PartsJoin
      <4>8. IsSortOf(MergeTwo(f[h][lo], f[k - h][lo + h]),
                     Part(ss, lo, h) \o Part(ss, lo + h, k - h))
        BY <4>5, <4>6, <4>7, MergeSorts
      <4> QED
        BY <4>3, <4>7, <4>8
    <3> QED
      BY <3>1, <3>2
  <2>2. m + 1 \in Nat
    BY ONLY m \in Nat
  <2> HIDE DEF L
  <2> QED
    BY ONLY <2>1, <2>2
<1> HIDE DEF N
<1>8. L \in N
  BY <1>1, <1>6, <1>7, InductiveSet
<1>9. 1 \in 1..L - L + 1 /\ L \in 0..L /\ L <= L /\ 1 \in 1..L + 1
  BY <1>1
<1>10. IsSortOf(f[L][1], Part(ss, 1, L))
  <2> HIDE DEF L
  <2> QED
    BY <1>8, <1>9 DEF N
<1>11. Part(ss, 1, L) = FlattenSeq(ss)
  BY <1>9, PartFacts
<1>12. AggregateSort(outs) = f[L][1]
  BY <1>2, MergeAllUnfolds DEF f
<1> QED
  BY <1>10, <1>11, <1>12

-----------------------------------------------------------------------------
(* How many values of f are less than x. *)
Lower(f, x) == Cardinality({i \in DOMAIN f : f[i] < x})

(* And how many are not greater. *)
Upto(f, x) == Cardinality({i \in DOMAIN f : f[i] <= x})

(* f has finitely many values, all integers. *)
Numbers(f) ==
  /\ IsFiniteSet(DOMAIN f) /\ f = [i \in DOMAIN f |-> f[i]]
  /\ \A i \in DOMAIN f : f[i] \in Int

(* The values up to x are those below it and x itself. *)
LEMMA CountsOf ==
  ASSUME NEW f, Numbers(f), NEW x \in Int
  PROVE  /\ Lower(f, x) \in Nat /\ Copies(f, x) \in Nat /\ Upto(f, x) \in Nat
         /\ Cardinality(DOMAIN f) \in Nat
         /\ Upto(f, x) = Lower(f, x) + Copies(f, x)
         /\ Upto(f, x) <= Cardinality(DOMAIN f)
<1> DEFINE D == DOMAIN f
           A == {i \in D : f[i] < x}
           B == {i \in D : f[i] = x}
           C == {i \in D : f[i] <= x}
<1>1. IsFiniteSet(D) /\ \A i \in D : f[i] \in Int
  BY DEF Numbers
<1>2. A \subseteq D /\ B \subseteq D /\ C \subseteq D
  OBVIOUS
<1>3. C = A \cup B /\ A \cap B = {}
  BY <1>1
<1>4. Lower(f, x) = Cardinality(A) /\ Copies(f, x) = Cardinality(B) /\ Upto(f, x) = Cardinality(C)
  BY DEF Lower, Copies, Upto, Places
<1> HIDE DEF A, B, C, D
<1>5. IsFiniteSet(A) /\ IsFiniteSet(B) /\ IsFiniteSet(C) /\ Cardinality(C) <= Cardinality(D)
  BY <1>1, <1>2, FS_Subset
<1>6. Cardinality(A) \in Nat /\ Cardinality(B) \in Nat /\ Cardinality(C) \in Nat /\ Cardinality(D) \in Nat
  BY <1>1, <1>5, FS_CardinalityType
<1>7. Cardinality(A \cap B) = 0
  BY <1>3, FS_EmptySet
<1>8. Cardinality(A \cup B) = Cardinality(A) + Cardinality(B) - Cardinality(A \cap B)
  BY <1>5, FS_Union
<1>9. Cardinality(C) = Cardinality(A) + Cardinality(B)
  BY <1>3, <1>6, <1>7, <1>8
<1> QED
  BY <1>4, <1>5, <1>6, <1>9 DEF D

(* All copies of a number come before those of a greater one. *)
LEMMA CountsRise ==
  ASSUME NEW f, Numbers(f), NEW x \in Int, NEW y \in Int, x < y
  PROVE  Upto(f, x) <= Lower(f, y)
<1> DEFINE A == {i \in DOMAIN f : f[i] <= x}
           B == {i \in DOMAIN f : f[i] < y}
<1>1. A \subseteq B /\ B \subseteq DOMAIN f
  BY DEF Numbers
<1> HIDE DEF A, B
<1>2. IsFiniteSet(B)
  BY <1>1, FS_Subset DEF Numbers
<1>3. Cardinality(A) <= Cardinality(B)
  BY <1>1, <1>2, FS_Subset
<1> QED
  BY <1>3 DEF A, B, Lower, Upto

(* There are finitely many values. *)
LEMMA RangeFinite ==
  ASSUME NEW f, Numbers(f)
  PROVE  IsFiniteSet(Range(f)) /\ Range(f) \subseteq Int
<1>1. f \in Surjection(DOMAIN f, Range(f))
  BY DEF Numbers, Range, Surjection
<1>2. IsFiniteSet(Range(f))
  BY <1>1, FS_Surjection DEF Numbers
<1> QED
  BY <1>2 DEF Numbers, Range

(* x is at place k of the values in order. *)
IsAt(f, x, k) == Lower(f, x) < k /\ k <= Upto(f, x)

(* Every place has a value: the least one up to which there are enough. *)
LEMMA PlaceExists ==
  ASSUME NEW f, Numbers(f), NEW k \in 1..Cardinality(DOMAIN f)
  PROVE  \E x \in Range(f) : IsAt(f, x, k)
<1> DEFINE L == Cardinality(DOMAIN f)
           R == Range(f)
           S == {x \in R : k <= Upto(f, x)}
<1>1. /\ IsFiniteSet(R) /\ R \subseteq Int /\ L \in Nat
      /\ \A i \in DOMAIN f : f[i] \in R /\ f[i] \in Int
  <2>1. \A i \in DOMAIN f : f[i] \in R /\ f[i] \in Int
    BY DEF Range, Numbers
  <2>2. L \in Nat
    BY FS_CardinalityType DEF Numbers
  <2> QED
    BY <2>1, <2>2, RangeFinite
<1>2. \A x \in R : \E i \in DOMAIN f : f[i] = x
  BY DEF Range
<1>3. k \in Nat /\ 1 <= k /\ k <= L
  BY <1>1
<1> HIDE DEF L, R
<1>4. R # {}
  <2>1. DOMAIN f # {}
    BY <1>3, FS_EmptySet DEF L
  <2> QED
    BY <1>1, <2>1
<1>5. S # {}
  <2>1. PICK x \in R : \A y \in R : y <= x
    BY <1>1, <1>4, FiniteMax
  <2>2. {i \in DOMAIN f : f[i] <= x} = DOMAIN f
    BY <1>1, <2>1
  <2>3. Upto(f, x) = L
    BY <2>2 DEF Upto, L
  <2> QED
    BY <1>3, <2>3
<1>6. IsFiniteSet(S) /\ S \subseteq Int
  <2>1. S \subseteq R
    OBVIOUS
  <2> HIDE DEF S
  <2> QED
    BY <1>1, <2>1, FS_Subset
<1>7. PICK x \in S : \A y \in S : x <= y
  <2> HIDE DEF S
  <2> QED
    BY <1>5, <1>6, FiniteMax
<1>8. x \in Int /\ x \in R /\ k <= Upto(f, x)
  BY <1>1, <1>7
<1>9. Lower(f, x) \in Nat
  BY <1>8, CountsOf
<1>10. ASSUME k <= Lower(f, x) PROVE FALSE
  <2> DEFINE P == {i \in DOMAIN f : f[i] < x}
             B == {y \in R : y < x}
  <2>1. Lower(f, x) = Cardinality(P)
    BY DEF Lower
  <2>2. P # {}
    <3>1. Cardinality(P) # 0
      BY <1>3, <1>9, <1>10, <2>1
    <3> HIDE DEF P
    <3> QED
      BY <3>1, FS_EmptySet
  <2>3. B # {}
    BY <1>1, <2>2
  <2>4. B \subseteq R
    OBVIOUS
  <2>5. PICK y \in B : \A z \in B : z <= y
    <3> HIDE DEF B
    <3>1. IsFiniteSet(B) /\ B \subseteq Int
      BY <1>1, <2>4, FS_Subset
    <3> QED
      BY <2>3, <3>1, FiniteMax
  <2>6. y \in R /\ y \in Int /\ y < x
    BY <1>1, <2>5
  <2>7. {i \in DOMAIN f : f[i] <= y} = P
    <3>1. ASSUME NEW i \in DOMAIN f PROVE f[i] <= y <=> f[i] < x
      <4>1. f[i] \in R /\ f[i] \in Int
        BY <1>1
      <4>2. ASSUME f[i] < x PROVE f[i] <= y
        BY <2>5, <4>1, <4>2
      <4>3. ASSUME f[i] <= y PROVE f[i] < x
        BY <1>8, <2>6, <4>1, <4>3
      <4> QED
        BY <4>2, <4>3
    <3> QED
      BY <3>1
  <2>8. Upto(f, y) = Lower(f, x)
    BY <2>1, <2>7 DEF Upto
  <2>9. y \in S
    BY <1>10, <2>6, <2>8
  <2>10. x <= y
    BY <1>7, <2>9
  <2> QED
    BY <1>8, <2>6, <2>10
<1>11. Lower(f, x) < k
  BY <1>3, <1>9, <1>10
<1> QED
  BY <1>8, <1>11 DEF IsAt, R

(* Sorted returns the values of f, each as often, in ascending order. *)
LEMMA SortedFacts ==
  ASSUME NEW f, Numbers(f)
  PROVE  /\ Sorted(f) \in Seq(Int) /\ Ascends(Sorted(f))
         /\ Len(Sorted(f)) = Cardinality(DOMAIN f)
         /\ \A x : Copies(Sorted(f), x) = Copies(f, x)
<1> DEFINE L == Cardinality(DOMAIN f)
           at(k) == CHOOSE x \in Range(f) : IsAt(f, x, k)
           r == Sorted(f)
<1>1. L \in Nat /\ Range(f) \subseteq Int
  BY FS_CardinalityType, RangeFinite DEF Numbers
<1>2. r = [k \in 1..L |-> at(k)]
  BY DEF Sorted, IsAt, Lower, Upto
<1>3. ASSUME NEW k \in 1..L PROVE at(k) \in Range(f) /\ IsAt(f, at(k), k)
  <2>1. \E x \in Range(f) : IsAt(f, x, k)
    BY PlaceExists
  <2> QED
    BY <2>1
<1> HIDE DEF L, at, r
<1>4. \A k \in 1..L : r[k] \in Range(f) /\ r[k] \in Int /\ IsAt(f, r[k], k)
  BY <1>1, <1>2, <1>3
<1>5. r \in Seq(Int) /\ Len(r) = L /\ DOMAIN r = 1..L
  <2>1. r \in [1..L -> Int]
    BY <1>2, <1>4
  <2> QED
    BY <1>1, <2>1
<1>6. ASSUME NEW x \in Int
      PROVE  /\ Lower(f, x) \in Nat /\ Copies(f, x) \in Nat /\ Upto(f, x) \in Nat
             /\ Upto(f, x) = Lower(f, x) + Copies(f, x) /\ Upto(f, x) <= L
  BY CountsOf DEF L
<1>7. ASSUME NEW i \in 1..L, NEW j \in 1..L, r[i] < r[j] PROVE i < j
  <2>1. r[i] \in Int /\ r[j] \in Int /\ i \in Nat /\ j \in Nat
    BY <1>1, <1>4
  <2>2. Upto(f, r[i]) <= Lower(f, r[j])
    BY <1>7, <2>1, CountsRise
  <2>3. i <= Upto(f, r[i]) /\ Lower(f, r[j]) < j
    BY <1>4 DEF IsAt
  <2>4. Upto(f, r[i]) \in Nat /\ Lower(f, r[j]) \in Nat
    BY <1>6, <2>1
  <2> QED
    BY ONLY <2>1, <2>2, <2>3, <2>4
<1>8. Ascends(r)
  <2>1. ASSUME NEW i \in 1..L, NEW j \in 1..L, i < j PROVE r[i] <= r[j]
    <3>1. r[i] \in Int /\ r[j] \in Int /\ i \in Nat /\ j \in Nat
      BY <1>1, <1>4
    <3>2. ~ (r[j] < r[i])
      BY <1>7, <2>1, <3>1
    <3> QED
      BY <3>1, <3>2
  <2> QED
    BY <1>5, <2>1 DEF Ascends, IsSorted
<1>9. ASSUME NEW x PROVE Copies(r, x) = Copies(f, x)
  <2>1. CASE x \notin Int
    <3>1. Places(r, x) = {} /\ Places(f, x) = {}
      BY <1>4, <1>5, <2>1 DEF Places, Numbers
    <3> QED
      BY <3>1 DEF Copies
  <2>2. CASE x \in Int
    <3> DEFINE a == Lower(f, x)
               b == Upto(f, x)
    <3>1. a \in Nat /\ b \in Nat /\ b <= L /\ b = a + Copies(f, x) /\ Copies(f, x) \in Nat
      BY <1>6, <2>2
    <3>2. ASSUME NEW k \in 1..L, r[k] = x PROVE k \in a + 1..b
      <4>1. a < k /\ k <= b
        BY <1>4, <3>2 DEF IsAt
      <4> HIDE DEF a, b
      <4> QED
        BY <1>1, <3>1, <4>1
    <3>3. ASSUME NEW k \in a + 1..b PROVE k \in 1..L /\ r[k] = x
      <4>1. k \in 1..L /\ k \in Nat /\ a < k /\ k <= b
        <5> HIDE DEF a, b
        <5> QED
          BY <1>1, <3>1
      <4> DEFINE y == r[k]
      <4>2. y \in Int /\ Lower(f, y) < k /\ k <= Upto(f, y)
        BY <1>4, <4>1 DEF IsAt
      <4> HIDE DEF y
      <4>3. Lower(f, y) \in Nat /\ Upto(f, y) \in Nat
        BY <1>6, <4>2
      <4>4. ASSUME y < x PROVE FALSE
        <5>1. Upto(f, y) <= a
          BY <2>2, <4>2, <4>4, CountsRise
        <5> HIDE DEF a
        <5> QED
          BY ONLY <3>1, <4>1, <4>2, <4>3, <5>1
      <4>5. ASSUME x < y PROVE FALSE
        <5>1. b <= Lower(f, y)
          BY <2>2, <4>2, <4>5, CountsRise
        <5> HIDE DEF b
        <5> QED
          BY ONLY <3>1, <4>1, <4>2, <4>3, <5>1
      <4>6. y = x
        BY <2>2, <4>2, <4>4, <4>5
      <4> QED
        BY <4>1, <4>6 DEF y
    <3>4. Places(r, x) = a + 1..b
      BY <1>5, <3>2, <3>3 DEF Places
    <3> HIDE DEF a, b
    <3>5. a + 1 \in Int /\ b \in Int
      BY <3>1
    <3>6. Cardinality(a + 1..b) = IF a + 1 > b THEN 0 ELSE b - (a + 1) + 1
      BY <3>5, FS_Interval
    <3>7. Cardinality(a + 1..b) = Copies(f, x)
      BY ONLY <3>1, <3>6
    <3> QED
      BY <3>4, <3>7 DEF Copies
  <2> QED
    BY <2>1, <2>2
<1> QED
  BY <1>5, <1>8, <1>9 DEF L, r

(* A sort of s has the bag of s. *)
LEMMA SortBag ==
  ASSUME NEW r, NEW s \in Seq(Int), IsSortOf(r, s)
  PROVE  ToBag(r) = ToBag(s)
<1>1. r \in Seq(Int) /\ \A x : Copies(r, x) = Copies(s, x)
  BY DEF IsSortOf
<1>2. \A x : x \in Range(r) <=> x \in Range(s)
  BY <1>1, CopiesFacts
<1>3. Range(r) = Range(s)
  BY <1>2
<1>4. ASSUME NEW u PROVE ToBag(u) = [x \in Range(u) |-> Copies(u, x)]
  BY DEF ToBag, Copies, Places
<1> QED
  BY <1>1, <1>3, <1>4

(* Sorted sorts a sequence of integers. *)
LEMMA SortNumbers ==
  ASSUME NEW data \in Seq(Int)
  PROVE  IsSortOf(Sorted(data), data)
<1>1. Numbers(data)
  <2>1. DOMAIN data = 1..Len(data) /\ IsFiniteSet(1..Len(data))
    BY FS_Interval
  <2>2. data = [i \in DOMAIN data |-> data[i]] /\ \A i \in DOMAIN data : data[i] \in Int
    OBVIOUS
  <2> QED
    BY <2>1, <2>2 DEF Numbers
<1> QED
  BY <1>1, SortedFacts DEF IsSortOf

(* The merge of the sorted chunks is a sort of the input. *)
LEMMA ArraySorted == IndInv => SortIsSorted
<1> SUFFICES ASSUME IndInv, Done("sort")
             PROVE  IsSorted(result, <=) /\ ToBag(result) = ToBag(input)
  BY DEF SortIsSorted
<1>1. type = "sort" /\ phase = "done"
  BY DEF Done
<1>2. chunks = SplitInput /\ n \in Nat \ {0}
  BY <1>1, InputsAssumption DEF IndInv, StageInv
<1>3. input \in Seq(Int)
  BY <1>1, InputsAssumption DEF IndInv, Submitted
<1>4. chunks = Pieces(input, n)
  BY <1>1, <1>2 DEF SplitInput
<1>5. chunks \in Seq(Seq(Int)) /\ FlattenSeq(chunks) = input
  BY <1>2, <1>3, <1>4, PiecesFacts
<1>6. ASSUME NEW i \in 1..Len(chunks) PROVE IsSortOf(outputs[i], chunks[i])
  <2>1. i \in DOMAIN chunks /\ chunks[i] \in Seq(Int)
    BY <1>5
  <2>2. outputs[i] \in Answers(chunks[i])
    BY <1>1, <2>1 DEF IndInv, AnswerInv
  <2>3. outputs[i] = Sorted(chunks[i])
    BY <1>1, <2>2 DEF Answers, ExecuteSort
  <2> QED
    BY <2>1, <2>3, SortNumbers
<1>7. outputs = [i \in 1..Len(chunks) |-> outputs[i]]
  <2>1. DOMAIN chunks = 1..Len(chunks)
    BY <1>5
  <2> QED
    BY <1>1, <2>1 DEF IndInv, AnswerInv
<1>8. result = AggregateSort(outputs)
  BY <1>1 DEF IndInv, AnswerInv, AggregateOutputs
<1>9. IsSortOf(result, input)
  BY <1>5, <1>6, <1>7, <1>8, AggregateSorts
<1> QED
  BY <1>3, <1>9, SortBag DEF IsSortOf, Ascends

(* A sort job that is done has the numbers of its input in ascending order,
   each as often as the input has it (executeSort on the chunks,
   mergeKSorted over the answers), for arrays of every length and any number
   of workers. *)
THEOREM ArraysSorted == Spec => []SortIsSorted
BY Inductive, ArraySorted, PTL

-----------------------------------------------------------------------------
(* The places of the lines that match. *)
Matching(text) == {j \in DOMAIN text : text[j]}

(* 1 where x is in M, 0 elsewhere. *)
IsOneOf(M, x) == IF x \in M THEN 1 ELSE 0

(* The lines of a second text count on from the end of the first. *)
LEMMA MatchingConcat ==
  ASSUME NEW s \in Seq(BOOLEAN), NEW t \in Seq(BOOLEAN), NEW x \in Int
  PROVE  IsOneOf(Matching(s \o t), x) =
           IsOneOf(Matching(s), x) + IsOneOf({Len(s) + j : j \in Matching(t)}, x)
<1> DEFINE a == Len(s)
           b == Len(t)
           u == s \o t
<1>1. /\ a \in Nat /\ b \in Nat /\ DOMAIN s = 1..a /\ DOMAIN t = 1..b
      /\ \A i \in 1..a : s[i] \in BOOLEAN
      /\ \A i \in 1..b : t[i] \in BOOLEAN
  OBVIOUS
<1>2. /\ u \in Seq(BOOLEAN) /\ Len(u) = a + b
      /\ \A i \in 1..(a + b) : u[i] = IF i <= a THEN s[i] ELSE t[i - a]
  BY ConcatProperties
<1>3. DOMAIN u = 1..(a + b)
  BY <1>2
<1> HIDE DEF a, b, u
<1>4. CASE x <= 0 \/ x > a + b
  <2>1. x \notin 1..(a + b) /\ x \notin 1..a /\ \A j \in 1..b : x # a + j
    BY <1>1, <1>4
  <2>2. /\ x \notin Matching(u) /\ x \notin Matching(s)
        /\ x \notin {a + j : j \in Matching(t)}
    BY <1>1, <1>3, <2>1 DEF Matching
  <2> QED
    BY <2>2 DEF IsOneOf, a, u
<1>5. CASE x > 0 /\ x <= a
  <2>1. x \in 1..(a + b) /\ x \in 1..a /\ \A j \in 1..b : x # a + j
    BY <1>1, <1>5
  <2>2. u[x] = s[x]
    BY <1>2, <1>5, <2>1
  <2>3. /\ x \in Matching(u) <=> x \in Matching(s)
        /\ x \notin {a + j : j \in Matching(t)}
    BY <1>1, <1>3, <2>1, <2>2 DEF Matching
  <2> QED
    BY <2>3 DEF IsOneOf, a, u
<1>6. CASE x > a /\ x <= a + b
  <2>1. x \in 1..(a + b) /\ x \notin 1..a /\ x - a \in 1..b /\ x = a + (x - a)
    BY <1>1, <1>6
  <2>2. u[x] = t[x - a]
    BY <1>1, <1>2, <1>6, <2>1
  <2>3. \A j \in 1..b : x = a + j => j = x - a
    BY <1>1
  <2>4. x \in {a + j : j \in Matching(t)} <=> x - a \in Matching(t)
    BY <1>1, <2>1, <2>3 DEF Matching
  <2>5. x \in Matching(u) <=> x - a \in Matching(t)
    BY <1>1, <1>3, <2>1, <2>2 DEF Matching
  <2>6. x \notin Matching(s)
    BY <1>1, <2>1 DEF Matching
  <2> QED
    BY <2>4, <2>5, <2>6 DEF IsOneOf, a, u
<1> QED
  BY <1>1, <1>4, <1>5, <1>6

(* Matches numbered from the end of the chunks before are those of the whole
   text. *)
LEMMA MatchesOfPrefix ==
  ASSUME NEW ss \in Seq(Seq(BOOLEAN)), NEW ms \in Seq(Seq(Int)), Len(ms) = Len(ss),
         \A i \in 1..Len(ss), x \in Int :
           Copies(ms[i], x) = IsOneOf({Len(Prefix(ss, i - 1)) + j : j \in Matching(ss[i])}, x)
  PROVE  \A x \in Int : Copies(FlattenSeq(ms), x) = IsOneOf(Matching(FlattenSeq(ss)), x)
<1> DEFINE L == Len(ss)
           N == {k \in Nat : k <= L => \A x \in Int :
                   Copies(Prefix(ms, k), x) = IsOneOf(Matching(Prefix(ss, k)), x)}
<1>1. L \in Nat /\ \A i \in 1..L : ss[i] \in Seq(BOOLEAN) /\ ms[i] \in Seq(Int)
  OBVIOUS
<1>2. 0 \in N
  <2>1. Prefix(ms, 0) = <<>> /\ Prefix(ss, 0) = <<>>
    BY PrefixFacts
  <2>2. Matching(<<>>) = {}
    BY DEF Matching
  <2>3. \A x \in Int : Copies(Prefix(ms, 0), x) = IsOneOf(Matching(Prefix(ss, 0)), x)
    BY <2>1, <2>2, CopiesOfNothing DEF IsOneOf
  <2> QED
    BY <2>3
<1>3. ASSUME NEW k \in Nat, k \in N PROVE k + 1 \in N
  <2>1. ASSUME k + 1 <= L, NEW x \in Int
        PROVE  Copies(Prefix(ms, k + 1), x) = IsOneOf(Matching(Prefix(ss, k + 1)), x)
    <3>1. k \in 0..L /\ k + 1 \in 1..L /\ k <= L /\ (k + 1) - 1 = k
      BY <1>1, <2>1
    <3>2. Copies(Prefix(ms, k), x) = IsOneOf(Matching(Prefix(ss, k)), x)
      BY <1>3, <3>1
    <3>3. /\ Prefix(ss, k + 1) = Prefix(ss, k) \o ss[k + 1] /\ Prefix(ss, k) \in Seq(BOOLEAN)
          /\ Prefix(ms, k + 1) = Prefix(ms, k) \o ms[k + 1] /\ Prefix(ms, k) \in Seq(Int)
      BY <3>1, PrefixFacts
    <3>4. ss[k + 1] \in Seq(BOOLEAN) /\ ms[k + 1] \in Seq(Int)
      BY <1>1, <3>1
    <3>5. Copies(ms[k + 1], x) =
            IsOneOf({Len(Prefix(ss, k)) + j : j \in Matching(ss[k + 1])}, x)
      BY <3>1
    <3>6. Copies(Prefix(ms, k + 1), x) = Copies(Prefix(ms, k), x) + Copies(ms[k + 1], x)
      <4> DEFINE p == Prefix(ms, k)
                 q == ms[k + 1]
      <4>1. p \in Seq(Int) /\ q \in Seq(Int) /\ Prefix(ms, k + 1) = p \o q
        BY <3>3, <3>4
      <4> HIDE DEF p, q
      <4>2. Copies(p \o q, x) = Copies(p, x) + Copies(q, x)
        BY ONLY <4>1, CopiesConcat
      <4> QED
        BY <4>1, <4>2 DEF p, q
    <3>7. IsOneOf(Matching(Prefix(ss, k + 1)), x) =
            IsOneOf(Matching(Prefix(ss, k)), x)
            + IsOneOf({Len(Prefix(ss, k)) + j : j \in Matching(ss[k + 1])}, x)
      BY ONLY x \in Int, <3>3, <3>4, MatchingConcat
    <3> QED
      BY ONLY <3>2, <3>5, <3>6, <3>7
  <2>2. k + 1 \in Nat
    BY ONLY k \in Nat
  <2> HIDE DEF L
  <2> QED
    BY ONLY <2>1, <2>2
<1> HIDE DEF N
<1>4. L \in N
  BY <1>1, <1>2, <1>3, InductiveSet
<1>5. \A x \in Int : Copies(Prefix(ms, L), x) = IsOneOf(Matching(Prefix(ss, L)), x)
  BY <1>1, <1>4 DEF N
<1>6. Prefix(ss, L) = FlattenSeq(ss) /\ Prefix(ms, L) = FlattenSeq(ms)
  BY PrefixFacts
<1> QED
  BY <1>5, <1>6

(* InOrder has every member of a set once. *)
LEMMA InOrderFacts ==
  ASSUME NEW S, IsFiniteSet(S), S \subseteq Int
  PROVE  InOrder(S) \in Seq(Int) /\ \A x : Copies(InOrder(S), x) = IsOneOf(S, x)
<1> DEFINE f == [x \in S |-> x]
<1>1. DOMAIN f = S /\ \A x \in S : f[x] = x
  OBVIOUS
<1>2. f = [x \in DOMAIN f |-> f[x]]
  OBVIOUS
<1> HIDE DEF f
<1>3. Numbers(f)
  BY <1>1, <1>2 DEF Numbers
<1>4. ASSUME NEW x PROVE Copies(f, x) = IsOneOf(S, x)
  <2>1. Places(f, x) = IF x \in S THEN {x} ELSE {}
    BY <1>1 DEF Places
  <2>2. Cardinality({x}) = 1 /\ Cardinality({}) = 0
    BY FS_Singleton, FS_EmptySet
  <2> QED
    BY <2>1, <2>2 DEF Copies, IsOneOf
<1>5. InOrder(S) = Sorted(f)
  BY DEF InOrder, f
<1> QED
  BY <1>3, <1>4, <1>5, SortedFacts

(* An ascending sequence without repetitions ascends strictly and is as long
   as its range is large. *)
LEMMA OnceEach ==
  ASSUME NEW m \in Seq(Int), Ascends(m), \A x \in Int : Copies(m, x) \in {0, 1}
  PROVE  IsSorted(m, <) /\ Cardinality(ToSet(m)) = Len(m)
<1> DEFINE L == Len(m)
<1>1. L \in Nat /\ DOMAIN m = 1..L /\ \A i \in 1..L : m[i] \in Int
  OBVIOUS
<1> HIDE DEF L
<1>2. ASSUME NEW i \in 1..L, NEW j \in 1..L, m[i] = m[j] PROVE i = j
  <2> DEFINE P == Places(m, m[i])
  <2>1. i \in P /\ j \in P
    BY <1>1, <1>2 DEF Places
  <2>2. IsFiniteSet(P)
    BY PlacesFacts
  <2>3. Cardinality(P) \in {0, 1}
    BY <1>1 DEF Copies
  <2> HIDE DEF P
  <2>4. Cardinality(P) # 0
    BY <2>1, <2>2, FS_EmptySet
  <2>5. \E x : P = {x}
    BY <2>2, <2>3, <2>4, FS_Singleton
  <2> QED
    BY <2>1, <2>5
<1>3. IsSorted(m, <)
  <2>1. ASSUME NEW i \in 1..L, NEW j \in 1..L, i < j PROVE m[i] < m[j]
    <3>1. m[i] \in Int /\ m[j] \in Int /\ i \in Nat /\ j \in Nat
      BY <1>1
    <3>2. m[i] <= m[j]
      BY <1>1, <2>1 DEF Ascends, IsSorted, L
    <3>3. m[i] # m[j]
      BY <1>2, <2>1, <3>1
    <3> QED
      BY ONLY <3>1, <3>2, <3>3
  <2> QED
    BY <1>1, <2>1 DEF IsSorted, L
<1>4. Cardinality(ToSet(m)) = L
  <2> DEFINE R == ToSet(m)
  <2>1. \A i \in 1..L : m[i] \in R
    BY <1>1 DEF ToSet
  <2>2. \A x \in R : \E i \in 1..L : m[i] = x
    BY <1>1 DEF ToSet
  <2> HIDE DEF R
  <2>3. m = [i \in 1..L |-> m[i]]
    BY <1>1
  <2>4. m \in Surjection(1..L, R) /\ m \in Injection(1..L, R)
    BY <1>2, <2>1, <2>2, <2>3 DEF Surjection, Injection, IsInjective
  <2>5. IsFiniteSet(1..L) /\ Cardinality(1..L) = L
    BY <1>1, FS_Interval
  <2>6. Cardinality(R) = Cardinality(1..L)
    BY <2>4, <2>5, FS_Surjection
  <2> QED
    BY <2>5, <2>6 DEF R
<1> QED
  BY <1>3, <1>4 DEF L

(* startLine is the number of lines of the chunks before. *)
LEMMA StartOfPiece ==
  ASSUME NEW W, NEW ss \in Seq(Seq(W)), NEW i \in 1..Len(ss)
  PROVE  StartLine(ss, i) = Len(Prefix(ss, i - 1))
<1> DEFINE c == [k \in 1..(i - 1) |-> Len(ss[k])]
<1>1. Len(ss) \in Nat /\ i - 1 \in 0..Len(ss)
  OBVIOUS
<1>2. \A k \in 1..(i - 1) : c[k] = Lengths(ss)[k]
  BY DEF Lengths
<1>3. DOMAIN c = 1..(i - 1) /\ StartLine(ss, i) = SumFunction(c)
  BY DEF StartLine
<1> HIDE DEF c
<1>4. SumFunctionOnSet(c, 1..(i - 1)) = SumFunctionOnSet(Lengths(ss), 1..(i - 1))
  BY <1>2, SumSame
<1>5. Len(Prefix(ss, i - 1)) = SumFunctionOnSet(Lengths(ss), 1..(i - 1))
  BY <1>1, PrefixLength
<1> QED
  BY <1>3, <1>4, <1>5 DEF SumFunction

(* An answer to a chunk has the numbers of its matching lines, once each. *)
LEMMA GrepAnswer ==
  ASSUME NEW ss \in Seq(Seq(BOOLEAN)), NEW i \in 1..Len(ss),
         NEW out, out = ExecuteGrep([text |-> ss[i], startLine |-> StartLine(ss, i)])
  PROVE  /\ out.matches \in Seq(Int) /\ out.count = Len(out.matches)
         /\ \A x : Copies(out.matches, x) =
                     IsOneOf({Len(Prefix(ss, i - 1)) + j : j \in Matching(ss[i])}, x)
<1> DEFINE at == Len(Prefix(ss, i - 1))
           S == {at + j : j \in Matching(ss[i])}
<1>1. StartLine(ss, i) = at /\ ss[i] \in Seq(BOOLEAN)
  BY StartOfPiece
<1>2. at \in Nat
  <2>1. i - 1 \in 0..Len(ss)
    OBVIOUS
  <2>2. Prefix(ss, i - 1) \in Seq(BOOLEAN)
    BY <2>1, PrefixFacts
  <2> QED
    BY <2>2
<1>3. Matching(ss[i]) \subseteq 1..Len(ss[i]) /\ Len(ss[i]) \in Nat
  BY <1>1 DEF Matching
<1> HIDE DEF at
<1>4. IsFiniteSet(S) /\ S \subseteq Int
  <2> DEFINE l == Len(ss[i])
             M == Matching(ss[i])
  <2>1. l \in Nat /\ M \subseteq 1..l
    BY <1>3
  <2> HIDE DEF l, M
  <2>2. {at + j : j \in M} \subseteq at + 1..at + l
    BY <1>2, <2>1
  <2>3. IsFiniteSet(at + 1..at + l) /\ at + 1..at + l \subseteq Int
    <3>1. at + 1 \in Int /\ at + l \in Int
      BY <1>2, <2>1
    <3> QED
      BY <3>1, FS_Interval
  <2>4. IsFiniteSet({at + j : j \in M}) /\ {at + j : j \in M} \subseteq Int
    BY <2>2, <2>3, FS_Subset
  <2> QED
    BY <2>4 DEF M
<1>5. out.matches = InOrder(S) /\ out.count = Len(out.matches)
  BY <1>1 DEF ExecuteGrep, Matching
<1> HIDE DEF S
<1>6. InOrder(S) \in Seq(Int) /\ \A x : Copies(InOrder(S), x) = IsOneOf(S, x)
  BY <1>4, InOrderFacts
<1> QED
  BY <1>5, <1>6 DEF S, at

(* The sorted answers are the matching lines of the whole text. *)
LEMMA LinesNumbered == IndInv => GrepNumbersLines
<1> SUFFICES ASSUME IndInv, Done("grep")
             PROVE  /\ ToSet(result.matches) = {i \in DOMAIN input : input[i]}
                    /\ result.count = Cardinality(ToSet(result.matches))
                    /\ IsSorted(result.matches, <)
  BY DEF GrepNumbersLines
<1> DEFINE ss == Pieces(input, n)
           ms == [i \in DOMAIN outputs |-> outputs[i].matches]
           cs == [i \in DOMAIN outputs |-> outputs[i].count]
           all == FlattenSeq(ms)
           m == Sorted(all)
<1>1. type = "grep" /\ phase = "done"
  BY DEF Done
<1>2. chunks = SplitInput /\ n \in Nat \ {0}
  BY <1>1, InputsAssumption DEF IndInv, StageInv
<1>3. input \in Seq(BOOLEAN)
  BY <1>1, InputsAssumption DEF IndInv, Submitted
<1>4. chunks = [i \in DOMAIN ss |-> [text |-> ss[i], startLine |-> StartLine(ss, i)]]
  BY <1>1, <1>2 DEF SplitInput, SplitGrep
<1>5. ss \in Seq(Seq(BOOLEAN)) /\ FlattenSeq(ss) = input
  BY <1>2, <1>3, PiecesFacts
<1>6. result = AggregateGrep(outputs)
  BY <1>1 DEF IndInv, AnswerInv, AggregateOutputs
<1>7. result.matches = m /\ result.count = SumFunction(cs)
  BY <1>6 DEF AggregateGrep
<1> HIDE DEF ss
<1>8. DOMAIN outputs = 1..Len(ss) /\ Len(ss) \in Nat
  BY <1>4, <1>5 DEF IndInv, AnswerInv
<1>9. ASSUME NEW i \in 1..Len(ss)
      PROVE  outputs[i] = ExecuteGrep([text |-> ss[i], startLine |-> StartLine(ss, i)])
  <2>1. i \in DOMAIN chunks /\ i \in DOMAIN ss
    BY <1>4, <1>5
  <2>2. outputs[i] \in Answers(chunks[i])
    BY <1>1, <2>1 DEF IndInv, AnswerInv
  <2>3. chunks[i] = [text |-> ss[i], startLine |-> StartLine(ss, i)]
    BY <1>4, <2>1
  <2> QED
    BY <1>1, <2>2, <2>3 DEF Answers
<1>10. ASSUME NEW i \in 1..Len(ss)
       PROVE  /\ outputs[i].matches \in Seq(Int) /\ outputs[i].count = Len(outputs[i].matches)
              /\ \A x : Copies(outputs[i].matches, x) =
                          IsOneOf({Len(Prefix(ss, i - 1)) + j : j \in Matching(ss[i])}, x)
  BY <1>5, <1>9, GrepAnswer
<1>11. ms = [i \in 1..Len(ss) |-> outputs[i].matches] /\ DOMAIN cs = 1..Len(ss)
  BY <1>8
<1>12. ms \in Seq(Seq(Int)) /\ Len(ms) = Len(ss)
  <2>1. ms \in [1..Len(ss) -> Seq(Int)]
    BY <1>10, <1>11
  <2> QED
    BY <1>8, <2>1
<1>13. \A i \in 1..Len(ss) : ms[i] = outputs[i].matches /\ cs[i] = Len(ms[i])
  BY <1>8, <1>10
<1> HIDE DEF ms, cs
<1>14. \A x \in Int : Copies(all, x) = IsOneOf(Matching(input), x)
  <2>1. \A i \in 1..Len(ss), x \in Int :
          Copies(ms[i], x) = IsOneOf({Len(Prefix(ss, i - 1)) + j : j \in Matching(ss[i])}, x)
    BY <1>10, <1>13
  <2>2. \A x \in Int : Copies(all, x) = IsOneOf(Matching(FlattenSeq(ss)), x)
    BY <1>5, <1>12, <2>1, MatchesOfPrefix
  <2> QED
    BY <1>5, <2>2
<1>15. all \in Seq(Int) /\ Len(all) = SumFunction(cs)
  <2>5. Prefix(ms, Len(ms)) = all /\ \A k \in 0..Len(ms) : Prefix(ms, k) \in Seq(Int)
    BY <1>12, PrefixFacts
  <2>6. Len(ss) \in 0..Len(ms)
    BY <1>8, <1>12
  <2>1. Len(ss) \in 0..Len(ms) /\ Prefix(ms, Len(ms)) = all /\ Prefix(ms, Len(ss)) \in Seq(Int)
    BY <2>5, <2>6
  <2>2. Len(Prefix(ms, Len(ss))) = SumFunctionOnSet(Lengths(ms), 1..Len(ss))
    BY <1>12, <2>1, PrefixLength
  <2>3. \A i \in 1..Len(ss) : cs[i] = Lengths(ms)[i]
    BY <1>12, <1>13 DEF Lengths
  <2>4. SumFunctionOnSet(cs, 1..Len(ss)) = SumFunctionOnSet(Lengths(ms), 1..Len(ss))
    BY <2>3, SumSame
  <2> QED
    BY <1>11, <1>12, <2>1, <2>2, <2>4 DEF SumFunction
<1> HIDE DEF all
<1>16. /\ m \in Seq(Int) /\ Ascends(m) /\ Len(m) = Len(all)
       /\ \A x : Copies(m, x) = Copies(all, x)
  <2>1. DOMAIN all = 1..Len(all) /\ IsFiniteSet(1..Len(all)) /\ Cardinality(1..Len(all)) = Len(all)
    BY <1>15, FS_Interval
  <2>2. all = [i \in DOMAIN all |-> all[i]] /\ \A i \in DOMAIN all : all[i] \in Int
    BY <1>15
  <2>3. Numbers(all)
    BY <2>1, <2>2 DEF Numbers
  <2> QED
    BY <2>1, <2>3, SortedFacts
<1> HIDE DEF m
<1>17. \A x \in Int : Copies(m, x) = IsOneOf(Matching(input), x)
  BY <1>14, <1>16
<1>18. \A x \in Int : Copies(m, x) \in {0, 1}
  BY <1>17 DEF IsOneOf
<1>19. IsSorted(m, <) /\ Cardinality(ToSet(m)) = Len(m)
  BY <1>16, <1>18, OnceEach
<1>20. ToSet(m) = Matching(input)
  <2>1. ToSet(m) = Range(m)
    BY DEF ToSet, Range
  <2>2. ToSet(m) \subseteq Int /\ Matching(input) \subseteq Int
    BY <1>3, <1>16 DEF ToSet, Matching
  <2>3. \A x : Copies(m, x) # 0 <=> x \in Range(m)
    BY <1>16, CopiesFacts
  <2>4. \A x \in Int : x \in Matching(input) <=> Copies(m, x) # 0
    BY <1>17 DEF IsOneOf
  <2> QED
    BY <2>1, <2>2, <2>3, <2>4
<1> QED
  BY <1>7, <1>15, <1>16, <1>19, <1>20 DEF Matching

(* A grep job that is done lists the numbers of exactly the matching lines,
   in ascending order, and counts them (executeGrep with the startLine of
   splitGrep, aggregateGrep), for texts of every length and any number of
   workers. *)
THEOREM LinesKept == Spec => []GrepNumbersLines
BY Inductive, LinesNumbered, PTL

-----------------------------------------------------------------------------
(* A remainder of zero is a divisor. *)
LEMMA ModFacts ==
  ASSUME NEW q \in Nat, NEW d \in Nat \ {0}
  PROVE  q % d = 0 <=> \E e \in Nat : q = d * e
<1>1. q = d * (q \div d) + (q % d) /\ q \div d \in Nat /\ q % d \in Nat /\ q % d < d
  OBVIOUS
<1>2. ASSUME q % d = 0 PROVE \E e \in Nat : q = d * e
  <2> DEFINE a == q \div d
             r == q % d
  <2>1. q = d * a + r /\ a \in Nat /\ r = 0
    BY <1>1, <1>2
  <2> HIDE DEF a, r
  <2>2. q = d * a
    BY ONLY d \in Nat, <2>1
  <2> QED
    BY <2>1, <2>2
<1>3. ASSUME NEW e \in Nat, q = d * e PROVE q % d = 0
  <2> DEFINE a == q \div d
             r == q % d
  <2>1. q = d * a + r /\ a \in Nat /\ r \in Nat /\ r < d
    BY <1>1
  <2> HIDE DEF a, r
  <2>2. ASSUME a < e PROVE FALSE
    <3>1. d * (a + 1) <= d * e
      <4>1. e - (a + 1) \in Nat
        BY <2>1, <2>2
      <4>2. d * (e - (a + 1)) \in Nat
        BY <4>1
      <4> QED
        BY <2>1, <4>2
    <3>2. d * (a + 1) = d * a + d
      BY <2>1
    <3> QED
      BY <1>3, <2>1, <3>1, <3>2
  <2>3. ASSUME e < a PROVE FALSE
    <3>1. d * (e + 1) <= d * a
      <4>1. a - (e + 1) \in Nat
        BY <2>1, <2>3
      <4>2. d * (a - (e + 1)) \in Nat
        BY <4>1
      <4> QED
        BY <2>1, <4>2
    <3>2. d * (e + 1) = d * e + d
      OBVIOUS
    <3> QED
      BY <1>3, <2>1, <3>1, <3>2
  <2>4. a = e
    BY <2>1, <2>2, <2>3
  <2>5. r = 0
    BY <1>3, <2>1, <2>4
  <2> QED
    BY <2>5 DEF r
<1> QED
  BY <1>2, <1>3

(* A divisor of a factor divides the product. *)
LEMMA DividesProduct ==
  ASSUME NEW a \in Nat, NEW b \in Nat, NEW d \in Nat \ {0}, a % d = 0
  PROVE  (a * b) % d = 0
<1>1. PICK e \in Nat : a = d * e
  BY ModFacts
<1>2. a * b = d * (e * b) /\ e * b \in Nat /\ a * b \in Nat
  BY <1>1
<1> QED
  BY <1>2, ModFacts

(* A number with a divisor has one not above its root: the bound i * i <= n
   of isPrime's loop. *)
LEMMA SmallDivisor ==
  ASSUME NEW q \in Nat, NEW d \in 2..(q - 1), q % d = 0
  PROVE  \E c \in 2..(q - 1) : q % c = 0 /\ c * c <= q
<1>1. d \in Nat \ {0} /\ 2 <= d /\ d < q
  OBVIOUS
<1>2. PICK e \in Nat : q = d * e
  BY <1>1, ModFacts
<1>3. e # 0 /\ e # 1
  BY <1>1, <1>2
<1>4. e < q
  <2>1. q = 2 * e + (d - 2) * e /\ d - 2 \in Nat
    BY <1>1, <1>2
  <2>2. (d - 2) * e \in Nat
    BY <2>1
  <2> QED
    BY <1>3, <2>1, <2>2
<1>5. e \in 2..(q - 1) /\ e \in Nat \ {0}
  BY <1>3, <1>4
<1>6. q = e * d
  BY <1>1, <1>2
<1>7. q % e = 0
  BY <1>1, <1>5, <1>6, ModFacts
<1>8. CASE d <= e
  <2>1. e - d \in Nat
    BY <1>1, <1>8
  <2>2. d * (e - d) \in Nat /\ d * (e - d) = d * e - d * d
    BY <1>1, <2>1
  <2>3. d * d <= q
    BY <1>1, <1>2, <2>2
  <2> QED
    BY <2>3
<1>9. CASE e <= d
  <2>1. d - e \in Nat
    BY <1>1, <1>9
  <2>2. e * (d - e) \in Nat /\ e * (d - e) = e * d - e * e
    BY <1>1, <2>1
  <2>3. e * e <= q
    BY <1>1, <1>6, <2>2
  <2> QED
    BY <1>5, <1>7, <2>3
<1> QED
  BY <1>1, <1>8, <1>9

(* q has no divisors but 1 and itself. *)
IsWhole(q) == q >= 2 /\ \A d \in 2..(q - 1) : q % d # 0

(* isPrime, which tries 2, 3 and the numbers 6 k - 1 and 6 k + 1 up to the
   root, tells the primes. *)
LEMMA PrimeTest ==
  ASSUME NEW q \in Int
  PROVE  IsPrime(q) <=> IsWhole(q)
<1>1. CASE q < 2
  BY <1>1 DEF IsPrime, IsWhole
<1>2. CASE q = 2 \/ q = 3
  <2>1. IsPrime(q)
    BY <1>2 DEF IsPrime
  <2>2. \A d \in 2..(q - 1) : q = 3 /\ d = 2
    BY <1>2
  <2>3. 3 % 2 # 0
    OBVIOUS
  <2>4. IsWhole(q)
    BY <1>2, <2>2, <2>3 DEF IsWhole
  <2> QED
    BY <2>1, <2>4
<1>3. CASE q >= 4
  <2>0. q \in Nat /\ q >= 2 /\ ~ (q < 4)
    BY <1>3
  <2>1. ASSUME IsWhole(q) PROVE IsPrime(q)
    <3>1. q % 2 # 0 /\ q % 3 # 0
      <4>1. 2 \in 2..(q - 1) /\ 3 \in 2..(q - 1)
        BY <1>3
      <4> QED
        BY <2>1, <4>1 DEF IsWhole
    <3>2. ASSUME NEW k \in 0..(q \div 6), NEW i \in Int, i = 5 + 6 * k, i * i <= q
          PROVE  q % i # 0 /\ q % (i + 2) # 0
      <4>1. q \div 6 \in Nat /\ k \in Nat
        BY <2>0
      <4>2. i \in Nat /\ i >= 5
        BY <3>2, <4>1
      <4>3. i * i = 5 * i + (i - 5) * i /\ (i - 5) * i \in Nat
        <5>1. i - 5 \in Nat
          BY <4>2
        <5> QED
          BY <4>2, <5>1
      <4>4. 5 * i <= q
        BY <2>0, <3>2, <4>2, <4>3
      <4>5. i \in 2..(q - 1) /\ i + 2 \in 2..(q - 1)
        BY <2>0, <4>2, <4>4
      <4> QED
        BY <2>1, <4>5 DEF IsWhole
    <3> QED
      BY <2>0, <3>1, <3>2 DEF IsPrime
  <2>2. ASSUME IsPrime(q), ~ IsWhole(q) PROVE FALSE
    <3>1. PICK e \in 2..(q - 1) : q % e = 0
      BY <2>0, <2>2 DEF IsWhole
    <3>2. PICK d \in 2..(q - 1) : q % d = 0 /\ d * d <= q
      BY <2>0, <3>1, SmallDivisor
    <3>3. /\ q % 2 # 0 /\ q % 3 # 0
          /\ \A k \in 0..(q \div 6) : (5 + 6 * k) * (5 + 6 * k) <= q =>
               q % (5 + 6 * k) # 0 /\ q % ((5 + 6 * k) + 2) # 0
      BY <2>0, <2>2 DEF IsPrime
    <3>4. d \in Nat \ {0} /\ d >= 2 /\ d < q
      BY <2>0
    <3>5. PICK e2 \in Nat : q = d * e2
      BY <2>0, <3>2, <3>4, ModFacts
    <3>6. d % 2 # 0 /\ d % 3 # 0
      <4>1. \A p \in {2, 3} : d % p = 0 => (d * e2) % p = 0
        <5>1. 2 \in Nat \ {0} /\ 3 \in Nat \ {0} /\ d \in Nat
          BY <3>4
        <5> QED
          BY <5>1, DividesProduct
      <4> QED
        BY ONLY <3>3, <3>5, <4>1
    <3>7. PICK m \in Nat : d = 6 * m + 5 \/ (d = 6 * m + 1 /\ m # 0)
      <4> DEFINE m == d \div 6
                 r == d % 6
      <4>1. d = 6 * m + r /\ m \in Nat /\ r \in 0..5
        BY <3>4
      <4>2. d % 2 = r % 2 /\ d % 3 = r % 3
        BY <3>4
      <4> HIDE DEF m, r
      <4>3. r = 1 \/ r = 5
        <5>1. r # 0 /\ r # 2 /\ r # 4
          BY <3>6, <4>2
        <5>2. r # 3
          BY <3>6, <4>2
        <5> QED
          BY <4>1, <5>1, <5>2
      <4>4. r = 1 => m # 0
        BY <3>4, <4>1
      <4> QED
        BY <4>1, <4>3, <4>4
    <3>8. q \div 6 \in Nat /\ 6 * (q \div 6) <= q /\ q < 6 * (q \div 6) + 6
      BY <2>0
    <3>9. CASE d = 6 * m + 5
      <4>1. m \in 0..(q \div 6) /\ 5 + 6 * m = d
        BY <2>0, <3>4, <3>8, <3>9
      <4> QED
        BY <3>2, <3>3, <4>1
    <3>10. CASE d = 6 * m + 1 /\ m # 0
      <4> DEFINE k == m - 1
                 i == 5 + 6 * k
      <4>1. k \in 0..(q \div 6) /\ i + 2 = d /\ i \in Nat
        BY <2>0, <3>4, <3>8, <3>10
      <4>2. i * i <= q
        <5> HIDE DEF i
        <5>1. d * d = i * i + 4 * i + 4
          BY <4>1
        <5>2. i * i \in Nat
          BY <4>1
        <5> QED
          BY <2>0, <3>2, <4>1, <5>1, <5>2
      <4> QED
        BY <3>2, <3>3, <4>1, <4>2
    <3> QED
      BY <3>7, <3>9, <3>10
  <2> QED
    BY <2>1, <2>2
<1> QED
  BY <1>1, <1>2, <1>3

(* Each number is greater than the one before it. *)
Rises(s) == IsSorted(s, <)

(* The numbers of S greater than x. *)
Above(S, x) == {y \in S : y > x}

(* s has numbers of S in ascending order, among them each one with fewer
   than k of S above it. *)
TopOf(s, S, k) ==
  /\ s \in Seq(Int) /\ Rises(s) /\ ToSet(s) \subseteq S
  /\ \A x \in S : Cardinality(Above(S, x)) < k => x \in ToSet(s)

(* The last k of ascending numbers are their top. *)
LEMMA LastOfTop ==
  ASSUME NEW s \in Seq(Int), Rises(s), NEW k \in Nat \ {0}
  PROVE  TopOf(LastOf(s, k), ToSet(s), k)
<1> DEFINE L == Len(s)
           a == AtLeast(1, L - k + 1)
           l == LastOf(s, k)
           S == ToSet(s)
<1>1. L \in Nat /\ DOMAIN s = 1..L /\ s \in [1..L -> Int]
  OBVIOUS
<1>2. l = SubSeq(s, a, L)
  BY DEF LastOf
<1> HIDE DEF L, l
<1>3. /\ a \in Nat /\ 1 <= a /\ a <= L + 1 /\ (a = 1 \/ a = L - k + 1)
      /\ L - a + 1 \in Nat
  BY <1>1 DEF AtLeast
<1> HIDE DEF a
<1>4. l = [i \in 1..(L - a + 1) |-> s[a + i - 1]]
  BY <1>1, <1>2, <1>3
<1>5. \A i \in 1..(L - a + 1) : a + i - 1 \in 1..L /\ l[i] = s[a + i - 1] /\ l[i] \in Int
  <2>1. \A i \in 1..(L - a + 1) : a + i - 1 \in 1..L
    BY <1>1, <1>3
  <2> QED
    BY <1>1, <1>4, <2>1
<1>6. l \in Seq(Int) /\ Len(l) = L - a + 1
  <2>1. l \in [1..(L - a + 1) -> Int]
    BY <1>4, <1>5
  <2> QED
    BY <1>3, <2>1
<1>7. \A x \in S : \E i \in 1..L : s[i] = x
  BY <1>1 DEF ToSet
<1>8. \A i \in 1..L : s[i] \in S
  BY <1>1 DEF ToSet
<1>9. IsFiniteSet(S)
  <2>1. s \in Surjection(1..L, S)
    <3> HIDE DEF S
    <3>1. s \in [1..L -> S]
      BY <1>1, <1>8
    <3> QED
      BY <1>7, <3>1 DEF Surjection
  <2>2. IsFiniteSet(1..L)
    BY <1>1, FS_Interval
  <2> QED
    BY <2>1, <2>2, FS_Surjection
<1>10. Rises(l)
  <2>1. ASSUME NEW i \in 1..(L - a + 1), NEW j \in 1..(L - a + 1), i < j PROVE l[i] < l[j]
    <3>1. a + i - 1 < a + j - 1
      BY <1>3, <2>1
    <3>2. s[a + i - 1] < s[a + j - 1]
      BY <1>5, <3>1 DEF Rises, IsSorted, L
    <3> QED
      BY <1>5, <3>2
  <2> QED
    BY <1>6, <2>1 DEF Rises, IsSorted
<1>11. ToSet(l) \subseteq S
  <2>1. \A x \in ToSet(l) : \E i \in 1..(L - a + 1) : l[i] = x
    BY <1>4 DEF ToSet
  <2> HIDE DEF S
  <2> QED
    BY <1>5, <1>8, <2>1
<1>12. ASSUME NEW x \in S, Cardinality(Above(S, x)) < k PROVE x \in ToSet(l)
  <2>1. PICK i \in 1..L : s[i] = x
    BY <1>7
  <2>2. i \in Nat /\ i <= L
    BY <1>1
  <2>3. L - i <= Cardinality(Above(S, x))
    <3> DEFINE I == i + 1..L
               g == [j \in I |-> s[j]]
               A == Above(S, x)
    <3>1. \A j \in I : j \in 1..L /\ i < j
      BY <1>1, <2>2
    <3>2. \A j \in I : s[j] \in A
      <4>1. ASSUME NEW j \in I PROVE s[j] \in A
        <5>1. s[i] < s[j] /\ s[j] \in S /\ s[i] \in Int /\ s[j] \in Int
          BY <1>1, <1>8, <3>1 DEF Rises, IsSorted, L
        <5>2. s[j] > x
          BY <2>1, <5>1
        <5> QED
          BY <5>1, <5>2 DEF Above
      <4> QED
        BY <4>1
    <3>3. \A j \in I, h \in I : s[j] = s[h] => j = h
      <4>1. ASSUME NEW j \in I, NEW h \in I, j < h PROVE s[j] # s[h]
        <5>1. s[j] < s[h] /\ s[j] \in Int
          BY <1>1, <3>1, <4>1 DEF Rises, IsSorted, L
        <5> QED
          BY <5>1
      <4>2. I \subseteq Int
        BY <1>1, <2>2
      <4> HIDE DEF I
      <4>3. ASSUME NEW j \in I, NEW h \in I, j # h PROVE j < h \/ h < j
        BY <4>2, <4>3
      <4> QED
        BY <4>1, <4>3
    <3>4. IsFiniteSet(A)
      <4>1. A \subseteq S
        BY DEF Above
      <4> QED
        BY <1>9, <4>1, FS_Subset
    <3>5. IsFiniteSet(I) /\ Cardinality(I) = L - i
      <4>1. i + 1 \in Int /\ L \in Int
        BY <1>1, <2>2
      <4>2. IsFiniteSet(I) /\ Cardinality(I) = IF i + 1 > L THEN 0 ELSE L - (i + 1) + 1
        BY <4>1, FS_Interval
      <4> QED
        BY <1>1, <2>2, <4>2
    <3> HIDE DEF I, A
    <3>6. g \in Injection(I, A)
      BY <3>2, <3>3 DEF Injection, IsInjective
    <3> HIDE DEF g
    <3>7. Cardinality(I) <= Cardinality(A)
      BY <3>4, <3>6, FS_Injection
    <3> QED
      BY <3>5, <3>7 DEF A
  <2>4. Cardinality(Above(S, x)) \in Nat
    <3>1. Above(S, x) \subseteq S
      BY DEF Above
    <3> QED
      BY <1>9, <3>1, FS_Subset, FS_CardinalityType
  <2>5. a <= i
    <3> DEFINE c == Cardinality(Above(S, x))
    <3>1. c \in Nat /\ c < k /\ L - i <= c
      BY <1>12, <2>3, <2>4
    <3> HIDE DEF c
    <3> QED
      BY <1>1, <1>3, <2>2, <3>1
  <2>6. i - a + 1 \in 1..(L - a + 1) /\ a + (i - a + 1) - 1 = i
    BY <1>1, <1>3, <2>2, <2>5
  <2>7. l[i - a + 1] = x
    BY <1>5, <2>1, <2>6
  <2>8. DOMAIN l = 1..(L - a + 1)
    BY <1>4
  <2> QED
    BY <2>6, <2>7, <2>8 DEF ToSet
<1> QED
  BY <1>6, <1>10, <1>11, <1>12 DEF TopOf, l

(* The top of a part of S that has the top of S is the top of S. *)
LEMMA TopOfMore ==
  ASSUME NEW S, IsFiniteSet(S), NEW T \in SUBSET S, NEW j \in Nat, NEW k \in Nat, j <= k,
         \A x \in S : Cardinality(Above(S, x)) < j => x \in T,
         NEW s, TopOf(s, T, k)
  PROVE  TopOf(s, S, j)
<1>1. ASSUME NEW x \in S, Cardinality(Above(S, x)) < j PROVE x \in ToSet(s)
  <2>1. x \in T
    BY <1>1
  <2>2. Above(T, x) \subseteq Above(S, x) /\ Above(S, x) \subseteq S
    BY DEF Above
  <2>3. IsFiniteSet(Above(S, x)) /\ Cardinality(Above(S, x)) \in Nat
    BY <2>2, FS_Subset, FS_CardinalityType
  <2>4. IsFiniteSet(Above(T, x)) /\ Cardinality(Above(T, x)) \in Nat
        /\ Cardinality(Above(T, x)) <= Cardinality(Above(S, x))
    BY <2>2, <2>3, FS_Subset, FS_CardinalityType
  <2>5. Cardinality(Above(T, x)) < k
    BY <1>1, <2>3, <2>4
  <2> QED
    BY <2>1, <2>5 DEF TopOf
<1>2. s \in Seq(Int) /\ Rises(s) /\ ToSet(s) \subseteq S
  BY DEF TopOf
<1> QED
  BY <1>1, <1>2 DEF TopOf

(* The primes of a range are finitely many; the worker's range, which begins
   at 2 at least, has them all. *)
LEMMA PrimesFacts ==
  ASSUME NEW from \in Int, NEW to \in Int
  PROVE  /\ IsFiniteSet(Primes(from, to)) /\ Primes(from, to) \subseteq Int
         /\ \A p \in Int : p \in Primes(from, to) <=> from <= p /\ p <= to /\ IsWhole(p)
         /\ Primes(from, to) = {p \in AtLeast(2, from)..to : IsPrime(p)}
         /\ to < AtLeast(2, from) => Primes(from, to) = {}
<1> DEFINE a == AtLeast(2, from)
<1>1. a \in Int /\ \A p \in Int : a <= p <=> 2 <= p /\ from <= p
  BY DEF AtLeast
<1>2. Primes(from, to) = {p \in a..to : \A d \in 2..(p - 1) : p % d # 0}
  BY DEF Primes
<1> HIDE DEF a
<1>3. IsFiniteSet(a..to) /\ Primes(from, to) \subseteq a..to /\ a..to \subseteq Int
  BY <1>1, <1>2, FS_Interval
<1>4. IsFiniteSet(Primes(from, to)) /\ Primes(from, to) \subseteq Int
  BY <1>3, FS_Subset
<1>5. ASSUME NEW p \in Int
      PROVE p \in Primes(from, to) <=> from <= p /\ p <= to /\ IsWhole(p)
  <2>1. p \in Primes(from, to) <=> p \in a..to /\ \A d \in 2..(p - 1) : p % d # 0
    BY <1>2
  <2>2. p \in a..to <=> 2 <= p /\ from <= p /\ p <= to
    BY <1>1
  <2> DEFINE W == \A d \in 2..(p - 1) : p % d # 0
  <2>3. IsWhole(p) <=> 2 <= p /\ W
    BY DEF IsWhole
  <2> HIDE DEF W
  <2> QED
    BY <2>1, <2>2, <2>3 DEF W
<1>6. Primes(from, to) = {p \in a..to : IsPrime(p)}
  <2>1. ASSUME NEW p \in a..to PROVE p \in Primes(from, to) <=> IsPrime(p)
    <3>1. p \in Int /\ from <= p /\ p <= to
      BY <1>1
    <3> QED
      BY <1>5, <3>1, PrimeTest
  <2> QED
    BY <1>3, <2>1
<1>7. to < a => Primes(from, to) = {}
  BY <1>1, <1>3
<1> QED
  BY <1>4, <1>5, <1>6, <1>7 DEF a

(* The numbers of a finite set, in ascending order. *)
LEMMA InOrderTop ==
  ASSUME NEW S, IsFiniteSet(S), S \subseteq Int
  PROVE  /\ InOrder(S) \in Seq(Int) /\ Rises(InOrder(S))
         /\ ToSet(InOrder(S)) = S /\ Len(InOrder(S)) = Cardinality(S)
<1> DEFINE s == InOrder(S)
           f == [x \in S |-> x]
<1>1. s \in Seq(Int) /\ \A x : Copies(s, x) = IsOneOf(S, x)
  BY InOrderFacts
<1>2. Ascends(s)
  <2>1. DOMAIN f = S /\ \A x \in S : f[x] = x
    OBVIOUS
  <2>2. f = [x \in DOMAIN f |-> f[x]]
    OBVIOUS
  <2>3. s = Sorted(f)
    BY DEF InOrder
  <2> HIDE DEF f, s
  <2>4. Numbers(f)
    BY <2>1, <2>2 DEF Numbers
  <2> QED
    BY <2>3, <2>4, SortedFacts
<1> HIDE DEF s
<1>3. \A x \in Int : Copies(s, x) \in {0, 1}
  BY <1>1 DEF IsOneOf
<1>4. Rises(s) /\ Cardinality(ToSet(s)) = Len(s)
  BY <1>1, <1>2, <1>3, OnceEach DEF Rises
<1>5. ToSet(s) = S
  <2>1. \A x : Copies(s, x) # 0 <=> x \in Range(s)
    BY <1>1, CopiesFacts
  <2>2. \A x : x \in S <=> x \in Range(s)
    BY <1>1, <2>1 DEF IsOneOf
  <2>3. Range(s) = ToSet(s)
    BY DEF Range, ToSet
  <2> QED
    BY <2>2, <2>3
<1> QED
  BY <1>1, <1>4, <1>5 DEF s

(* executePrimeCount counts the primes of its chunk, samples the last of
   them and names its range if it has one. *)
LEMMA PrimeAnswer ==
  ASSUME NEW c, c.from \in Int, c.to \in Int, NEW out \in ExecutePrimeCount(c)
  PROVE  /\ out.count = Cardinality(Primes(c.from, c.to))
         /\ TopOf(out.sample, Primes(c.from, c.to), WorkerPrimes)
         /\ out.bounds = IF c.to < AtLeast(2, c.from) THEN <<>>
                         ELSE <<AtLeast(2, c.from), c.to>>
<1> DEFINE a == AtLeast(2, c.from)
           S == Primes(c.from, c.to)
           primes == InOrder(S)
<1>1. /\ S = {p \in a..c.to : IsPrime(p)} /\ IsFiniteSet(S) /\ S \subseteq Int
      /\ c.to < a => S = {}
  BY PrimesFacts
<1>2. WorkerPrimes \in Nat \ {0}
  BY CapsAssumption
<1>3. CASE c.to < a
  <2>1. out = [count |-> 0, bounds |-> <<>>, sample |-> <<>>]
    BY <1>3 DEF ExecutePrimeCount
  <2>2. S = {} /\ Cardinality(S) = 0
    BY <1>1, <1>3, FS_EmptySet
  <2>3. <<>> \in Seq(Int) /\ Len(<<>>) = 0 /\ ToSet(<<>>) = {}
    BY DEF ToSet
  <2>4. TopOf(<<>>, {}, WorkerPrimes)
    <3>1. \A i \in 1..0 : FALSE
      OBVIOUS
    <3> QED
      BY <2>3, <3>1 DEF TopOf, Rises, IsSorted
  <2> QED
    BY <1>3, <2>1, <2>2, <2>4
<1>4. CASE ~ (c.to < a)
  <2>1. /\ out.count = Len(primes) /\ out.bounds = <<a, c.to>>
        /\ out.sample = LastOf(primes, WorkerPrimes)
    <3>1. ExecutePrimeCount(c) # {}
      OBVIOUS
    <3>2. out = [count |-> Len(primes), bounds |-> <<a, c.to>>,
                 sample |-> LastOf(primes, WorkerPrimes)]
      <4> HIDE DEF S, a
      <4>1. ExecutePrimeCount(c) =
              CASE c.to < a -> {[count |-> 0, bounds |-> <<>>, sample |-> <<>>]}
                [] c.to - a > RangeCap -> {}
                [] OTHER -> {[count |-> Len(primes), bounds |-> <<a, c.to>>,
                              sample |-> LastOf(primes, WorkerPrimes)]}
        BY <1>1 DEF ExecutePrimeCount, a
      <4> HIDE DEF primes
      <4> QED
        BY <1>4, <4>1
    <3> QED
      BY <3>2
  <2> HIDE DEF S
  <2>2. primes \in Seq(Int) /\ Rises(primes) /\ ToSet(primes) = S /\ Len(primes) = Cardinality(S)
    BY <1>1, InOrderTop
  <2> HIDE DEF primes
  <2>3. TopOf(LastOf(primes, WorkerPrimes), S, WorkerPrimes)
    BY <1>2, <2>2, LastOfTop
  <2> QED
    BY <1>4, <2>1, <2>2, <2>3 DEF S
<1> QED
  BY <1>3, <1>4

(* s has numbers of S, each once, among them the top k. *)
Gathers(s, S, k) ==
  /\ s \in Seq(Int)
  /\ \A x : Copies(s, x) \in {0, 1} /\ (Copies(s, x) # 0 => x \in S)
  /\ \A x \in S : Cardinality(Above(S, x)) < k => Copies(s, x) # 0

(* Ascending numbers are each there once. *)
LEMMA RisesOnce ==
  ASSUME NEW s \in Seq(Int), Rises(s)
  PROVE  \A x : Copies(s, x) \in {0, 1} /\ (Copies(s, x) # 0 <=> x \in ToSet(s))
<1>1. DOMAIN s = 1..Len(s) /\ Len(s) \in Nat /\ \A i \in 1..Len(s) : s[i] \in Int
  OBVIOUS
<1>2. ASSUME NEW i \in 1..Len(s), NEW j \in 1..Len(s), s[i] = s[j] PROVE i = j
  <2>1. ASSUME NEW u \in 1..Len(s), NEW v \in 1..Len(s), u < v PROVE s[u] # s[v]
    <3>1. s[u] < s[v] /\ s[u] \in Int
      BY <1>1, <2>1 DEF Rises, IsSorted
    <3> QED
      BY <3>1
  <2>2. i \in Int /\ j \in Int
    BY <1>1
  <2> QED
    BY <1>2, <2>1, <2>2
<1>3. ASSUME NEW x PROVE Copies(s, x) \in {0, 1}
  <2> DEFINE P == Places(s, x)
  <2>1. \A i \in P, j \in P : i = j
    BY <1>1, <1>2 DEF Places
  <2> HIDE DEF P
  <2>2. P = {} \/ \E i : P = {i}
    <3>1. ASSUME NEW i \in P PROVE P = {i}
      BY <2>1
    <3> QED
      BY <3>1
  <2>3. Cardinality(P) \in {0, 1}
    BY <2>2, FS_EmptySet, FS_Singleton
  <2> QED
    BY <2>3 DEF Copies, P
<1>4. ToSet(s) = Range(s)
  BY DEF ToSet, Range
<1> QED
  BY <1>3, <1>4, CopiesFacts

(* Nothing gathers nothing. *)
LEMMA GathersNone ==
  ASSUME NEW k
  PROVE  Gathers(<<>>, {}, k)
<1>1. <<>> \in Seq(Int)
  OBVIOUS
<1> QED
  BY <1>1, CopiesOfNothing DEF Gathers

(* What gathers S, followed by the top of numbers above S, gathers both: the
   top k of both are the top of the upper ones and, if those are fewer than
   k, of S. *)
LEMMA GathersMore ==
  ASSUME NEW k \in Nat, NEW S, IsFiniteSet(S), S \subseteq Int, NEW T, IsFiniteSet(T), T \subseteq Int,
         \A x \in S, y \in T : x < y,
         NEW s, Gathers(s, S, k), NEW t, TopOf(t, T, k)
  PROVE  Gathers(s \o t, S \cup T, k)
<1>1. s \in Seq(Int) /\ t \in Seq(Int) /\ Rises(t) /\ ToSet(t) \subseteq T
  BY DEF Gathers, TopOf
<1>2. \A x : Copies(s \o t, x) = Copies(s, x) + Copies(t, x)
  BY <1>1, CopiesConcat
<1>3. \A x : Copies(t, x) \in {0, 1} /\ (Copies(t, x) # 0 <=> x \in ToSet(t))
  BY <1>1, RisesOnce
<1>4. \A x : Copies(s, x) \in {0, 1} /\ (Copies(s, x) # 0 => x \in S)
  BY DEF Gathers
<1>5. \A x : ~ (x \in S /\ x \in T)
  <2>1. \A x \in S : x \in Int
    OBVIOUS
  <2>2. \A x \in Int : ~ (x < x)
    OBVIOUS
  <2> QED
    BY <2>1, <2>2
<1>6. s \o t \in Seq(Int)
  BY <1>1, ConcatProperties
<1>7. ASSUME NEW x
      PROVE  Copies(s \o t, x) \in {0, 1} /\ (Copies(s \o t, x) # 0 => x \in S \cup T)
  <2> DEFINE a == Copies(s, x)
             b == Copies(t, x)
  <2>1. a \in {0, 1} /\ b \in {0, 1} /\ Copies(s \o t, x) = a + b
    BY <1>2, <1>3, <1>4
  <2>2. (a # 0 => x \in S) /\ (b # 0 => x \in T)
    BY <1>1, <1>3, <1>4
  <2> HIDE DEF a, b
  <2> QED
    BY <1>5, <2>1, <2>2
<1>8. ASSUME NEW R, IsFiniteSet(R), NEW Q \in SUBSET R
      PROVE  Cardinality(Q) <= Cardinality(R) /\ Cardinality(Q) \in Nat /\ Cardinality(R) \in Nat
  BY <1>8, FS_Subset, FS_CardinalityType
<1>9. IsFiniteSet(S \cup T)
  BY FS_Union
<1>10. ASSUME NEW x \in S \cup T, Cardinality(Above(S \cup T, x)) < k
       PROVE  Copies(s \o t, x) # 0
  <2> DEFINE A == Above(S \cup T, x)
  <2>1. IsFiniteSet(A)
    <3>1. A \subseteq S \cup T
      BY DEF Above
    <3> QED
      BY <1>9, <3>1, FS_Subset
  <2>2. Above(S, x) \subseteq A /\ Above(T, x) \subseteq A
    BY DEF Above
  <2> HIDE DEF A
  <2>3. Cardinality(Above(S, x)) < k /\ Cardinality(Above(T, x)) < k
    <3>1. Cardinality(A) < k /\ Cardinality(A) \in Nat
      BY <1>8, <1>10, <2>1 DEF A
    <3>2. /\ Cardinality(Above(S, x)) \in Nat /\ Cardinality(Above(S, x)) <= Cardinality(A)
          /\ Cardinality(Above(T, x)) \in Nat /\ Cardinality(Above(T, x)) <= Cardinality(A)
      BY <1>8, <2>1, <2>2
    <3> QED
      BY ONLY <3>1, <3>2, k \in Nat
  <2>4. Copies(s, x) # 0 \/ Copies(t, x) # 0
    <3>1. CASE x \in S
      BY <2>3, <3>1 DEF Gathers
    <3>2. CASE x \in T
      <4>1. x \in ToSet(t)
        BY <2>3, <3>2 DEF TopOf
      <4> QED
        BY <1>3, <4>1
    <3> QED
      BY <1>10, <3>1, <3>2
  <2> DEFINE a == Copies(s, x)
             b == Copies(t, x)
  <2>5. a \in {0, 1} /\ b \in {0, 1} /\ Copies(s \o t, x) = a + b /\ (a # 0 \/ b # 0)
    BY <1>2, <1>3, <1>4, <2>4
  <2> HIDE DEF a, b
  <2> QED
    BY <2>5
<1> QED
  BY <1>6, <1>7, <1>10 DEF Gathers

(* lo[i] to hi[i] are ranges each of which begins after the one before it. *)
Consecutive(lo, hi, l) ==
  \A i \in 1..l : /\ lo[i] \in Int /\ hi[i] \in Int /\ lo[i] <= hi[i]
                  /\ i > 1 => lo[i] = hi[i - 1] + 1

(* cs counts the primes of each range; ms has the highest w of each. *)
CountsRanges(cs, lo, hi, l) == \A i \in 1..l : cs[i] = Cardinality(Primes(lo[i], hi[i]))
SamplesRanges(ms, lo, hi, l, w) == \A i \in 1..l : TopOf(ms[i], Primes(lo[i], hi[i]), w)

(* The counts of the ranges sum to the count of the whole, and their samples
   in line have the top of the whole. *)
LEMMA PrimesOfTiles ==
  ASSUME NEW l \in Nat \ {0}, NEW lo, NEW hi, Consecutive(lo, hi, l), NEW w \in Nat,
         NEW cs, CountsRanges(cs, lo, hi, l),
         NEW ms \in Seq(Seq(Int)), Len(ms) = l, SamplesRanges(ms, lo, hi, l, w)
  PROVE  /\ SumFunctionOnSet(cs, 1..l) = Cardinality(Primes(lo[1], hi[l]))
         /\ Gathers(FlattenSeq(ms), Primes(lo[1], hi[l]), w)
<1> DEFINE from == lo[1]
           P(k) == IF k = 0 THEN {} ELSE Primes(from, hi[k])
           Good(k) == /\ k # 0 => from <= hi[k]
                      /\ SumFunctionOnSet(cs, 1..k) = Cardinality(P(k))
                      /\ Gathers(Prefix(ms, k), P(k), w)
           N == {k \in Nat : k <= l => Good(k)}
<1> USE DEF CountsRanges, SamplesRanges
<1>1. \A i \in 1..l : /\ lo[i] \in Int /\ hi[i] \in Int /\ lo[i] <= hi[i]
                      /\ i > 1 => lo[i] = hi[i - 1] + 1
  BY DEF Consecutive
<1>2. from \in Int
  <2>1. 1 \in 1..l
    OBVIOUS
  <2> QED
    BY <1>1, <2>1
<1>3. \A i \in 1..l : cs[i] \in Nat
  <2>1. ASSUME NEW i \in 1..l PROVE Cardinality(Primes(lo[i], hi[i])) \in Nat
    <3>1. lo[i] \in Int /\ hi[i] \in Int
      BY <1>1
    <3>2. IsFiniteSet(Primes(lo[i], hi[i]))
      BY <3>1, PrimesFacts
    <3> QED
      BY <3>2, FS_CardinalityType
  <2> QED
    BY <2>1
<1>4. 0 \in N
  <2>1. 1..0 = {}
    OBVIOUS
  <2>2. SumFunctionOnSet(cs, 1..0) = 0
    BY <2>1, SumEmpty
  <2>3. P(0) = {} /\ Cardinality(P(0)) = 0
    BY FS_EmptySet
  <2>4. Prefix(ms, 0) = <<>>
    BY PrefixFacts
  <2>5. Gathers(Prefix(ms, 0), P(0), w)
    BY <2>3, <2>4, GathersNone
  <2> HIDE DEF P
  <2>6. Good(0)
    BY <2>2, <2>3, <2>5
  <2> HIDE DEF Good
  <2> QED
    BY <2>6
<1>5. ASSUME NEW k \in Nat, k \in N PROVE k + 1 \in N
  <2>1. ASSUME k + 1 <= l PROVE Good(k + 1)
    <3>1. k + 1 \in 1..l /\ k <= l /\ (k + 1) - 1 = k /\ (k # 0 => k \in 1..l /\ k + 1 > 1)
      BY <2>1
    <3>2. Good(k)
      BY <1>5, <3>1
    <3> DEFINE a == lo[k + 1]
               b == hi[k + 1]
               T == Primes(a, b)
    <3>3. a \in Int /\ b \in Int /\ a <= b /\ (k = 0 => a = from)
      BY <1>1, <3>1
    <3>4. ASSUME k # 0 PROVE a = hi[k] + 1 /\ hi[k] \in Int /\ from <= hi[k]
      BY <1>1, <3>1, <3>2, <3>4
    <3> HIDE DEF a, b, from
    <3>5. from <= b
      <4>1. CASE k = 0
        BY <1>2, <3>3, <4>1
      <4>2. CASE k # 0
        BY <1>2, <3>3, <3>4, <4>2
      <4> QED
        BY <4>1, <4>2
    <3>6. /\ IsFiniteSet(P(k)) /\ P(k) \subseteq Int
          /\ IsFiniteSet(T) /\ T \subseteq Int
          /\ \A p \in Int : p \in T <=> a <= p /\ p <= b /\ IsWhole(p)
          /\ \A p \in Int : p \in P(k) <=> k # 0 /\ from <= p /\ p < a /\ IsWhole(p)
      <4>1. /\ IsFiniteSet(T) /\ T \subseteq Int
            /\ \A p \in Int : p \in T <=> a <= p /\ p <= b /\ IsWhole(p)
        BY <3>3, PrimesFacts
      <4>2. CASE k = 0
        <5>1. P(k) = {}
          BY <4>2
        <5> HIDE DEF P
        <5> QED
          BY <4>1, <4>2, <5>1, FS_EmptySet
      <4>3. CASE k # 0
        <5>1. P(k) = Primes(from, hi[k])
          BY <4>3
        <5>2. /\ IsFiniteSet(P(k)) /\ P(k) \subseteq Int
              /\ \A p \in Int : p \in P(k) <=> from <= p /\ p <= hi[k] /\ IsWhole(p)
          BY <1>2, <3>4, <4>3, <5>1, PrimesFacts
        <5>3. \A p \in Int : p <= hi[k] <=> p < a
          BY <3>4, <4>3
        <5> HIDE DEF P
        <5> QED
          BY <4>1, <4>3, <5>2, <5>3
      <4> QED
        BY <4>2, <4>3
    <3>7. P(k + 1) = P(k) \cup T /\ \A x \in P(k), y \in T : x < y
      <4>1. P(k + 1) = Primes(from, b)
        <5>1. k + 1 # 0
          OBVIOUS
        <5> QED
          BY <5>1 DEF b
      <4>2. /\ Primes(from, b) \subseteq Int
            /\ \A p \in Int : p \in Primes(from, b) <=> from <= p /\ p <= b /\ IsWhole(p)
        BY <1>2, <3>3, PrimesFacts
      <4> HIDE DEF P, T
      <4>3. ASSUME NEW p \in Int
            PROVE  p \in Primes(from, b) <=> p \in P(k) \/ p \in T
        <5>1. CASE k = 0
          BY <1>2, <3>3, <3>6, <4>2, <5>1
        <5>2. CASE k # 0
          <6>1. from <= p /\ p <= b <=> (from <= p /\ p < a) \/ (a <= p /\ p <= b)
            BY <1>2, <3>3, <3>4, <5>2
          <6> QED
            BY <3>6, <4>2, <5>2, <6>1
        <5> QED
          BY <5>1, <5>2
      <4>4. Primes(from, b) = P(k) \cup T
        BY <3>6, <4>2, <4>3
      <4>5. ASSUME NEW x \in P(k), NEW y \in T PROVE x < y
        <5>1. x \in Int /\ y \in Int /\ x < a /\ a <= y
          BY <3>6
        <5> QED
          BY <3>3, <5>1
      <4> QED
        BY <4>1, <4>4, <4>5
    <3>8. /\ SumFunctionOnSet(cs, 1..k) = Cardinality(P(k))
          /\ Gathers(Prefix(ms, k), P(k), w)
      BY <3>2
    <3>9. cs[k + 1] = Cardinality(T) /\ TopOf(ms[k + 1], T, w)
      BY <3>1 DEF a, b
    <3> HIDE DEF P, T
    <3>10. SumFunctionOnSet(cs, 1..(k + 1)) = cs[k + 1] + SumFunctionOnSet(cs, 1..k)
      <4>1. \A i \in 1..(k + 1) : cs[i] \in Int
        BY <1>3, <2>1
      <4> QED
        BY <4>1, SumNext
    <3>11. Cardinality(P(k) \cup T) = Cardinality(P(k)) + Cardinality(T)
      <4>1. P(k) \cap T = {}
        <5>1. \A x \in Int : ~ (x < x)
          OBVIOUS
        <5> QED
          BY <3>6, <3>7, <5>1
      <4>2. Cardinality(P(k) \cap T) = 0
        BY <4>1, FS_EmptySet
      <4>3. Cardinality(P(k) \cup T) =
              Cardinality(P(k)) + Cardinality(T) - Cardinality(P(k) \cap T)
        BY <3>6, FS_Union
      <4>4. Cardinality(P(k)) \in Nat /\ Cardinality(T) \in Nat
        BY <3>6, FS_CardinalityType
      <4> QED
        BY ONLY <4>2, <4>3, <4>4
    <3>12. SumFunctionOnSet(cs, 1..(k + 1)) = Cardinality(P(k + 1))
      <4>1. Cardinality(P(k)) \in Nat /\ Cardinality(T) \in Nat
        BY <3>6, FS_CardinalityType
      <4>2. Cardinality(P(k + 1)) = Cardinality(P(k)) + Cardinality(T)
        BY <3>7, <3>11
      <4> QED
        BY ONLY <3>8, <3>9, <3>10, <4>1, <4>2
    <3>13. Prefix(ms, k + 1) = Prefix(ms, k) \o ms[k + 1]
      BY <3>1, PrefixFacts
    <3>14. Gathers(Prefix(ms, k) \o ms[k + 1], P(k) \cup T, w)
      BY <3>6, <3>7, <3>8, <3>9, GathersMore
    <3>15. Gathers(Prefix(ms, k + 1), P(k + 1), w)
      BY <3>7, <3>13, <3>14
    <3> QED
      BY <3>5, <3>12, <3>15 DEF b
  <2>2. k + 1 \in Nat
    BY ONLY k \in Nat
  <2> HIDE DEF Good
  <2> QED
    BY ONLY <2>1, <2>2
<1> HIDE DEF N
<1>6. l \in N
  BY <1>4, <1>5, InductiveSet
<1>7. Good(l)
  BY <1>6 DEF N
<1>8. P(l) = Primes(lo[1], hi[l])
  OBVIOUS
<1>9. Prefix(ms, l) = FlattenSeq(ms)
  BY PrefixFacts
<1> HIDE DEF P
<1> QED
  BY <1>7, <1>8, <1>9

(* g is the fold that finds the least bound, over sets of places. *)
IsLowFold(g, outs, base, S) ==
  g = [s \in SUBSET S |->
        IF s = {} THEN base
        ELSE IF outs[Max(s)].bounds = <<>> THEN g[s \ {Max(s)}]
             ELSE UpTo(g[s \ {Max(s)}], outs[Max(s)].bounds[1])]

(* And the greatest. *)
IsHighFold(g, outs, base, S) ==
  g = [s \in SUBSET S |->
        IF s = {} THEN base
        ELSE IF outs[Max(s)].bounds = <<>> THEN g[s \ {Max(s)}]
             ELSE AtLeast(g[s \ {Max(s)}], outs[Max(s)].bounds[2])]

(* aggregatePrimeCount's from: the least of the answers' lower bounds, and
   of base. *)
Least(outs, base) ==
  FoldLeft(LAMBDA m, o : IF o.bounds = <<>> THEN m ELSE UpTo(m, o.bounds[1]), base, outs)

(* It is the fold's value at all the answers. *)
LEMMA LowFoldUnfolds ==
  ASSUME NEW outs, NEW base
  PROVE  Least(outs, base) =
           (CHOOSE g : IsLowFold(g, outs, base, DOMAIN outs))[DOMAIN outs]
BY DEF Least, FoldLeft, MapThenFoldSet, IsLowFold

(* Its to: the greatest of the upper bounds, and of base. *)
Greatest(outs, base) ==
  FoldLeft(LAMBDA m, o : IF o.bounds = <<>> THEN m ELSE AtLeast(m, o.bounds[2]), base, outs)

(* It is the fold's value at all the answers. *)
LEMMA HighFoldUnfolds ==
  ASSUME NEW outs, NEW base
  PROVE  Greatest(outs, base) =
           (CHOOSE g : IsHighFold(g, outs, base, DOMAIN outs))[DOMAIN outs]
BY DEF Greatest, FoldLeft, MapThenFoldSet, IsHighFold

(* g folds the places of a set, the last one outermost. *)
IsIndexFold(g, step, base, S) ==
  g = [s \in SUBSET S |->
        IF s = {} THEN base ELSE step[<<Max(s), g[s \ {Max(s)}]>>]]

(* There is such a fold of integers. *)
LEMMA IndexFold ==
  ASSUME NEW l \in Nat, NEW base \in Int, NEW step \in [(1..l) \X Int -> Int]
  PROVE  \E g \in [SUBSET (1..l) -> Int] : IsIndexFold(g, step, base, 1..l)
<1> DEFINE S == 1..l
           pick == [s \in SUBSET S |-> Max(s)]
<1>1. IsFiniteSet(S)
  BY FS_Interval
<1>2. \A s \in SUBSET S : s # {} => pick[s] \in s
  BY MaxFacts
<1>3. PICK g \in [SUBSET S -> Int] : IsFold(g, step, base, pick, S)
  <2> HIDE DEF S, pick
  <2> QED
    BY <1>1, <1>2, FoldExists DEF S
<1>4. ASSUME NEW s \in SUBSET S
      PROVE  g[s] = IF s = {} THEN base ELSE step[<<Max(s), g[s \ {Max(s)}]>>]
  <2>1. CASE s = {}
    BY <1>3, <2>1 DEF IsFold
  <2>2. CASE s # {}
    <3>1. pick[s] = Max(s)
      OBVIOUS
    <3>2. g[s] = step[pick[s], g[s \ {pick[s]}]]
      BY <1>3, <2>2 DEF IsFold
    <3> HIDE DEF S, pick
    <3> QED
      BY <2>2, <3>1, <3>2
  <2> QED
    BY <2>1, <2>2
<1>5. g = [s \in SUBSET S |-> g[s]]
  OBVIOUS
<1>6. IsIndexFold(g, step, base, S)
  <2> HIDE DEF S
  <2> QED
    BY <1>4, <1>5 DEF IsIndexFold
<1> QED
  BY <1>6

(* The last of the first k places is the k-th. *)
LEMMA UpToNext ==
  ASSUME NEW l \in Nat, NEW k \in 1..l
  PROVE  /\ 1..k \in SUBSET (1..l) /\ 1..k # {} /\ Max(1..k) = k
         /\ (1..k) \ {k} = 1..(k - 1)
<1>1. k - 1 \in Nat /\ (k - 1) + 1 = k
  OBVIOUS
<1>2. Max(1..((k - 1) + 1)) = (k - 1) + 1
  BY <1>1, MaxFacts
<1>3. Max(1..k) = k
  BY <1>1, <1>2
<1>4. k \in Nat /\ k <= l /\ 1 <= k
  OBVIOUS
<1>5. 1..k \subseteq 1..l /\ k \in 1..k
  BY <1>4
<1>6. (1..k) \ {k} = 1..(k - 1)
  BY <1>4
<1> QED
  BY <1>3, <1>5, <1>6

(* An answer's bounds are two integers or none. *)
Bounded(outs, l) ==
  \A i \in 1..l : outs[i].bounds # <<>> =>
    outs[i].bounds[1] \in Int /\ outs[i].bounds[2] \in Int

(* No bound below base: base it stays. *)
LEMMA LowFold ==
  ASSUME NEW l \in Nat, NEW outs, DOMAIN outs = 1..l, Bounded(outs, l), NEW base \in Int,
         \A i \in 1..l : outs[i].bounds # <<>> => base <= outs[i].bounds[1]
  PROVE  Least(outs, base)
           = base
<1> DEFINE S == 1..l
           low(i, m) == IF outs[i].bounds = <<>> THEN m ELSE UpTo(m, outs[i].bounds[1])
           step == [p \in S \X Int |-> low(p[1], p[2])]
           it == CHOOSE g : IsLowFold(g, outs, base, S)
<1>1. \A i \in S, m \in Int : low(i, m) \in Int
  BY DEF Bounded, UpTo
<1> HIDE DEF low
<1>2. step \in [S \X Int -> Int]
  <2>1. ASSUME NEW p \in S \X Int PROVE low(p[1], p[2]) \in Int
    BY <1>1
  <2> QED
    BY <2>1
<1>3. \A i \in S, m \in Int : step[<<i, m>>] = low(i, m)
  OBVIOUS
<1> HIDE DEF step
<1>4. PICK f \in [SUBSET S -> Int] : IsIndexFold(f, step, base, S)
  BY <1>2, IndexFold
<1>5. IsLowFold(f, outs, base, S)
  <2>1. ASSUME NEW s \in SUBSET S
        PROVE  f[s] = IF s = {} THEN base ELSE low(Max(s), f[s \ {Max(s)}])
    <3>1. f[s] = IF s = {} THEN base ELSE step[<<Max(s), f[s \ {Max(s)}]>>]
      <4> HIDE DEF S
      <4> QED
        BY <1>4 DEF IsIndexFold
    <3>2. s # {} => Max(s) \in S /\ f[s \ {Max(s)}] \in Int
      <4>1. s # {} => Max(s) \in s
        BY MaxFacts
      <4> HIDE DEF S
      <4> QED
        BY <4>1
    <3> QED
      BY <1>3, <3>1, <3>2
  <2>2. f = [s \in SUBSET S |-> f[s]]
    OBVIOUS
  <2> HIDE DEF S
  <2> QED
    BY <2>1, <2>2 DEF IsLowFold, low
<1>6. IsLowFold(it, outs, base, S)
  <2>1. \E g : IsLowFold(g, outs, base, S)
    BY <1>5
  <2> HIDE DEF S
  <2> QED
    BY <2>1
<1> HIDE DEF it
<1>7. /\ it[{}] = base
      /\ \A s \in SUBSET S : s # {} => it[s] = low(Max(s), it[s \ {Max(s)}])
  <2> HIDE DEF S
  <2>1. it = [s \in SUBSET S |-> IF s = {} THEN base ELSE low(Max(s), it[s \ {Max(s)}])]
    BY <1>6 DEF IsLowFold, low
  <2> QED
    BY <2>1
<1>8. ASSUME NEW k \in 1..l PROVE it[1..k] = low(k, it[1..(k - 1)])
  <2>1. /\ 1..k \in SUBSET S /\ 1..k # {} /\ Max(1..k) = k
        /\ (1..k) \ {k} = 1..(k - 1)
    BY UpToNext
  <2> HIDE DEF S
  <2> QED
    BY <1>7, <2>1
<1> DEFINE N == {k \in Nat : k <= l => it[1..k] = base}
<1>9. 0 \in N
  <2>1. 1..0 = {}
    OBVIOUS
  <2> QED
    BY <1>7, <2>1
<1>10. ASSUME NEW k \in Nat, k \in N PROVE k + 1 \in N
  <2>1. ASSUME k + 1 <= l PROVE it[1..(k + 1)] = base
    <3>1. k + 1 \in 1..l /\ k <= l /\ (k + 1) - 1 = k
      BY <2>1
    <3>2. it[1..k] = base
      BY <1>10, <3>1
    <3>3. it[1..(k + 1)] = low(k + 1, base)
      BY <1>8, <3>1, <3>2
    <3>4. low(k + 1, base) = base
      BY <3>1 DEF low, Bounded, UpTo
    <3> QED
      BY <3>3, <3>4
  <2>2. k + 1 \in Nat
    BY ONLY k \in Nat
  <2> QED
    BY ONLY <2>1, <2>2
<1> HIDE DEF N
<1>11. l \in N
  BY <1>9, <1>10, InductiveSet
<1>12. it[1..l] = base
  BY <1>11 DEF N
<1>13. Least(outs, base)
         = it[DOMAIN outs]
  <2>1. it = CHOOSE g : IsLowFold(g, outs, base, DOMAIN outs)
    BY DEF it
  <2> QED
    BY <2>1, LowFoldUnfolds
<1> QED
  BY <1>12, <1>13

(* The last answer's upper bound, if it is as great as any, is the greatest;
   without bounds base stays. *)
LEMMA HighFold ==
  ASSUME NEW l \in Nat, NEW outs, DOMAIN outs = 1..l, Bounded(outs, l), NEW base \in Int,
         NEW top \in Int, base <= top,
         \A i \in 1..l : outs[i].bounds # <<>> => outs[i].bounds[2] <= top
  PROVE  /\ (\A i \in 1..l : outs[i].bounds = <<>>) => Greatest(outs, base) = base
         /\ l # 0 /\ outs[l].bounds # <<>> /\ outs[l].bounds[2] = top =>
              Greatest(outs, base) = top
<1> DEFINE S == 1..l
           high(i, m) == IF outs[i].bounds = <<>> THEN m ELSE AtLeast(m, outs[i].bounds[2])
           step == [p \in S \X Int |-> high(p[1], p[2])]
           it == CHOOSE g : IsHighFold(g, outs, base, S)
<1>1. \A i \in S, m \in Int : high(i, m) \in Int
  BY DEF Bounded, AtLeast
<1> HIDE DEF high
<1>2. step \in [S \X Int -> Int]
  <2>1. ASSUME NEW p \in S \X Int PROVE high(p[1], p[2]) \in Int
    BY <1>1
  <2> QED
    BY <2>1
<1>3. \A i \in S, m \in Int : step[<<i, m>>] = high(i, m)
  OBVIOUS
<1> HIDE DEF step
<1>4. PICK f \in [SUBSET S -> Int] : IsIndexFold(f, step, base, S)
  BY <1>2, IndexFold
<1>5. IsHighFold(f, outs, base, S)
  <2>1. ASSUME NEW s \in SUBSET S
        PROVE  f[s] = IF s = {} THEN base ELSE high(Max(s), f[s \ {Max(s)}])
    <3>1. f[s] = IF s = {} THEN base ELSE step[<<Max(s), f[s \ {Max(s)}]>>]
      <4> HIDE DEF S
      <4> QED
        BY <1>4 DEF IsIndexFold
    <3>2. s # {} => Max(s) \in S /\ f[s \ {Max(s)}] \in Int
      <4>1. s # {} => Max(s) \in s
        BY MaxFacts
      <4> HIDE DEF S
      <4> QED
        BY <4>1
    <3> QED
      BY <1>3, <3>1, <3>2
  <2>2. f = [s \in SUBSET S |-> f[s]]
    OBVIOUS
  <2> HIDE DEF S
  <2> QED
    BY <2>1, <2>2 DEF IsHighFold, high
<1>6. IsHighFold(it, outs, base, S)
  <2>1. \E g : IsHighFold(g, outs, base, S)
    BY <1>5
  <2> HIDE DEF S
  <2> QED
    BY <2>1
<1> HIDE DEF it
<1>7. /\ it[{}] = base
      /\ \A s \in SUBSET S : s # {} => it[s] = high(Max(s), it[s \ {Max(s)}])
  <2> HIDE DEF S
  <2>1. it = [s \in SUBSET S |-> IF s = {} THEN base ELSE high(Max(s), it[s \ {Max(s)}])]
    BY <1>6 DEF IsHighFold, high
  <2> QED
    BY <2>1
<1>8. ASSUME NEW k \in 1..l PROVE it[1..k] = high(k, it[1..(k - 1)])
  <2>1. /\ 1..k \in SUBSET S /\ 1..k # {} /\ Max(1..k) = k
        /\ (1..k) \ {k} = 1..(k - 1)
    BY UpToNext
  <2> HIDE DEF S
  <2> QED
    BY <1>7, <2>1
<1> DEFINE None == \A i \in 1..l : outs[i].bounds = <<>>
           Good(v) == v \in Int /\ v <= top /\ (None => v = base)
           N == {k \in Nat : k <= l => Good(it[1..k])}
<1>9. 0 \in N
  <2>1. 1..0 = {}
    OBVIOUS
  <2> QED
    BY <1>7, <2>1
<1>10. ASSUME NEW k \in Nat, k \in N PROVE k + 1 \in N
  <2>1. ASSUME k + 1 <= l PROVE Good(it[1..(k + 1)])
    <3>1. k + 1 \in 1..l /\ k <= l /\ (k + 1) - 1 = k
      BY <2>1
    <3> DEFINE v == it[1..k]
    <3>2. Good(v)
      BY <1>10, <3>1
    <3>3. it[1..(k + 1)] = high(k + 1, v)
      BY <1>8, <3>1
    <3> HIDE DEF v
    <3>4. CASE outs[k + 1].bounds = <<>>
      <4>1. high(k + 1, v) = v
        BY <3>4 DEF high
      <4> HIDE DEF Good
      <4> QED
        BY <3>2, <3>3, <4>1
    <3>5. CASE outs[k + 1].bounds # <<>>
      <4>1. ~ None
        BY <3>1, <3>5
      <4>2. outs[k + 1].bounds[2] \in Int /\ outs[k + 1].bounds[2] <= top
        BY <3>1, <3>5 DEF Bounded
      <4> HIDE DEF None
      <4>3. high(k + 1, v) \in Int /\ high(k + 1, v) <= top
        BY <3>2, <3>5, <4>2 DEF high, AtLeast
      <4> QED
        BY <3>3, <4>1, <4>3
    <3> QED
      BY <3>4, <3>5
  <2>2. k + 1 \in Nat
    BY ONLY k \in Nat
  <2> HIDE DEF Good
  <2> QED
    BY ONLY <2>1, <2>2
<1> HIDE DEF N
<1>11. \A k \in Nat : k \in N
  BY <1>9, <1>10, InductiveSet
<1>12. Good(it[1..l])
  BY <1>11 DEF N
<1>13. Greatest(outs, base) = it[1..l]
  <2>1. it = CHOOSE g : IsHighFold(g, outs, base, DOMAIN outs)
    BY DEF it
  <2> QED
    BY <2>1, HighFoldUnfolds
<1>14. ASSUME l # 0, outs[l].bounds # <<>>, outs[l].bounds[2] = top
       PROVE  it[1..l] = top
  <2>1. l \in 1..l /\ l - 1 \in Nat /\ l - 1 <= l
    BY <1>14
  <2> DEFINE v == it[1..(l - 1)]
  <2>2. it[1..l] = high(l, v)
    BY <1>8, <2>1
  <2>3. v \in Int /\ v <= top
    BY <1>11, <2>1 DEF N
  <2> HIDE DEF v
  <2> QED
    BY <1>14, <2>2, <2>3 DEF high, AtLeast
<1> QED
  BY <1>12, <1>13, <1>14

(* All the ranges lie between the first one's start and the last one's end. *)
LEMMA TilesRise ==
  ASSUME NEW l \in Nat, NEW lo, NEW hi, Consecutive(lo, hi, l)
  PROVE  \A i \in 1..l : lo[1] <= lo[i] /\ hi[i] <= hi[l]
<1>1. \A i \in 1..l : /\ lo[i] \in Int /\ hi[i] \in Int /\ lo[i] <= hi[i]
                      /\ i > 1 => lo[i] = hi[i - 1] + 1
  BY DEF Consecutive
<1> DEFINE Rising(j) == \A i \in 1..l : i <= j => lo[i] <= lo[j] /\ hi[i] <= hi[j]
           N == {j \in Nat : j \in 1..l => Rising(j)}
<1>2. 0 \in N
  OBVIOUS
<1>3. ASSUME NEW j \in Nat, j \in N PROVE j + 1 \in N
  <2>1. ASSUME j + 1 \in 1..l, NEW i \in 1..l, i <= j + 1
        PROVE  lo[i] <= lo[j + 1] /\ hi[i] <= hi[j + 1]
    <3>1. CASE i = j + 1
      BY <1>1, <2>1, <3>1
    <3>2. CASE i # j + 1
      <4>1. j \in 1..l /\ i <= j /\ j + 1 > 1 /\ (j + 1) - 1 = j
        BY <2>1, <3>2
      <4>2. lo[i] <= lo[j] /\ hi[i] <= hi[j]
        BY <1>3, <4>1
      <4>3. lo[j + 1] = hi[j] + 1 /\ lo[j + 1] <= hi[j + 1] /\ lo[j] <= hi[j]
        BY <1>1, <2>1, <4>1
      <4>4. /\ lo[i] \in Int /\ hi[i] \in Int /\ lo[j] \in Int /\ hi[j] \in Int
            /\ lo[j + 1] \in Int /\ hi[j + 1] \in Int
        BY <1>1, <2>1, <4>1
      <4> QED
        BY ONLY <4>2, <4>3, <4>4
    <3> QED
      BY <3>1, <3>2
  <2>2. j + 1 \in Nat
    BY ONLY j \in Nat
  <2> QED
    BY ONLY <2>1, <2>2
<1> HIDE DEF N
<1>4. \A j \in Nat : j \in N
  BY <1>2, <1>3, InductiveSet
<1>5. ASSUME NEW i \in 1..l PROVE lo[1] <= lo[i] /\ hi[i] <= hi[l]
  <2>1. i \in Nat /\ l \in 1..l /\ 1 \in 1..l /\ 1 <= i /\ i <= l
    OBVIOUS
  <2>2. Rising(i) /\ Rising(l)
    BY <1>4, <2>1 DEF N
  <2> QED
    BY <2>1, <2>2
<1> QED
  BY <1>5

(* The last of all the samples, sorted, are the top of the primes. *)
LEMMA SamplesTop ==
  ASSUME NEW S, IsFiniteSet(S), S \subseteq Int, NEW all, Gathers(all, S, WorkerPrimes)
  PROVE  TopOf(LastOf(Sorted(all), JobPrimes), S, WorkerPrimes)
<1> DEFINE s == Sorted(all)
           T == ToSet(s)
<1>1. WorkerPrimes \in Nat /\ JobPrimes \in Nat \ {0} /\ WorkerPrimes <= JobPrimes
  BY CapsAssumption
<1>2. /\ all \in Seq(Int)
      /\ \A x : Copies(all, x) \in {0, 1} /\ (Copies(all, x) # 0 => x \in S)
      /\ \A x \in S : Cardinality(Above(S, x)) < WorkerPrimes => Copies(all, x) # 0
  BY DEF Gathers
<1>3. IsSortOf(s, all)
  BY <1>2, SortNumbers
<1> HIDE DEF s
<1>4. s \in Seq(Int) /\ Ascends(s) /\ \A x : Copies(s, x) = Copies(all, x)
  BY <1>3 DEF IsSortOf
<1>5. \A x \in Int : Copies(s, x) \in {0, 1}
  BY <1>2, <1>4
<1>6. Rises(s)
  BY <1>4, <1>5, OnceEach DEF Rises
<1>7. \A x : Copies(s, x) # 0 <=> x \in T
  BY <1>4, <1>6, RisesOnce
<1>8. TopOf(LastOf(s, JobPrimes), T, JobPrimes)
  BY <1>1, <1>4, <1>6, LastOfTop
<1> HIDE DEF T
<1>9. T \in SUBSET S /\ \A x \in S : Cardinality(Above(S, x)) < WorkerPrimes => x \in T
  BY <1>2, <1>4, <1>7
<1> DEFINE r == LastOf(s, JobPrimes)
<1> HIDE DEF r
<1>10. TopOf(r, S, WorkerPrimes)
  <2>1. JobPrimes \in Nat /\ TopOf(r, T, JobPrimes)
    BY <1>1, <1>8 DEF r
  <2> QED
    BY <1>1, <1>9, <2>1, TopOfMore
<1> QED
  BY <1>10 DEF r, s

(* The range aggregatePrimeCount names has the primes of all the ranges,
   although workers with ranges below 2 name none and 0 stands for no bound. *)
LEMMA NamedRange ==
  ASSUME NEW l \in Nat \ {0}, NEW lo, NEW hi, Consecutive(lo, hi, l),
         NEW outs, DOMAIN outs = 1..l,
         \A i \in 1..l : outs[i].bounds = IF hi[i] < AtLeast(2, lo[i]) THEN <<>>
                                          ELSE <<AtLeast(2, lo[i]), hi[i]>>
  PROVE  Primes(FromOf(outs), ToOf(outs)) = Primes(lo[1], hi[l])
<1> DEFINE from == lo[1]
           to == hi[l]
           base == IF outs[1].bounds = <<>> THEN 0 ELSE outs[1].bounds[1]
           low(i) == AtLeast(2, lo[i])
<1>1. 1 \in 1..l /\ l \in 1..l /\ l \in Nat /\ l # 0 /\ DOMAIN outs = 1..l
  OBVIOUS
<1>2. \A i \in 1..l : lo[i] \in Int /\ hi[i] \in Int /\ lo[i] <= hi[i]
  BY DEF Consecutive
<1>3. \A i \in 1..l : from <= lo[i] /\ hi[i] <= to
  BY TilesRise
<1>4. \A i \in 1..l : low(i) \in Int /\ low(i) >= 2 /\ low(i) >= lo[i] /\ (low(i) = 2 \/ low(i) = lo[i])
  BY <1>2 DEF AtLeast
<1>5. \A i \in 1..l : /\ outs[i].bounds = <<>> <=> hi[i] < low(i)
                      /\ outs[i].bounds # <<>> => /\ outs[i].bounds[1] = low(i)
                                                  /\ outs[i].bounds[2] = hi[i]
  <2>1. \A x, y : <<x, y>> # <<>> /\ <<x, y>>[1] = x /\ <<x, y>>[2] = y
    OBVIOUS
  <2> HIDE DEF low
  <2>2. \A i \in 1..l : outs[i].bounds = IF hi[i] < low(i) THEN <<>> ELSE <<low(i), hi[i]>>
    BY DEF low
  <2>3. ASSUME NEW i \in 1..l
        PROVE  /\ outs[i].bounds = <<>> <=> hi[i] < low(i)
               /\ outs[i].bounds # <<>> => /\ outs[i].bounds[1] = low(i)
                                           /\ outs[i].bounds[2] = hi[i]
    <3> DEFINE b == outs[i].bounds
    <3>1. b = IF hi[i] < low(i) THEN <<>> ELSE <<low(i), hi[i]>>
      BY <2>2
    <3> HIDE DEF b
    <3>2. CASE hi[i] < low(i)
      <4>1. b = <<>>
        BY ONLY <3>1, <3>2
      <4> QED
        BY ONLY <3>2, <4>1 DEF b
    <3>3. CASE ~ (hi[i] < low(i))
      <4>1. b = <<low(i), hi[i]>>
        BY ONLY <3>1, <3>3
      <4>2. b # <<>> /\ b[1] = low(i) /\ b[2] = hi[i]
        BY <2>1, <4>1
      <4> QED
        BY ONLY <3>3, <4>2 DEF b
    <3> QED
      BY ONLY <3>2, <3>3
  <2> QED
    BY <2>3
<1> HIDE DEF low
<1>6. Bounded(outs, l)
  BY <1>2, <1>4, <1>5 DEF Bounded
<1>7. from \in Int /\ to \in Int
  BY <1>1, <1>2
<1>8. base \in Int /\ (base = 0 \/ base = low(1)) /\ (base = 0 <=> hi[1] < low(1))
  <2>1. CASE outs[1].bounds = <<>>
    BY <1>1, <1>5, <2>1
  <2>2. CASE outs[1].bounds # <<>>
    <3>1. base = low(1) /\ ~ (hi[1] < low(1))
      BY <1>1, <1>5, <2>2
    <3>2. low(1) \in Int /\ low(1) # 0
      BY <1>1, <1>4
    <3> QED
      BY <3>1, <3>2
  <2> QED
    BY <2>1, <2>2
<1> HIDE DEF base, from, to
<1>9. FromOf(outs) = base
  <2>1. FromOf(outs) = Least(outs, base)
    BY DEF FromOf, Least, base
  <2>2. \A i \in 1..l : outs[i].bounds # <<>> => base <= outs[i].bounds[1]
    <3>1. ASSUME NEW i \in 1..l PROVE base <= low(i)
      <4>1. low(i) \in Int /\ low(i) >= 2 /\ low(i) >= lo[i] /\ from <= lo[i] /\ lo[i] \in Int
        BY <1>2, <1>3, <1>4
      <4>2. low(1) = 2 \/ low(1) = from
        BY <1>1, <1>4 DEF from
      <4> QED
        BY <1>7, <1>8, <4>1, <4>2
    <3> QED
      BY <1>5, <3>1
  <2>3. Least(outs, base) = base
    BY ONLY <1>1, <1>6, <1>8, <2>2, LowFold
  <2> QED
    BY <2>1, <2>3
<1>10. ToOf(outs) = Greatest(outs, 0)
  BY DEF ToOf, Greatest
<1>11. CASE to < 2
  <2>1. \A i \in 1..l : outs[i].bounds = <<>>
    <3>1. ASSUME NEW i \in 1..l PROVE hi[i] < low(i)
      <4>1. hi[i] \in Int /\ low(i) \in Int /\ hi[i] <= to /\ low(i) >= 2
        BY <1>2, <1>3, <1>4
      <4> QED
        BY <1>7, <1>11, <4>1
    <3> QED
      BY <1>5, <3>1
  <2>2. Greatest(outs, 0) = 0
    <3>1. \A i \in 1..l : outs[i].bounds # <<>> => outs[i].bounds[2] <= 0
      BY <2>1
    <3>2. 0 \in Int /\ 0 <= 0
      OBVIOUS
    <3> QED
      BY ONLY <1>1, <1>6, <2>1, <3>1, <3>2, HighFold
  <2>3. base \in Int /\ 0 \in Int
    BY <1>8
  <2>4. \A p \in Int : IsWhole(p) => p >= 2
    BY DEF IsWhole
  <2>5. Primes(from, to) = {}
    <3>1. \A p \in Primes(from, to) : p \in Int /\ p <= to /\ IsWhole(p)
      BY <1>7, PrimesFacts
    <3>2. \A p \in Int : ~ (p <= to /\ p >= 2)
      BY <1>7, <1>11
    <3> QED
      BY <2>4, <3>1, <3>2
  <2>6. Primes(base, 0) = {}
    <3>1. \A p \in Primes(base, 0) : p \in Int /\ p <= 0 /\ IsWhole(p)
      BY <2>3, PrimesFacts
    <3>2. \A p \in Int : ~ (p <= 0 /\ p >= 2)
      OBVIOUS
    <3> QED
      BY <2>4, <3>1, <3>2
  <2> QED
    BY <1>9, <1>10, <2>2, <2>5, <2>6 DEF from, to
<1>12. CASE ~ (to < 2)
  <2>1. outs[l].bounds # <<>> /\ outs[l].bounds[2] = to
    <3>1. ~ (hi[l] < low(l))
      <4>1. low(l) = 2 \/ low(l) = lo[l]
        BY <1>1, <1>4
      <4>2. lo[l] <= to /\ lo[l] \in Int /\ to = hi[l]
        BY <1>1, <1>2 DEF to
      <4> QED
        BY <1>7, <1>12, <4>1, <4>2
    <3> QED
      BY <1>1, <1>5, <3>1 DEF to
  <2>2. Greatest(outs, 0) = to
    <3>1. \A i \in 1..l : outs[i].bounds # <<>> => outs[i].bounds[2] <= to
      BY <1>3, <1>5
    <3>2. 0 \in Int /\ 0 <= to
      BY <1>7, <1>12
    <3> QED
      BY ONLY <1>1, <1>6, <1>7, <2>1, <3>1, <3>2, HighFold
  <2>3. ASSUME NEW p \in Int, p >= 2 PROVE base <= p <=> from <= p
    <3>1. low(1) = 2 \/ low(1) = from
      BY <1>1, <1>4 DEF from
    <3>2. from <= hi[1] /\ hi[1] \in Int
      BY <1>1, <1>2 DEF from
    <3>3. low(1) \in Int /\ low(1) >= 2 /\ low(1) >= from
      BY <1>1, <1>4 DEF from
    <3> QED
      BY <1>7, <1>8, <2>3, <3>1, <3>2, <3>3
  <2>4. \A p \in Int : IsWhole(p) => p >= 2
    BY DEF IsWhole
  <2>5. /\ Primes(from, to) \subseteq Int /\ Primes(base, to) \subseteq Int
        /\ \A p \in Int : p \in Primes(from, to) <=> from <= p /\ p <= to /\ IsWhole(p)
        /\ \A p \in Int : p \in Primes(base, to) <=> base <= p /\ p <= to /\ IsWhole(p)
    BY <1>7, <1>8, PrimesFacts
  <2>6. Primes(base, to) = Primes(from, to)
    BY <2>3, <2>4, <2>5
  <2> QED
    BY <1>9, <1>10, <2>2, <2>6 DEF from, to
<1> QED
  BY <1>11, <1>12

(* Every answer to a prime-count job follows from the invariant. *)
LEMMA PrimesCounted == IndInv => PrimesOfTheRange
<1> SUFFICES ASSUME IndInv, Done("prime-count") PROVE PrimesOfTheRange
  BY DEF PrimesOfTheRange
<1> DEFINE from == input.from
           to == input.to
           lo == [i \in DOMAIN chunks |-> chunks[i].from]
           hi == [i \in DOMAIN chunks |-> chunks[i].to]
           cs == [i \in DOMAIN outputs |-> outputs[i].count]
           ms == [i \in DOMAIN outputs |-> outputs[i].sample]
           l == Len(chunks)
           S == Primes(from, to)
<1>1. type = "prime-count" /\ phase = "done"
  BY DEF Done
<1>2. ~ SplitRefused /\ chunks = SplitInput /\ n \in Nat \ {0}
  BY <1>1, InputsAssumption DEF IndInv, StageInv
<1>3. from \in Int /\ to \in Int /\ from <= to
  <2>1. from \in Froms /\ to \in Tos
    BY <1>1 DEF IndInv, Submitted
  <2>2. from \in Int /\ to \in Int
    BY <2>1, InputsAssumption
  <2>3. ~ (from > to)
    BY <1>1, <1>2 DEF SplitRefused
  <2> QED
    BY <2>2, <2>3
<1>4. chunks = SplitPrimeCount(from, to, n)
  BY <1>1, <1>2 DEF SplitInput
<1>5. Tiles(lo, hi, from, to)
  BY <1>2, <1>3, <1>4, PrimeTiles
<1>6. l \in Nat \ {0} /\ DOMAIN chunks = 1..l
  <2> DEFINE k == UpTo(n, to - from + 1)
  <2>1. k \in Nat \ {0}
    BY <1>2, <1>3 DEF UpTo
  <2>2. DOMAIN chunks = 1..k
    BY <1>4 DEF SplitPrimeCount
  <2> HIDE DEF k
  <2>3. Len(chunks) = k
    BY <2>1, <2>2
  <2> QED
    BY <2>1, <2>2, <2>3
<1>7. ASSUME NEW i \in 1..l PROVE chunks[i].from \in Int /\ chunks[i].to \in Int
  <2> DEFINE size == AtLeast(1, (to - from + 1) \div n)
  <2>1. size \in Int
    <3>1. to - from + 1 \in Nat
      BY <1>3
    <3>2. (to - from + 1) \div n \in Nat
      BY <1>2, <3>1, DivFacts
    <3> QED
      BY <3>2 DEF AtLeast
  <2>2. i \in DOMAIN chunks /\ i \in Int
    BY <1>6
  <2>3. chunks[i] = [from |-> from + (i - 1) * size,
                     to   |-> IF i = n THEN to ELSE from + i * size - 1]
    BY <1>4, <2>2 DEF SplitPrimeCount
  <2> HIDE DEF size, from, to
  <2> QED
    BY <1>3, <2>1, <2>2, <2>3
<1> HIDE DEF l, from, to
<1>8. /\ \A i \in 1..l : /\ lo[i] = chunks[i].from /\ hi[i] = chunks[i].to
                         /\ lo[i] \in Int /\ hi[i] \in Int
      /\ DOMAIN lo = 1..l /\ DOMAIN hi = 1..l /\ Len(hi) = l
  BY <1>6, <1>7
<1> HIDE DEF lo, hi
<1>9. Consecutive(lo, hi, l) /\ lo[1] = from /\ hi[l] = to
  BY <1>5, <1>8 DEF Tiles, Consecutive
<1>10. DOMAIN outputs = 1..l /\ result = AggregatePrimeCount(outputs)
  BY <1>1, <1>6 DEF IndInv, AnswerInv, AggregateOutputs
<1>11. ASSUME NEW i \in 1..l
       PROVE  /\ outputs[i].count = Cardinality(Primes(lo[i], hi[i]))
              /\ TopOf(outputs[i].sample, Primes(lo[i], hi[i]), WorkerPrimes)
              /\ outputs[i].bounds = IF hi[i] < AtLeast(2, lo[i]) THEN <<>>
                                     ELSE <<AtLeast(2, lo[i]), hi[i]>>
  <2>1. outputs[i] \in Answers(chunks[i])
    BY <1>1, <1>10 DEF IndInv, AnswerInv
  <2>2. outputs[i] \in ExecutePrimeCount(chunks[i])
    BY <1>1, <2>1 DEF Answers
  <2>3. chunks[i].from \in Int /\ chunks[i].to \in Int
    BY <1>7
  <2> DEFINE out == outputs[i]
             c == chunks[i]
  <2> HIDE DEF out, c
  <2>4. /\ out.count = Cardinality(Primes(c.from, c.to))
        /\ TopOf(out.sample, Primes(c.from, c.to), WorkerPrimes)
        /\ out.bounds = IF c.to < AtLeast(2, c.from) THEN <<>>
                        ELSE <<AtLeast(2, c.from), c.to>>
    <3>1. c.from \in Int /\ c.to \in Int /\ out \in ExecutePrimeCount(c)
      BY <2>2, <2>3 DEF out, c
    <3> QED
      BY <3>1, PrimeAnswer
  <2> QED
    BY <1>8, <2>4 DEF out, c
<1>12. /\ \A i \in 1..l : cs[i] = outputs[i].count /\ ms[i] = outputs[i].sample
       /\ DOMAIN cs = 1..l /\ DOMAIN ms = 1..l /\ ms = [i \in 1..l |-> ms[i]]
  BY <1>10
<1>13. /\ result.count = SumFunction(cs) /\ result.from = FromOf(outputs)
       /\ result.to = ToOf(outputs)
       /\ result.sample = LastOf(Sorted(FlattenSeq(ms)), JobPrimes)
  BY <1>10 DEF AggregatePrimeCount
<1> HIDE DEF cs, ms
<1>14. ms \in Seq(Seq(Int)) /\ Len(ms) = l
  <2>1. \A i \in 1..l : ms[i] \in Seq(Int)
    BY <1>11, <1>12 DEF TopOf
  <2>2. ms \in [1..l -> Seq(Int)]
    BY <1>12, <2>1
  <2> QED
    BY <1>6, <2>2
<1>15. SumFunctionOnSet(cs, 1..l) = Cardinality(S) /\ Gathers(FlattenSeq(ms), S, WorkerPrimes)
  <2>1. WorkerPrimes \in Nat
    BY CapsAssumption
  <2>2. CountsRanges(cs, lo, hi, l) /\ SamplesRanges(ms, lo, hi, l, WorkerPrimes)
    BY <1>11, <1>12 DEF CountsRanges, SamplesRanges
  <2>3. /\ SumFunctionOnSet(cs, 1..l) = Cardinality(Primes(lo[1], hi[l]))
        /\ Gathers(FlattenSeq(ms), Primes(lo[1], hi[l]), WorkerPrimes)
    BY ONLY <1>6, <1>9, <1>14, <2>1, <2>2, PrimesOfTiles
  <2> QED
    BY <1>9, <2>3
<1>16. IsFiniteSet(S) /\ S \subseteq Int
  BY <1>3, PrimesFacts
<1>17. TopOf(result.sample, S, WorkerPrimes)
  <2> HIDE DEF S
  <2> QED
    BY <1>13, <1>15, <1>16, SamplesTop
<1>18. Primes(result.from, result.to) = S
  <2>1. Primes(FromOf(outputs), ToOf(outputs)) = Primes(lo[1], hi[l])
    BY <1>6, <1>9, <1>10, <1>11, NamedRange
  <2> QED
    BY <1>9, <1>13, <2>1
<1>19. result.count = Cardinality(S)
  BY <1>12, <1>13, <1>15 DEF SumFunction
<1> HIDE DEF S
<1>20. \A p \in S : Cardinality({q \in S : q > p}) < WorkerPrimes => p \in ToSet(result.sample)
  BY <1>17 DEF TopOf, Above
<1>21. ToSet(result.sample) \subseteq S /\ Rises(result.sample)
  BY <1>17 DEF TopOf
<1> QED
  BY <1>18, <1>19, <1>20, <1>21 DEF PrimesOfTheRange, Rises, S, from, to

(* A prime-count job that is done counted exactly the primes of the range it
   names, which are those of the range asked for, and its sample has the
   last of them (executePrimeCount, splitPrimeCount, aggregatePrimeCount),
   for every range and any number of workers. *)
THEOREM PrimesComplete == Spec => []PrimesOfTheRange
BY Inductive, PrimesCounted, PTL

-----------------------------------------------------------------------------
(* Consecutive ranges leave no gap. *)
LEMMA WithinTiles ==
  ASSUME NEW l \in Nat \ {0}, NEW lo, NEW hi, Consecutive(lo, hi, l),
         NEW d \in lo[1]..hi[l]
  PROVE  \E i \in 1..l : d \in lo[i]..hi[i]
<1> DEFINE S == {i \in 1..l : lo[i] <= d}
<1>1. \A i \in 1..l : lo[i] \in Int /\ hi[i] \in Int /\ (i > 1 => lo[i] = hi[i - 1] + 1)
  BY DEF Consecutive
<1>2. 1 \in S /\ S \subseteq Int /\ IsFiniteSet(S)
  <2>1. 1 \in 1..l /\ lo[1] <= d
    BY <1>1
  <2>2. IsFiniteSet(1..l)
    BY FS_Interval
  <2>3. S \subseteq 1..l
    OBVIOUS
  <2> QED
    BY <2>1, <2>2, <2>3, FS_Subset
<1>3. PICK i \in S : \A j \in S : j <= i
  <2> HIDE DEF S
  <2> QED
    BY <1>2, FiniteMax
<1>4. i \in 1..l /\ lo[i] <= d
  OBVIOUS
<1>5. d <= hi[i]
  <2>1. CASE i = l
    BY <2>1
  <2>2. CASE i # l
    <3>1. i + 1 \in 1..l /\ i + 1 > 1 /\ (i + 1) - 1 = i /\ ~ (i + 1 <= i)
      BY <1>4, <2>2
    <3>2. ~ (lo[i + 1] <= d)
      BY <1>3, <3>1
    <3>3. lo[i + 1] \in Int /\ lo[i + 1] = hi[i] + 1 /\ hi[i] \in Int
      BY <1>1, <1>4, <3>1
    <3> QED
      BY <3>2, <3>3
  <2> QED
    BY <2>1, <2>2
<1>6. d \in Int /\ lo[i] \in Int /\ hi[i] \in Int
  BY <1>1, <1>4
<1> QED
  BY <1>4, <1>5, <1>6

(* The strings of a chunk that spell the word. *)
Hits(hash, chars, maxLen, chunk) ==
  {t \in Tries(chars, Len(hash), chunk.lo, chunk.hi) :
     Len(hash) \in 1..maxLen /\ \A i \in 1..Len(hash) : chars[t[i]] = hash[i]}

(* executeHashCrack finds the word if its chunk has it, and has tried all
   strings of the chunk if not. *)
LEMMA CrackAnswer ==
  ASSUME NEW hash, NEW chars, NEW maxLen \in Nat, NEW chunk,
         NEW out \in ExecuteHashCrack(hash, chars, maxLen, chunk)
  PROVE  /\ out.found \in BOOLEAN
         /\ out.found <=> Hits(hash, chars, maxLen, chunk) # {}
         /\ out.found => out.value = hash
         /\ ~ out.found =>
              out.tried = SumFunctionOnSet([l \in 1..maxLen |->
                            Cardinality(Tries(chars, l, chunk.lo, chunk.hi))], 1..maxLen)
<1> DEFINE tries == Tries(chars, Len(hash), chunk.lo, chunk.hi)
           hits == IF Len(hash) \notin 1..maxLen THEN {}
                   ELSE {t \in tries : \A i \in 1..Len(hash) : chars[t[i]] = hash[i]}
           first == CHOOSE t \in hits : \A u \in hits : ~ TriedBefore(u, t)
           none == [found |-> FALSE, value |-> <<>>,
                    tried |-> TriesShorter(chars, maxLen + 1, chunk.lo, chunk.hi)]
           some == [found |-> TRUE, value |-> hash,
                    tried |-> TriesShorter(chars, Len(hash), chunk.lo, chunk.hi)
                              + Cardinality({t \in tries : t = first \/ TriedBefore(t, first)})]
<1>1. out \in CASE maxLen > LengthCap -> {}
                [] maxLen <= LengthCap /\ hits = {} -> {none}
                [] OTHER -> {some}
  BY DEF ExecuteHashCrack
<1>2. hits = Hits(hash, chars, maxLen, chunk)
  BY DEF Hits
<1>3. none.found = FALSE /\ some.found = TRUE /\ some.value = hash
  OBVIOUS
<1>4. none.tried = SumFunctionOnSet([l \in 1..maxLen |->
                     Cardinality(Tries(chars, l, chunk.lo, chunk.hi))], 1..maxLen)
  <2> DEFINE f == [l \in 1..maxLen |-> Cardinality(Tries(chars, l, chunk.lo, chunk.hi))]
  <2>1. (maxLen + 1) - 1 = maxLen
    OBVIOUS
  <2>2. TriesShorter(chars, maxLen + 1, chunk.lo, chunk.hi) = SumFunction(f)
    BY <2>1 DEF TriesShorter
  <2>3. DOMAIN f = 1..maxLen
    OBVIOUS
  <2> HIDE DEF f
  <2>4. SumFunction(f) = SumFunctionOnSet(f, 1..maxLen)
    BY <2>3 DEF SumFunction
  <2> QED
    BY <2>2, <2>4 DEF f
<1>5. LengthCap \in Nat
  BY CapsAssumption
<1> HIDE DEF hits, none, some
<1>6. (hits = {} /\ out = none) \/ (hits # {} /\ out = some)
  <2>1. CASE maxLen > LengthCap
    <3>1. ~ (maxLen <= LengthCap)
      BY <1>5, <2>1
    <3>2. out \in {}
      BY <1>1, <2>1, <3>1
    <3> QED
      BY <3>2
  <2>2. CASE ~ (maxLen > LengthCap) /\ hits = {}
    <3>1. maxLen <= LengthCap
      BY <1>5, <2>2
    <3> QED
      BY <1>1, <2>2, <3>1
  <2>3. CASE ~ (maxLen > LengthCap) /\ hits # {}
    BY <1>1, <2>3
  <2> QED
    BY <2>1, <2>2, <2>3
<1> QED
  BY <1>2, <1>3, <1>4, <1>6

(* There are finitely many strings to try. *)
LEMMA TriesFacts ==
  ASSUME NEW chars, IsFiniteSet(DOMAIN chars), NEW l \in Nat, NEW a \in Int, NEW b \in Int
  PROVE  /\ IsFiniteSet(Tries(chars, l, a, b))
         /\ Cardinality(Tries(chars, l, a, b)) \in Nat
<1>1. IsFiniteSet([1..l -> DOMAIN chars])
  BY FunctionsFinite
<1>2. Tries(chars, l, a, b) \subseteq [1..l -> DOMAIN chars]
  BY DEF Tries
<1>3. IsFiniteSet(Tries(chars, l, a, b))
  BY <1>1, <1>2, FS_Subset
<1> QED
  BY <1>3, FS_CardinalityType

(* The strings that begin in a range are those that begin in its lower and
   in its upper part. *)
LEMMA TriesSplit ==
  ASSUME NEW chars, IsFiniteSet(DOMAIN chars), NEW l \in Nat,
         NEW a \in Int, NEW b \in Int, NEW c \in Int, a <= b + 1, b <= c
  PROVE  Cardinality(Tries(chars, l, a, c))
           = Cardinality(Tries(chars, l, a, b)) + Cardinality(Tries(chars, l, b + 1, c))
<1> DEFINE T == Tries(chars, l, a, c)
           A == Tries(chars, l, a, b)
           B == Tries(chars, l, b + 1, c)
<1>1. \A x : x \in a..c <=> x \in a..b \/ x \in (b + 1)..c
  OBVIOUS
<1>2. \A x : ~ (x \in a..b /\ x \in (b + 1)..c)
  OBVIOUS
<1>3. T = A \cup B
  BY <1>1 DEF Tries
<1>4. A \cap B = {}
  BY <1>2 DEF Tries
<1>5. b + 1 \in Int
  OBVIOUS
<1>6. IsFiniteSet(A) /\ IsFiniteSet(B) /\ Cardinality(A) \in Nat /\ Cardinality(B) \in Nat
  BY <1>5, TriesFacts
<1> HIDE DEF T, A, B
<1>7. Cardinality(A \cup B) = Cardinality(A) + Cardinality(B) - Cardinality(A \cap B)
  BY <1>6, FS_Union
<1>8. Cardinality(A \cap B) = 0
  BY <1>4, FS_EmptySet
<1>9. Cardinality(T) = Cardinality(A) + Cardinality(B)
  BY <1>3, <1>6, <1>7, <1>8
<1> QED
  BY <1>9 DEF T, A, B

(* How many strings of at most m characters begin in a range. *)
TriesUpTo(chars, m, a, b) ==
  SumFunctionOnSet([l \in 1..m |-> Cardinality(Tries(chars, l, a, b))], 1..m)

(* Consecutive ranges have together as many as the whole. *)
LEMMA TriesOfTiles ==
  ASSUME NEW chars, IsFiniteSet(DOMAIN chars), NEW m \in Nat,
         NEW l \in Nat \ {0}, NEW lo, NEW hi, Consecutive(lo, hi, l),
         NEW w, \A i \in 1..l : w[i] = TriesUpTo(chars, m, lo[i], hi[i])
  PROVE  SumFunctionOnSet(w, 1..l) = TriesUpTo(chars, m, lo[1], hi[l])
<1> DEFINE G == {k \in Nat : k + 1 <= l =>
                   SumFunctionOnSet(w, 1..(k + 1)) = TriesUpTo(chars, m, lo[1], hi[k + 1])}
<1>1. \A i \in 1..l : lo[i] \in Int /\ hi[i] \in Int /\ lo[i] <= hi[i]
                      /\ (i > 1 => lo[i] = hi[i - 1] + 1)
  BY DEF Consecutive
<1>2. ASSUME NEW a \in Int, NEW b \in Int
      PROVE  TriesUpTo(chars, m, a, b) \in Int
  <2> DEFINE f == [x \in 1..m |-> Cardinality(Tries(chars, x, a, b))]
  <2>1. \A x \in 1..m : f[x] \in Nat
    BY TriesFacts
  <2>2. IsFiniteSet(1..m)
    BY FS_Interval
  <2> HIDE DEF f
  <2>3. SumFunctionOnSet(f, 1..m) \in Nat
    <3>1. \A x \in 1..m : f[x] \in Nat /\ f[x] <= f[x]
      BY <2>1
    <3> QED
      BY <2>2, <3>1, SumMonotone
  <2> QED
    BY <2>3 DEF TriesUpTo, f
<1>3. \A i \in 1..l : w[i] \in Int
  BY <1>1, <1>2
<1>4. 0 \in G
  <2>1. 1 \in 1..l /\ 1 = 0 + 1 /\ 1..1 = {1} /\ {1} \ {1} = {}
    OBVIOUS
  <2>2. w[1] \in Int /\ w[1] = TriesUpTo(chars, m, lo[1], hi[1])
    BY <1>3, <2>1
  <2>3. IsFiniteSet({1})
    BY FS_Singleton
  <2>4. SumFunctionOnSet(w, {1}) = w[1] + SumFunctionOnSet(w, {1} \ {1})
    BY <2>2, <2>3, SumRemove
  <2>5. SumFunctionOnSet(w, {1}) = w[1]
    BY <2>1, <2>2, <2>4, SumEmpty
  <2> QED
    BY <2>1, <2>2, <2>5
<1>5. ASSUME NEW k \in Nat, k \in G PROVE k + 1 \in G
  <2> DEFINE j == k + 1
  <2>1. SUFFICES ASSUME j + 1 <= l
                 PROVE SumFunctionOnSet(w, 1..(j + 1)) = TriesUpTo(chars, m, lo[1], hi[j + 1])
    OBVIOUS
  <2>2. j \in 1..l /\ j + 1 \in 1..l /\ 1 \in 1..l /\ j + 1 > 1 /\ (j + 1) - 1 = j
        /\ \A i \in 1..(j + 1) : i \in 1..l
    BY <2>1
  <2>3. SumFunctionOnSet(w, 1..j) = TriesUpTo(chars, m, lo[1], hi[j])
    BY <1>5, <2>2
  <2> HIDE DEF j
  <2>4. j \in Nat
    BY <2>2
  <2>5. SumFunctionOnSet(w, 1..(j + 1)) = w[j + 1] + SumFunctionOnSet(w, 1..j)
    <3>1. \A i \in 1..(j + 1) : w[i] \in Int
      BY <1>3, <2>2
    <3> QED
      BY <2>4, <3>1, SumNext
  <2> DEFINE a == lo[1]
             b == hi[j]
             c == hi[j + 1]
             f == [x \in 1..m |-> Cardinality(Tries(chars, x, a, b))]
             g == [x \in 1..m |-> Cardinality(Tries(chars, x, b + 1, c))]
             h == [x \in 1..m |-> Cardinality(Tries(chars, x, a, c))]
  <2>6. a \in Int /\ b \in Int /\ c \in Int /\ b + 1 \in Int /\ a <= b + 1 /\ b <= c
        /\ lo[j + 1] = b + 1
    <3>1. lo[1] <= lo[j] /\ lo[j] \in Int /\ lo[j] <= hi[j] /\ lo[1] \in Int /\ hi[j] \in Int
      BY <1>1, <2>2, TilesRise
    <3>2. lo[j + 1] = hi[j] + 1 /\ lo[j + 1] <= hi[j + 1] /\ hi[j + 1] \in Int
      BY <1>1, <2>2
    <3> QED
      BY <3>1, <3>2
  <2> HIDE DEF a, b, c
  <2>7. \A x \in 1..m : f[x] \in Int /\ g[x] \in Int /\ h[x] = f[x] + g[x]
    <3>1. ASSUME NEW x \in 1..m PROVE f[x] \in Int /\ g[x] \in Int /\ h[x] = f[x] + g[x]
      <4>1. x \in Nat
        OBVIOUS
      <4>2. Cardinality(Tries(chars, x, a, b)) \in Nat
        BY <2>6, <4>1, TriesFacts
      <4>3. Cardinality(Tries(chars, x, b + 1, c)) \in Nat
        BY <2>6, <4>1, TriesFacts
      <4>4. Cardinality(Tries(chars, x, a, c))
              = Cardinality(Tries(chars, x, a, b)) + Cardinality(Tries(chars, x, b + 1, c))
        BY <2>6, <4>1, TriesSplit
      <4> QED
        BY <4>2, <4>3, <4>4
    <3> QED
      BY <3>1
  <2> HIDE DEF f, g, h
  <2>8. SumFunctionOnSet(h, 1..m) = SumFunctionOnSet(f, 1..m) + SumFunctionOnSet(g, 1..m)
    BY <2>7, SumPlus
  <2>9. /\ TriesUpTo(chars, m, a, c) = SumFunctionOnSet(h, 1..m)
        /\ TriesUpTo(chars, m, a, b) = SumFunctionOnSet(f, 1..m)
        /\ TriesUpTo(chars, m, b + 1, c) = SumFunctionOnSet(g, 1..m)
    BY DEF TriesUpTo, f, g, h
  <2>10. w[j + 1] = TriesUpTo(chars, m, b + 1, c)
    BY <2>2, <2>6 DEF c
  <2>11. TriesUpTo(chars, m, a, b) \in Int /\ TriesUpTo(chars, m, b + 1, c) \in Int
    BY <1>2, <2>6
  <2>12. SumFunctionOnSet(w, 1..(j + 1)) = TriesUpTo(chars, m, a, c)
    BY <2>3, <2>5, <2>8, <2>9, <2>10, <2>11 DEF a, b
  <2> QED
    BY <2>12 DEF a, c
<1> HIDE DEF G
<1>6. l - 1 \in G
  <2>1. l - 1 \in Nat
    OBVIOUS
  <2> QED
    BY <1>4, <1>5, <2>1, InductiveSet
<1>7. (l - 1) + 1 = l
  OBVIOUS
<1> QED
  BY <1>6, <1>7 DEF G

(* The chunks in c search the ranges lo[i] to hi[i]. *)
Ranges(c, lo, hi, l) == \A i \in 1..l : c[i].lo = lo[i] /\ c[i].hi = hi[i]

(* One of them has the word. *)
SomeHit(hash, chars, maxLen, c, l) == \E i \in 1..l : Hits(hash, chars, maxLen, c[i]) # {}

(* One of the chunks has the word exactly when it is not empty, not too long
   and spelled with the set of characters. *)
LEMMA WordIsSpelled ==
  ASSUME NEW hash, IsSequence(hash), NEW chars, IsSequence(chars), NEW maxLen \in Nat,
         NEW l \in Nat \ {0}, NEW lo, NEW hi, Consecutive(lo, hi, l),
         lo[1] = 1, hi[l] = Len(chars),
         NEW c, Ranges(c, lo, hi, l)
  PROVE  SomeHit(hash, chars, maxLen, c, l)
           <=> (Len(hash) \in 1..maxLen /\ ToSet(hash) \subseteq ToSet(chars))
<1> DEFINE m == Len(hash)
           D == DOMAIN chars
<1>1. m \in Nat /\ DOMAIN hash = 1..m /\ Len(chars) \in Nat /\ D = 1..Len(chars)
  BY DEF IsSequence
<1>2. ASSUME NEW i \in 1..l, NEW t \in Hits(hash, chars, maxLen, c[i])
      PROVE  m \in 1..maxLen /\ ToSet(hash) \subseteq ToSet(chars)
  <2>1. t \in [1..m -> D] /\ m \in 1..maxLen /\ \A j \in 1..m : chars[t[j]] = hash[j]
    BY DEF Hits, Tries
  <2>2. \A j \in 1..m : hash[j] \in ToSet(chars)
    BY <2>1 DEF ToSet
  <2> QED
    BY <1>1, <2>1, <2>2 DEF ToSet
<1>3. ASSUME m \in 1..maxLen, ToSet(hash) \subseteq ToSet(chars)
      PROVE  SomeHit(hash, chars, maxLen, c, l)
  <2> DEFINE t == [j \in 1..m |-> CHOOSE d \in D : chars[d] = hash[j]]
  <2>1. \A j \in 1..m : \E d \in D : chars[d] = hash[j]
    BY <1>1, <1>3 DEF ToSet
  <2>2. \A j \in 1..m : t[j] \in D /\ chars[t[j]] = hash[j]
    BY <2>1
  <2>3. t \in [1..m -> D]
    <3>1. t = [j \in 1..m |-> t[j]]
      OBVIOUS
    <3> HIDE DEF t
    <3> QED
      BY <2>2, <3>1
  <2> HIDE DEF t
  <2>4. 1 \in 1..m
    BY <1>1, <1>3
  <2>5. t[1] \in lo[1]..hi[l]
    BY <1>1, <2>2, <2>4
  <2>6. PICK i \in 1..l : t[1] \in lo[i]..hi[i]
    BY <2>5, WithinTiles
  <2>7. t[1] \in c[i].lo..c[i].hi
    BY <2>6 DEF Ranges
  <2>8. t \in Hits(hash, chars, maxLen, c[i])
    BY <1>3, <2>2, <2>3, <2>7 DEF Hits, Tries
  <2> QED
    BY <2>8 DEF SomeHit
<1> HIDE DEF m
<1> QED
  BY <1>2, <1>3 DEF m, SomeHit

(* The answers that found the word. *)
Founds(outs) == {i \in 1..Len(outs) : outs[i].found}

(* aggregateHashCrack has found the word if some answer has, and the sum of
   the tries if none has. *)
LEMMA CrackAnswers ==
  ASSUME NEW l \in Nat, NEW outs, DOMAIN outs = 1..l, Len(outs) = l,
         \A i \in 1..l : outs[i].found \in BOOLEAN,
         NEW r, r = AggregateHashCrack(outs)
  PROVE  /\ r.found \in BOOLEAN /\ (r.found <=> Founds(outs) # {})
         /\ r.found => \E i \in Founds(outs) : r.value = outs[i].value
         /\ ~ r.found =>
              r.totalTried = SumFunctionOnSet([i \in 1..l |-> outs[i].tried], 1..l)
<1> DEFINE at == IF Founds(outs) # {} THEN Min(Founds(outs)) ELSE 0
           last == IF at = 0 THEN Len(outs) ELSE at
<1>1. at = SelectInSeq(outs, LAMBDA o : o.found)
  BY DEF SelectInSeq, Founds
<1>2. r = [found |-> at # 0,
           value |-> IF at = 0 THEN <<>> ELSE outs[at].value,
           totalTried |-> SumFunction([i \in 1..last |-> outs[i].tried])]
  <2> HIDE DEF at
  <2> QED
    BY <1>1 DEF AggregateHashCrack
<1>3. Founds(outs) # {} => at \in Founds(outs)
  <2>1. Founds(outs) \in SUBSET (1..l)
    BY DEF Founds
  <2>2. IsFiniteSet(Founds(outs)) /\ Founds(outs) \subseteq Int
    <3>1. IsFiniteSet(1..l)
      BY FS_Interval
    <3> QED
      BY <2>1, <3>1, FS_Subset
  <2> DEFINE F == Founds(outs)
  <2> HIDE DEF F
  <2>3. F # {} => \E x \in F : \A y \in F : x <= y
    BY <2>2, FiniteMax DEF F
  <2>4. F # {} => Min(F) \in F
    BY <2>3 DEF Min
  <2> QED
    BY <2>4 DEF F
<1>4. Founds(outs) # {} => at # 0
  <2>1. 0 \notin Founds(outs)
    BY DEF Founds
  <2> QED
    BY <1>3, <2>1
<1>5. Founds(outs) = {} => at = 0 /\ last = l
  OBVIOUS
<1>6. ASSUME Founds(outs) = {}
      PROVE  r.totalTried = SumFunctionOnSet([i \in 1..l |-> outs[i].tried], 1..l)
  <2> DEFINE f == [i \in 1..l |-> outs[i].tried]
  <2>1. last = l
    BY <1>5, <1>6
  <2> HIDE DEF at, last
  <2>2. r.totalTried = SumFunction(f)
    BY <1>2, <2>1
  <2>3. DOMAIN f = 1..l
    OBVIOUS
  <2> HIDE DEF f
  <2>4. SumFunction(f) = SumFunctionOnSet(f, 1..l)
    BY <2>3 DEF SumFunction
  <2> QED
    BY <2>2, <2>4 DEF f
<1> HIDE DEF at, last
<1>7. r.found = (at # 0) /\ (at # 0 => r.value = outs[at].value)
  BY <1>2
<1> QED
  BY <1>3, <1>4, <1>5, <1>6, <1>7

(* Every answer to a hash-crack job follows from the invariant. *)
LEMMA WordSearched == IndInv => CrackIsExhaustive
<1> SUFFICES ASSUME IndInv, Done("hash-crack") PROVE CrackIsExhaustive
  BY DEF CrackIsExhaustive
<1> DEFINE hash == input.hash
           chars == input.charset
           maxLen == input.maxLen
           lo == [i \in DOMAIN chunks |-> chunks[i].lo]
           hi == [i \in DOMAIN chunks |-> chunks[i].hi]
           l == Len(chunks)
           w == [i \in 1..l |-> outputs[i].tried]
<1>1. type = "hash-crack" /\ phase = "done"
  BY DEF Done
<1>2. chunks = SplitInput /\ n \in Nat \ {0}
  BY <1>1, InputsAssumption DEF IndInv, StageInv
<1>3. IsSequence(hash) /\ IsSequence(chars) /\ chars # <<>> /\ maxLen \in Nat
  <2>1. hash \in Hashes /\ chars \in Charsets /\ maxLen \in MaxLens
    BY <1>1 DEF IndInv, Submitted
  <2> QED
    BY <2>1, InputsAssumption
<1>4. chunks = SplitHashCrack(chars, n)
  BY <1>1, <1>2 DEF SplitInput
<1>5. Len(chars) \in Nat \ {0} /\ DOMAIN chars = 1..Len(chars) /\ chars \in Seq(ToSet(chars))
  <2> HIDE DEF chars
  <2> QED
    BY <1>3 DEF IsSequence
<1>6. Tiles(lo, hi, 1, Len(chars))
  <2> HIDE DEF chars
  <2>1. Tiles([i \in DOMAIN chunks |-> chunks[i].lo], [i \in DOMAIN chunks |-> chunks[i].hi],
              1, Len(chars))
    BY <1>2, <1>3, <1>4, <1>5, HashTiles
  <2> QED
    BY <2>1
<1> DEFINE k == UpTo(n, Len(chars))
<1>7. k \in Nat \ {0}
  BY <1>2, <1>5 DEF UpTo
<1>8. l = k /\ DOMAIN chunks = 1..l
  <2>1. DOMAIN chunks = 1..k
    BY <1>4 DEF SplitHashCrack
  <2> HIDE DEF k
  <2>2. Len(chunks) = k
    BY <1>7, <2>1
  <2> QED
    BY <2>1, <2>2
<1>9. ASSUME NEW i \in 1..l PROVE chunks[i].lo \in Int /\ chunks[i].hi \in Int
  <2> DEFINE size == Len(chars) \div k
  <2>1. size \in Nat
    BY <1>5, <1>7, DivFacts
  <2>2. i \in 1..k /\ i \in Int
    BY <1>7, <1>8
  <2>3. chunks[i] = [lo |-> (i - 1) * size + 1,
                     hi |-> IF i = k THEN Len(chars) ELSE i * size]
    BY <1>4, <2>2 DEF SplitHashCrack
  <2> HIDE DEF size, k, chars
  <2> QED
    BY <1>5, <2>1, <2>2, <2>3
<1>10. l \in Nat \ {0}
  BY <1>7, <1>8
<1> HIDE DEF l, k, hash, chars, maxLen
<1>11. /\ \A i \in 1..l : /\ lo[i] = chunks[i].lo /\ hi[i] = chunks[i].hi
                          /\ lo[i] \in Int /\ hi[i] \in Int
       /\ DOMAIN lo = 1..l /\ DOMAIN hi = 1..l /\ Len(hi) = l
  BY <1>8, <1>9, <1>10
<1> HIDE DEF lo, hi
<1>12. Consecutive(lo, hi, l) /\ lo[1] = 1 /\ hi[l] = Len(chars)
  BY <1>6, <1>11 DEF Tiles, Consecutive
<1>13. /\ DOMAIN outputs = 1..l /\ outputs = [i \in 1..l |-> outputs[i]]
       /\ result = AggregateHashCrack(outputs)
  BY <1>1, <1>8 DEF IndInv, AnswerInv, AggregateOutputs
<1>14. Len(outputs) = l
  BY <1>10, <1>13
<1>15. ASSUME NEW i \in 1..l
       PROVE  /\ outputs[i].found \in BOOLEAN
              /\ outputs[i].found <=> Hits(hash, chars, maxLen, chunks[i]) # {}
              /\ outputs[i].found => outputs[i].value = hash
              /\ ~ outputs[i].found =>
                   outputs[i].tried = TriesUpTo(chars, maxLen, lo[i], hi[i])
  <2>1. outputs[i] \in Answers(chunks[i])
    BY <1>1, <1>8, <1>13 DEF IndInv, AnswerInv
  <2>2. outputs[i] \in ExecuteHashCrack(hash, chars, maxLen, chunks[i])
    BY <1>1, <2>1 DEF Answers, hash, chars, maxLen
  <2> DEFINE out == outputs[i]
             c == chunks[i]
  <2> HIDE DEF out, c
  <2>3. /\ out.found \in BOOLEAN
        /\ out.found <=> Hits(hash, chars, maxLen, c) # {}
        /\ out.found => out.value = hash
        /\ ~ out.found =>
             out.tried = SumFunctionOnSet([x \in 1..maxLen |->
                           Cardinality(Tries(chars, x, c.lo, c.hi))], 1..maxLen)
    <3>1. out \in ExecuteHashCrack(hash, chars, maxLen, c)
      BY <2>2 DEF out, c
    <3> QED
      BY <1>3, <3>1, CrackAnswer
  <2>4. lo[i] = c.lo /\ hi[i] = c.hi
    BY <1>11 DEF c
  <2>5. TriesUpTo(chars, maxLen, lo[i], hi[i])
          = SumFunctionOnSet([x \in 1..maxLen |->
              Cardinality(Tries(chars, x, c.lo, c.hi))], 1..maxLen)
    BY <2>4 DEF TriesUpTo
  <2> QED
    BY <2>3, <2>5 DEF out, c
<1>16. /\ result.found \in BOOLEAN /\ (result.found <=> Founds(outputs) # {})
       /\ result.found => \E i \in Founds(outputs) : result.value = outputs[i].value
       /\ ~ result.found => result.totalTried = SumFunctionOnSet(w, 1..l)
  <2>1. \A i \in 1..l : outputs[i].found \in BOOLEAN
    BY <1>15
  <2> QED
    BY <1>10, <1>13, <1>14, <2>1, CrackAnswers
<1>17. Founds(outputs) = {i \in 1..l : outputs[i].found}
  BY <1>14 DEF Founds
<1>18. (\E i \in 1..l : Hits(hash, chars, maxLen, chunks[i]) # {}) <=> Spelled
  <2>1. Ranges(chunks, lo, hi, l)
    BY <1>11 DEF Ranges
  <2>2. SomeHit(hash, chars, maxLen, chunks, l)
           <=> (Len(hash) \in 1..maxLen /\ ToSet(hash) \subseteq ToSet(chars))
    BY <1>3, <1>10, <1>12, <2>1, WordIsSpelled
  <2> QED
    BY <2>2 DEF SomeHit, Spelled, hash, chars, maxLen
<1>19. result.found = Spelled
  <2>1. Founds(outputs) # {} <=> Spelled
    BY <1>15, <1>17, <1>18
  <2>2. Spelled \in BOOLEAN
    BY DEF Spelled
  <2> QED
    BY <1>16, <2>1, <2>2
<1>20. result.found => result.value = hash
  BY <1>15, <1>16, <1>17
<1>21. ASSUME ~ result.found PROVE result.totalTried = AllStrings
  <2>1. \A i \in 1..l : ~ outputs[i].found
    BY <1>16, <1>17, <1>21
  <2>2. \A i \in 1..l : w[i] = TriesUpTo(chars, maxLen, lo[i], hi[i])
    BY <1>15, <2>1
  <2> HIDE DEF w
  <2>3. IsFiniteSet(DOMAIN chars)
    BY <1>5, FS_Interval
  <2>4. SumFunctionOnSet(w, 1..l) = TriesUpTo(chars, maxLen, lo[1], hi[l])
    BY <1>3, <1>10, <1>12, <2>2, <2>3, TriesOfTiles
  <2> DEFINE f == [x \in 1..maxLen |-> Cardinality(Tries(chars, x, 1, Len(chars)))]
             g == [x \in 1..maxLen |-> Cardinality([1..x -> DOMAIN chars])]
  <2>5. ASSUME NEW x \in 1..maxLen PROVE Tries(chars, x, 1, Len(chars)) = [1..x -> DOMAIN chars]
    <3>1. 1 \in 1..x
      BY <1>3
    <3>2. \A t \in [1..x -> DOMAIN chars] : t[1] \in 1..Len(chars)
      BY <1>5, <3>1
    <3> QED
      BY <3>2 DEF Tries
  <2>6. f = g
    BY <2>5
  <2>7. TriesUpTo(chars, maxLen, 1, Len(chars)) = SumFunctionOnSet(f, 1..maxLen)
    BY DEF TriesUpTo
  <2>8. AllStrings = SumFunction(g)
    BY DEF AllStrings, chars, maxLen
  <2>9. DOMAIN g = 1..maxLen
    OBVIOUS
  <2> HIDE DEF f, g
  <2>10. SumFunction(g) = SumFunctionOnSet(g, 1..maxLen)
    BY <2>9 DEF SumFunction
  <2> QED
    BY <1>12, <1>16, <1>21, <2>4, <2>6, <2>7, <2>8, <2>10
<1> QED
  BY <1>19, <1>20, <1>21 DEF CrackIsExhaustive, hash

(* A hash-crack job that is done found the word exactly when it can be
   spelled, and otherwise tried every string once (splitHashCrack,
   executeHashCrack, aggregateHashCrack), for every word, set of characters,
   length and any number of workers. *)
THEOREM WordsCracked == Spec => []CrackIsExhaustive
BY Inductive, WordSearched, PTL
=============================================================================
