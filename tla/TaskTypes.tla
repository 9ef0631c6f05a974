----------------------------- MODULE TaskTypes -----------------------------
(***************************************************************************)
(* The seven task types: how the center splits an input for n workers, what*)
(* a worker answers to a chunk, and how the center aggregates the answers. *)
(* A worker's answers to a chunk are a set: more than one where it draws   *)
(* random numbers, none where it refuses the chunk.                        *)
(***************************************************************************)
EXTENDS Integers, SequencesExt

CONSTANTS
  SampleCap,    \* most samples a worker accepts (10^9)
  RangeCap,     \* longest range a worker accepts, less one (100,000,000)
  LengthCap,    \* longest word a worker searches (6)
  SizeCap,      \* most numbers a worker sorts (10,000,000)
  WorkerPrimes, \* primes a worker samples (10)
  JobPrimes     \* primes the center keeps (20)

ASSUME CapsAssumption ==
  /\ {SampleCap, RangeCap, LengthCap, SizeCap} \subseteq Nat \ {0}
  /\ WorkerPrimes \in Nat \ {0} /\ JobPrimes \in Nat \ {0}
  /\ WorkerPrimes <= JobPrimes

UpTo(a, b) == IF a <= b THEN a ELSE b
AtLeast(a, b) == IF a <= b THEN b ELSE a
CeilDiv(a, b) == (a + b - 1) \div b
LastOf(s, k) == SubSeq(s, AtLeast(1, Len(s) - k + 1), Len(s))

(* The values of f, or the members of S, in ascending order: at place k is the
   value below which there are fewer than k and up to which there are k. *)
Sorted(f) ==
  [k \in 1..Cardinality(DOMAIN f) |->
    CHOOSE x \in Range(f) : /\ Cardinality({i \in DOMAIN f : f[i] < x}) < k
                            /\ k <= Cardinality({i \in DOMAIN f : f[i] <= x})]
InOrder(S) == Sorted([x \in S |-> x])

-----------------------------------------------------------------------------
(* splitSlice and splitSliceGeneric: pieces of equal size, the last shorter.*)
PiecesFloor(s, n) ==                                                 \* mutant
  LET size == IF s = <<>> THEN 1 ELSE Len(s) \div UpTo(n, Len(s))
  IN  [i \in 1..CeilDiv(Len(s), size) |->
        SubSeq(s, (i - 1) * size + 1, UpTo(i * size, Len(s)))]

Pieces(s, n) ==
  LET size == IF s = <<>> THEN 1 ELSE CeilDiv(Len(s), UpTo(n, Len(s)))
  IN  [i \in 1..CeilDiv(Len(s), size) |->
        SubSeq(s, (i - 1) * size + 1, UpTo(i * size, Len(s)))]

-----------------------------------------------------------------------------
(* word-count: a text is a sequence of lines, a line a sequence of words in
   lower case.  No word spans two lines. *)
WordsIn(lines) == ToBag(FlattenSeq(lines))
AggregateWordCountLast(outs) ==                                      \* mutant
  FoldLeft(LAMBDA b, o : [w \in DOMAIN b \union DOMAIN o |->
                           IF w \in DOMAIN o THEN o[w] ELSE b[w]], EmptyBag, outs)
AggregateWordCount(outs) == FoldLeft(LAMBDA b, o : b (+) o, EmptyBag, outs)

(* sort: mergeTwo takes from the first while it is not greater; mergeKSorted
   merges the halves. *)
ExecuteSort(data) == IF Len(data) > SizeCap THEN {} ELSE {Sorted(data)}

MergeTwo(a, b) ==
  LET merged[at \in (1..Len(a) + 1) \X (1..Len(b) + 1)] ==
        LET i == at[1]
            j == at[2]
        IN  CASE i > Len(a) -> SubSeq(b, j, Len(b))
              [] i <= Len(a) /\ j > Len(b) -> SubSeq(a, i, Len(a))
              [] OTHER -> IF a[i] <= b[j] THEN <<a[i]>> \o merged[<<i + 1, j>>]
                                          ELSE <<b[j]>> \o merged[<<i, j + 1>>]
  IN  merged[<<1, 1>>]

AggregateSortAppending(outs) == FlattenSeq(outs)                     \* mutant
AggregateSort(outs) ==
  LET merged[k \in 0..Len(outs)] ==
        [lo \in 1..Len(outs) - k + 1 |->
          CASE k = 0 -> <<>>
            [] k = 1 -> outs[lo]
            [] OTHER -> MergeTwo(merged[k \div 2][lo], merged[k - k \div 2][lo + k \div 2])]
  IN  merged[Len(outs)][1]

-----------------------------------------------------------------------------
(* matrix-mul: every chunk has rows of A and all of B.  Only the first row of
   the chunk is compared with B; a row or a column that is too short is an
   index out of range, which ends the request without an answer. *)
Product(rows, b) ==
  [i \in DOMAIN rows |-> [j \in DOMAIN b[1] |->
    SumFunction([k \in DOMAIN rows[1] |-> rows[i][k] * b[k][j]])]]

TooShort(rows, b) ==
  /\ b[1] # <<>>
  /\ \/ \E i \in DOMAIN rows : Len(rows[i]) < Len(rows[1])
     \/ \E k \in DOMAIN b : Len(b[k]) < Len(b[1])

ExecuteMatrixMul(chunk) ==
  LET rows == chunk.rows  b == chunk.b
  IN  CASE b = <<>> -> {<<>>}
        [] b # <<>> /\ Len(rows[1]) # Len(b) -> {}
        [] OTHER -> IF TooShort(rows, b) THEN {} ELSE {Product(rows, b)}

-----------------------------------------------------------------------------
(* pi-estimate: the last worker gets the remainder. *)
SplitPiEstimateRounded(total, n) == [i \in 1..n |-> total \div n]    \* mutant
SplitPiEstimate(total, n) ==
  [i \in 1..n |-> IF i = n THEN total - (total \div n) * (n - 1) ELSE total \div n]

ExecutePiEstimate(samples) ==
  IF samples \in 1..SampleCap
    THEN [inside : 0..samples, total : {samples}]
    ELSE {}

AggregatePiEstimate(outs) ==
  [inside |-> SumFunction([i \in DOMAIN outs |-> outs[i].inside]),
   total  |-> SumFunction([i \in DOMAIN outs |-> outs[i].total])]

-----------------------------------------------------------------------------
(* grep: a line is TRUE where the pattern matches it.  Every chunk knows how
   many lines come before it; the matches are sorted by line number. *)
StartLineBySize(pieces, i) == (i - 1) * Len(pieces[i])               \* mutant
StartLine(pieces, i) == SumFunction([k \in 1..(i - 1) |-> Len(pieces[k])])
SplitGrep(lines, n) ==
  LET pieces == Pieces(lines, n)
  IN  [i \in DOMAIN pieces |-> [text |-> pieces[i], startLine |-> StartLine(pieces, i)]]

ExecuteGrep(chunk) ==
  LET matching == {i \in DOMAIN chunk.text : chunk.text[i]}
      matches  == InOrder({chunk.startLine + i : i \in matching})
  IN  [matches |-> matches, count |-> Len(matches)]

AggregateGrep(outs) ==
  [matches |-> Sorted(FlattenSeq([i \in DOMAIN outs |-> outs[i].matches])),
   count   |-> SumFunction([i \in DOMAIN outs |-> outs[i].count])]

-----------------------------------------------------------------------------
(* prime-count: ranges of equal length, the last up to the end. *)
SplitPrimeCount(from, to, n) ==
  LET size == AtLeast(1, (to - from + 1) \div n)
      count == UpTo(n, to - from + 1)
  IN  [i \in 1..count |->
        [from |-> from + (i - 1) * size,
         to   |-> IF i = n THEN to ELSE from + i * size - 1]]

IsPrime(n) ==
  /\ n >= 2
  /\ n < 4 \/ (/\ n % 2 # 0 /\ n % 3 # 0
               /\ \A k \in 0..(n \div 6) :
                    LET i == 5 + 6 * k
                    IN  i * i <= n => n % i # 0 /\ n % (i + 2) # 0)

(* A range below 2 is answered without its bounds. *)
ExecutePrimeCount(chunk) ==
  LET from   == AtLeast(2, chunk.from)
      primes == InOrder({p \in from..chunk.to : IsPrime(p)})
  IN  CASE chunk.to < from -> {[count |-> 0, bounds |-> <<>>, sample |-> <<>>]}
        [] chunk.to - from > RangeCap -> {}
        [] OTHER -> {[count  |-> Len(primes), bounds |-> <<from, chunk.to>>,
                      sample |-> LastOf(primes, WorkerPrimes)]}

(* The bounds start at 0, which only the first answer replaces whatever it is;
   a first answer without bounds leaves them there. *)
FromZero(outs) ==                                                    \* mutant
  FoldLeft(LAMBDA m, o : IF o.bounds = <<>> THEN m ELSE UpTo(m, o.bounds[1]), 0, outs)
FromOf(outs) ==
  FoldLeft(LAMBDA m, o : IF o.bounds = <<>> THEN m ELSE UpTo(m, o.bounds[1]),
           IF outs[1].bounds = <<>> THEN 0 ELSE outs[1].bounds[1], outs)
ToOf(outs) ==
  FoldLeft(LAMBDA m, o : IF o.bounds = <<>> THEN m ELSE AtLeast(m, o.bounds[2]), 0, outs)

AggregatePrimeCount(outs) ==
  [count  |-> SumFunction([i \in DOMAIN outs |-> outs[i].count]),
   from   |-> FromOf(outs),
   to     |-> ToOf(outs),
   sample |-> LastOf(Sorted(FlattenSeq([i \in DOMAIN outs |-> outs[i].sample])), JobPrimes)]

-----------------------------------------------------------------------------
(* hash-crack: the hash stands for the one word that has it.  A chunk is a
   range of the first character, startIdx + 1 to endIdx.  The empty word is
   never tried. *)
SplitHashCrackShort(chars, n) ==                                     \* mutant
  LET m == UpTo(n, Len(chars))
  IN  [i \in 1..m |-> [lo |-> (i - 1) * (Len(chars) \div m) + 1,
                       hi |-> i * (Len(chars) \div m)]]
SplitHashCrack(chars, n) ==
  LET m == UpTo(n, Len(chars))
  IN  [i \in 1..m |->
        [lo |-> (i - 1) * (Len(chars) \div m) + 1,
         hi |-> IF i = m THEN Len(chars) ELSE i * (Len(chars) \div m)]]

(* The strings of a length that searchDepth tries, as indices into chars, and
   its order among them. *)
Tries(chars, length, lo, hi) ==
  {t \in [1..length -> DOMAIN chars] : t[1] \in lo..hi}
TriedBefore(s, t) ==
  \E i \in DOMAIN s : s[i] < t[i] /\ \A j \in 1..(i - 1) : s[j] = t[j]

TriesShorter(chars, length, lo, hi) ==
  SumFunction([l \in 1..(length - 1) |-> Cardinality(Tries(chars, l, lo, hi))])

ExecuteHashCrack(hash, chars, maxLen, chunk) ==
  LET length == Len(hash)
      tries  == Tries(chars, length, chunk.lo, chunk.hi)
      hits   == IF length \notin 1..maxLen THEN {}
                ELSE {t \in tries : \A i \in 1..length : chars[t[i]] = hash[i]}
      first  == CHOOSE t \in hits : \A u \in hits : ~ TriedBefore(u, t)
  IN  CASE maxLen > LengthCap -> {}
        [] maxLen <= LengthCap /\ hits = {} ->
             {[found |-> FALSE, value |-> <<>>,
               tried |-> TriesShorter(chars, maxLen + 1, chunk.lo, chunk.hi)]}
        [] OTHER ->
             {[found |-> TRUE, value |-> hash,
               tried |-> TriesShorter(chars, length, chunk.lo, chunk.hi)
                         + Cardinality({t \in tries : t = first \/ TriedBefore(t, first)})]}

(* The first answer that found the word ends the aggregation. *)
AggregateHashCrack(outs) ==
  LET found == SelectInSeq(outs, LAMBDA o : o.found)
      last  == IF found = 0 THEN Len(outs) ELSE found
  IN  [found |-> found # 0,
       value |-> IF found = 0 THEN <<>> ELSE outs[found].value,
       totalTried |-> SumFunction([i \in 1..last |-> outs[i].tried])]
=============================================================================
