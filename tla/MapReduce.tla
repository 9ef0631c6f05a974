----------------------------- MODULE MapReduce -----------------------------
(***************************************************************************)
(* One job as a map and a reduce: the center splits the input for as many  *)
(* workers as answered the pings, the workers answer in any order, and the *)
(* center aggregates the answers in the order of the tasks.  Dispatch,     *)
(* retries and cancels are in Scheduler.tla; this module is about what is  *)
(* computed, for the seven task types of TaskTypes.tla.                    *)
(***************************************************************************)
EXTENDS TaskTypes

CONSTANTS
  MaxWorkers,
  Texts,        \* inputs of word-count: sequences of lines of words
  Arrays,       \* of sort
  Lefts,        \* of matrix-mul: A, its rows in any lengths
  Rights,       \* and B
  Samples,      \* of pi-estimate
  Lines,        \* of grep: sequences of BOOLEAN
  Froms, Tos,   \* of prime-count
  Charsets,     \* of hash-crack
  Hashes,
  MaxLens       \* 0 for a fraction below 1: without a maxLen, or with a 0, it is 4

IsSequence(s) == s \in Seq(ToSet(s))
IsText(t) == IsSequence(t) /\ \A i \in DOMAIN t : IsSequence(t[i])
IsMatrix(m) == IsSequence(m) /\ \A i \in DOMAIN m : m[i] \in Seq(Int)

ASSUME InputsAssumption ==
  /\ MaxWorkers \in Nat
  /\ \A text \in Texts : IsText(text)
  /\ Arrays \subseteq Seq(Int)
  /\ \A m \in Lefts \union Rights : IsMatrix(m)
  /\ Samples \union Froms \union Tos \subseteq Int
  /\ Lines \subseteq Seq(BOOLEAN)
  /\ \A s \in Charsets : IsSequence(s) /\ s # <<>>
  /\ \A h \in Hashes : IsSequence(h)
  /\ MaxLens \subseteq Nat

VARIABLES
  type,      \* Job.TypeID
  input,     \* Job.Input
  n,         \* len(workers)
  phase,     \* "new", "running", "done" or "failed"
  chunks,    \* Task.Input of every task
  answered,  \* the tasks done
  refused,   \* the tasks failed
  outputs,   \* Task.Output of every task
  result     \* Job.Result

vars == <<type, input, n, phase, chunks, answered, refused, outputs, result>>

(* Job.Input of each task type. *)
Submitted ==
  \/ type = "word-count" /\ input \in Texts
  \/ type = "sort" /\ input \in Arrays
  \/ type = "matrix-mul" /\ input \in [a : Lefts, b : Rights]
  \/ type = "pi-estimate" /\ input \in Samples
  \/ type = "grep" /\ input \in Lines
  \/ type = "prime-count" /\ input \in [from : Froms, to : Tos]
  \/ type = "hash-crack" /\ input \in [hash : Hashes, charset : Charsets, maxLen : MaxLens]

Init ==
  /\ Submitted
  /\ n \in 1..MaxWorkers
  /\ phase = "new"
  /\ chunks = <<>> /\ outputs = <<>> /\ result = <<>>
  /\ answered = {} /\ refused = {}

(* splitters *)
SplitRefused ==
  \/ type = "pi-estimate" /\ input < 1
  \/ type = "prime-count" /\ input.from > input.to

SplitInput ==
  CASE type = "word-count" -> Pieces(input, n)
    [] type = "sort" -> Pieces(input, n)
    [] type = "matrix-mul" ->
         LET rows == Pieces(input.a, n)
         IN  [i \in DOMAIN rows |-> [rows |-> rows[i], b |-> input.b]]
    [] type = "pi-estimate" -> SplitPiEstimate(input, n)
    [] type = "grep" -> SplitGrep(input, n)
    [] type = "prime-count" -> SplitPrimeCount(input.from, input.to, n)
    [] type = "hash-crack" -> SplitHashCrack(input.charset, n)

(* executors *)
Answers(chunk) ==
  CASE type = "word-count" -> {WordsIn(chunk)}
    [] type = "sort" -> ExecuteSort(chunk)
    [] type = "matrix-mul" -> ExecuteMatrixMul(chunk)
    [] type = "pi-estimate" -> ExecutePiEstimate(chunk)
    [] type = "grep" -> {ExecuteGrep(chunk)}
    [] type = "prime-count" -> ExecutePrimeCount(chunk)
    [] type = "hash-crack" -> ExecuteHashCrack(input.hash, input.charset, input.maxLen, chunk)

(* aggregators *)
AggregateOutputs(outs) ==
  CASE type = "word-count" -> AggregateWordCount(outs)
    [] type = "sort" -> AggregateSort(outs)
    [] type = "matrix-mul" -> FlattenSeq(outs)
    [] type = "pi-estimate" -> AggregatePiEstimate(outs)
    [] type = "grep" -> AggregateGrep(outs)
    [] type = "prime-count" -> AggregatePrimeCount(outs)
    [] type = "hash-crack" -> AggregateHashCrack(outs)

Split ==
  /\ phase = "new"
  /\ IF SplitRefused
       THEN /\ phase' = "failed"
            /\ UNCHANGED <<chunks, outputs>>
       ELSE /\ phase' = "running"
            /\ chunks' = SplitInput
            /\ outputs' = [i \in DOMAIN SplitInput |-> <<>>]
  /\ UNCHANGED <<type, input, n, answered, refused, result>>

(* A pattern that is no regular expression is refused with every chunk of the
   text, any other with none: which it is shows at the first. *)
MayMatch == type # "grep" \/ refused = {}
MayBeBad == type = "grep" /\ answered = {}

AnswerInArrivalOrder(i) ==                                           \* mutant
  /\ phase = "running"
  /\ i \notin answered \union refused
  /\ MayMatch
  /\ \E out \in Answers(chunks[i]) :
       outputs' = [outputs EXCEPT ![Cardinality(answered) + 1] = out]
  /\ answered' = answered \union {i}
  /\ UNCHANGED <<type, input, n, phase, chunks, refused, result>>

Answer(i) ==
  /\ phase = "running"
  /\ i \notin answered \union refused
  /\ MayMatch
  /\ \E out \in Answers(chunks[i]) : outputs' = [outputs EXCEPT ![i] = out]
  /\ answered' = answered \union {i}
  /\ UNCHANGED <<type, input, n, phase, chunks, refused, result>>

(* Every worker refuses the chunk, whichever the retries ask. *)
Refuse(i) ==
  /\ phase = "running"
  /\ i \notin answered \union refused
  /\ Answers(chunks[i]) = {} \/ MayBeBad
  /\ refused' = refused \union {i}
  /\ UNCHANGED <<type, input, n, phase, chunks, answered, outputs, result>>

(* Once no task is left: one that failed fails the job. *)
Aggregate ==
  /\ phase = "running"
  /\ answered \union refused = DOMAIN chunks
  /\ IF refused = {}
       THEN /\ phase' = "done"
            /\ result' = AggregateOutputs(outputs)
       ELSE /\ phase' = "failed"
            /\ UNCHANGED result
  /\ UNCHANGED <<type, input, n, chunks, answered, refused, outputs>>

Next == Split \/ (\E i \in DOMAIN chunks : Answer(i) \/ Refuse(i)) \/ Aggregate

Spec == Init /\ [][Next]_vars

-----------------------------------------------------------------------------
Done(t) == phase = "done" /\ type = t

(* What the chunks of a job cover, put together in the order of the tasks. *)
Joined ==
  CASE type \in {"word-count", "sort"} -> FlattenSeq(chunks)
    [] type = "matrix-mul" -> FlattenSeq([i \in DOMAIN chunks |-> chunks[i].rows])
    [] type = "grep" -> FlattenSeq([i \in DOMAIN chunks |-> chunks[i].text])
    [] type = "pi-estimate" -> SumFunction(chunks)
    [] OTHER -> <<>>

(* Consecutive ranges from first to last. *)
Tiles(lows, highs, first, last) ==
  /\ lows[1] = first
  /\ highs[Len(highs)] = last
  /\ \A i \in DOMAIN lows : lows[i] <= highs[i] /\ (i > 1 => lows[i] = highs[i - 1] + 1)

(* A split neither loses nor repeats any of the input and never makes more
   tasks than there are workers, for any number of workers: what the loops of
   splitSlice, splitPrimeCount and splitHashCrack do with the remainder. *)
SplitIsPartition ==
  phase # "new" /\ chunks # <<>> =>
    /\ Len(chunks) <= n
    /\ CASE type = "matrix-mul" -> Joined = input.a
         [] type = "prime-count" ->
              Tiles([i \in DOMAIN chunks |-> chunks[i].from],
                    [i \in DOMAIN chunks |-> chunks[i].to], input.from, input.to)
         [] type = "hash-crack" ->
              Tiles([i \in DOMAIN chunks |-> chunks[i].lo],
                    [i \in DOMAIN chunks |-> chunks[i].hi], 1, Len(input.charset))
         [] OTHER -> Joined = input

(* A sorted array, whose merges stopped anywhere in either half, holds exactly
   the numbers of the input, in order. *)
SortIsSorted ==
  Done("sort") => IsSorted(result, <=) /\ ToBag(result) = ToBag(input)

(* Words are counted over all lines whichever worker got them. *)
WordsAreCounted == Done("word-count") => result = WordsIn(input)

(* Every match has the number its line has in the whole text, in ascending
   order, although each worker counts the lines of its own chunk. *)
GrepNumbersLines ==
  Done("grep") =>
    /\ ToSet(result.matches) = {i \in DOMAIN input : input[i]}
    /\ result.count = Cardinality(ToSet(result.matches))
    /\ IsSorted(result.matches, <)

(* A product of matrices whose rows have equal lengths is A times B, row i of
   the result belonging to row i of A whatever the order of the answers. *)
Rectangular(m) == \A i \in DOMAIN m : Len(m[i]) = Len(m[1])
ProductIsWhole ==
  Done("matrix-mul") /\ Rectangular(input.a) /\ Rectangular(input.b) /\ input.b # <<>> =>
    /\ Len(result) = Len(input.a)
    /\ \A i \in DOMAIN result : \A j \in DOMAIN input.b[1] :
         result[i][j] =
           MapThenSumSet(LAMBDA k : input.a[i][k] * input.b[k][j], DOMAIN input.b)

(* Exactly the primes of the range the result names are counted, also where
   workers got ranges below 2 and answered without bounds; the range named is
   the one asked for as far as it has primes; and the sample ends with the
   last primes of the range. *)
Primes(from, to) == {p \in AtLeast(2, from)..to : \A d \in 2..(p - 1) : p % d # 0}
PrimesOfTheRange ==
  Done("prime-count") =>
    LET primes == Primes(input.from, input.to)
    IN  /\ result.count = Cardinality(primes)
        /\ primes = Primes(result.from, result.to)
        /\ ToSet(result.sample) \subseteq primes
        /\ IsSorted(result.sample, <)
        /\ \A p \in primes :
             Cardinality({q \in primes : q > p}) < WorkerPrimes => p \in ToSet(result.sample)

(* The samples drawn are the samples asked for: none is lost to the division. *)
EverySampleCounts ==
  Done("pi-estimate") => result.total = input /\ result.inside \in 0..result.total

(* The word is found exactly when it is not empty and can be spelled within
   maxLen; the failed searches of all workers together tried every string of
   places in the set of characters once. *)
Spelled == Len(input.hash) \in 1..input.maxLen /\ ToSet(input.hash) \subseteq ToSet(input.charset)
AllStrings ==
  SumFunction([l \in 1..input.maxLen |-> Cardinality([1..l -> DOMAIN input.charset])])
CrackIsExhaustive ==
  Done("hash-crack") =>
    /\ result.found = Spelled
    /\ result.found => result.value = input.hash
    /\ ~ result.found => result.totalTried = AllStrings

(* A number of samples the center accepted as positive is estimated. *)
PositiveSamplesSuffice ==
  type = "pi-estimate" /\ input \in 1..SampleCap => phase # "failed"

=============================================================================
