# swarm-compute in TLA+

A specification of swarm-compute (center, workers, job queue), checked with TLC
and, as far as it is about safety, proved with TLAPS for every value of the
constants. Paths below are relative to the repository; `src/` is its root.

Run everything from this directory: `tlc -workers 2 -config X.cfg MC.tla` for a run,
`tlapm M.tla` for the proofs of `SchedulerProofs`, `JobInCenterProofs`, `RunnerProofs`,
`SharedStoreProofs`, `PageProofs`, `MapReduceProofs`, `FoldTheorems` and
`RateLimiterProofs`.

## 1. The system

Clients submit a *job* to the **center** over HTTP. The center keeps it in memory,
publishes its id to **RabbitMQ** and answers at once. A pool of goroutines (the
**runners**) consumes the ids; for each it pings the **workers**, splits the input
into at most as many chunks as workers answered, posts every chunk to a worker,
retries on failure, aggregates the outputs, and writes a snapshot of the whole
store. Clients poll the job and may cancel it.

| Component | Source | State | Operations | Interacts with |
|---|---|---|---|---|
| Job execution | `center/server/scheduler.go`, `types_job.go` | `Job` (status, tasks, result, cancel), `Task` (status, worker, attempt, output), one goroutine per task, the job's context | `CreateJob`, `ExecuteJob`, `getHealthyWorkers`, `executeTaskWithRetry`, `callWorker`, `failJob` | workers (HTTP), store (lock, snapshot), cancel handler (shared `Job`) |
| Queue and runner pool | `runner.go`, `mq.go` | the durable queue, the delivery window, the delivery channel, 8 runners | `Enqueue`, `Consume`, take, ack, stop | broker, job execution |
| Store | `store.go` | jobs, workers, task types in memory; `store.json` on disk | load, save (temporary file and rename), statistics | everything in the center |
| Center process | `main.go` | process up or down, signal context | start, handlers, SIGTERM, shutdown goroutine | all of the above |
| Splitters, aggregators | `splitter.go`, `aggregator.go` | none | one of each per task type | job execution |
| Worker | `site/server/*.go` | none | `/ping`, `/execute`: one executor per task type | center |
| Rate limiter | `middleware.go` | a bucket per client address | `Allow`, `cleanup` every 5 minutes | every API handler |
| Logging, CORS, body limit | `middleware.go`, `logger.go`, `util.go` | none | wrap handlers | |
| Client and platform UI | `client/web`, `platform/web` | current job, poll timer | submit, poll every 800 ms, cancel | the API |
| Benchmark, tests, containers | `benchmark/`, `*_test.go`, `docker-compose.yml` | | | restart policy: `restart: always` |

What is hard about it, and what makes each part correct:

* **Job execution.** The cancel handler, the timeout, a shutdown and up to one
  goroutine per chunk write the same `Job` and `Task` values; `ExecuteJob` writes
  statuses without looking at them; answers, timeout and cancel meet in one
  `select`; a worker may accept a request and never answer. Correct: a job shown
  done has the output of every chunk, an execution ends in a final status and
  leaves no goroutine behind, snapshots hold no unfinished job, a retry loop that is
  long enough leaves no healthy worker out.
* **Queue.** Delivery is at least once; the process may die between any two of
  execution, snapshot and acknowledgement; the broker may restart. Correct: one
  execution at a time per job, no job executed twice by one process, a pending job
  keeps its message, every message is served.
* **Shared memory.** Half of the accesses to a job take no lock: handlers encode it
  after they released theirs, task goroutines write their tasks without one. Correct:
  whatever says that a job is done (an answer, the statistics, the snapshot) is whole,
  and the lock never stops anybody for good.
* **Page.** The interval that polls does not wait for its answers, and a late answer
  acts on whatever interval there is then. Correct: the page follows a job to its end
  and then stops.
* **Map and reduce.** Integer division of the input by the number of workers, and
  outputs that arrive in any order. Correct: the result is what one pass over the
  undivided input computes, for every number of workers.
* **Rate limiter.** Refill is lazy and buckets are forgotten. Correct: neither can
  be noticed.

`PROJECT.json` lists the hazards with their lines and the properties that would
catch each one going wrong.

## 2. The modules

| Module | Models | Role |
|---|---|---|
| `JobLifecycle` | what a client may observe of one job | abstract specification |
| `Scheduler` | one job's execution, in every interleaving | refines `JobLifecycle` |
| `JobInCenter` | that execution inside the center | composes `Scheduler` and `Runner`: the one takes only steps of the other |
| `MCScheduler` | workers as model values | TLC |
| `SchedulerProofs` | inductive invariant and safety theorems of `Scheduler` | TLAPS |
| `JobInCenterProofs` | what the execution is to those outside: contract, center, graph of statuses | TLAPS |
| `Runner` | process, store and snapshot, broker, queue, runner pool; an execution is one `active` stretch, whose inside is `Scheduler` | composition at the level of the process |
| `MCRunner` | jobs and runners as model values | TLC |
| `RunnerProofs` | inductive invariant and safety theorems of `Runner` | TLAPS |
| `SharedStore` | one job's fields and the lock of the store, access by access | finer grain of `Scheduler`, with the handlers of the API |
| `MCSharedStore` | one task, two calls | TLC |
| `SharedStoreProofs` | inductive invariant and safety theorems of `SharedStore` | TLAPS |
| `StatusGraph` | how one status of a job may follow another | shared by `JobInCenter`, which shows it of the execution, and `Page`, which relies on it |
| `Page` | `job-submit.html`: submitting, picking, polling | composition with the center as the browser sees it |
| `MCPage` | two jobs, two requests on their way | TLC |
| `PageProofs` | inductive invariant and safety theorems of `Page` | TLAPS |
| `TaskTypes` | the seven splitters, executors and aggregators as operators | used by `MapReduce` |
| `MapReduce` | split, answers in any order, aggregate | state machine over `TaskTypes` |
| `MCMapReduce` | the inputs enumerated | TLC |
| `FoldTheorems` | lemmas about sums, folds, recursions, bags and pieces of sequences | TLAPS |
| `MapReduceProofs` | the seven task types compute what they should, for inputs of every size | TLAPS |
| `TokenBucket` | buckets that fill by themselves and are never forgotten | abstract specification |
| `RateLimiter` | `Allow` and `cleanup` | refines `TokenBucket` |
| `MCRateLimiter` | two clients | TLC |
| `RateLimiterProofs` | safety and the refinement, for every rate and burst | TLAPS |

`PROJECT.json` maps every definition to the lines it stands for. A definition
marked `\* mutant` stands before the one it distorts and is never used by the
specification; replacing the one by the other must make TLC find the named
property violated, which shows that the property depends on that code.

### Scheduler

The job is new, or it is executed again: its message came twice, because the process
ended between the snapshot and the acknowledgement, and the new process (`runner.go:54`)
does not look at the status it loaded. `Loaded` is the set of final statuses such a job may
come with; its result, if it has one, is `Earlier`. `failJob` does not clear it, so that a
job that was done and fails when it is executed again keeps the old result, and
`DoneIsComplete` says so. `cancel` is not saved, so that a job loaded as cancelled is
executed again and may end done. The old tasks are not modelled: line 121 replaces them,
and nothing in an execution reads them before.

One action is one critical section, or one stretch of code between two points at
which another goroutine can interfere. `pc` is the place of `ExecuteJob`
(`queued`, `ping`, `split`, `dispatch`, `wait`, `check`, `collect`, `aggregate`,
`save`, `returned`), `task[i].pc` that of the goroutine of chunk `i` (`none`,
`ready`, `inflight`, `stored`, `exit`). The list `workers` is in the order the
ping answers arrive, since `getHealthyWorkers` appends in that order.
`task[i].status` becomes `done` one step before `task[i].output` is written, as in
`callWorker` (lines 365 and 366). `Cancel`, `Timeout` and `Shutdown` may come at
any time. Abstracted: the output of chunk `i` is the number `i`; the ways a call
can fail (refused, lost, error answer) are one; a split may fail, or give any
number of chunks up to the number of workers; the list of workers that `PUT
/api/workers` may replace is read once per execution and duplicates in it are not
modelled.

### Runner

`proc` is where `main` is: down, in `ConnectMQ`, before `JobRunner.Start`, serving.
`mem` and `disk` are the statuses in memory and in `store.json`; `queue`,
`unacked` and `inbox` are the messages ready at the broker, delivered and not
acknowledged, and waiting in the Go channel. The actions:

* submission: `Create`, `Publish`;
* queue and pool: `Deliver`, `Take`, `Ack`, `Leave`; `Take` of an unknown job is the
  message of a job that a crash erased;
* execution: `Doom` (the context ends before any worker has answered), `Progress`,
  `Finish`, `FinishUnsaved` (the return of line 170, which writes no snapshot),
  `Save`, and `Panic` for a job whose splitter panics (`Poisoned`);
* start: `Restart` and `LoadError`, `Connect` and `GiveUp`, `StartRunners`, which
  starts none when `Consume` fails;
* end: `Term`, `FinalCopy`, `FinalWrite`, `FatalInsert` (`SaveToDisk` encodes maps it
  has no lock on), `Exit`, `Crash`;
* `BrokerStop`, `BrokerStart`: the client library does not reconnect, and the
  delivery that waits in its channel may or may not be taken still.

Abstracted: the stages between pending and the end are `active`. The history
variable `excused` names the jobs whose publishing or saving failed.

### JobInCenter

The state of `Scheduler` is mapped to a center with one job, which has been
delivered to its only runner: `pc` gives the place of the runner (`Place`), the
status without the stages gives `mem` (`Outline`), the end of the parent context is
`stopping`. `StepsOfTheCenter` says that every step of an execution is then a step of
`Runner!Next` or changes nothing there. So what `Runner` lets an execution do is all
that one of `Scheduler` does: it saves once, after its last write and in a final
status, it does not save a job found cancelled, and it can only fail when its context
ended before a worker answered. `StatusFollowsGraph` does the same for the graph of
statuses that `Page` takes the center for; an execution that starts from a status that had
ended takes one of `Restarts` as its first.

### SharedStore

A goroutine is the sequence of accesses it has still to make in this call (`todo`);
an access is one step: take, announce or release the lock, load or store one field.
`ExecuteJob` is the sequence of its stages (`phase`), each of which adds accesses.
Memory is that of Go on amd64: stores of one goroutine are seen in their order, a
store of two words (a result or output, an interface) can be seen half done
(`Garbled`); nothing is claimed of an answer with a torn status. The job is new, or one
that an earlier process had ended as done and that is executed again. The program writes the
same "done" both times; the model tells the earlier process's (`DoneBefore`) from that
of this execution, since more can be claimed of the second. A job loaded as failed or
cancelled behaves like a new one as far as these properties go. At this grain an execution takes
an ended context into account from the dispatch on: before, its only effect is that
a ping fails, which may happen anyhow.

What is claimed of a done job is what holds. These do not: an answer that says done
may miss `finishedAt` (it is written after the status, line 214), and one that says
failed may miss the error. Nothing is claimed of the result and the tasks in an answer
whose handler read the *earlier* done and then encoded the rest while the new execution
changed it. The tasks may be new ones (line 121), and the result may be torn: what was
loaded from `store.json` is a `map[string]interface{}` or a `[]interface{}`, what the
aggregators of word-count and sort return a `map[string]int` or a `[]float64`, so
that line 213 changes both words of the interface. (Over a result of the same type it
changes one, and less can be seen.) This execution's own done is read after that
store, so that its answers are whole in a second execution as well, as are the
snapshots; the statistics are read under the lock, which makes them fit for both.

### StatusGraph and Page

`flight` holds the requests on their way and, once the center has acted, their answers;
they are answered, refused (by the rate limiter, or lost) and delivered in any order.
`live` holds the jobs that an interval polls, `timer` the one `pollTimer` names. A
callback is one step, as the browser runs them. The statuses are those classes of
`StatusGraph` that the page tells apart. The center may execute the job, let somebody
cancel it, execute it again after it had ended (`Redeliver`, along `Restarts`) and forget
it (`Restart`).

`QuietPageShowsTheEnd` has two exceptions, which are how the code behaves: an answer
that arrives after its interval was cleared draws the page once more (of that job, at
an older status), and a job picked from the history while it is `aggregating` is not
polled, since line 430 asks only for the statuses that can be cancelled.

### TaskTypes and MapReduce

A text is a sequence of lines, a line a sequence of lower-case words; a regular
expression is the set of lines it matches, or it is none and is refused with every
chunk (`MayMatch`, `MayBeBad`); an MD5 hash stands for the word that
has it; float64 numbers are integers. The limits of the executors (10^9 samples,
100,000,001 numbers in a range, words of 6 characters, 10,000,000 numbers to sort,
samples of 10 and 20 primes) are constants, so that the runs can reach them. A `maxLen` of
0 is a given value between 0 and 1, which the worker truncates; one that is missing or
exactly 0 means 4, which is a length like any other here. The sorts of
the Go library are `Sorted` and `InOrder`, given by what is at each place: the value
below which there are fewer than k and up to which there are k. `mergeTwo` and
`mergeKSorted`, which are the repository's own, are the recursions of the code. Pi
answers are any number of hits: the generator is not modelled. A row or column
that is too short is an index out of range in `executeMatrixMul`, that is, a request
that fails. Inputs are well-typed: what `type assertion failed` does to the
center is a crash in `Runner`.

### RateLimiter

Time is a number of ticks and tokens are counted in units, so that a tick is worth
a whole number of units (`Rate`) and a token `Cost` of them. The clean-up may run at
any time, not only every five minutes. `window` is a history variable that starts
to count the admissions of some client at any time (`Observe`), so that the
invariant speaks of every client and every interval.

## 3. The runs

| Run | Instance | Shows |
|---|---|---|
| `scheduler` | 2 workers, 3 retries, a new job or one executed again, fair | types; a job shown done by this execution is complete and nobody writes to it, a failed one has at most the result of an earlier execution; executions and snapshots end final; retries reach every worker; first attempts are spread; a cancel sticks once all tasks are dispatched; a begun job returns and its goroutines end; a cancel whose status is overwritten still keeps the job from being computed; implements `JobLifecycle`, the execution of `Runner` and `StatusGraph` |
| `runner` | 2 jobs, one poisoned, 2 runners, 1 crash, 1 SIGTERM, 1 stop of the broker, 1 unreadable snapshot, fair | no double execution, no second one in the same process; no snapshot of an active job, and none that loses an end; a pending job keeps its message; every message is served |
| `shared_store` | 1 task, 2 calls, a new job or one executed again, fair | a job done by this execution is whole in answers, one done by any in statistics, and in snapshots; every call and execution ends |
| `page` | 2 jobs, 2 requests on their way, fair | the page follows a job to its end, and stops |
| `ratelimit` | 2 clients, a bucket of 2.5 tokens, 8 ticks, stale after 5 | types; the bound on every interval; implements `TokenBucket` |
| `mapreduce` | 1 to 4 workers, inputs below | the aggregate is what one pass over the input computes, for the seven types |
| `sched_final`, `sched_retry`, `runner_blocking`, `runner_broker`, `runner_shutdown`, `mapreduce_pi` | small | a violation: see section 5 |

Why the bounds are enough. *Scheduler:* with two workers and three
retries the modulus in the choice of the worker wraps, the two chunks start on different
workers and meet on one in their retries, and a task fails after every worker had it
twice; every race is between two goroutines and `ExecuteJob`. A job that is executed again
comes with each final status, with and without a result. The safety properties
that hold there are proved for all numbers, which covers a third worker. *Runner:* two jobs and two runners are
needed for a snapshot taken by one job while another is active and for a message
delivered to two runners. Each event happens once, but processes end as often as a job
panics, a connection fails or a shutdown comes, so that a crash also comes during the
recovery from another end. *SharedStore:* one task goroutine and `ExecuteJob` write, two
clients are the smallest number for a reader that waits behind a writer that waits for a
reader; a second task would repeat the first. *Page:* two jobs are needed for an answer
about one that clears the interval of the other, two requests for a reordering.
*MapReduce:* texts of up to 4 lines, arrays of up to 4 elements (and one of 5 and one of
7, beyond the limit set for a chunk), matrices of up to 3 rows of unequal lengths,
ranges that start below 2 or contain the squares of 5 and 7, sets of characters with a
repeated one, words that are empty or longer than the search: pieces of unequal length,
fewer pieces than workers, empty inputs, answers without bounds and refused chunks all
occur. *RateLimiter:* 8 ticks let a bucket empty, go stale, be dropped and empty again;
the theorems have no bound.

`CHECK_DEADLOCK FALSE` is set where the system may stop: no job left to submit and
no event left within the bounds (`Runner`), the job finished (`MapReduce`), the
clock at its end and nothing to do (`RateLimiter`). Nothing goes on in `SharedStore`
when the calls are made and the job has ended, or in `Page` when nobody submits.
`scheduler`, `sched_final` and `sched_retry` check for deadlock: a cancel or the
job's timer is always left.

Fairness. `Scheduler`: weak fairness for what the Go runtime does by itself: steps
of `ExecuteJob`, of the task goroutines and of the pings (which time out after two
seconds), and the job's timer. None for a worker's answer, a cancel or a shutdown.
`Runner`: weak fairness for the runners, for the delivery by the broker, for the end
of an execution (`BegunJobReturns` of `Scheduler`), for the exit after SIGTERM and
for the restart of both containers (`restart: always`). None for submissions,
cancels, crashes and signals, whose number is bounded. `SharedStore`: weak fairness
for each goroutine, which includes that the mutex starves nobody and that a client
that does not read is cut off (`WriteTimeout`), and for the job's timer. `Page`: the
oldest request is answered, refused or given up, and its callback runs (weak);
intervals fire, and the polls of a job are not refused for ever (strong: one page
polls at a fortieth of the rate of the limiter, 1.25 against 50 per second).
`MessagesAreServed` has two exceptions the code has: a center that lost its broker
while it ran, and a job that panics and is in the snapshot.

## 4. The proofs

Every invariant that a run checks, in all modules, is a theorem for every value of the
constants, and so are the action properties and the refinements as far as they are
about safety. The assumptions are those on the constants, named in the module that
declares them, which TLC evaluates in the runs. In each module `IndInv` is the
inductive invariant; the theorem `Inductive` (`Invariant` in `RunnerProofs`) says that it
always holds, and is proved by one lemma per action.

### Scheduler (`SchedulerProofs`)

For any finite set of workers and any positive number of retries
(`WorkersAssumption`, `MaxRetryAssumption`, `NoWorkerAssumption`), for a new job and for one
loaded with any final status (`LoadedAssumption`). Proved: `Typed`,
`DoneComplete`, `EndsInTerminal`, `RetriesReachAll`, `FirstAttemptsDiffer` (invariants),
`CancelSticks` and `OverwrittenCancelStops` (action properties).

The invariants are not inductive. `DoneIsComplete` needs to know, when the outputs
are collected, that every task goroutine has gone (`PhaseInv`), which rests on what
the place of a goroutine says of its task (`TaskInv`: a goroutine that has gone with
a done task has stored its output) and on which tasks exist at all (`LaunchInv`:
exactly the first `launched`). `ResultInv` says that nothing changes a result of this execution, and that any
other is the one the job was loaded with. `TypeOK` needs `PingInv`: each ping adds at most one worker, so there
are never more chunks than slots. `RetriesReachEveryWorker` needs `TriedInv`: the
workers a task was tried on are those the attempt numbers select, and under a live
context only the last attempt ends a task as failed; the lemma on the modulus then
says that `Len(workers)` consecutive attempts cover the list. `FirstAttemptsDiffer`
needs that the list holds each worker once, however the pings were answered.
`EndsTerminal` needs `DiskInv`. `OverwrittenCancelStops` needs `StatusOfPlace`, what the
status may be at each place of `ExecuteJob` when cancels come at any time.

### What the execution is to others (`JobInCenterProofs`)

From the same invariant. `Observed` says which steps of an execution can be told apart
from outside: the inside ones, the next stage, an end, and the six that are visible
themselves. With it, `GraphFollowed` (the status moves along `StatusGraph`),
`CenterFollowed` (every step is one that `Runner` lets an execution take, or none) and
`KeepsContract` (initial states of `Scheduler` are initial states of `JobLifecycle`, steps
are steps or stutter: the safety part of `ImplementsLifecycle`) are a case each.

### Runner (`RunnerProofs`)

For any jobs, any finite set of runners and any bounds on the events
(`JobsAssumption`, which says that there is a job, `RunnersAssumption`,
`PoisonedAssumption`, `BoundsAssumption`). Proved: `Typed`, `Exclusive`,
`SnapshotsAreAtRest`, `PendingJobsHaveMessages` (invariants), `ExecutedOnce` and
`EndsAreKept` (action properties).

`NoDoubleExecution` rests on the window of one: `WindowInv` says that the channel and
the runners hold one message between them, that it is the unacknowledged one while
the connection lives, and that nothing is delivered any more once it is lost.
`OnceInv` adds that a job has one message and none on the way to a process that has
executed it; it gives `ExecutedOnce`. `SubmitInv` ties messages and statuses to
submissions, `StageInv` the status of a job to the place of the runner that has it,
`ActiveInv` an active status to a running execution. `SnapshotHoldsNoActiveJob` follows
because with one message at a time nobody else is active when a snapshot is encoded,
and because the final copy is taken when the runners have gone (`ProcessInv`).
`PendingInv` is stronger than `PendingHasMessage`: it holds in memory and on disk and
without the runner, so that it survives a crash. `DiskInv` says that memory has what the
disk has, unless the snapshot could not be read, which gives `EndsAreKept`.

### SharedStore (`SharedStoreProofs`)

For any sets of clients and tasks (`CallersAssumption`: they are disjoint). Proved: `Typed`,
`ViewsAreWhole`, `StatsFit`, `SavedWhole`.

Each place in a goroutine's list of accesses has a name, and the invariant says what
each one implies. `LockInv`: a writer excludes readers and writers, and who is at a
place inside a critical section holds the lock. `CoreInv` is about the execution:
where `ExecuteJob` is in each phase (`PlaceInv`), what the status may be there
(`StatusInv`), that no task goroutine is left once outputs are collected (`TaskInv`,
`ComputedInv`), and what a status `done` then means (`DoneInv`). `ClientInv` and `SeenInv`
are about what a handler has read so far: the status is read before the result and
the tasks, and all of these only grow after they were complete, so that an answer put
together of reads at different times is still whole. `DiskInv` says the same of the
snapshot. `DoneInv` tells the two dones apart: that of an earlier process is there only
before this execution has written a status (`EarlyPlace`), and promises the tasks and the
time but not that the result stays; that of this one is there only at its end (`LastPlace`),
when nobody is left to write a result or a task.

### Page (`PageProofs`)

For any jobs, a value `None` that is none, and any number of requests
(`NoneAssumption`, `FlightAssumption`). Proved: `Typed` and `Followed`. `OneInterval`: an
interval that lives is the one `pollTimer` names; `ShownInv`: what is drawn without an
interval has ended, or is one of the two exceptions.

### MapReduce (`MapReduceProofs`, `FoldTheorems`)

For texts, arrays, matrices, numbers of samples, ranges and words of every size, any
limits of the executors and any number of workers (`InputsAssumption`, which gives the
inputs their types and says that a set of characters is not empty, as `splitHashCrack`
ensures; `CapsAssumption`). Proved: `SplitPartitions`, `AllWordsCounted`, `ArraysSorted`,
`ProductComplete`, `SamplesKept`, `LinesKept`, `PrimesComplete`, `WordsCracked`.

The state machine gives little trouble: `IndInv` says that the chunks are those of the
splitter and that the output at a place answers the chunk of that place, in whatever
order the answers came. What is then aggregated is a statement about operators, one
per task type:

* *splitters*: `Pieces` cuts a sequence without a gap into at most n pieces
  (`Cuts`, `PiecesFacts`); `PrimeTiles` and `HashTiles` are the same for ranges;
* *word-count*: bags of pieces add up to the bag of the whole (`WordsAdd`);
* *sort*: `mergeTwo` of two ascending sequences is ascending and has the numbers of
  both (`MergeTwoMerges`), `mergeKSorted` therefore sorts (`AggregateSorts`);
* *matrix-mul*: the rows of the product of a piece are the piece of the rows
  (`ProductOfPieces`);
* *grep*: the start line of a piece is the length of all before it (`StartOfPiece`);
* *prime-count*: trial division by 2, 3 and 6k - 1, 6k + 1 up to the root tells the
  primes (`PrimeTest`); the counts and samples of consecutive ranges gather to those of
  the whole (`PrimesOfTiles`); the bounds the answers name, or do not, enclose the same
  primes (`NamedRange`);
* *hash-crack*: the strings that begin in consecutive ranges are all strings
  (`TriesOfTiles`), and one of the ranges has the word (`WordIsSpelled`).

Induction over data is reached without theorems that take an operator: `InductiveSet`
and `InductiveSubsets` are induction with the *set* of the numbers, or of the subsets,
for which the claim holds. `FoldExists` and `RecursionBelow` show that a fold, or a
recursion that decreases a measure, has a function that satisfies it, since TLA+ defines
a recursive function by a choice; `MergeTwo` and `AggregateSort` are of the second kind,
`FlattenSeq` and the sums of the first. `SumAnyOrder` makes sums independent of the
choice in their definition.

### Rate limiter (`RateLimiterProofs`)

For any rate, burst, cost and stale age that satisfy `RateAssumption`, whose last
part is the one that matters: a bucket is full before it is stale (50 * 600 >= 100
and 10 * 600 >= 20 in `main`). All rests on `Level`, the units an observer may
assume in a bucket, a dropped bucket counting as full. One lemma per action says what
it does to the levels; `StaleIsFull` is where the assumption is used. From them
follow `Typed`; `Bounded`, by the invariant `Potential` (what was admitted plus what
is left in the bucket is at most a burst and what the time has added); and
`Implements`, the refinement: `First`, `Admit` and `Refuse` are requests of the
abstract buckets, `Tick` is a tick, and `Cleanup` and `Observe` stutter.

### What is only model-checked

Liveness, which is out of the prover's reach: that begun jobs return, that messages are
served, that calls and executions end, that the page follows a job to its end and stops,
that retries and goroutines end; and with it the fairness condition of `JobLifecycle`,
so that `ImplementsLifecycle` as a whole is TLC's and its safety part is
`KeepsContract`. The strings of a length are counted as sequences of places, not as a
power: the prover has no facts about `^`.

## 5. Divergences

Shown by a run that TLC refutes:

1. `sched_final`: a final status is not final. The cancel handler overwrites any
   status and `ExecuteJob` overwrites `cancelled`, while client and benchmark stop
   polling at the first final status.
2. `sched_retry`: a retry may go to the worker that just failed although another is
   healthy; `docs/design.md:201` says a different worker.
3. `runner_blocking`: prefetch 1 on one channel makes all runners share one
   unacknowledged message; `report/report.md:62` says a slow job does not block
   other consumers.
4. `runner_broker`: after a broker restart the message is there and nobody consumes
   it; `report/report.md:60` says jobs survive.
5. `runner_shutdown`: the process may exit before the final snapshot;
   `README.md:63` says the state is saved.
6. `mapreduce_pi`: a pi-estimate with fewer samples than healthy workers is accepted
   and fails, because all chunks but the last are empty.

Noted while modelling, without a run of their own:

* The number of chunks is not the number of healthy workers (`docs/design.md:176`):
  pieces of ceil(len/n) elements may be fewer than n (4 lines on 3 workers give 2).
* The center keeps the last 20 of the samples of 10 each worker kept, which are not
  the last 20 primes of the range; `PrimesOfTheRange` claims only the last 10.
* `totalTried` of a hash that was found counts the answers up to the first that
  found it, not the strings all workers tried.
* The MD5 of the empty string is never found, since the lengths tried begin with 1.
* For a matrix with rows of unequal length, success depends on the number of
  workers: only the first row of each chunk is compared with B.
* The submit handler encodes the job after it was published: its answer may show a
  later status than `pending`.
* Cancelling a job that no runner has taken answers ok and does nothing; cancelling
  one at the end (line 170 of `scheduler.go`) is not saved.
* A job that was ended when the process crashed before the acknowledgement is executed
  again (`runner.go:54` does not look at its status): one that was done may end failed and
  keep its old result (`failJob` does not clear it), one whose cancel was saved may end done.
* A `GET` that reads the status of such a job before line 95 of `scheduler.go` and its
  result while line 213 stores the new one may encode a torn result: the type of the one
  and the data of the other, without the lock.
* A task that succeeds after a failed attempt keeps the error of that attempt.
* A poll of a job that is answered after another job was picked draws the first job
  again and, if it has ended, clears the interval of the second, which is then no
  longer followed (`job-submit.html:227`).
* When the connection ends between `ConnectMQ` and `Consume`, or later, the center
  goes on accepting jobs that nobody executes (`runner.go:34`); a job whose splitter
  panics and that is in the snapshot ends every later process as well. Both are the
  exceptions of `MessagesAreServed`.
* A snapshot that cannot be read is logged and then overwritten by the next one
  (`store.go:37`); `SavedEndsAreKept` assumes that it can be read.
* `X-Request-ID`s are not propagated: the runner's context carries none.

## 6. Plan

Order: the core first (what several goroutines do to one job), then the process
around it, then what is computed, then the limiter; then the proofs, in the same
order. Done: all modules of section 2, and a theorem for every invariant and every
action property of the runs.

Left, in this order:

1. **Mutual exclusion stated apart.** That the lock of `SharedStore` excludes a writer
   and readers is a part of its `IndInv`; stating which fields it protects, and which
   it does not, would make the theorem a description of the code's locking.
2. **The composition of `Runner` and `Page`.** `Page` takes the center for the graph of
   statuses and forgets its jobs at a restart; a refinement of the statuses of
   `Runner` to that graph would close the chain from execution to page.
3. **The list of workers.** `PUT /api/workers` and the duplicates it may bring in,
   which `FirstAttemptsDiffer` excludes.

Not modelled, and why:

* logging, CORS, body limits, request identifiers: no state that anything reads;
* the worker's process: it has no state, and is what the center sees of it in
  `Scheduler`;
* forms, task cards, time line, history list and statistics of the page, the static
  pages, the styles: drawing;
* the table of task types, which nothing changes once `main` serves; the list of
  workers of `PUT /api/workers`, which a restart replaces by the configured one
  (`initWorkers`), is a choice at the start of an execution;
* containers, proxy, benchmark: outside the program; `restart: always` is what
  `Restart` and `BrokerStart` stand for;
* ill-typed inputs, but for the two that panic (`Poisoned`), and the input limits of
  `validateInput`.
