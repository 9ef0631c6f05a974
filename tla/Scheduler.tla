----------------------------- MODULE Scheduler -----------------------------
(***************************************************************************)
(* The execution of one job by the center: Store.ExecuteJob, the goroutine *)
(* it starts for every chunk, the pings of the workers, the retry loop,    *)
(* and what happens around it at the same time: the cancel handler, the    *)
(* job's timeout, and the end of the parent context when the center is     *)
(* told to stop.  One action is one critical section, or one stretch of    *)
(* code between two points at which another goroutine can interfere.       *)
(*                                                                         *)
(* The job is new, or it was executed by an earlier process that ended     *)
(* before it could acknowledge the message: the job is then executed again *)
(* with the status and the result it was loaded with.                      *)
(***************************************************************************)
EXTENDS Integers, Sequences, FiniteSets

(* A definition marked `mutant` is never used: it is the definition after it
   with a plausible mistake, kept to show which property would notice. *)

CONSTANTS
  Workers,    \* the workers the center may know of (WORKERS, PUT /api/workers)
  MaxRetry,   \* Job.MaxRetry
  NoWorker,   \* the WorkerID of a task that was not dispatched
  Loaded      \* the final statuses a job may have been loaded with; {}: only new jobs

ASSUME WorkersAssumption  == IsFiniteSet(Workers)
ASSUME MaxRetryAssumption == MaxRetry \in Nat \ {0}
ASSUME NoWorkerAssumption == NoWorker \notin Workers

VARIABLES
  status,      \* Job.Status
  pc,          \* where ExecuteJob is
  cancelSet,   \* Job.cancel # nil
  parentDone,  \* the runner's context has ended
  ctxDone,     \* the job's context has ended
  unpinged,    \* workers whose ping has not been answered or given up
  workers,     \* the healthy workers, in the order their answers arrived
  ntasks,      \* len(Job.Tasks)
  launched,    \* how many tasks the dispatch loop has started
  task,        \* the task of every chunk and the goroutine that runs it
  result,      \* {the outputs Job.Result was computed from}, {} when it is nil
  disk         \* Job.Status as this execution saved it, "absent" if it has not

context == <<cancelSet, parentDone, ctxDone>>
healthy == <<unpinged, workers>>
tasks   == <<ntasks, launched, task>>
outcome == <<result, disk>>
vars    == <<status, pc, context, healthy, tasks, outcome>>

Terminal == {"done", "failed", "cancelled"}
Statuses == {"pending", "splitting", "running", "aggregating"} \union Terminal
Slots    == 1..Cardinality(Workers)    \* the chunks a job can have
Chunks   == 1..ntasks                  \* the chunks this job has
NoOutput == 0                          \* the output of chunk i is written i
Earlier  == {<<-1>>}                   \* the result of an earlier execution

ASSUME LoadedAssumption == Loaded \subseteq Terminal

(* A task as line 111 creates it; its goroutine does not exist yet. *)
NewTask == [pc |-> "none", status |-> "pending", worker |-> NoWorker,
            attempt |-> 0, output |-> NoOutput, tried |-> {}]

(* CreateJob has made the job, or LoadFromDisk has read it: a result is there
   if an execution ended done, and stays when a later one fails or a cancel
   follows.  The tasks are those of this execution; cancel is not saved. *)
Init ==
  /\ \/ status = "pending" /\ result = {}
     \/ status \in Loaded /\ result = Earlier
     \/ status \in Loaded \ {"done"} /\ result = {}
  /\ pc = "queued"
  /\ cancelSet = FALSE
  /\ parentDone = FALSE
  /\ ctxDone = FALSE
  /\ unpinged = {}
  /\ workers = <<>>
  /\ ntasks = 0
  /\ launched = 0
  /\ task = [i \in Slots |-> NewTask]
  /\ disk = "absent"

-----------------------------------------------------------------------------
(* ExecuteJob, up to the dispatch of the tasks.                            *)

(* A runner takes the job; getHealthyWorkers starts a ping of each of the
   workers the store lists at this moment. *)
Begin ==
  /\ pc = "queued"
  /\ pc' = "ping"
  /\ cancelSet' = TRUE
  /\ ctxDone' = parentDone
  /\ unpinged' \in SUBSET Workers
  /\ UNCHANGED <<status, parentDone, workers, tasks, outcome>>

(* A ping is answered in time, while the context lives. *)
PingOk(w) ==
  /\ pc = "ping"
  /\ w \in unpinged
  /\ ~ctxDone
  /\ unpinged' = unpinged \ {w}
  /\ workers' = Append(workers, w)
  /\ UNCHANGED <<status, pc, context, tasks, outcome>>

(* A ping fails: refused, no answer in two seconds, or the context ended. *)
PingFail(w) ==
  /\ pc = "ping"
  /\ w \in unpinged
  /\ unpinged' = unpinged \ {w}
  /\ UNCHANGED <<status, pc, context, workers, tasks, outcome>>

(* failJob, called at `from`; the snapshot it takes is the step Save. *)
FailJob(from) ==
  /\ pc = from
  /\ status' = "failed"
  /\ pc' = "save"
  /\ UNCHANGED <<context, healthy, tasks, outcome>>

NoWorkers ==
  /\ unpinged = {}
  /\ workers = <<>>
  /\ FailJob("ping")

(* Line 95: written without the lock and without a look at the status. *)
StartSplit ==
  /\ pc = "ping"
  /\ unpinged = {}
  /\ workers # <<>>
  /\ pc' = "split"
  /\ status' = "splitting"
  /\ UNCHANGED <<context, healthy, tasks, outcome>>

SplitError == FailJob("split")

(* Every splitter returns at most one chunk per healthy worker, and may
   return fewer, or none (an empty array, an empty matrix). *)
SplitInto(sizes) ==
  /\ pc = "split"
  /\ ntasks' \in sizes
  /\ status' = "running"
  /\ pc' = "dispatch"
  /\ UNCHANGED <<context, healthy, launched, task, outcome>>

SplitOkTooMany == SplitInto(0..(Len(workers) + 1))                   \* mutant
SplitOk == SplitInto(0..Len(workers))

(* The worker of the first attempt at task i, counted from 0 as in the code. *)
FirstWorkerSame(i) == workers[1]                                     \* mutant
FirstWorker(i) == workers[(i % Len(workers)) + 1]

(* One iteration of the dispatch loop: the next task gets its worker and its
   goroutine is started. *)
Dispatch ==
  /\ pc = "dispatch"
  /\ launched < ntasks
  /\ launched' = launched + 1
  /\ LET w == FirstWorker(launched)
     IN  task' = [task EXCEPT ![launched + 1] =
                    [@ EXCEPT !.pc = "ready", !.status = "running",
                              !.worker = w, !.tried = {w}]]
  /\ UNCHANGED <<status, pc, context, healthy, ntasks, outcome>>

EndDispatch ==
  /\ pc = "dispatch"
  /\ launched = ntasks
  /\ pc' = "wait"
  /\ UNCHANGED <<status, context, healthy, tasks, outcome>>

-----------------------------------------------------------------------------
(* executeTaskWithRetry and callWorker, in the goroutine of chunk i.       *)

(* The worker of attempt a: workers[a % len(workers)], whatever the chunk. *)
RetryWorkerFirst(a) == workers[1]                                    \* mutant
RetryWorker(a) == workers[(a % Len(workers)) + 1]

TaskUnchanged ==
  UNCHANGED <<status, pc, context, healthy, ntasks, launched, outcome>>

SendAlways(i) ==                                                     \* mutant
  /\ task[i].pc = "ready"
  /\ task' = [task EXCEPT ![i].pc = "inflight"]
  /\ TaskUnchanged

(* POST /execute leaves; a request under an ended context is never sent. *)
Send(i) ==
  /\ task[i].pc = "ready"
  /\ ~ctxDone
  /\ task' = [task EXCEPT ![i].pc = "inflight"]
  /\ TaskUnchanged

(* The worker's answer has been read and is not an error: line 365.  An answer
   that was read before the context ended still gets here. *)
Answer(i) ==
  /\ task[i].pc = "inflight"
  /\ task' = [task EXCEPT ![i].pc = "stored", ![i].status = "done"]
  /\ TaskUnchanged

(* Lines 366 to 369, and wg.Done. *)
StoreOutput(i) ==
  /\ task[i].pc = "stored"
  /\ task' = [task EXCEPT ![i].pc = "exit", ![i].output = i]
  /\ TaskUnchanged

(* The call failed (refused, lost, answered with an error) and the context
   lives: the next attempt goes to the worker the attempt number selects. *)
Retry(i) ==
  /\ task[i].pc \in {"ready", "inflight"}
  /\ ~ctxDone
  /\ task[i].attempt < MaxRetry
  /\ LET a == task[i].attempt + 1
     IN  task' = [task EXCEPT ![i] =
                    [@ EXCEPT !.pc = "ready", !.attempt = a,
                              !.worker = RetryWorker(a),
                              !.tried = task[i].tried \union {RetryWorker(a)}]]
  /\ TaskUnchanged

(* The goroutine ends with the task failed. *)
FailTask(i) ==
  /\ task[i].pc \in {"ready", "inflight"}
  /\ task' = [task EXCEPT ![i].pc = "exit", ![i].status = "failed"]
  /\ TaskUnchanged

(* The last attempt failed. *)
Exhaust(i) == ~ctxDone /\ task[i].attempt = MaxRetry /\ FailTask(i)

AbortUnsent(i) == ctxDone /\ task[i].pc = "ready" /\ FailTask(i)     \* mutant

(* A call fails under an ended context, and the loop is left at line 307. *)
Abort(i) == ctxDone /\ FailTask(i)

-----------------------------------------------------------------------------
(* ExecuteJob, from the select statement to its return.                    *)

(* The select takes `done`: every goroutine has ended. *)
AllDone ==
  /\ pc = "wait"
  /\ \A i \in Chunks : task[i].pc = "exit"
  /\ pc' = "check"
  /\ UNCHANGED <<status, context, healthy, tasks, outcome>>

(* The select takes ctx.Done(), which it may also when `done` is ready. *)
EndInterrupted(written) ==
  /\ pc = "wait"
  /\ ctxDone
  /\ status' = written
  /\ pc' = "save"
  /\ UNCHANGED <<context, healthy, tasks, outcome>>

InterruptedUnseen == EndInterrupted(status)                          \* mutant
InterruptedBlind  == EndInterrupted("failed")                        \* mutant
Interrupted ==
  EndInterrupted(IF status = "running" THEN "failed" ELSE status)

(* Line 170: a cancelled job is left as it is, and is not saved. *)
CheckCancelled ==
  /\ pc = "check"
  /\ status = "cancelled"
  /\ pc' = "returned"
  /\ ctxDone' = TRUE
  /\ UNCHANGED <<status, cancelSet, parentDone, healthy, tasks, outcome>>

CheckPassed ==
  /\ pc = "check"
  /\ status # "cancelled"
  /\ pc' = "collect"
  /\ UNCHANGED <<status, context, healthy, tasks, outcome>>

NoTaskRunning == \A i \in Chunks : task[i].status # "running"        \* mutant
AllTasksDone == \A i \in Chunks : task[i].status = "done"

CollectFailedGoesOn ==                                               \* mutant
  /\ pc = "collect"
  /\ ~AllTasksDone
  /\ status' = "failed"
  /\ pc' = "aggregate"
  /\ UNCHANGED <<context, healthy, tasks, outcome>>

CollectFailed == ~AllTasksDone /\ FailJob("collect")

(* Line 197 writes the status without a second look at it. *)
Collect ==
  /\ pc = "collect"
  /\ AllTasksDone
  /\ pc' = "aggregate"
  /\ status' = "aggregating"
  /\ UNCHANGED <<context, healthy, tasks, outcome>>

AggregateError == FailJob("aggregate")

AggregateOk ==
  /\ pc = "aggregate"
  /\ pc' = "save"
  /\ result' = {[i \in Chunks |-> task[i].output]}
  /\ status' = "done"
  /\ UNCHANGED <<context, healthy, tasks, disk>>

(* saveToDiskPublic, whose error is ignored, and the deferred cancel. *)
Save ==
  /\ pc = "save"
  /\ pc' = "returned"
  /\ ctxDone' = TRUE
  /\ disk' \in {disk, status}
  /\ UNCHANGED <<status, cancelSet, parentDone, healthy, tasks, result>>

-----------------------------------------------------------------------------
(* The surroundings of the execution.                                      *)

CancelAny ==                                                         \* mutant
  /\ ctxDone' = TRUE
  /\ status' = "cancelled"
  /\ UNCHANGED <<pc, cancelSet, parentDone, healthy, tasks, outcome>>

(* POST /api/jobs/{id}/cancel: for a job whose execution has ever started, at
   whatever point it is now.  For the others the handler changes nothing. *)
Cancel ==
  /\ cancelSet
  /\ ctxDone' = TRUE
  /\ status' = "cancelled"
  /\ UNCHANGED <<pc, cancelSet, parentDone, healthy, tasks, outcome>>

TimeoutNever == FALSE /\ UNCHANGED vars                              \* mutant

(* Job.TimeoutSec have passed. *)
Timeout ==
  /\ pc \notin {"queued", "returned"}
  /\ ~ctxDone
  /\ ctxDone' = TRUE
  /\ UNCHANGED <<status, pc, cancelSet, parentDone, healthy, tasks, outcome>>

(* SIGTERM or SIGINT: the context of the runner, parent of the job's, ends. *)
Shutdown ==
  /\ ~parentDone
  /\ parentDone' = TRUE
  /\ ctxDone' = (ctxDone \/ pc # "queued")
  /\ UNCHANGED <<status, pc, cancelSet, healthy, tasks, outcome>>

-----------------------------------------------------------------------------
(* Steps ExecuteJob takes by itself, and those of one task's goroutine that
   need no answer of a worker. *)
MainStep ==
  \/ NoWorkers \/ StartSplit \/ SplitError \/ SplitOk \/ Dispatch \/ EndDispatch
  \/ AllDone \/ Interrupted \/ CheckCancelled \/ CheckPassed
  \/ CollectFailed \/ Collect \/ AggregateError \/ AggregateOk \/ Save

TaskStep(i) == Send(i) \/ StoreOutput(i) \/ Abort(i)

TaskNext(i) == TaskStep(i) \/ Answer(i) \/ Retry(i) \/ Exhaust(i)

PingNext(w) == PingOk(w) \/ PingFail(w)

Next ==
  \/ Begin
  \/ \E w \in Workers : PingNext(w)
  \/ MainStep
  \/ \E i \in Slots : TaskNext(i)
  \/ Cancel \/ Timeout \/ Shutdown

Spec == Init /\ [][Next]_vars

(* The Go scheduler runs every goroutine that can run; a ping ends by its own
   timeout and the job's context by the job's.  Nothing makes a worker answer,
   a call fail while the context lives, a user cancel or the center stop. *)
Fairness ==
  /\ WF_vars(MainStep)
  /\ WF_vars(Timeout)
  /\ \A w \in Workers : WF_vars(PingNext(w))
  /\ \A i \in Slots : WF_vars(TaskStep(i))

FairSpec == Spec /\ Fairness

-----------------------------------------------------------------------------
(* Correctness.                                                            *)

TaskType ==
  [pc : {"none", "ready", "inflight", "stored", "exit"},
   status : {"pending", "running", "done", "failed"},
   worker : Workers \union {NoWorker},
   attempt : 0..MaxRetry,
   output : Slots \union {NoOutput},
   tried : SUBSET Workers]

(* Every variable has its type: at most one chunk per healthy worker, and no
   index past the end of a slice. *)
TypeOK ==
  /\ status \in Statuses
  /\ pc \in {"queued", "ping", "split", "dispatch", "wait", "check", "collect",
             "aggregate", "save", "returned"}
  /\ cancelSet \in BOOLEAN
  /\ parentDone \in BOOLEAN
  /\ ctxDone \in BOOLEAN
  /\ unpinged \in SUBSET Workers
  /\ workers \in Seq(Workers)
  /\ ntasks \in 0..Len(workers)
  /\ launched \in 0..ntasks
  /\ Len(workers) <= Cardinality(Workers)
  /\ task \in [Slots -> TaskType]
  /\ result = Earlier \/ result \in SUBSET Seq(Slots \union {NoOutput})
  /\ disk \in Statuses \union {"absent"}

(* A job shown "done" carries the outputs of all its chunks, in the order of
   the chunks, none of them nil, and no goroutine is left that could still
   write into its tasks; only a job that is executed again may be shown done by
   its earlier execution, until line 95 or an end without workers.  A job shown
   "failed" has no result of this execution: none, or that of an earlier one,
   which failJob leaves.  (The wait group, the check of every task's status and
   the order of lines 365 and 366 together.) *)
DoneIsComplete ==
  /\ status = "done" =>
       \/ /\ result = {[i \in Chunks |-> i]}
          /\ \A i \in Slots : task[i].pc \in {"none", "exit"}
       \/ result = Earlier /\ pc \in {"queued", "ping"}
  /\ status = "failed" => result \in {{}, Earlier}

(* When ExecuteJob is past its last write the job is in a final status, and no
   snapshot it took holds the job in an unfinished one: a restarted center
   would show such a job as running for ever. *)
EndsTerminal ==
  /\ pc \in {"save", "returned"} => status \in Terminal
  /\ disk # "absent" => disk \in Terminal

(* A task that failed while the context was alive has been tried on every
   healthy worker, provided the job allows as many retries as there are
   healthy workers: one live worker that computes the chunk is then enough.
   (The modulus of lines 130 and 291: with one retry less the worker a chunk
   never reaches may be the one that works.) *)
RetriesReachEveryWorker ==
  \A i \in Chunks :
    task[i].status = "failed" /\ ~ctxDone /\ MaxRetry >= Len(workers)
      => \A k \in 1..Len(workers) : workers[k] \in task[i].tried

(* The first attempts of two chunks of a job never go to the same worker. *)
FirstAttemptsSpread ==
  \A i, j \in Chunks :
    /\ i # j
    /\ task[i].pc # "none" /\ task[i].attempt = 0
    /\ task[j].pc # "none" /\ task[j].attempt = 0
    => task[i].worker # task[j].worker

(* Once all tasks are dispatched and ExecuteJob waits for them, a cancel is
   final, although the timeout, the last answers and failing calls race with
   it.  (The two looks at the status at lines 158 and 170.) *)
CancelSticksWhileWaiting ==
  [][(status = "cancelled" /\ pc \in {"wait", "check", "save", "returned"})
       => status' = "cancelled"]_vars

(* An execution that has begun returns, whatever the workers do or omit. *)
BegunJobReturns == pc = "ping" ~> pc = "returned"

(* Goroutines that outlive ExecuteJob (after a timeout or a cancel) all end. *)
NoGoroutineLeaks ==
  pc = "returned" ~> \A i \in Slots : task[i].pc \in {"none", "exit"}

(* A cancel that comes before the tasks exist is overwritten by the status
   writes of lines 95 and 122, but the context it ended still keeps the job
   from being computed: it is never shown "done", unless there was no chunk to
   compute.  (During the pings a job also looks cancelled when it was loaded so:
   its context lives, and it is executed to its end.) *)
LostCancelStillStops ==
  [](status = "cancelled" /\ (pc = "split" \/ (pc = "ping" /\ ctxDone))
       => [](status = "done" => ntasks = 0))

(* The stages of the contract: the last status the execution itself wrote. *)
Stage ==
  CASE pc = "queued" -> "pending"
    [] pc = "ping" -> "started"
    [] pc = "split" -> "splitting"
    [] pc \in {"dispatch", "wait", "check", "collect"} -> "running"
    [] pc = "aggregate" -> "aggregating"
    [] pc \in {"save", "returned"} -> "ended"

Job == INSTANCE JobLifecycle
         WITH stage <- Stage,
              complete <- (result = {[i \in Chunks |-> i]})

(* The execution implements the contract of JobLifecycle.tla: the stages in
   their order, one end, a result only from all chunks, and progress. *)
ImplementsLifecycle == Job!Spec

-----------------------------------------------------------------------------
(* What others take for granted and the code does not do.                  *)

(* The client stops polling at the first final status it sees, and so does the
   benchmark: a final status should never change. *)
TerminalIsFinal == [][(status \in Terminal) => (status' = status)]_vars

(* The design document: a failed task is retried on a different worker. *)
RetryOnDifferentWorker ==
  [][\A i \in Slots : task'[i].attempt = task[i].attempt + 1 /\ Len(workers) > 1
       => task'[i].worker # task[i].worker]_vars
=============================================================================
