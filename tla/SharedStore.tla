---------------------------- MODULE SharedStore ----------------------------
(***************************************************************************)
(* Who reads and writes one job at the same time, field by field: the      *)
(* goroutine of ExecuteJob, those of its tasks, and the handlers of the    *)
(* API, under the RWMutex of the store or without it.  A goroutine is the  *)
(* sequence of accesses it has still to make; an access is one step.       *)
(*                                                                         *)
(* A result or an output is an interface, two words: a store to one is two *)
(* steps, with Garbled in between.  A status is a string, two words too,   *)
(* but a torn one is no status, and nothing is claimed of an answer that   *)
(* holds it.  The stores of a goroutine are seen in their order, as the    *)
(* machine (amd64) keeps them.                                             *)
(***************************************************************************)
EXTENDS Sequences

(* A definition marked `mutant` is never used: it is the definition after it
   with a plausible mistake, kept to show which property would notice. *)

CONSTANTS
  Clients,    \* clients of the API, each of which makes at most one call
  Tasks,      \* the tasks of the job
  Execution,  \* the goroutine that runs ExecuteJob
  NoOne       \* nobody has asked for the write lock

ASSUME CallersAssumption ==
  /\ Execution \notin Clients \union Tasks
  /\ NoOne \notin Clients \union Tasks \union {Execution}
  /\ Clients \intersect Tasks = {}

VARIABLES
  lock,    \* Store.mu
  called,  \* the clients that have called
  todo,    \* the accesses every goroutine has still to make in this call
  phase,   \* where ExecuteJob is
  job,     \* the fields of the job, and whether its context has ended
  task,    \* the fields of its tasks
  seen,    \* what the call of a client has read so far
  disk     \* the job in store.json

vars == <<lock, called, todo, phase, job, task, seen, disk>>

Callers  == Clients \union Tasks \union {Execution}
Garbled  == "garbled"
Terminal == {"done", "failed", "cancelled"}

(* The program writes the same "done" for every execution; the model tells that
   of an earlier process from that of this one. *)
DoneBefore == "done before"
Statuses ==
  {"pending", "splitting", "running", "aggregating", DoneBefore} \union Terminal

(* Accesses. *)
Do(op) == [op |-> op]
Put(f, v) == [op |-> "put", field |-> f, value |-> v]
Whole(f) == <<Put(f, Garbled), Put(f, "whole")>>
Look(f) == [op |-> "look", field |-> f]
Locked(s) == <<Do("lock")>> \o s \o <<Do("unlock")>>

NewTask == [status |-> "pending", output |-> "none"]
Ended   == [status |-> "done", output |-> "whole"]
Nothing == [status |-> "unread", result |-> "unread", finished |-> FALSE,
            tasks |-> [i \in Tasks |-> NewTask]]

(* A job nobody has executed, or one an earlier process had finished, whose
   message was delivered again. *)
Init ==
  /\ lock = [writer |-> NoOne, held |-> FALSE, readers |-> {}]
  /\ called = {}
  /\ todo = [c \in Callers |-> <<>>]
  /\ phase = "queued"
  /\ \E again \in BOOLEAN :
       /\ task = [i \in Tasks |-> IF again THEN Ended ELSE NewTask]
       /\ job = [status |-> IF again THEN DoneBefore ELSE "pending",
                 result |-> IF again THEN "whole" ELSE "none",
                 finished |-> again, cancel |-> FALSE, ctxDone |-> FALSE]
  /\ seen = [c \in Clients |-> Nothing]
  /\ disk = Nothing

-----------------------------------------------------------------------------
(* What the calls do, access by access.                                    *)

(* json.Encoder reads the fields in the order of the struct. *)
Encode == <<Look("status"), Look("result"), Look("tasks")>>

(* GET /api/jobs/{id}, GET /api/jobs, and the answer to a submission: the lock
   is held to find the job, and not to encode it. *)
View == <<Do("rlock"), Do("runlock")>> \o Encode \o <<Do("send")>>

(* GET /api/stats: ComputeStats holds the lock from the first read to the last. *)
StatsUnlocked ==                                                     \* mutant
  <<Do("rlock"), Look("status"), Look("finished"), Do("runlock"), Look("tasks"), Do("send")>>
Stats ==
  <<Do("rlock"), Look("status"), Look("finished"), Look("tasks"), Do("runlock"), Do("send")>>

(* GET /api/workers: the answer is written to the connection under the lock. *)
WorkersList == <<Do("rlock"), Do("send"), Do("runlock")>>

(* POST /api/jobs/{id}/cancel, as far as the test of job.cancel.  For a job that
   has none it holds the lock as PUT /api/workers and CreateJob do. *)
CancelCall == <<Do("lock"), Do("cancel")>>
CancelWrites == <<Put("status", "cancelled")>>

(* saveToDiskPublic. *)
Save == Locked(<<Do("encode")>>)

FailWrites == <<Put("status", "failed")>>
FailJob == Locked(FailWrites) \o Save

(* The result of an earlier process has come from store.json, where json knows
   other types than the aggregator: a store over it changes both words too. *)
DoneEarly ==                                                         \* mutant
  <<Put("status", "done")>> \o Whole("result") \o <<Put("finished", TRUE)>>
DoneWrites == Whole("result") \o <<Put("status", "done"), Put("finished", TRUE)>>

(* Lines 365 to 369 and 310 to 312 of scheduler.go: without the lock. *)
TaskDone   == <<Put("status", "done")>> \o Whole("output")
TaskFailed == <<Put("status", "failed")>>

-----------------------------------------------------------------------------
(* The accesses.                                                           *)

NextIs(c, op) == todo[c] # <<>> /\ Head(todo[c]).op = op
Advance(c) == todo' = [todo EXCEPT ![c] = Tail(@)]
Turn(c, s) == todo' = [todo EXCEPT ![c] = s]

(* sync.RWMutex: a writer that has asked keeps new readers out, and waits for
   the readers that are in. *)
Announce(c) ==
  /\ NextIs(c, "lock")
  /\ lock.writer = NoOne
  /\ lock' = [lock EXCEPT !.writer = c]
  /\ UNCHANGED <<called, todo, phase, job, task, seen, disk>>

Lock(c) ==
  /\ NextIs(c, "lock")
  /\ lock.writer = c /\ lock.readers = {}
  /\ lock' = [lock EXCEPT !.held = TRUE]
  /\ Advance(c)
  /\ UNCHANGED <<called, phase, job, task, seen, disk>>

Unlock(c) ==
  /\ NextIs(c, "unlock")
  /\ lock' = [lock EXCEPT !.writer = NoOne, !.held = FALSE]
  /\ Advance(c)
  /\ UNCHANGED <<called, phase, job, task, seen, disk>>

RLock(c) ==
  /\ NextIs(c, "rlock")
  /\ lock.writer = NoOne
  /\ lock' = [lock EXCEPT !.readers = @ \union {c}]
  /\ Advance(c)
  /\ UNCHANGED <<called, phase, job, task, seen, disk>>

RUnlock(c) ==
  /\ NextIs(c, "runlock")
  /\ lock' = [lock EXCEPT !.readers = @ \ {c}]
  /\ Advance(c)
  /\ UNCHANGED <<called, phase, job, task, seen, disk>>

(* A store to a field: of a task by its goroutine, of the job by the others. *)
Store(c) ==
  /\ NextIs(c, "put")
  /\ LET a == Head(todo[c])
     IN  IF c \in Tasks
           THEN task' = [task EXCEPT ![c][a.field] = a.value] /\ UNCHANGED job
           ELSE job' = [job EXCEPT ![a.field] = a.value] /\ UNCHANGED task
  /\ Advance(c)
  /\ UNCHANGED <<called, lock, phase, seen, disk>>

(* A load by a handler. *)
Load(c) ==
  /\ NextIs(c, "look")
  /\ LET f == Head(todo[c]).field
     IN  seen' = [seen EXCEPT ![c][f] = IF f = "tasks" THEN task ELSE job[f]]
  /\ Advance(c)
  /\ UNCHANGED <<called, lock, phase, job, task, disk>>

(* saveLocked encodes the job; what could change meanwhile are the tasks of a
   job whose goroutines outlived it. *)
Snapshot ==
  /\ NextIs(Execution, "encode")
  /\ disk' = [status |-> job.status, result |-> job.result,
              finished |-> job.finished, tasks |-> task]
  /\ Advance(Execution)
  /\ UNCHANGED <<called, lock, phase, job, task, seen>>

(* The client has taken the answer, or the WriteTimeout of the server passes. *)
SentAway(c) ==
  /\ NextIs(c, "send")
  /\ seen' = [seen EXCEPT ![c] = Nothing]
  /\ Advance(c)
  /\ UNCHANGED <<called, lock, phase, job, task, disk>>

-----------------------------------------------------------------------------
(* The handlers.                                                           *)

Call(c) ==
  /\ c \notin called
  /\ called' = called \union {c}
  /\ \E call \in {View, Stats, WorkersList, CancelCall} : Turn(c, call)
  /\ UNCHANGED <<lock, phase, job, task, seen, disk>>

CancelWith(c, writes) ==
  /\ NextIs(c, "cancel")
  /\ IF job.cancel
       THEN Turn(c, writes \o <<Do("unlock")>>) /\ job' = [job EXCEPT !.ctxDone = TRUE]
       ELSE Turn(c, <<Do("unlock")>>) /\ UNCHANGED job
  /\ UNCHANGED <<called, lock, phase, task, seen, disk>>

CancelMisspelled(c) == CancelWith(c, <<Put("status", "canceled")>>)    \* mutant
Cancel(c) == CancelWith(c, CancelWrites)

-----------------------------------------------------------------------------
(* ExecuteJob.                                                             *)

(* It is done with the accesses of phase `from` and goes on with those of the
   next. *)
Go(from, to, s) ==
  /\ phase = from
  /\ todo[Execution] = <<>>
  /\ phase' = to
  /\ Turn(Execution, s)
  /\ UNCHANGED <<called, lock, task, seen, disk>>

Begin == Go("queued", "ping", <<>>) /\ job' = [job EXCEPT !.cancel = TRUE]

NoWorkers == Go("ping", "over", FailJob) /\ UNCHANGED job

(* Line 95: without the lock. *)
StartSplit == Go("ping", "split", <<Put("status", "splitting")>>) /\ UNCHANGED job

SplitError == Go("split", "over", FailJob) /\ UNCHANGED job

SplitOk ==
  /\ Go("split", "dispatch", Locked(<<Do("create"), Put("status", "running")>>))
  /\ UNCHANGED job

(* Line 121: the new tasks take the place of the old. *)
Create ==
  /\ NextIs(Execution, "create")
  /\ task' = [i \in Tasks |-> NewTask]
  /\ Advance(Execution)
  /\ UNCHANGED <<called, lock, phase, job, seen, disk>>

(* The dispatch loop gives task i its worker and starts its goroutine. *)
Dispatch(i) ==
  /\ phase = "dispatch" /\ todo[Execution] = <<>>
  /\ task[i].status = "pending"
  /\ Turn(Execution, <<Do("lock"), [op |-> "start", which |-> i]>>)
  /\ UNCHANGED <<called, lock, phase, job, task, seen, disk>>

Start(i) ==
  /\ NextIs(Execution, "start") /\ Head(todo[Execution]).which = i
  /\ task' = [task EXCEPT ![i].status = "running"]
  /\ todo' = [todo EXCEPT ![Execution] = <<Do("unlock")>>, ![i] = <<Do("call")>>]
  /\ UNCHANGED <<called, lock, phase, job, seen, disk>>

EndDispatch ==
  /\ \A i \in Tasks : task[i].status # "pending"
  /\ Go("dispatch", "wait", <<>>)
  /\ UNCHANGED job

(* The call of the goroutine of task i ends. *)
TaskEnd(i, s) ==
  /\ NextIs(i, "call")
  /\ Turn(i, s)
  /\ UNCHANGED <<called, lock, phase, job, task, seen, disk>>

Answer(i) == TaskEnd(i, TaskDone)
Exhaust(i) == TaskEnd(i, TaskFailed)
Abort(i) == job.ctxDone /\ TaskEnd(i, TaskFailed)

AllDoneUnwaited == Go("wait", "check", <<Do("rlock")>>) /\ UNCHANGED job  \* mutant
AllDone ==
  /\ \A i \in Tasks : todo[i] = <<>>
  /\ Go("wait", "check", <<Do("rlock")>>)
  /\ UNCHANGED job

Interrupted ==
  /\ job.ctxDone
  /\ Go("wait", "interrupted", <<Do("lock")>>)
  /\ UNCHANGED job

(* Line 158, under the lock. *)
InterruptedWrite ==
  /\ Go("interrupted", "over",
        (IF job.status = "running" THEN FailWrites ELSE <<>>) \o <<Do("unlock")>> \o Save)
  /\ UNCHANGED job

(* Line 170, under the read lock. *)
CheckForgets ==                                                      \* mutant
  /\ job.status = "cancelled"
  /\ Go("check", "over", <<>>)
  /\ UNCHANGED job
CheckCancelled ==
  /\ job.status = "cancelled"
  /\ Go("check", "over", <<Do("runlock")>>)
  /\ UNCHANGED job

CheckPassed ==
  /\ job.status # "cancelled"
  /\ Go("check", "collect", <<Do("runlock")>>)
  /\ UNCHANGED job

AllTasksDone == \A i \in Tasks : task[i].status = "done"

CollectFailed == ~AllTasksDone /\ Go("collect", "over", FailJob) /\ UNCHANGED job

Collect ==
  /\ AllTasksDone
  /\ Go("collect", "aggregate", Locked(<<Put("status", "aggregating")>>))
  /\ UNCHANGED job

AggregateError == Go("aggregate", "over", FailJob) /\ UNCHANGED job

AggregateOk == Go("aggregate", "over", Locked(DoneWrites) \o Save) /\ UNCHANGED job

(* The job's timeout, or the end of the runner's context; an earlier one is not
   seen before there are tasks, as a ping may fail anyhow. *)
Timeout ==
  /\ phase \in {"dispatch", "wait"} /\ ~job.ctxDone
  /\ job' = [job EXCEPT !.ctxDone = TRUE]
  /\ UNCHANGED <<called, lock, todo, phase, task, seen, disk>>

-----------------------------------------------------------------------------
Access(c) ==
  \/ Announce(c) \/ Lock(c) \/ Unlock(c) \/ RLock(c) \/ RUnlock(c)
  \/ Store(c) \/ Load(c) \/ SentAway(c) \/ Cancel(c)

ExecuteJob ==
  \/ NoWorkers \/ StartSplit \/ SplitError \/ SplitOk \/ Create
  \/ \E i \in Tasks : Dispatch(i) \/ Start(i)
  \/ EndDispatch \/ AllDone \/ Interrupted \/ InterruptedWrite
  \/ CheckCancelled \/ CheckPassed \/ CollectFailed \/ Collect
  \/ AggregateError \/ AggregateOk \/ Snapshot

Next ==
  \/ \E c \in Callers : Access(c)
  \/ \E c \in Clients : Call(c)
  \/ Begin \/ ExecuteJob \/ Timeout
  \/ \E i \in Tasks : Answer(i) \/ Exhaust(i) \/ Abort(i)

Spec == Init /\ [][Next]_vars

(* Goroutines run, the mutex starves nobody, a client that does not read is cut
   off by WriteTimeout and a job by its own.  Nobody need call. *)
Fairness ==
  /\ \A c \in Callers : WF_vars(Access(c))
  /\ WF_vars(ExecuteJob)
  /\ WF_vars(Timeout)
  /\ \A i \in Tasks : WF_vars(Abort(i))

FairSpec == Spec /\ Fairness

-----------------------------------------------------------------------------
(* Correctness.                                                            *)

(* Every variable has its type. *)
TypeOK ==
  /\ lock \in [writer : Callers \union {NoOne}, held : BOOLEAN, readers : SUBSET Callers]
  /\ \A c \in Callers : \A k \in DOMAIN todo[c] :
       todo[c][k].op \in {"lock", "unlock", "rlock", "runlock", "put", "look", "encode",
                          "send", "cancel", "create", "start", "call"}
  /\ phase \in {"queued", "ping", "split", "dispatch", "wait", "interrupted", "check",
                "collect", "aggregate", "over"}
  /\ called \in SUBSET Clients
  /\ job \in [status : Statuses, result : {"none", Garbled, "whole"},
              finished : BOOLEAN, cancel : BOOLEAN, ctxDone : BOOLEAN]
  /\ task \in [Tasks -> [status : {"pending", "running", "done", "failed"},
                         output : {"none", Garbled, "whole"}]]
  /\ \A c \in Clients : seen[c].status \in Statuses \union {"unread"}
  /\ disk.status \in Terminal \union {"unread"}

(* An answer of GET /api/jobs/{id} that says this execution's done carries the
   whole result and all tasks with their outputs, although it is encoded without
   the lock: the page takes such an answer as its last.  A handler that has read
   the done of an earlier process may go on to read the tasks and the result as
   the new execution changes them: nothing is claimed of its answer. *)
DoneViewIsWhole ==
  \A c \in Clients :
    todo[c] = <<Do("send")>> /\ seen[c].status = "done" /\ seen[c].result # "unread"
      => seen[c].result = "whole" /\ seen[c].tasks = [i \in Tasks |-> Ended]

(* A job counted as done in the statistics has its time of ending, and all its
   tasks are counted with it, whichever process has ended it. *)
StatsOfDoneJobs ==
  \A c \in Clients :
    todo[c] = <<Do("send")>> /\ seen[c].status \in {"done", DoneBefore}
    /\ seen[c].result = "unread"
      => seen[c].finished /\ seen[c].tasks = [i \in Tasks |-> Ended]

(* A job that store.json holds as done is there with its whole result, its time
   and every output, whatever cancels and late goroutines wrote meanwhile. *)
SnapshotIsWhole ==
  disk.status = "done" =>
    disk.result = "whole" /\ disk.finished /\ disk.tasks = [i \in Tasks |-> Ended]

(* Every call of the API and every execution ends, although a slow client keeps
   the read lock of GET /api/workers, a writer that waits for it keeps everybody
   else out, and ExecuteJob takes and leaves the lock on a dozen paths. *)
Quiet == phase \in {"queued", "over"} /\ \A c \in Callers : todo[c] = <<>>
EveryCallReturns == []<>Quiet
=============================================================================
