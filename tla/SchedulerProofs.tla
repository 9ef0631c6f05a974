-------------------------- MODULE SchedulerProofs --------------------------
(***************************************************************************)
(* Theorems about Scheduler.tla, for any set of workers, any number of     *)
(* retries and any statuses a job may have been loaded with.               *)
(***************************************************************************)
EXTENDS Scheduler, FiniteSetTheorems, TLAPS

-----------------------------------------------------------------------------
(* The inductive invariant, part by part.                                  *)

(* Every ping leaves at most one entry in the list of healthy workers. *)
PingInv ==
  /\ Len(workers) + Cardinality(unpinged) <= Cardinality(Workers)
  /\ pc = "queued" => workers = <<>>

(* Tasks are started from the first to the last, after the split. *)
LaunchInv ==
  /\ pc \in {"queued", "ping", "split"} => ntasks = 0 /\ launched = 0
  /\ pc \in {"wait", "check", "collect", "aggregate"} => launched = ntasks
  /\ \A i \in Slots : task[i].pc = "none" <=> i > launched

(* What the place of a goroutine says of its task. *)
TaskInv ==
  \A i \in Slots :
    /\ task[i].pc = "none" => task[i].status = "pending"
    /\ task[i].pc \in {"ready", "inflight"} => task[i].status = "running"
    /\ task[i].pc = "stored" => task[i].status = "done"
    /\ task[i].pc = "exit" => task[i].status \in {"done", "failed"}
    /\ task[i].pc = "exit" /\ task[i].status = "done" => task[i].output = i

(* What the place of ExecuteJob says of the tasks and of the status. *)
PhaseInv ==
  /\ cancelSet <=> pc # "queued"
  /\ pc \in {"check", "collect", "aggregate"} => \A i \in Chunks : task[i].pc = "exit"
  /\ pc = "aggregate" => AllTasksDone
  /\ pc \in {"dispatch", "wait", "check"} => status \in {"running", "cancelled"}
  /\ pc \in {"save", "returned"} => status \in Terminal
  /\ status = "done" => \/ pc \in {"queued", "ping"} /\ result = Earlier
                        \/ pc \in {"save", "returned"} /\ result \notin {{}, Earlier}

(* What a result of this execution says of the job: it is complete and nothing
   can change it. *)
ResultInv ==
  \/ result \in {{}, Earlier}
  \/ /\ pc \in {"save", "returned"}
     /\ status \in {"done", "cancelled"}
     /\ result = {[i \in Chunks |-> i]}
     /\ \A i \in Slots : task[i].pc \in {"none", "exit"}

(* A snapshot was taken at the end. *)
DiskInv == disk # "absent" => disk \in Terminal

(* The workers a task has been tried on are those the attempt numbers select;
   while the context lives a task fails only after its last attempt. *)
TriedInv ==
  \A i \in Slots :
    /\ task[i].pc = "none" => task[i].attempt = 0
    /\ \A a \in 1..task[i].attempt : RetryWorker(a) \in task[i].tried
    /\ task[i].status = "failed" /\ ~ctxDone => task[i].attempt = MaxRetry

(* All of them. *)
IndInv == /\ TypeOK /\ PingInv /\ LaunchInv /\ TaskInv
          /\ PhaseInv /\ ResultInv /\ DiskInv /\ TriedInv

-----------------------------------------------------------------------------
(* There are finitely many workers. *)
LEMMA SlotsFinite == Cardinality(Workers) \in Nat
  BY WorkersAssumption, FS_CardinalityType

(* The types hold initially. *)
LEMMA InitTyped == Init => TypeOK
<1> SUFFICES ASSUME Init PROVE TypeOK
  OBVIOUS
<1>1. workers \in Seq(Workers) /\ Len(workers) = 0
  BY DEF Init
<1>2. NewTask \in TaskType
  BY MaxRetryAssumption DEF NewTask, TaskType, NoOutput
<1>3. task \in [Slots -> TaskType]
  BY <1>2 DEF Init
<1>4. result = Earlier \/ result \in SUBSET Seq(Slots \union {NoOutput})
  BY DEF Init
<1>5. ntasks \in 0..Len(workers) /\ launched \in 0..ntasks
  BY <1>1 DEF Init
<1>6. status \in Statuses /\ disk \in Statuses \union {"absent"}
  BY LoadedAssumption DEF Init, Statuses
<1>7. Len(workers) <= Cardinality(Workers)
  BY <1>1, SlotsFinite
<1> QED
  BY <1>1, <1>3, <1>4, <1>5, <1>6, <1>7 DEF Init, TypeOK

(* The index the modulus yields is one of the list. *)
LEMMA ModIndex ==
  ASSUME NEW n \in Nat \ {0}, NEW a \in Nat
  PROVE  (a % n) + 1 \in 1..n
  OBVIOUS

(* The step of a task's goroutine keeps them. *)
LEMMA TaskNextTyped ==
  ASSUME TypeOK, LaunchInv, NEW i \in Slots, TaskNext(i)
  PROVE  TypeOK'
<1>1. task[i] \in TaskType /\ task \in [Slots -> TaskType]
  BY DEF TypeOK
<1>2. task[i].attempt \in 0..MaxRetry /\ task[i].tried \in SUBSET Workers
  BY <1>1 DEF TaskType
<1>3. ASSUME task' \in [Slots -> TaskType], TaskUnchanged PROVE TypeOK'
  BY <1>3 DEF TypeOK, TaskUnchanged, context, healthy, outcome, Slots
<1>4. ASSUME Retry(i) PROVE TypeOK'
  <2> DEFINE a == task[i].attempt + 1
             t == [task[i] EXCEPT !.pc = "ready", !.attempt = a,
                                  !.worker = RetryWorker(a),
                                  !.tried = @ \union {RetryWorker(a)}]
  <2>1. task[i].attempt < MaxRetry /\ task[i].pc \in {"ready", "inflight"}
    BY <1>4 DEF Retry
  <2>2. a \in 0..MaxRetry /\ a \in Nat
    BY <1>2, <2>1, MaxRetryAssumption
  <2>3. Len(workers) \in Nat \ {0}
    BY <2>1, <1>1 DEF LaunchInv, TypeOK, Slots
  <2>4. RetryWorker(a) \in Workers
    BY <2>2, <2>3, ModIndex DEF RetryWorker, TypeOK
  <2>5. t \in TaskType
    BY <1>1, <1>2, <2>2, <2>4 DEF TaskType
  <2>6. task' = [task EXCEPT ![i] = t] /\ TaskUnchanged
    BY <1>4, <1>1 DEF Retry
  <2> QED
    BY <1>1, <1>3, <2>5, <2>6
<1>5. ASSUME Send(i) \/ StoreOutput(i) \/ Answer(i) \/ FailTask(i) PROVE TypeOK'
  <2>1. task' \in [Slots -> TaskType]
    BY <1>1, <1>5 DEF Send, StoreOutput, Answer, FailTask, TaskType
  <2> QED
    BY <1>3, <1>5, <2>1 DEF Send, StoreOutput, Answer, FailTask
<1> QED
  BY <1>4, <1>5 DEF TaskNext, TaskStep, Abort, Exhaust

(* The steps that touch neither the lists of workers nor the tasks. *)
Quiet ==
  \/ NoWorkers \/ StartSplit \/ SplitError \/ EndDispatch \/ AllDone \/ Interrupted
  \/ CheckCancelled \/ CheckPassed \/ CollectFailed \/ Collect \/ AggregateError
  \/ AggregateOk \/ Save \/ Cancel \/ Timeout \/ Shutdown

(* Quiet steps leave the workers and the tasks alone. *)
LEMMA QuietUnchanged == Quiet => UNCHANGED <<healthy, tasks>>
  BY DEF Quiet, NoWorkers, StartSplit, SplitError, EndDispatch, AllDone, Interrupted,
         EndInterrupted, CheckCancelled, CheckPassed, CollectFailed, Collect,
         AggregateError, AggregateOk, Save, Cancel, Timeout, Shutdown, FailJob,
         healthy, tasks

(* The steps, sorted by what they touch. *)
LEMMA NextCases ==
  ASSUME [Next]_vars
  PROVE  \/ Begin \/ Dispatch \/ SplitOk \/ Quiet \/ UNCHANGED vars
         \/ \E w \in Workers : PingOk(w) \/ PingFail(w)
         \/ \E i \in Slots : TaskNext(i)
  BY DEF Next, MainStep, Quiet, PingNext

(* Quiet steps keep the types. *)
LEMMA QuietTyped == ASSUME TypeOK, TaskInv, Quiet PROVE TypeOK'
<1>1. UNCHANGED <<healthy, tasks>>
  BY QuietUnchanged
<1>2. /\ unpinged' \in SUBSET Workers /\ workers' \in Seq(Workers)
      /\ ntasks' \in 0..Len(workers)' /\ launched' \in 0..ntasks'
      /\ Len(workers)' <= Cardinality(Workers) /\ task' \in [Slots -> TaskType]
  BY <1>1 DEF TypeOK, healthy, tasks
<1>3. ASSUME AggregateOk PROVE TypeOK'
  <2>1. Chunks \subseteq Slots
    BY SlotsFinite DEF TypeOK, Chunks, Slots
  <2>2. \A i \in Chunks : task[i].output \in Slots \union {NoOutput}
    BY <2>1 DEF TypeOK, TaskType
  <2>3. [i \in Chunks |-> task[i].output] \in Seq(Slots \union {NoOutput})
    BY <2>2 DEF Chunks, TypeOK
  <2>4. result' \in SUBSET Seq(Slots \union {NoOutput})
    BY <1>3, <2>3 DEF AggregateOk
  <2>5. /\ status' \in Statuses /\ disk' \in Statuses \union {"absent"}
        /\ cancelSet' \in BOOLEAN /\ parentDone' \in BOOLEAN /\ ctxDone' \in BOOLEAN
        /\ pc' = "save"
    BY <1>3 DEF AggregateOk, TypeOK, context, Statuses, Terminal
  <2> QED
    BY <1>2, <2>4, <2>5 DEF TypeOK
<1>4. ASSUME ~AggregateOk PROVE TypeOK'
  <2>1. result' = result /\ disk' \in {disk, status}
    BY <1>4 DEF Quiet, NoWorkers, StartSplit, SplitError, EndDispatch, AllDone,
         Interrupted, EndInterrupted, CheckCancelled, CheckPassed, CollectFailed,
         Collect, AggregateError, Save, Cancel, Timeout, Shutdown, FailJob, outcome
  <2>2. /\ status' \in {status, "splitting", "failed", "aggregating", "cancelled"}
        /\ pc' \in {pc, "split", "wait", "check", "collect", "aggregate", "save",
                    "returned"}
    BY <1>4 DEF Quiet, NoWorkers, StartSplit, SplitError, EndDispatch, AllDone,
         Interrupted, EndInterrupted, CheckCancelled, CheckPassed, CollectFailed,
         Collect, AggregateError, Save, Cancel, Timeout, Shutdown, FailJob
  <2>3. cancelSet' \in BOOLEAN /\ parentDone' \in BOOLEAN /\ ctxDone' \in BOOLEAN
    BY <1>4 DEF TypeOK, Quiet, NoWorkers, StartSplit, SplitError, EndDispatch, AllDone,
         Interrupted, EndInterrupted, CheckCancelled, CheckPassed, CollectFailed,
         Collect, AggregateError, Save, Cancel, Timeout, Shutdown, FailJob, context
  <2> QED
    BY <1>2, <2>1, <2>2, <2>3 DEF TypeOK, Statuses, Terminal
<1> QED
  BY <1>3, <1>4

(* The pings keep the count of healthy workers within the known ones. *)
LEMMA PingStep ==
  ASSUME TypeOK, PingInv, NEW w \in Workers, PingOk(w) \/ PingFail(w)
  PROVE  PingInv' /\ workers' \in Seq(Workers) /\ unpinged' \in SUBSET Workers
<1>1. IsFiniteSet(unpinged)
  BY WorkersAssumption, FS_Subset DEF TypeOK
<1>2. Cardinality(unpinged') = Cardinality(unpinged) - 1 /\ Cardinality(unpinged) \in Nat
  <2>1. w \in unpinged /\ unpinged' = unpinged \ {w}
    BY DEF PingOk, PingFail
  <2> QED
    BY <1>1, <2>1, FS_RemoveElement, FS_CardinalityType
<1>3. Len(workers') <= Len(workers) + 1 /\ workers' \in Seq(Workers)
  BY DEF PingOk, PingFail, TypeOK
<1>4. Len(workers) \in Nat /\ Len(workers') \in Nat
  BY <1>3 DEF TypeOK
<1>5. pc' = "ping"
  BY DEF PingOk, PingFail
<1>6. unpinged' \in SUBSET Workers
  BY DEF PingOk, PingFail, TypeOK
<1> QED
  BY <1>2, <1>3, <1>4, <1>5, <1>6, SlotsFinite DEF PingInv

(* So do the answers to the pings, *)
LEMMA PingTyped ==
  ASSUME TypeOK, PingInv, LaunchInv, NEW w \in Workers, PingOk(w) \/ PingFail(w)
  PROVE  TypeOK'
<1>1. /\ workers' \in Seq(Workers) /\ unpinged' \in SUBSET Workers
      /\ Len(workers') + Cardinality(unpinged') <= Cardinality(Workers)
  BY PingStep DEF PingInv
<1>2. Cardinality(unpinged') \in Nat
  BY <1>1, WorkersAssumption, FS_Subset, FS_CardinalityType
<1>3. pc = "ping" /\ ntasks = 0 /\ launched = 0
  BY DEF PingOk, PingFail, LaunchInv
<1>4. Len(workers') \in Nat /\ Len(workers') <= Cardinality(Workers)
  BY <1>1, <1>2, SlotsFinite
<1>5. UNCHANGED <<status, pc, context, tasks, outcome>>
  BY DEF PingOk, PingFail
<1> QED
  BY <1>1, <1>3, <1>4, <1>5 DEF TypeOK, context, tasks, outcome, Slots

(* the beginning of an execution, *)
LEMMA BeginTyped ==
  ASSUME TypeOK, PingInv, LaunchInv, Begin
  PROVE  TypeOK' /\ PingInv'
<1>1. unpinged' \in SUBSET Workers /\ workers' = <<>> /\ workers = <<>>
  BY DEF Begin, PingInv
<1>2. Cardinality(unpinged') <= Cardinality(Workers) /\ Cardinality(unpinged') \in Nat
  BY <1>1, WorkersAssumption, FS_Subset, FS_CardinalityType
<1>3. PingInv'
  BY <1>1, <1>2, SlotsFinite DEF PingInv, Begin
<1>4. TypeOK'
  BY <1>1 DEF TypeOK, Begin, tasks, outcome, Slots
<1> QED
  BY <1>3, <1>4

(* the split, which makes no more chunks than there are workers, *)
LEMMA SplitTyped ==
  ASSUME TypeOK, LaunchInv, SplitOk
  PROVE  TypeOK'
<1>1. ntasks' \in 0..Len(workers) /\ launched' = 0 /\ Len(workers) \in Nat
  BY DEF SplitOk, SplitInto, LaunchInv, TypeOK
<1> QED
  BY <1>1 DEF TypeOK, SplitOk, SplitInto, context, healthy, outcome, Slots,
              Statuses, Terminal

(* and the dispatch of the next task, to a worker that exists. *)
LEMMA DispatchTyped ==
  ASSUME TypeOK, LaunchInv, Dispatch
  PROVE  /\ TypeOK'
         /\ \E w \in Workers :
              task' = [task EXCEPT ![launched + 1] =
                         [task[launched + 1] EXCEPT !.pc = "ready", !.status = "running",
                                                    !.worker = w, !.tried = {w}]]
<1> DEFINE i == launched + 1
           w == FirstWorker(launched)
           t == [task[i] EXCEPT !.pc = "ready", !.status = "running",
                                !.worker = w, !.tried = {w}]
<1>1. launched \in Nat /\ launched < ntasks /\ ntasks \in 0..Len(workers)
  BY DEF Dispatch, TypeOK
<1>2. Len(workers) \in Nat \ {0} /\ Len(workers) <= Cardinality(Workers)
  BY <1>1 DEF TypeOK
<1>3. i \in Slots
  BY <1>1, <1>2, SlotsFinite DEF Slots
<1>4. w \in Workers
  BY <1>1, <1>2, ModIndex DEF FirstWorker, TypeOK
<1>5. t \in TaskType /\ task \in [Slots -> TaskType]
  BY <1>3, <1>4 DEF TypeOK, TaskType
<1>6. task' = [task EXCEPT ![i] = t]
  BY DEF Dispatch
<1>7. task' \in [Slots -> TaskType]
  BY <1>5, <1>6
<1>8. launched' \in 0..ntasks' /\ ntasks' = ntasks
  BY <1>1 DEF Dispatch
<1>9. TypeOK'
  BY <1>7, <1>8 DEF TypeOK, Dispatch, context, healthy, outcome, Slots
<1> QED
  BY <1>4, <1>6, <1>9

(* The type invariant and the count of healthy workers, over every step. *)
LEMMA TypeStep ==
  ASSUME TypeOK, PingInv, LaunchInv, TaskInv, [Next]_vars
  PROVE  TypeOK' /\ PingInv'
<1>1. CASE Begin
  BY <1>1, BeginTyped
<1>2. ASSUME NEW w \in Workers, PingOk(w) \/ PingFail(w) PROVE TypeOK' /\ PingInv'
  BY <1>2, PingTyped, PingStep
<1>3. ASSUME pc # "queued", UNCHANGED healthy, pc' # "queued" PROVE PingInv'
  BY <1>3 DEF PingInv, healthy
<1>4. CASE SplitOk
  BY <1>3, <1>4, SplitTyped DEF SplitOk, SplitInto
<1>5. CASE Dispatch
  BY <1>3, <1>5, DispatchTyped DEF Dispatch
<1>6. ASSUME NEW i \in Slots, TaskNext(i) PROVE TypeOK' /\ PingInv'
  <2>1. UNCHANGED <<pc, healthy>>
    BY <1>6 DEF TaskNext, TaskStep, Send, StoreOutput, Abort, Answer, Retry, Exhaust,
                FailTask, TaskUnchanged
  <2> QED
    BY <1>6, <2>1, TaskNextTyped DEF PingInv, healthy
<1>7. CASE Quiet
  <2>1. UNCHANGED healthy /\ (pc' = "queued" => pc = "queued")
    BY <1>7, QuietUnchanged DEF Quiet, NoWorkers, StartSplit, SplitError, EndDispatch,
         AllDone, Interrupted, EndInterrupted, CheckCancelled, CheckPassed,
         CollectFailed, Collect, AggregateError, AggregateOk, Save, Cancel, Timeout,
         Shutdown, FailJob
  <2> QED
    BY <1>7, <2>1, QuietTyped DEF PingInv, healthy
<1>8. CASE UNCHANGED vars
  BY <1>8 DEF vars, TypeOK, PingInv, context, healthy, tasks, outcome, Slots
<1> QED
  BY <1>1, <1>2, <1>4, <1>5, <1>6, <1>7, <1>8, NextCases

-----------------------------------------------------------------------------
(* The step of a task's goroutine, as far as the invariants see it. *)
LEMMA TaskNextEffect ==
  ASSUME TypeOK, NEW i \in Slots, TaskNext(i)
  PROVE  /\ TaskUnchanged
         /\ task[i].pc \in {"ready", "inflight", "stored"}
         /\ task'[i].pc \notin {"none"}
         /\ \A j \in Slots : j # i => task'[j] = task[j]
<1>1. task \in [Slots -> TaskType]
  BY DEF TypeOK
<1>2. CASE Retry(i)
  BY <1>1, <1>2 DEF Retry, TaskType
<1>3. CASE Send(i) \/ StoreOutput(i) \/ Answer(i) \/ FailTask(i)
  BY <1>1, <1>3 DEF Send, StoreOutput, Answer, FailTask, TaskType
<1> QED
  BY <1>2, <1>3 DEF TaskNext, TaskStep, Abort, Exhaust

(* Tasks are started in their order, over every step. *)
LEMMA LaunchStep ==
  ASSUME TypeOK, PingInv, LaunchInv, TypeOK', [Next]_vars
  PROVE  LaunchInv'
<1>1. ASSUME UNCHANGED tasks, pc' = pc \/ pc' \in {"dispatch", "save", "returned"}
      PROVE  LaunchInv'
  BY <1>1 DEF LaunchInv, tasks
<1>2. CASE Begin
  BY <1>2 DEF Begin, LaunchInv, tasks
<1>3. ASSUME NEW w \in Workers, PingOk(w) \/ PingFail(w) PROVE LaunchInv'
  BY <1>3, <1>1 DEF PingOk, PingFail
<1>4. CASE SplitOk
  BY <1>4 DEF SplitOk, SplitInto, LaunchInv
<1>5. CASE Dispatch
  <2>1. /\ launched' = launched + 1 /\ pc' = "dispatch" /\ launched \in Nat
        /\ launched + 1 \in Slots
    BY <1>5, SlotsFinite DEF Dispatch, TypeOK, Slots
  <2>2. task'[launched + 1].pc = "ready"
    BY <1>5, <2>1 DEF Dispatch, TypeOK, TaskType
  <2>3. \A j \in Slots : j # launched + 1 => task'[j] = task[j]
    BY <1>5, <2>1 DEF Dispatch, TypeOK
  <2>4. \A j \in Slots : task'[j].pc = "none" <=> j > launched + 1
    BY <2>1, <2>2, <2>3, SlotsFinite DEF LaunchInv, Slots
  <2> QED
    BY <2>1, <2>4 DEF LaunchInv
<1>6. ASSUME NEW i \in Slots, TaskNext(i) PROVE LaunchInv'
  BY <1>6, TaskNextEffect DEF LaunchInv, TaskUnchanged
<1>7. CASE Quiet
  <2>1. UNCHANGED <<healthy, tasks>>
    BY <1>7, QuietUnchanged
  <2>2. \/ pc' = pc \/ pc' \in {"save", "returned"}
        \/ pc = "ping" /\ pc' = "split"
        \/ pc = "dispatch" /\ launched = ntasks /\ pc' = "wait"
        \/ pc = "wait" /\ pc' = "check"
        \/ pc = "check" /\ pc' = "collect"
        \/ pc = "collect" /\ pc' = "aggregate"
    <3>1. CASE NoWorkers \/ SplitError \/ CollectFailed \/ AggregateError \/ AggregateOk
               \/ Interrupted \/ CheckCancelled \/ Save
      BY <3>1 DEF NoWorkers, SplitError, CollectFailed, AggregateError, AggregateOk,
                  Interrupted, EndInterrupted, CheckCancelled, Save, FailJob
    <3>2. CASE Cancel \/ Timeout \/ Shutdown
      BY <3>2 DEF Cancel, Timeout, Shutdown
    <3>3. CASE StartSplit \/ EndDispatch
      BY <3>3 DEF StartSplit, EndDispatch
    <3>4. CASE AllDone \/ CheckPassed \/ Collect
      BY <3>4 DEF AllDone, CheckPassed, Collect
    <3> QED
      BY <1>7, <3>1, <3>2, <3>3, <3>4 DEF Quiet
  <2> QED
    BY <2>1, <2>2 DEF LaunchInv, tasks
<1>8. CASE UNCHANGED vars
  BY <1>1, <1>8 DEF vars
<1> QED
  BY <1>2, <1>3, <1>4, <1>5, <1>6, <1>7, <1>8, NextCases

(* The invariants of a single task, over the steps of its goroutine. *)
LEMMA TaskStepInv ==
  ASSUME TypeOK, LaunchInv, TaskInv, TriedInv, PhaseInv, NEW i \in Slots, TaskNext(i)
  PROVE  TaskInv' /\ TriedInv'
<1>1. /\ task \in [Slots -> TaskType] /\ task[i] \in TaskType
      /\ task[i].attempt \in 0..MaxRetry
  BY DEF TypeOK, TaskType
<1>2. /\ UNCHANGED <<workers, ctxDone>>
      /\ \A j \in Slots : j # i => task'[j] = task[j]
      /\ task[i].pc # "none"
  BY TaskNextEffect DEF TaskUnchanged, context, healthy
<1>3. \A a : RetryWorker(a)' = RetryWorker(a)
  BY <1>2 DEF RetryWorker
<1> DEFINE Good(t) ==
      /\ t.pc = "none" => t.status = "pending"
      /\ t.pc \in {"ready", "inflight"} => t.status = "running"
      /\ t.pc = "stored" => t.status = "done"
      /\ t.pc = "exit" => t.status \in {"done", "failed"}
      /\ t.pc = "exit" /\ t.status = "done" => t.output = i
    Tried(t) ==
      /\ t.pc = "none" => t.attempt = 0
      /\ \A a \in 1..t.attempt : RetryWorker(a) \in t.tried
      /\ t.status = "failed" /\ ~ctxDone => t.attempt = MaxRetry
<1>4. Good(task[i]) /\ Tried(task[i])
  BY <1>2 DEF TaskInv, TriedInv
<1>5. Good(task'[i]) /\ Tried(task'[i])
  <2>1. CASE Send(i) \/ Answer(i) \/ StoreOutput(i)
    <3>1. /\ task'[i].pc # "none"
          /\ task'[i].attempt = task[i].attempt /\ task'[i].tried = task[i].tried
          /\ task'[i].status \in {task[i].status, "done"}
      BY <2>1, <1>1 DEF Send, Answer, StoreOutput, TaskType
    <3>2. Good(task'[i])
      BY <2>1, <1>1, <1>4 DEF Send, Answer, StoreOutput, TaskType
    <3> QED
      BY <3>1, <3>2, <1>4
  <2>2. CASE Retry(i)
    <3> DEFINE b == task[i].attempt + 1
    <3>1. /\ task'[i].attempt = b /\ task'[i].tried = task[i].tried \union {RetryWorker(b)}
          /\ task'[i].pc = "ready" /\ task'[i].status = task[i].status
      BY <2>2, <1>1 DEF Retry, TaskType
    <3>2. task[i].status = "running"
      BY <2>2, <1>4 DEF Retry
    <3>3. \A a \in 1..b : a \in 1..task[i].attempt \/ a = b
      BY <1>1, MaxRetryAssumption
    <3>4. \A a \in 1..b : RetryWorker(a) \in task'[i].tried
      BY <3>1, <3>3, <1>4
    <3> QED
      BY <3>1, <3>2, <3>4
  <2>3. CASE Exhaust(i) \/ Abort(i)
    <3>1. /\ task'[i].attempt = task[i].attempt /\ task'[i].tried = task[i].tried
          /\ task'[i].pc = "exit" /\ task'[i].status = "failed"
          /\ ~ctxDone => task[i].attempt = MaxRetry
      BY <2>3, <1>1 DEF Exhaust, Abort, FailTask, TaskType
    <3> QED
      BY <3>1, <1>4
  <2> QED
    BY <2>1, <2>2, <2>3 DEF TaskNext, TaskStep
<1> HIDE DEF Good, Tried
<1>6. TaskInv'
  <2> SUFFICES ASSUME NEW j \in Slots
      PROVE /\ task'[j].pc = "none" => task'[j].status = "pending"
            /\ task'[j].pc \in {"ready", "inflight"} => task'[j].status = "running"
            /\ task'[j].pc = "stored" => task'[j].status = "done"
            /\ task'[j].pc = "exit" => task'[j].status \in {"done", "failed"}
            /\ task'[j].pc = "exit" /\ task'[j].status = "done" => task'[j].output = j
    BY DEF TaskInv, Slots
  <2>1. CASE j = i
    BY <2>1, <1>5 DEF Good
  <2>2. CASE j # i
    BY <2>2, <1>2 DEF TaskInv
  <2> QED
    BY <2>1, <2>2
<1>7. TriedInv'
  <2> SUFFICES ASSUME NEW j \in Slots
      PROVE /\ task'[j].pc = "none" => task'[j].attempt = 0
            /\ \A a \in 1..task'[j].attempt : RetryWorker(a)' \in task'[j].tried
            /\ task'[j].status = "failed" /\ ~ctxDone' => task'[j].attempt = MaxRetry
    BY DEF TriedInv, Slots
  <2>1. CASE j = i
    BY <2>1, <1>2, <1>3, <1>5 DEF Tried
  <2>2. CASE j # i
    BY <2>2, <1>2, <1>3 DEF TriedInv
  <2> QED
    BY <2>1, <2>2
<1> QED
  BY <1>6, <1>7

(* The invariants of the tasks, over every step.  The list of workers changes
   only while no task exists. *)
LEMMA TasksStep ==
  ASSUME TypeOK, PingInv, LaunchInv, TaskInv, TriedInv, PhaseInv, [Next]_vars
  PROVE  TaskInv' /\ TriedInv'
<1>1. ASSUME UNCHANGED <<task, workers>>, ctxDone => ctxDone' PROVE TaskInv' /\ TriedInv'
  BY <1>1 DEF TaskInv, TriedInv, RetryWorker, Slots
<1>2. ASSUME pc \in {"queued", "ping"}, UNCHANGED task PROVE TaskInv' /\ TriedInv'
  <2>1. \A i \in Slots : task[i].pc = "none"
    BY <1>2, SlotsFinite DEF LaunchInv, Slots
  <2> QED
    BY <1>2, <2>1 DEF TaskInv, TriedInv, Slots
<1>3. CASE Begin
  BY <1>2, <1>3 DEF Begin, tasks
<1>4. ASSUME NEW w \in Workers, PingOk(w) \/ PingFail(w) PROVE TaskInv' /\ TriedInv'
  BY <1>2, <1>4 DEF PingOk, PingFail, tasks
<1>5. CASE SplitOk
  BY <1>1, <1>5 DEF SplitOk, SplitInto, healthy, context
<1>6. CASE Dispatch
  <2> DEFINE k == launched + 1
  <2>1. k \in Slots /\ k > launched
    BY <1>6, SlotsFinite DEF Dispatch, TypeOK, Slots
  <2>2. task[k].pc = "none" /\ task[k].status = "pending" /\ task[k] \in TaskType
    BY <2>1 DEF LaunchInv, TaskInv, TypeOK
  <2>3. /\ task'[k].pc = "ready" /\ task'[k].status = "running"
        /\ task'[k].attempt = task[k].attempt
    BY <1>6, <2>1, <2>2 DEF Dispatch, TypeOK, TaskType
  <2>4. \A j \in Slots : j # k => task'[j] = task[j]
    BY <1>6, <2>1 DEF Dispatch, TypeOK
  <2>5. task[k].attempt = 0
    BY <2>1, <2>2 DEF TriedInv
  <2>6. UNCHANGED <<workers, ctxDone>>
    BY <1>6 DEF Dispatch, context, healthy
  <2> HIDE DEF k
  <2>7. TaskInv'
    BY <2>1, <2>3, <2>4 DEF TaskInv, Slots
  <2>8. TriedInv'
    BY <2>1, <2>3, <2>4, <2>5, <2>6 DEF TriedInv, RetryWorker, Slots
  <2> QED
    BY <2>7, <2>8
<1>7. ASSUME NEW i \in Slots, TaskNext(i) PROVE TaskInv' /\ TriedInv'
  BY <1>7, TaskStepInv
<1>8. CASE Quiet
  <2>1. UNCHANGED <<task, workers>>
    BY <1>8, QuietUnchanged DEF healthy, tasks
  <2>2. ctxDone => ctxDone'
    <3>1. CASE NoWorkers \/ SplitError \/ CollectFailed \/ AggregateError \/ AggregateOk
               \/ Interrupted \/ CheckCancelled \/ Save
      BY <3>1 DEF NoWorkers, SplitError, CollectFailed, AggregateError, AggregateOk,
                  Interrupted, EndInterrupted, CheckCancelled, Save, FailJob, context
    <3>2. CASE Cancel \/ Timeout \/ Shutdown
      BY <3>2 DEF Cancel, Timeout, Shutdown
    <3>3. CASE StartSplit \/ EndDispatch \/ AllDone \/ CheckPassed \/ Collect
      BY <3>3 DEF StartSplit, EndDispatch, AllDone, CheckPassed, Collect, context
    <3> QED
      BY <1>8, <3>1, <3>2, <3>3 DEF Quiet
  <2> QED
    BY <1>1, <2>1, <2>2
<1>9. CASE UNCHANGED vars
  BY <1>1, <1>9 DEF vars, context, healthy, tasks
<1> QED
  BY <1>3, <1>4, <1>5, <1>6, <1>7, <1>8, <1>9, NextCases

-----------------------------------------------------------------------------
(* The place of ExecuteJob, the status and the result, over every step: one
   lemma for the steps of the tasks, one for those of ExecuteJob that write no
   result, one for AggregateOk.                                            *)
JobInv == PhaseInv /\ ResultInv /\ DiskInv

(* The goroutine of a task disturbs neither the status nor the result. *)
LEMMA TaskStepJob ==
  ASSUME TypeOK, JobInv, NEW i \in Slots, TaskNext(i)
  PROVE  JobInv'
<1>1. /\ UNCHANGED <<status, pc, cancelSet, ntasks, result, disk>>
      /\ task[i].pc \in {"ready", "inflight", "stored"}
      /\ \A j \in Slots : j # i => task'[j] = task[j]
  BY TaskNextEffect DEF TaskUnchanged, context, healthy, outcome
<1>2. Chunks \subseteq Slots /\ Chunks' = Chunks
  BY <1>1, SlotsFinite DEF TypeOK, Chunks, Slots
<1>3. result \in {{}, Earlier}
  BY <1>1 DEF JobInv, ResultInv
<1>4. pc \in {"check", "collect", "aggregate"} =>
        /\ i \notin Chunks
        /\ \A j \in Chunks : task'[j] = task[j]
  BY <1>1, <1>2 DEF JobInv, PhaseInv
<1>5. PhaseInv'
  BY <1>1, <1>2, <1>4 DEF JobInv, PhaseInv, AllTasksDone
<1>6. ResultInv' /\ DiskInv'
  BY <1>1, <1>3 DEF JobInv, ResultInv, DiskInv
<1> QED
  BY <1>5, <1>6 DEF JobInv

(* A result of this execution is told from an earlier one. *)
LEMMA ResultIsNew ==
  ASSUME NEW n \in Nat PROVE {[i \in 1..n |-> i]} \notin {{}, Earlier}
<1> DEFINE f == [i \in 1..n |-> i]
<1>1. SUFFICES ASSUME f = <<-1>> PROVE FALSE
  BY DEF Earlier
<1>2. 1 \in DOMAIN <<-1>> /\ <<-1>>[1] = -1
  OBVIOUS
<1>3. DOMAIN f = 1..n
  OBVIOUS
<1>4. 1 \in 1..n
  BY <1>1, <1>2, <1>3
<1>5. f[1] = 1
  BY <1>4
<1> QED
  BY <1>1, <1>2, <1>5

(* The result is written from all outputs. *)
LEMMA AggregateJob ==
  ASSUME TypeOK, LaunchInv, TaskInv, JobInv, AggregateOk
  PROVE  JobInv'
<1>1. /\ pc = "aggregate" /\ pc' = "save" /\ status' = "done"
      /\ result' = {[i \in Chunks |-> task[i].output]}
      /\ UNCHANGED <<cancelSet, ntasks, launched, task, disk>>
  BY DEF AggregateOk, context, tasks
<1>2. Chunks \subseteq Slots /\ Chunks' = Chunks
  BY <1>1, SlotsFinite DEF TypeOK, Chunks, Slots
<1>3. \A i \in Chunks : task[i].pc = "exit" /\ task[i].status = "done"
  BY <1>1 DEF JobInv, PhaseInv, AllTasksDone
<1>4. \A i \in Chunks : task[i].output = i
  BY <1>2, <1>3 DEF TaskInv
<1>5. [i \in Chunks |-> task[i].output] = [i \in Chunks |-> i]
  BY <1>4
<1>6. \A i \in Slots : task'[i].pc \in {"none", "exit"}
  <2> SUFFICES ASSUME NEW i \in Slots PROVE task[i].pc \in {"none", "exit"}
    BY <1>1 DEF Slots
  <2>1. launched = ntasks
    BY <1>1 DEF LaunchInv
  <2>2. i \in Chunks \/ i > launched
    BY <2>1, SlotsFinite DEF Chunks, Slots, TypeOK
  <2> QED
    BY <2>2, <1>3 DEF LaunchInv
<1>7. result' \notin {{}, Earlier}
  <2>1. ntasks \in Nat
    BY DEF TypeOK
  <2>2. {[i \in 1..ntasks |-> i]} \notin {{}, Earlier}
    BY <2>1, ResultIsNew
  <2>3. result' = {[i \in 1..ntasks |-> i]}
    BY <1>1, <1>5 DEF Chunks
  <2> QED
    BY <2>2, <2>3
<1>8. PhaseInv'
  BY <1>1, <1>7 DEF JobInv, PhaseInv, Terminal
<1>9. ResultInv'
  BY <1>1, <1>2, <1>5, <1>6 DEF ResultInv
<1>10. DiskInv'
  BY <1>1 DEF JobInv, DiskInv
<1> QED
  BY <1>8, <1>9, <1>10 DEF JobInv

(* The other steps of ExecuteJob, the cancel and the ends of the context. *)
LEMMA MainStepJob ==
  ASSUME TypeOK, LaunchInv, TaskInv, JobInv, [Next]_vars, ~AggregateOk,
         ~(\E i \in Slots : TaskNext(i))
  PROVE  JobInv'
<1>1. ASSUME UNCHANGED <<status, pc, cancelSet, ntasks, task, result, disk>> PROVE JobInv'
  BY <1>1 DEF JobInv, PhaseInv, ResultInv, DiskInv, Chunks, AllTasksDone, Slots
<1>2. CASE Begin
  BY <1>2 DEF JobInv, PhaseInv, ResultInv, DiskInv, Begin, outcome
<1>3. ASSUME NEW w \in Workers, PingOk(w) \/ PingFail(w) PROVE JobInv'
  BY <1>1, <1>3 DEF PingOk, PingFail, context, tasks, outcome
<1>4. CASE SplitOk
  BY <1>4 DEF JobInv, PhaseInv, ResultInv, DiskInv, SplitOk, SplitInto, context, outcome
<1>5. CASE Dispatch
  BY <1>5 DEF JobInv, PhaseInv, ResultInv, DiskInv, Dispatch, context, outcome
<1>6. ASSUME NoWorkers \/ SplitError \/ CollectFailed \/ AggregateError PROVE JobInv'
  <2>1. /\ pc \in {"ping", "split", "collect", "aggregate"}
        /\ pc' = "save" /\ status' = "failed" /\ UNCHANGED <<cancelSet, result, disk>>
    BY <1>6 DEF NoWorkers, SplitError, CollectFailed, AggregateError, FailJob, context,
                outcome
  <2> QED
    BY <2>1 DEF JobInv, PhaseInv, ResultInv, DiskInv, Terminal
<1>7. CASE StartSplit \/ EndDispatch \/ CheckPassed
  <2>1. /\ UNCHANGED <<cancelSet, ntasks, task, result, disk>>
        /\ pc \in {"ping", "dispatch", "check"} /\ pc' \in {"split", "wait", "collect"}
    BY <1>7 DEF StartSplit, EndDispatch, CheckPassed, context, tasks, outcome
  <2>2. /\ status' \in {status, "splitting"}
        /\ pc' = "wait" => pc = "dispatch" /\ status' = status
        /\ pc' = "collect" => pc = "check"
    BY <1>7 DEF StartSplit, EndDispatch, CheckPassed
  <2>3. status' = "done" => status = "done" /\ pc # "ping"
    BY <1>7 DEF StartSplit, EndDispatch, CheckPassed
  <2>4. PhaseInv'
    BY <2>1, <2>2, <2>3 DEF JobInv, PhaseInv, Chunks
  <2>5. ResultInv' /\ DiskInv'
    BY <2>1 DEF JobInv, ResultInv, DiskInv
  <2> QED
    BY <2>4, <2>5 DEF JobInv
<1>8. CASE AllDone \/ Collect
  <2>1. /\ UNCHANGED <<cancelSet, ntasks, task, result, disk>>
        /\ \/ /\ pc = "wait" /\ pc' = "check" /\ status' = status
              /\ \A i \in Chunks : task[i].pc = "exit"
           \/ /\ pc = "collect" /\ pc' = "aggregate" /\ status' = "aggregating"
              /\ AllTasksDone
    BY <1>8 DEF AllDone, Collect, context, tasks, outcome
  <2> QED
    BY <2>1 DEF JobInv, PhaseInv, ResultInv, DiskInv, Chunks, AllTasksDone
<1>9. CASE Interrupted \/ CheckCancelled
  <2>1. /\ UNCHANGED <<cancelSet, result, disk>>
        /\ pc \in {"wait", "check"} /\ pc' \in {"save", "returned"}
        /\ pc = "wait" => status' = IF status = "running" THEN "failed" ELSE status
        /\ pc = "check" => status' = "cancelled"
    BY <1>9 DEF Interrupted, EndInterrupted, CheckCancelled, context, outcome
  <2> QED
    BY <2>1 DEF JobInv, PhaseInv, ResultInv, DiskInv, Terminal
<1>10. CASE Save
  <2>1. /\ UNCHANGED <<cancelSet, status, ntasks, task, result>>
        /\ pc = "save" /\ pc' = "returned" /\ disk' \in {disk, status}
    BY <1>10 DEF Save, tasks
  <2> QED
    BY <2>1 DEF JobInv, PhaseInv, ResultInv, DiskInv, Chunks, Slots
<1>11. CASE Cancel
  <2>1. /\ UNCHANGED <<cancelSet, pc, ntasks, task, result, disk>>
        /\ status' = "cancelled"
    BY <1>11 DEF Cancel, tasks, outcome
  <2> QED
    BY <2>1 DEF JobInv, PhaseInv, ResultInv, DiskInv, Chunks, Slots, AllTasksDone,
                Terminal
<1>12. CASE Timeout \/ Shutdown
  BY <1>1, <1>12 DEF Timeout, Shutdown, tasks, outcome
<1>13. CASE UNCHANGED vars
  BY <1>1, <1>13 DEF vars, context, tasks, outcome
<1> QED
  BY <1>2, <1>3, <1>4, <1>5, <1>6, <1>7, <1>8, <1>9, <1>10, <1>11, <1>12, <1>13,
     NextCases DEF Quiet

-----------------------------------------------------------------------------
(* The invariant holds initially *)
LEMMA InitInv == Init => IndInv
<1> SUFFICES ASSUME Init PROVE IndInv
  OBVIOUS
<1>1. TypeOK
  BY InitTyped
<1>2. task = [i \in Slots |-> NewTask]
  BY DEF Init
<1>3. PingInv
  BY SlotsFinite, FS_EmptySet DEF Init, PingInv
<1>4. LaunchInv
  BY <1>2, SlotsFinite DEF Init, LaunchInv, NewTask, Slots
<1>5. TaskInv /\ TriedInv
  BY <1>2 DEF TaskInv, TriedInv, NewTask
<1>6. PhaseInv /\ ResultInv /\ DiskInv
  BY LoadedAssumption DEF Init, PhaseInv, ResultInv, DiskInv, Terminal
<1> QED
  BY <1>1, <1>3, <1>4, <1>5, <1>6 DEF IndInv

(* and over every step. *)
LEMMA NextInv == IndInv /\ [Next]_vars => IndInv'
<1> SUFFICES ASSUME IndInv, [Next]_vars PROVE IndInv'
  OBVIOUS
<1>1. TypeOK' /\ PingInv'
  BY TypeStep DEF IndInv
<1>2. LaunchInv'
  BY <1>1, LaunchStep DEF IndInv
<1>3. TaskInv' /\ TriedInv'
  BY TasksStep DEF IndInv
<1>4. JobInv
  BY DEF IndInv, JobInv
<1>5. JobInv'
  BY <1>4, TaskStepJob, AggregateJob, MainStepJob DEF IndInv
<1> QED
  BY <1>1, <1>2, <1>3, <1>5 DEF IndInv, JobInv

(* The strengthening is an invariant of the execution. *)
THEOREM Inductive == Spec => []IndInv
  BY InitInv, NextInv, PTL DEF Spec

(* No index leaves a slice and no job has more chunks than healthy workers,
   whatever the number of workers and of retries. *)
THEOREM Typed == Spec => []TypeOK
<1>1. IndInv => TypeOK
  BY DEF IndInv
<1> QED
  BY <1>1, Inductive, PTL

(* A job shown "done" by this execution has the output of every chunk, in order,
   and no goroutine that could still write: the wait group of ExecuteJob at
   work; a "failed" one has no result but that of an earlier execution. *)
THEOREM DoneComplete == Spec => []DoneIsComplete
<1>1. IndInv => DoneIsComplete
  BY DEF IndInv, PhaseInv, ResultInv, DoneIsComplete
<1> QED
  BY <1>1, Inductive, PTL

(* ExecuteJob leaves the job, and its snapshots, in a final status. *)
THEOREM EndsInTerminal == Spec => []EndsTerminal
<1>1. IndInv => EndsTerminal
  BY DEF IndInv, PhaseInv, DiskInv, EndsTerminal
<1> QED
  BY <1>1, Inductive, PTL

(* The attempt numbers select every index of a list no longer than MaxRetry. *)
LEMMA ModSurjective ==
  ASSUME NEW n \in Nat, NEW k \in 1..n
  PROVE  \E a \in 1..n : (a % n) + 1 = k
<1>1. CASE k = 1
  <2>1. (n % n) + 1 = k /\ n \in 1..n
    BY <1>1
  <2> QED
    BY <2>1
<1>2. CASE k # 1
  <2>1. ((k - 1) % n) + 1 = k /\ k - 1 \in 1..n
    BY <1>2
  <2> QED
    BY <2>1
<1> QED
  BY <1>1, <1>2

(* With as many retries as healthy workers, a task given up while the context
   lives has been tried on each of them: the modulus of the retry loop. *)
THEOREM RetriesReachAll == Spec => []RetriesReachEveryWorker
<1>1. IndInv => RetriesReachEveryWorker
  <2> SUFFICES ASSUME IndInv, NEW i \in Chunks, task[i].status = "failed", ~ctxDone,
                      MaxRetry >= Len(workers), NEW k \in 1..Len(workers)
               PROVE  workers[k] \in task[i].tried
    BY DEF RetriesReachEveryWorker
  <2>1. i \in Slots
    BY SlotsFinite DEF IndInv, TypeOK, Chunks, Slots
  <2>2. task[i].attempt = MaxRetry
    BY <2>1 DEF IndInv, TriedInv
  <2>3. Len(workers) \in Nat
    BY DEF IndInv, TypeOK
  <2>4. PICK a \in 1..Len(workers) : (a % Len(workers)) + 1 = k
    BY <2>3, ModSurjective
  <2>5. a \in 1..task[i].attempt
    BY <2>2, <2>3, <2>4, MaxRetryAssumption
  <2> QED
    BY <2>1, <2>4, <2>5 DEF IndInv, TriedInv, RetryWorker
<1> QED
  BY <1>1, Inductive, PTL

(* Once ExecuteJob waits for its tasks, no step takes a cancel back. *)
THEOREM CancelSticks == Spec => CancelSticksWhileWaiting
<1>1. [Next]_vars =>
        [(status = "cancelled" /\ pc \in {"wait", "check", "save", "returned"})
            => status' = "cancelled"]_vars
  <2> SUFFICES ASSUME [Next]_vars, status = "cancelled",
                      pc \in {"wait", "check", "save", "returned"}
               PROVE  status' = "cancelled"
    OBVIOUS
  <2>1. CASE Begin \/ Dispatch \/ SplitOk
    BY <2>1 DEF Begin, Dispatch, SplitOk, SplitInto
  <2>2. CASE Quiet
    BY <2>2 DEF Quiet, NoWorkers, StartSplit, SplitError, EndDispatch, AllDone,
         Interrupted, EndInterrupted, CheckCancelled, CheckPassed, CollectFailed,
         Collect, AggregateError, AggregateOk, Save, Cancel, Timeout, Shutdown, FailJob
  <2>3. ASSUME NEW i \in Slots, TaskNext(i) PROVE status' = status
    BY <2>3 DEF TaskNext, TaskStep, Send, StoreOutput, Abort, Answer, Retry, Exhaust,
                FailTask, TaskUnchanged
  <2>4. ASSUME NEW w \in Workers, PingOk(w) \/ PingFail(w) PROVE status' = status
    BY <2>4 DEF PingOk, PingFail
  <2>5. CASE UNCHANGED vars
    BY <2>5 DEF vars
  <2> QED
    BY <2>1, <2>2, <2>3, <2>4, <2>5, NextCases
<1> QED
  BY <1>1, PTL DEF Spec, CancelSticksWhileWaiting

-----------------------------------------------------------------------------
(* Two more invariants on top of IndInv.                                   *)

(* The list of healthy workers names each of them once, and none whose ping is
   not settled; a task in its first attempt is with the worker at its place. *)
SpreadInv ==
  /\ \A k, l \in 1..Len(workers) : workers[k] = workers[l] => k = l
  /\ \A k \in 1..Len(workers) : workers[k] \notin unpinged
  /\ \A i \in Slots : task[i].pc # "none" /\ task[i].attempt = 0
                        => task[i].worker = workers[i]

(* The dispatch loop takes the workers one by one, from the first. *)
LEMMA FirstWorkers ==
  ASSUME TypeOK, launched < ntasks
  PROVE  FirstWorker(launched) = workers[launched + 1]
<1>1. launched \in Nat /\ Len(workers) \in Nat \ {0} /\ launched < Len(workers)
  BY DEF TypeOK
<1>2. launched % Len(workers) = launched
  BY <1>1
<1>3. QED
  BY <1>2 DEF FirstWorker

(* A worker that answers was not in the list. *)
LEMMA PingSpread ==
  ASSUME IndInv, SpreadInv, NEW w \in Workers, PingOk(w) \/ PingFail(w)
  PROVE  SpreadInv'
<1>1. w \in unpinged /\ unpinged' = unpinged \ {w} /\ task' = task /\ pc = "ping"
  BY DEF PingOk, PingFail, tasks
<1>2. \A i \in Slots : task[i].pc = "none"
  BY <1>1, SlotsFinite DEF IndInv, LaunchInv, Slots
<1>3. CASE PingFail(w)
  BY <1>1, <1>3 DEF SpreadInv, PingFail, Slots
<1>4. CASE PingOk(w)
  <2>1. /\ workers' = Append(workers, w) /\ Len(workers) \in Nat
        /\ Len(workers') = Len(workers) + 1 /\ workers'[Len(workers) + 1] = w
    BY <1>4 DEF PingOk, IndInv, TypeOK
  <2>2. \A k \in 1..Len(workers) : workers'[k] = workers[k] /\ workers[k] # w
    BY <1>1, <2>1 DEF IndInv, TypeOK, SpreadInv
  <2>3. \A k \in 1..Len(workers') : k \in 1..Len(workers) \/ k = Len(workers) + 1
    BY <2>1
  <2>4. \A k, l \in 1..Len(workers') : workers'[k] = workers'[l] => k = l
    BY <2>1, <2>2, <2>3 DEF SpreadInv
  <2>5. \A k \in 1..Len(workers') : workers'[k] \notin unpinged'
    BY <1>1, <2>1, <2>2, <2>3 DEF SpreadInv
  <2>6. \A i \in Slots : task'[i].pc = "none"
    BY <1>1, <1>2
  <2>7. QED
    BY <2>4, <2>5, <2>6 DEF SpreadInv, Slots
<1>5. QED
  BY <1>3, <1>4

(* Dispatch sends a task to the worker at its place; a retry leaves the first
   attempt behind. *)
LEMMA TaskSpread ==
  ASSUME IndInv, SpreadInv, Dispatch \/ \E i \in Slots : TaskNext(i)
  PROVE  SpreadInv'
<1>1. workers' = workers /\ unpinged' = unpinged
  <2>1. CASE Dispatch
    BY <2>1 DEF Dispatch, healthy
  <2>2. CASE \E i \in Slots : TaskNext(i)
    BY <2>2, TaskNextEffect DEF IndInv, TaskUnchanged, healthy
  <2>3. QED
    BY <2>1, <2>2
<1>2. CASE Dispatch
  <2>1. launched + 1 \in Slots /\ launched < ntasks
    BY <1>2, SlotsFinite DEF Dispatch, IndInv, TypeOK, Slots
  <2>2. task'[launched + 1].worker = workers[launched + 1]
    BY <1>2, <2>1, FirstWorkers DEF Dispatch, IndInv, TypeOK, TaskType
  <2>3. \A j \in Slots : j # launched + 1 => task'[j] = task[j]
    BY <1>2, <2>1 DEF Dispatch, IndInv, TypeOK
  <2>4. QED
    BY <1>1, <2>2, <2>3 DEF SpreadInv, Slots
<1>3. ASSUME NEW i \in Slots, TaskNext(i) PROVE SpreadInv'
  <2>1. /\ \A j \in Slots : j # i => task'[j] = task[j]
        /\ task[i].pc # "none"
    BY <1>3, TaskNextEffect DEF IndInv
  <2>2. task[i] \in TaskType /\ task \in [Slots -> TaskType]
    BY DEF IndInv, TypeOK
  <2>3. task'[i].attempt = 0 => task'[i].worker = task[i].worker /\ task[i].attempt = 0
    <3>1. CASE Retry(i)
      <4>1. task'[i].attempt = task[i].attempt + 1 /\ task[i].attempt \in Nat
        BY <3>1, <2>2 DEF Retry, TaskType
      <4>2. QED
        BY <4>1
    <3>2. CASE Send(i) \/ StoreOutput(i) \/ Answer(i) \/ FailTask(i)
      BY <3>2, <2>2 DEF Send, StoreOutput, Answer, FailTask, TaskType
    <3>3. QED
      BY <1>3, <3>1, <3>2 DEF TaskNext, TaskStep, Abort, Exhaust
  <2>4. QED
    BY <1>1, <2>1, <2>3 DEF SpreadInv, Slots
<1>4. QED
  BY <1>2, <1>3

(* The other steps. *)
LEMMA SpreadStep == IndInv /\ SpreadInv /\ [Next]_vars => SpreadInv'
<1> SUFFICES ASSUME IndInv, SpreadInv, [Next]_vars PROVE SpreadInv'
  OBVIOUS
<1>1. CASE Begin
  <2>1. workers' = <<>> /\ task' = task
    BY <1>1 DEF Begin, tasks, IndInv, PingInv
  <2>2. \A i \in Slots : task[i].pc = "none"
    BY <1>1, SlotsFinite DEF Begin, IndInv, LaunchInv, Slots
  <2>3. QED
    BY <2>1, <2>2 DEF SpreadInv, Slots
<1>2. CASE SplitOk \/ Quiet \/ UNCHANGED vars
  <2>1. UNCHANGED <<healthy, task>>
    BY <1>2, QuietUnchanged DEF SplitOk, SplitInto, vars, tasks
  <2>2. QED
    BY <2>1 DEF SpreadInv, healthy, Slots
<1>3. QED
  BY <1>1, <1>2, PingSpread, TaskSpread, NextCases

(* No two chunks of a job have the same worker in their first attempts, whoever
   answers the pings and in whatever order. *)
THEOREM FirstAttemptsDiffer == Spec => []FirstAttemptsSpread
<1>1. Init => SpreadInv
  <2> SUFFICES ASSUME Init PROVE SpreadInv
    OBVIOUS
  <2>1. \A i \in Slots : task[i].pc = "none"
    BY DEF Init, NewTask
  <2>2. QED
    BY <2>1 DEF Init, SpreadInv
<1>2. IndInv /\ SpreadInv => FirstAttemptsSpread
  <2> SUFFICES ASSUME IndInv, SpreadInv, NEW i \in Chunks, NEW j \in Chunks, i # j,
                      task[i].pc # "none", task[i].attempt = 0,
                      task[j].pc # "none", task[j].attempt = 0
               PROVE  task[i].worker # task[j].worker
    BY DEF FirstAttemptsSpread
  <2>1. i \in Slots /\ j \in Slots /\ i \in 1..Len(workers) /\ j \in 1..Len(workers)
    BY SlotsFinite DEF IndInv, TypeOK, Chunks, Slots
  <2>2. QED
    BY <2>1 DEF SpreadInv
<1>3. QED
  BY <1>1, <1>2, SpreadStep, Inductive, PTL DEF Spec

-----------------------------------------------------------------------------
(* The status at each place of ExecuteJob, and a cancel that is overwritten. *)

(* A cancel may have overwritten what the execution wrote last, and has then
   ended the context, unless the job was loaded cancelled; the snapshot comes
   last. *)
StatusInv ==
  /\ pc = "queued" => status \in {"pending"} \union Loaded
  /\ pc = "ping" => status \in {"pending", "cancelled"} \union Loaded
  /\ pc = "split" => status \in {"splitting", "cancelled"}
  /\ pc = "collect" => status \in {"running", "cancelled"}
  /\ pc = "aggregate" => status \in {"aggregating", "cancelled"}
  /\ status = "cancelled" /\ pc \notin {"queued", "ping"} => ctxDone
  /\ pc # "returned" => disk = "absent"

(* The status at each place, over every step. *)
LEMMA StatusStep == IndInv /\ StatusInv /\ [Next]_vars => StatusInv'
<1> SUFFICES ASSUME IndInv, StatusInv, [Next]_vars PROVE StatusInv'
  OBVIOUS
<1> USE DEF context, outcome
<1>1. ASSUME UNCHANGED <<status, pc, disk>>, ctxDone => ctxDone' PROVE StatusInv'
  BY <1>1 DEF StatusInv
<1>2. CASE Begin
  BY <1>2 DEF Begin, StatusInv
<1>3. ASSUME NEW w \in Workers, PingOk(w) \/ PingFail(w) PROVE StatusInv'
  BY <1>1, <1>3 DEF PingOk, PingFail
<1>4. CASE SplitOk
  BY <1>4 DEF SplitOk, SplitInto, StatusInv
<1>5. ASSUME Dispatch \/ \E i \in Slots : TaskNext(i) PROVE StatusInv'
  <2>1. UNCHANGED <<status, pc, disk, ctxDone>>
    BY <1>5, TaskNextEffect DEF Dispatch, TaskUnchanged, IndInv
  <2>2. QED
    BY <2>1, <1>1
<1>6. CASE NoWorkers \/ SplitError \/ CollectFailed \/ AggregateError
  BY <1>6 DEF NoWorkers, SplitError, CollectFailed, AggregateError, FailJob, StatusInv
<1>7. CASE StartSplit \/ EndDispatch \/ AllDone \/ CheckPassed \/ Collect
  <2>1. UNCHANGED <<ctxDone, disk>>
    BY <1>7 DEF StartSplit, EndDispatch, AllDone, CheckPassed, Collect
  <2>2. \/ pc = "ping" /\ pc' = "split" /\ status' = "splitting"
        \/ pc \in {"dispatch", "wait"} /\ pc' \in {"wait", "check"} /\ status' = status
        \/ pc = "check" /\ pc' = "collect" /\ status' = status
        \/ pc = "collect" /\ pc' = "aggregate" /\ status' = "aggregating"
    BY <1>7 DEF StartSplit, EndDispatch, AllDone, CheckPassed, Collect
  <2>3. pc = "check" => status \in {"running", "cancelled"}
    BY DEF IndInv, PhaseInv
  <2>4. QED
    BY <2>1, <2>2, <2>3 DEF StatusInv
<1>8. CASE Interrupted \/ CheckCancelled
  BY <1>8 DEF Interrupted, EndInterrupted, CheckCancelled, StatusInv
<1>9. CASE AggregateOk
  BY <1>9 DEF AggregateOk, StatusInv
<1>10. CASE Save
  BY <1>10 DEF Save, StatusInv
<1>11. CASE Cancel
  BY <1>11 DEF Cancel, StatusInv, IndInv, PhaseInv
<1>12. CASE Timeout \/ Shutdown
  BY <1>1, <1>12 DEF Timeout, Shutdown
<1>13. CASE UNCHANGED vars
  BY <1>1, <1>13 DEF vars
<1>14. QED
  BY <1>2, <1>3, <1>4, <1>5, <1>6, <1>7, <1>8, <1>9, <1>10, <1>11, <1>12, <1>13,
     NextCases DEF Quiet

(* The status at each place, in every reachable state. *)
THEOREM StatusOfPlace == Spec => [](IndInv /\ StatusInv)
<1>1. Init => StatusInv
  BY LoadedAssumption DEF Init, StatusInv, Terminal
<1>2. QED
  BY <1>1, StatusStep, Inductive, PTL DEF Spec

(* A context that ended before any task was sent: no task will ever be done. *)
NothingComputed ==
  /\ ctxDone
  /\ pc # "queued"
  /\ \A i \in Slots : task[i].pc \notin {"inflight", "stored"} /\ task[i].status # "done"
  /\ status = "done" => ntasks = 0

(* Once nothing is computed, nothing will be. *)
LEMMA NothingComputedStep ==
  IndInv /\ NothingComputed /\ [Next]_vars => NothingComputed'
<1> SUFFICES ASSUME IndInv, NothingComputed, [Next]_vars PROVE NothingComputed'
  OBVIOUS
<1>1. ASSUME UNCHANGED <<status, pc, ntasks, task>>, ctxDone' PROVE NothingComputed'
  BY <1>1 DEF NothingComputed, Slots
<1>2. ~Begin
  BY DEF NothingComputed, Begin
<1>3. ASSUME NEW w \in Workers, PingOk(w) \/ PingFail(w) PROVE NothingComputed'
  BY <1>1, <1>3 DEF PingOk, PingFail, tasks, context, NothingComputed
<1>4. CASE SplitOk
  BY <1>4 DEF SplitOk, SplitInto, context, NothingComputed, Slots
<1>5. CASE Dispatch
  <2>1. launched + 1 \in Slots
    BY <1>5, SlotsFinite DEF Dispatch, IndInv, TypeOK, Slots
  <2>2. task'[launched + 1].pc = "ready" /\ task'[launched + 1].status = "running"
    BY <1>5, <2>1 DEF Dispatch, IndInv, TypeOK, TaskType
  <2>3. \A j \in Slots : j # launched + 1 => task'[j] = task[j]
    BY <1>5, <2>1 DEF Dispatch, IndInv, TypeOK
  <2>4. QED
    BY <1>5, <2>1, <2>2, <2>3 DEF Dispatch, context, NothingComputed, Slots
<1>6. ASSUME NEW i \in Slots, TaskNext(i) PROVE NothingComputed'
  <2>1. /\ \A j \in Slots : j # i => task'[j] = task[j]
        /\ UNCHANGED <<status, pc, ctxDone, ntasks>>
    BY <1>6, TaskNextEffect DEF IndInv, TaskUnchanged, context
  <2>2. Abort(i)
    BY <1>6 DEF NothingComputed, TaskNext, TaskStep, Send, StoreOutput, Answer, Retry, Exhaust
  <2>3. task'[i].pc = "exit" /\ task'[i].status = "failed"
    BY <2>2 DEF Abort, FailTask, IndInv, TypeOK, TaskType
  <2>4. QED
    BY <2>1, <2>3 DEF NothingComputed, Slots
<1>7. CASE Quiet
  <2>1. UNCHANGED <<ntasks, task>> /\ ctxDone'
    <3>1. UNCHANGED <<ntasks, task>>
      BY <1>7, QuietUnchanged DEF tasks
    <3>2. ctxDone'
      BY <1>7 DEF NothingComputed, Quiet, NoWorkers, StartSplit, SplitError, EndDispatch,
         AllDone, Interrupted, EndInterrupted, CheckCancelled, CheckPassed, CollectFailed,
         Collect, AggregateError, AggregateOk, Save, Cancel, Timeout, Shutdown, FailJob, context
    <3>3. QED
      BY <3>1, <3>2
  <2>2. CASE AggregateOk
    <3>1. AllTasksDone /\ Chunks \subseteq Slots
      BY <2>2, SlotsFinite DEF AggregateOk, IndInv, PhaseInv, TypeOK, Chunks, Slots
    <3>2. Chunks = {}
      BY <3>1 DEF AllTasksDone, NothingComputed
    <3>3. ntasks = 0
      <4>1. ntasks \in Nat
        BY DEF IndInv, TypeOK
      <4>2. 1 \in Chunks \/ ntasks = 0
        BY <4>1 DEF Chunks
      <4>3. QED
        BY <3>2, <4>2
    <3>4. QED
      BY <2>1, <2>2, <3>3 DEF AggregateOk, NothingComputed, Slots
  <2>3. CASE ~AggregateOk
    <3>1. /\ pc' # "queued"
          /\ \/ status' # "done"
             \/ status' = status /\ (pc' = pc \/ pc' \in {"save", "returned"})
      BY <1>7, <2>3 DEF NothingComputed, IndInv, PhaseInv, Quiet, NoWorkers, StartSplit,
         SplitError, EndDispatch, AllDone, Interrupted, EndInterrupted, CheckCancelled,
         CheckPassed, CollectFailed, Collect, AggregateError, Save, Cancel, Timeout,
         Shutdown, FailJob
    <3>2. QED
      BY <2>1, <3>1 DEF NothingComputed, Slots
  <2>4. QED
    BY <2>2, <2>3
<1>8. CASE UNCHANGED vars
  BY <1>1, <1>8 DEF vars, context, tasks, NothingComputed
<1>9. QED
  BY <1>2, <1>3, <1>4, <1>5, <1>6, <1>7, <1>8, NextCases

(* A cancel that the status writes of lines 95 and 122 overwrite still keeps
   the job from being computed. *)
THEOREM OverwrittenCancelStops == Spec => LostCancelStillStops
<1>1. /\ IndInv /\ StatusInv
      /\ status = "cancelled" /\ (pc = "split" \/ (pc = "ping" /\ ctxDone))
      => NothingComputed
  <2> SUFFICES ASSUME IndInv, StatusInv, status = "cancelled",
                      pc = "split" \/ (pc = "ping" /\ ctxDone)
               PROVE  NothingComputed
    OBVIOUS
  <2>1. \A i \in Slots : task[i].pc = "none"
    BY SlotsFinite DEF IndInv, LaunchInv, Slots
  <2>2. QED
    BY <2>1 DEF StatusInv, IndInv, TaskInv, NothingComputed
<1>2. NothingComputed => (status = "done" => ntasks = 0)
  BY DEF NothingComputed
<1>3. QED
  BY <1>1, <1>2, NothingComputedStep, StatusOfPlace, PTL DEF Spec, LostCancelStillStops
=============================================================================
