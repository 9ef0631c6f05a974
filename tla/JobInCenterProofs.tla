------------------------- MODULE JobInCenterProofs -------------------------
(***************************************************************************)
(* What the execution of Scheduler.tla is to those outside: it keeps the   *)
(* contract of JobLifecycle.tla, its status moves along StatusGraph.tla,   *)
(* and its steps are steps of the center of Runner.tla, for any set of     *)
(* workers and any number of retries.                                      *)
(***************************************************************************)
EXTENDS JobInCenter, SchedulerProofs

-----------------------------------------------------------------------------
(* The steps an observer of the job can tell apart, each with what it does. *)

(* Steps inside the execution: the status stays, and so does its stage. *)
Inside ==
  /\ UNCHANGED <<status, cancelSet, parentDone, result, disk>>
  /\ ctxDone' = ctxDone
  /\ \/ pc' = pc /\ (workers' = workers \/ ~ctxDone)
     \/ UNCHANGED workers /\ pc = "dispatch" /\ pc' = "wait"
     \/ UNCHANGED workers /\ pc = "wait" /\ pc' = "check"
     \/ UNCHANGED workers /\ pc = "check" /\ pc' = "collect"
  /\ ntasks' = ntasks

(* The next stage is written over the status. *)
Advances ==
  /\ UNCHANGED <<context, workers, result, disk>>
  /\ \/ pc = "ping" /\ workers # <<>> /\ pc' = "split" /\ status' = "splitting"
     \/ pc = "split" /\ pc' = "dispatch" /\ status' = "running"
     \/ pc = "collect" /\ pc' = "aggregate" /\ status' = "aggregating"
  /\ pc # "split" => ntasks' = ntasks

(* The execution ends; a cancel that was seen is left. *)
Ends(s) ==
  /\ UNCHANGED <<context, workers, ntasks, disk>>
  /\ pc' = "save" /\ status' = s
  /\ \/ s = "failed" /\ pc \in {"ping", "split", "wait", "collect", "aggregate"}
        /\ result' = result
     \/ s = "cancelled" /\ pc = "wait" /\ status = s /\ result' = result
     \/ s = "done" /\ pc = "aggregate" /\ result' = {[i \in Chunks |-> i]}

(* Every step of the execution is one of these. *)
LEMMA Observed ==
  ASSUME IndInv, StatusInv, [Next]_vars
  PROVE  \/ Inside \/ Advances \/ \E s \in Terminal : Ends(s)
         \/ Begin \/ CheckCancelled \/ Save \/ Cancel \/ Timeout \/ Shutdown
<1> USE DEF context, healthy, tasks, outcome
<1>1. CASE UNCHANGED vars
  BY <1>1 DEF vars, Inside
<1>2. ASSUME NEW w \in Workers, PingOk(w) \/ PingFail(w) PROVE Inside
  BY <1>2 DEF PingOk, PingFail, Inside
<1>3. ASSUME NEW i \in Slots, TaskNext(i) PROVE Inside
  BY <1>3, TaskNextEffect DEF IndInv, TaskUnchanged, Inside
<1>4. CASE Dispatch \/ EndDispatch \/ AllDone \/ CheckPassed
  BY <1>4 DEF Dispatch, EndDispatch, AllDone, CheckPassed, Inside
<1>5. CASE StartSplit \/ SplitOk \/ Collect
  BY <1>5 DEF StartSplit, SplitOk, SplitInto, Collect, Advances
<1>6. CASE NoWorkers \/ SplitError \/ CollectFailed \/ AggregateError
  <2>1. Ends("failed")
    BY <1>6 DEF NoWorkers, SplitError, CollectFailed, AggregateError, FailJob, Ends
  <2>2. QED
    BY <2>1 DEF Terminal
<1>7. CASE Interrupted
  <2>1. status \in {"running", "cancelled"}
    BY <1>7 DEF Interrupted, EndInterrupted, IndInv, PhaseInv
  <2>2. Ends("failed") \/ Ends("cancelled")
    BY <1>7, <2>1 DEF Interrupted, EndInterrupted, Ends
  <2>3. QED
    BY <2>2 DEF Terminal
<1>8. CASE AggregateOk
  <2>1. Ends("done")
    <3>1. /\ pc = "aggregate" /\ pc' = "save" /\ status' = "done"
          /\ result' = {[i \in Chunks |-> task[i].output]}
          /\ UNCHANGED <<context, healthy, tasks, disk>>
      BY <1>8 DEF AggregateOk
    <3>2. Chunks \subseteq Slots
      BY SlotsFinite DEF IndInv, TypeOK, Chunks, Slots
    <3>3. \A i \in Chunks : task[i].output = i
      BY <3>1, <3>2 DEF IndInv, PhaseInv, TaskInv, AllTasksDone
    <3>4. QED
      BY <3>1, <3>3 DEF Ends
  <2>2. QED
    BY <2>1 DEF Terminal
<1>9. QED
  BY <1>1, <1>2, <1>3, <1>4, <1>5, <1>6, <1>7, <1>8, NextCases DEF Quiet

-----------------------------------------------------------------------------
(* The status moves along the graph of statuses the page relies on. *)
THEOREM GraphFollowed == Spec => StatusFollowsGraph
<1>1. ASSUME IndInv, StatusInv, [Next]_vars
      PROVE  \/ status' \in {status} \union Graph!After[status]
             \/ pc = "ping" /\ status \in Terminal /\ status' \in Graph!Restarts
  <2> USE DEF Graph!After, Graph!Restarts
  <2>1. CASE Inside \/ Begin \/ CheckCancelled \/ Save \/ Timeout \/ Shutdown
    BY <2>1 DEF Inside, Begin, CheckCancelled, Save, Timeout, Shutdown
  <2>2. CASE Advances
    <3>1. CASE pc = "ping"
      <4>1. status' = "splitting"
        BY <2>2, <3>1 DEF Advances
      <4>2. status \in {"pending"} \/ status \in Terminal
        BY <1>1, <3>1, LoadedAssumption DEF StatusInv, Terminal
      <4>3. QED
        BY <3>1, <4>1, <4>2
    <3>2. CASE pc # "ping"
      BY <1>1, <2>2, <3>2 DEF Advances, StatusInv
    <3>3. QED
      BY <3>1, <3>2
  <2>3. ASSUME NEW s \in Terminal, Ends(s)
        PROVE  \/ status' \in {status} \union Graph!After[status]
               \/ pc = "ping" /\ status \in Terminal /\ status' \in Graph!Restarts
    <3>1. CASE pc = "ping"
      <4>1. status' = "failed"
        BY <2>3, <3>1 DEF Ends
      <4>2. status \in {"pending"} \/ status \in Terminal
        BY <1>1, <3>1, LoadedAssumption DEF StatusInv, Terminal
      <4>3. QED
        BY <3>1, <4>1, <4>2
    <3>2. CASE pc # "ping"
      BY <1>1, <2>3, <3>2 DEF Ends, StatusInv, IndInv, PhaseInv
    <3>3. QED
      BY <3>1, <3>2
  <2>4. CASE Cancel
    <3>1. status' = "cancelled" /\ status \in Statuses
      BY <1>1, <2>4 DEF Cancel, IndInv, TypeOK
    <3>2. QED
      BY <3>1 DEF Statuses, Terminal
  <2>5. QED
    BY <1>1, <2>1, <2>2, <2>3, <2>4, Observed
<1>2. IndInv /\ StatusInv /\ [Next]_vars =>
        [\/ status' \in {status} \union Graph!After[status]
         \/ pc = "ping" /\ status \in Terminal /\ status' \in Graph!Restarts]_vars
  BY <1>1
<1>3. QED
  BY <1>2, StatusOfPlace, PTL DEF Spec, StatusFollowsGraph

-----------------------------------------------------------------------------
(* The contract of JobLifecycle.tla. *)
LEMMA LifecycleStep ==
  ASSUME IndInv, StatusInv, [Next]_vars PROVE [Job!Next]_(Job!vars)
<1> DEFINE full == result = {[i \in Chunks |-> i]}
<1>1. Job!vars = <<status, Stage, full>>
  BY DEF Job!vars
<1>2. {[i \in Chunks |-> i]} \notin {{}, Earlier}
  BY ResultIsNew DEF IndInv, TypeOK, Chunks
<1>3. pc \notin {"save", "returned"} => ~full
  BY <1>2 DEF IndInv, ResultInv
<1>4. CASE Inside
  BY <1>4 DEF Inside, Job!vars, Stage, Chunks
<1>5. CASE Advances
  <2>1. ~full /\ ~full'
    <3>1. ntasks' \in Nat
      BY NextInv DEF IndInv, TypeOK
    <3>2. {[i \in 1..ntasks' |-> i]} \notin {{}, Earlier}
      BY <3>1, ResultIsNew
    <3>3. pc \notin {"save", "returned"} /\ result' = result
      BY <1>5 DEF Advances
    <3>4. result \in {{}, Earlier}
      BY <3>3 DEF IndInv, ResultInv
    <3> QED
      BY <1>3, <3>2, <3>3, <3>4 DEF Chunks
  <2>2. Job!Advance
    BY <1>5, <2>1 DEF Advances, Job!Advance, Job!Following, Stage
  <2>3. QED
    BY <2>2 DEF Job!Next, Job!Execute
<1>6. ASSUME NEW s \in Terminal, Ends(s) PROVE [Job!Next]_(Job!vars)
  <2>1. Chunks' = Chunks
    BY <1>6 DEF Ends, Chunks
  <2>2. CASE s = "failed"
    BY <1>6, <2>1, <2>2 DEF Ends, Job!Next, Job!Execute, Job!Fail, Stage
  <2>3. CASE s = "cancelled"
    BY <1>6, <2>1, <2>3 DEF Ends, Job!Next, Job!Execute, Job!Yield, Stage
  <2>4. CASE s = "done"
    BY <1>6, <2>1, <2>4 DEF Ends, Job!Next, Job!Execute, Job!Complete, Stage
  <2>5. QED
    BY <2>2, <2>3, <2>4 DEF Terminal
<1>7. CASE Begin
  BY <1>7 DEF Begin, Stage, Chunks, Job!Next, Job!Start, tasks, outcome
<1>8. CASE CheckCancelled
  BY <1>8 DEF CheckCancelled, Stage, Chunks, Job!Next, Job!Execute, Job!Yield, tasks, outcome
<1>9. CASE Save \/ Timeout \/ Shutdown
  BY <1>9 DEF Save, Timeout, Shutdown, Stage, Chunks, Job!vars, tasks, outcome
<1>10. CASE Cancel
  <2>1. pc # "queued" /\ pc' = pc /\ status' = "cancelled" /\ UNCHANGED <<result, ntasks>>
    BY <1>10 DEF Cancel, tasks, outcome, IndInv, PhaseInv
  <2>2. Stage # "pending" /\ Stage' = Stage
    BY <2>1 DEF Stage, IndInv, TypeOK
  <2>3. QED
    BY <2>1, <2>2 DEF Job!Next, Job!Cancel, Chunks
<1>11. QED
  BY <1>4, <1>5, <1>6, <1>7, <1>8, <1>9, <1>10, Observed

(* The execution keeps the safety part of the contract; its progress, a
   fairness condition of JobLifecycle.tla, is left to the model checker. *)
THEOREM KeepsContract == Spec => Job!Init /\ [][Job!Next]_(Job!vars)
<1>1. Init => Job!Init
  <2> SUFFICES ASSUME Init PROVE Job!Init
    OBVIOUS
  <2>1. result # {[i \in Chunks |-> i]}
    BY ResultIsNew DEF Init, Chunks
  <2>2. status \in {"pending"} \union Job!Terminal
    BY LoadedAssumption DEF Init, Terminal, Job!Terminal
  <2>3. Stage = "pending"
    BY DEF Init, Stage
  <2> QED
    BY <2>1, <2>2, <2>3 DEF Job!Init
<1>2. IndInv /\ StatusInv /\ [Next]_vars => [Job!Next]_(Job!vars)
  BY LifecycleStep
<1>3. QED
  BY <1>1, <1>2, StatusOfPlace, PTL DEF Spec

-----------------------------------------------------------------------------
(* The steps of the center.                                                *)

(* What the center sees of the execution. *)
Seen == <<Place, Outline(status), cancelSet, parentDone, disk, pc = "queued", pc = "returned">>

(* It takes no notice of the rest. *)
LEMMA Unseen ==
  ASSUME UNCHANGED Seen PROVE UNCHANGED Center!vars
<1>1. /\ Place' = Place /\ Outline(status)' = Outline(status)
      /\ cancelSet' = cancelSet /\ parentDone' = parentDone /\ disk' = disk
      /\ (pc = "queued")' = (pc = "queued")
      /\ (pc = "returned")' = (pc = "returned")
  BY DEF Seen
<1>2. QED
  BY <1>1 DEF Center!vars, Center!process, Center!store, Center!broker, OfTheJob

(* The runner takes the job out of the channel. *)
LEMMA BeginTakes ==
  ASSUME IndInv, StatusInv, Begin PROVE Center!Take("runner")
<1>1. /\ pc = "queued" /\ pc' = "ping" /\ cancelSet' = TRUE /\ ctxDone' = parentDone
      /\ UNCHANGED <<status, parentDone, workers, disk>>
      /\ status \in {"pending"} \union Terminal /\ workers = <<>> /\ cancelSet = FALSE
  BY LoadedAssumption DEF Begin, outcome, StatusInv, IndInv, PingInv, PhaseInv, TypeOK
<1>2. /\ Place = "idle" /\ Place' = IF parentDone THEN "doomed" ELSE "started"
      /\ Outline(status) # "absent"
  BY <1>1 DEF Place, Outline, Terminal
<1>3. Tail(<<"job">>) = <<>> /\ Head(<<"job">>) = "job" /\ <<"job">> # <<>>
  OBVIOUS
<1>4. parentDone \in BOOLEAN
  BY DEF IndInv, TypeOK
<1>5. QED
  BY <1>1, <1>2, <1>3, <1>4 DEF Center!Take, Center!Up, Center!process, OfTheJob

(* An execution that writes its next stage over a cancel, or its first one,
   makes the job active. *)
LEMMA AdvancesProgress ==
  ASSUME IndInv, StatusInv, Advances
  PROVE  Center!Progress("runner") \/ UNCHANGED Seen
<1>1. /\ pc \in {"ping", "split", "collect"} /\ pc' \in {"split", "dispatch", "aggregate"}
      /\ UNCHANGED <<cancelSet, parentDone, disk>>
      /\ Outline(status') = "active"
  BY DEF Advances, context, Outline
<1>2. Place' = "running"
  BY <1>1 DEF Place
<1>3. CASE pc = "ping" \/ status = "cancelled"
  <2>1. \/ Place = "started"
        \/ Place = "running" /\ Outline(status) = "cancelled"
    BY <1>1, <1>3 DEF Advances, Place, Outline
  <2>2. QED
    BY <1>1, <1>2, <2>1 DEF Center!Progress, Center!Up, Center!process, Center!broker, OfTheJob
<1>4. CASE pc # "ping" /\ status # "cancelled"
  <2>1. Place = "running" /\ Outline(status) = "active"
    BY <1>1, <1>4 DEF StatusInv, Place, Outline
  <2>2. QED
    BY <1>1, <1>2, <2>1 DEF Seen
<1>5. QED
  BY <1>3, <1>4

(* The last status an execution writes is one the center lets it write. *)
LEMMA EndsFinish ==
  ASSUME IndInv, StatusInv, NEW s \in Terminal, Ends(s) PROVE Center!Finish("runner")
<1>1. /\ pc \in {"ping", "split", "wait", "collect", "aggregate"} /\ pc' = "save"
      /\ UNCHANGED <<cancelSet, parentDone, disk>>
      /\ status' = s
  BY DEF Ends, context
<1>2. Place' = "saving" /\ Outline(status') = s
  BY <1>1 DEF Place, Outline, Terminal
<1>3. \/ s = "failed" /\ Place \in {"started", "doomed", "running"}
      \/ s = "done" /\ Place = "running"
      \/ s = "cancelled" /\ Place = "running" /\ Outline(status) = s
  BY <1>1 DEF Ends, Place, Outline
<1>4. QED
  BY <1>1, <1>2, <1>3 DEF Center!Finish, Center!Splits, Center!Up, Center!Terminal,
     Center!process, Center!broker, OfTheJob

(* A job found cancelled is acknowledged without a snapshot. *)
LEMMA CheckedUnsaved ==
  ASSUME IndInv, StatusInv, CheckCancelled PROVE Center!FinishUnsaved("runner")
<1>1. /\ pc = "check" /\ pc' = "returned" /\ disk = "absent" /\ status = "cancelled"
      /\ UNCHANGED <<status, cancelSet, parentDone, disk>>
  BY DEF CheckCancelled, outcome, StatusInv
<1>2. Place = "running" /\ Place' = "acking" /\ Outline(status) = "cancelled"
  BY <1>1 DEF Place, Outline
<1>3. QED
  BY <1>1, <1>2 DEF Center!FinishUnsaved, Center!Splits, Center!Up, Center!process,
     Center!store, Center!broker, OfTheJob

(* The snapshot holds the last status, or could not be written. *)
LEMMA SaveSaves ==
  ASSUME IndInv, StatusInv, Save PROVE Center!Save("runner")
<1>1. /\ pc = "save" /\ pc' = "returned" /\ disk = "absent" /\ disk' \in {disk, status}
      /\ UNCHANGED <<status, cancelSet, parentDone>> /\ status \in Terminal
  BY DEF Save, StatusInv, IndInv, PhaseInv
<1>2. Place = "saving" /\ Place' = "acking" /\ Outline(status) = status /\ status # "absent"
  BY <1>1 DEF Place, Outline, Terminal
<1>3. QED
  BY <1>1, <1>2 DEF Center!Save, Center!Up, Center!process, Center!broker, OfTheJob

(* The end of a context dooms an execution that has no worker yet, and is not
   seen in any other. *)
LEMMA ContextEnds ==
  ASSUME IndInv, UNCHANGED <<pc, workers>>, ctxDone' \/ pc = "queued"
  PROVE  \E rs \in SUBSET {"runner"} :
           [r \in {"runner"} |-> [at |-> Place, job |-> "job"]]' = Center!Doomed(rs)
<1>1. Place' = Place \/ (Place = "started" /\ Place' = "doomed")
  BY DEF Place
<1>2. CASE Place' = Place
  <2>1. [r \in {"runner"} |-> [at |-> Place, job |-> "job"]]' = Center!Doomed({})
    BY <1>2 DEF Center!Doomed
  <2>2. QED
    BY <2>1
<1>3. CASE Place = "started" /\ Place' = "doomed"
  <2>1. [r \in {"runner"} |-> [at |-> Place, job |-> "job"]]' = Center!Doomed({"runner"})
    BY <1>3 DEF Center!Doomed
  <2>2. QED
    BY <2>1
<1>4. QED
  BY <1>1, <1>2, <1>3

(* One step of the execution is one step of the center, or none. *)
LEMMA CenterStep ==
  ASSUME IndInv, StatusInv, [Next]_vars PROVE [Center!Next]_(Center!vars)
<1>1. CASE Inside
  <2>1. Place' = Place
    BY <1>1 DEF Inside, Place
  <2>2. QED
    BY <1>1, <2>1, Unseen DEF Inside, Seen
<1>2. CASE Begin
  BY <1>2, BeginTakes DEF Center!Next, Center!RunnerStep
<1>3. CASE Advances
  BY <1>3, AdvancesProgress, Unseen DEF Center!Next, Center!RunnerStep, Center!Execute
<1>4. ASSUME NEW s \in Terminal, Ends(s) PROVE Center!Next
  BY <1>4, EndsFinish DEF Center!Next, Center!RunnerStep, Center!Execute
<1>5. CASE CheckCancelled
  BY <1>5, CheckedUnsaved DEF Center!Next, Center!RunnerStep, Center!Execute
<1>6. CASE Save
  BY <1>6, SaveSaves DEF Center!Next, Center!RunnerStep
<1>7. CASE Cancel
  <2>1. /\ UNCHANGED <<pc, cancelSet, parentDone, workers, disk>> /\ ctxDone' = TRUE
        /\ status' = "cancelled" /\ cancelSet
    BY <1>7 DEF Cancel, healthy, outcome
  <2>2. CASE status = "cancelled"
    <3>1. Place' = Place \/ (Place = "started" /\ Place' = "doomed")
      BY <2>1, <2>2 DEF StatusInv, IndInv, TypeOK, Place
    <3>2. CASE Place' = Place
      BY <2>1, <2>2, <3>2, Unseen DEF Seen
    <3>3. CASE Place = "started" /\ Place' = "doomed"
      <4>1. UNCHANGED <<pc, status, cancelSet, parentDone, disk>>
        BY <2>1, <2>2
      <4>2. Center!Doom("runner")
        BY <4>1, <3>3 DEF Center!Doom, Center!Doomed, Center!Up, Center!process,
           Center!store, Center!broker
      <4>3. QED
        BY <4>2 DEF Center!Next, Center!RunnerStep, Center!Execute
    <3>4. QED
      BY <3>1, <3>2, <3>3
  <2>3. CASE status # "cancelled"
    <3>1. Outline(status') = "cancelled" /\ Outline(status) # "cancelled"
      BY <2>1, <2>3 DEF Outline
    <3>2. Center!Cancel("job")
      BY <2>1, <3>1, ContextEnds DEF Center!Cancel, Center!Up, Center!process,
         Center!broker, OfTheJob
    <3>3. QED
      BY <3>2 DEF Center!Next
  <2>4. QED
    BY <2>2, <2>3
<1>8. CASE Timeout
  <2>1. /\ UNCHANGED <<status, pc, cancelSet, parentDone, workers, disk>> /\ ctxDone'
    BY <1>8 DEF Timeout, healthy, outcome
  <2>2. Place' = Place \/ (Place = "started" /\ Place' = "doomed")
    BY <2>1 DEF Place
  <2>3. CASE Place' = Place
    BY <2>1, <2>3, Unseen DEF Seen
  <2>4. CASE Place = "started" /\ Place' = "doomed"
    <3>1. Center!Doom("runner")
      BY <2>1, <2>4 DEF Center!Doom, Center!Doomed, Center!Up, Center!process,
         Center!store, Center!broker
    <3>2. QED
      BY <3>1 DEF Center!Next, Center!RunnerStep, Center!Execute
  <2>5. QED
    BY <2>2, <2>3, <2>4
<1>9. CASE Shutdown
  <2>1. /\ UNCHANGED <<status, pc, cancelSet, workers, disk>>
        /\ ~parentDone /\ parentDone' = TRUE /\ (ctxDone' \/ pc = "queued")
    BY <1>9 DEF Shutdown, healthy, outcome
  <2>2. Center!Term
    BY <2>1, ContextEnds DEF Center!Term, Center!Up, Center!store, Center!broker
  <2>3. QED
    BY <2>2 DEF Center!Next, Center!Stop
<1>10. QED
  BY <1>1, <1>2, <1>3, <1>4, <1>5, <1>6, <1>7, <1>8, <1>9, Observed

(* Whatever the workers answer and whenever the context ends, the execution
   does nothing to the job that the center's model leaves out. *)
THEOREM CenterFollowed == Spec => StepsOfTheCenter
<1>1. IndInv /\ StatusInv /\ [Next]_vars => [Center!Next]_(Center!vars)
  BY CenterStep
<1>2. QED
  BY <1>1, StatusOfPlace, PTL DEF Spec, StepsOfTheCenter
=============================================================================
