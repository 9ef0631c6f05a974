---------------------------- MODULE JobInCenter ----------------------------
(***************************************************************************)
(* The execution of Scheduler.tla inside the center of Runner.tla: its one *)
(* job has been delivered to a runner, which takes it, executes it and     *)
(* saves it, while the job is cancelled, times out or the center is told   *)
(* to stop.  What Runner.tla lets an execution do, in six actions, is an   *)
(* abstraction of the forty of Scheduler.tla.                              *)
(***************************************************************************)
EXTENDS Scheduler

(* The stages of an execution are one status in the center. *)
Outline(s) == IF s \in {"splitting", "running", "aggregating"} THEN "active" ELSE s

(* Where the runner is: an execution whose context ended before any worker
   answered is doomed. *)
Place ==
  CASE pc = "queued" -> "idle"
    [] pc = "ping" -> IF ctxDone /\ workers = <<>> THEN "doomed" ELSE "started"
    [] pc \in {"split", "dispatch", "wait", "check", "collect", "aggregate"} -> "running"
    [] pc = "save" -> "saving"
    [] pc = "returned" -> "acking"

OfTheJob(x) == [j \in {"job"} |-> x]

Center == INSTANCE Runner
  WITH Jobs <- {"job"}, Runners <- {"runner"}, Poisoned <- {},
       MaxCrashes <- 0, MaxTerms <- 1, MaxBrokerStops <- 0, MaxLoadErrors <- 0,
       proc <- "serving", stopping <- parentDone, connected <- TRUE, final <- "no",
       mem <- OfTheJob(Outline(status)),
       begun <- {j \in {"job"} : cancelSet},
       disk <- OfTheJob(disk),
       submit <- OfTheJob("published"),
       brokerUp <- TRUE, queue <- <<>>, unacked <- <<"job">>,
       inbox <- IF pc = "queued" THEN <<"job">> ELSE <<>>,
       runner <- [r \in {"runner"} |-> [at |-> Place, job |-> "job"]],
       counts <- [crashes |-> 0, terms |-> IF parentDone THEN 1 ELSE 0,
                  brokerStops |-> 0, loadErrors |-> 0],
       excused <- {j \in {"job"} : pc = "returned" /\ disk = "absent"}

(* Every step of an execution is a step the center takes in Runner.tla, or one
   it does not see: a job is saved once, after its last write and in a final
   status, or not at all when it was found cancelled; a context that ended too
   early only fails; a cancel touches nothing else. *)
StepsOfTheCenter == [][Center!Next]_(Center!vars)

Graph == INSTANCE StatusGraph

(* The status moves along StatusGraph.tla: no execution leaves out a stage or
   goes back to one, but for what a cancel it has not seen makes of it, and for
   the first status of an execution that starts from an ended job. *)
StatusFollowsGraph ==
  [][\/ status' \in {status} \union Graph!After[status]
     \/ pc = "ping" /\ status \in Terminal /\ status' \in Graph!Restarts]_vars
=============================================================================
