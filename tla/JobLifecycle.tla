---------------------------- MODULE JobLifecycle ----------------------------
(***************************************************************************)
(* What the center promises about one job, whoever looks at it through the *)
(* API: its execution writes the stages in order and ends exactly once; a  *)
(* cancel request may overwrite the visible status at any moment after the *)
(* execution has started; a result exists only when every chunk was        *)
(* computed.  A job that had ended may be executed again after a restart:  *)
(* it starts from the status it was left with.  Scheduler.tla refines this *)
(* contract.                                                               *)
(***************************************************************************)

VARIABLES
  status,    \* Job.Status, as a poll of GET /api/jobs/{id} shows it
  stage,     \* how far the execution itself has come
  complete   \* a result this execution computed from every chunk is stored

vars == <<status, stage, complete>>

Terminal == {"done", "failed", "cancelled"}
Statuses == {"pending", "splitting", "running", "aggregating"} \union Terminal
Stages   == {"pending", "started", "splitting", "running", "aggregating", "ended"}

(* The stage an execution enters next, named by the status it then writes. *)
Following == [started |-> "splitting", splitting |-> "running",
              running |-> "aggregating"]

Init ==
  /\ status \in {"pending"} \union Terminal
  /\ stage = "pending"
  /\ complete = FALSE

(* The execution takes the job over; nothing of it is visible yet. *)
Start ==
  /\ stage = "pending"
  /\ stage' = "started"
  /\ UNCHANGED <<status, complete>>

(* The execution writes its next stage over whatever the status was. *)
Advance ==
  /\ stage \in DOMAIN Following
  /\ stage' = Following[stage]
  /\ status' = stage'
  /\ UNCHANGED complete

Complete ==
  /\ stage = "aggregating"
  /\ stage' = "ended"
  /\ status' = "done"
  /\ complete' = TRUE

Fail ==
  /\ stage \in {"started", "splitting", "running", "aggregating"}
  /\ stage' = "ended"
  /\ status' = "failed"
  /\ UNCHANGED complete

(* A running execution that finds the job cancelled ends and leaves it so. *)
Yield ==
  /\ stage = "running"
  /\ status = "cancelled"
  /\ stage' = "ended"
  /\ UNCHANGED <<status, complete>>

(* A cancel request; it reaches a job only once its execution has started. *)
Cancel ==
  /\ stage # "pending"
  /\ status' = "cancelled"
  /\ UNCHANGED <<stage, complete>>

Execute == Advance \/ Complete \/ Fail \/ Yield

Next == Start \/ Execute \/ Cancel

(* An execution that has started is carried to its end. *)
Spec == Init /\ [][Next]_vars /\ WF_vars(Execute)
=============================================================================
