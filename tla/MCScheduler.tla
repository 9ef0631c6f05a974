---------------------------- MODULE MCScheduler ----------------------------
(***************************************************************************)
(* Scheduler.tla on small instances: one job, two or three workers.        *)
(***************************************************************************)
EXTENDS JobInCenter, TLC

(* Workers are named in no property: they may be permuted in a run that
   checks no liveness. *)
Symmetry == Permutations(Workers)
=============================================================================
