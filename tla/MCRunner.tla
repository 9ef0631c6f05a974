------------------------------ MODULE MCRunner ------------------------------
(***************************************************************************)
(* Runner.tla on small instances: two jobs, one of them poisoned, two      *)
(* runners, and each bounded event once or never.                          *)
(***************************************************************************)
EXTENDS Runner, TLC

(* The runners are interchangeable where no fairness names one of them. *)
Symmetry == Permutations(Runners)
=============================================================================
