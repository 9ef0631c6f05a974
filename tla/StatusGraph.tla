---------------------------- MODULE StatusGraph ----------------------------
(***************************************************************************)
(* The statuses of a job and how one may follow another in the answers of  *)
(* the center, a cancel that is overwritten included.  JobInCenter.tla     *)
(* shows that an execution moves along this graph; Page.tla is the browser *)
(* that watches it.                                                        *)
(***************************************************************************)

Final == {"done", "failed", "cancelled"}

(* Every execution may fail, and be cancelled once it has begun. *)
After ==
  [pending     |-> {"splitting", "failed", "cancelled"},
   splitting   |-> {"running", "failed", "cancelled"},
   running     |-> {"aggregating", "failed", "cancelled"},
   aggregating |-> {"done", "failed", "cancelled"},
   cancelled   |-> {"splitting", "running", "aggregating", "done", "failed"},
   done        |-> {"cancelled"},
   failed      |-> {"cancelled"}]

Shown == DOMAIN After

(* How a job that had ended goes on when it is executed again. *)
Restarts == {"splitting", "failed"}

(* What the page tells apart: it offers to cancel an open job and polls until a
   job has ended. *)
Class(s) ==
  CASE s \in Final -> "ended"
    [] s \in {"pending", "splitting", "running"} -> "open"
    [] s = "aggregating" -> s
Classes == {Class(s) : s \in Shown}
ClassAfter(c) == {Class(t) : t \in UNION {After[s] : s \in {x \in Shown : Class(x) = c}}}
=============================================================================
