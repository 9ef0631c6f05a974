--------------------------- MODULE MCRateLimiter ---------------------------
(***************************************************************************)
(* RateLimiter.tla with two clients, buckets of two tokens and a half, a   *)
(* token every other tick, and enough time for a bucket to empty, to become*)
(* stale, to be dropped and to be emptied again.                           *)
(***************************************************************************)
EXTENDS RateLimiter
=============================================================================
