---------------------------- MODULE TokenBucket ----------------------------
(***************************************************************************)
(* What the rate limiter promises: every client has a bucket that is never *)
(* forgotten and fills with time; a request is admitted exactly when the   *)
(* bucket of its client holds a token, and takes it.  RateLimiter.tla, which*)
(* computes levels only when asked and forgets buckets, implements this.   *)
(***************************************************************************)
EXTENDS Integers

CONSTANTS
  IPs,     \* clients
  Rate,    \* units a bucket gains per tick
  Burst,   \* units a full bucket holds
  Cost     \* units of one request: a token

VARIABLES
  level,   \* the units in each bucket
  answer   \* the last request: whose, and whether it was admitted

vars == <<level, answer>>

Least(a, b) == IF a <= b THEN a ELSE b

Init ==
  /\ level = [ip \in IPs |-> Burst]
  /\ answer = {}

Tick ==
  /\ level' = [ip \in IPs |-> Least(Burst, level[ip] + Rate)]
  /\ UNCHANGED answer

Request(ip) ==
  IF level[ip] >= Cost
    THEN /\ level' = [level EXCEPT ![ip] = @ - Cost]
         /\ answer' = {<<ip, "admitted">>}
    ELSE /\ answer' = {<<ip, "refused">>}
         /\ UNCHANGED level

Next == Tick \/ \E ip \in IPs : Request(ip)

Spec == Init /\ [][Next]_vars
=============================================================================
