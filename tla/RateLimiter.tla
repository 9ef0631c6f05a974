---------------------------- MODULE RateLimiter ----------------------------
(***************************************************************************)
(* The rate limiter of the API: a token bucket per client, refilled when a *)
(* request looks at it, and dropped by a clean-up when it was not looked at*)
(* for long.  Time is counted in ticks and tokens in units, so that a tick *)
(* is worth a whole number of units.                                       *)
(***************************************************************************)
EXTENDS Integers

CONSTANTS
  IPs,        \* the values of clientIP
  Rate,       \* units gained per tick
  Burst,      \* units a full bucket holds
  Cost,       \* units of a token
  StaleAge,   \* ticks after which the clean-up drops a bucket (10 minutes)
  MaxTime     \* bound of the clock

(* NewRateLimiter(50, 100) and NewRateLimiter(10, 20), and ten minutes that
   fill any bucket: 10 * 600 >= 20. *)
ASSUME RateAssumption ==
  /\ Rate \in Nat /\ Burst \in Nat /\ Cost \in Nat
  /\ StaleAge \in Nat /\ MaxTime \in Nat
  /\ 0 < Cost /\ Cost <= Burst
  /\ Burst <= Rate * StaleAge

VARIABLES
  now,      \* the clock
  known,    \* the keys of RateLimiter.buckets
  bucket,   \* tokens and lastTime of every known client
  answer,   \* the last request: whose, and whether it was admitted
  window    \* history: the requests admitted to one client since some time

vars == <<now, known, bucket, answer, window>>

Least(a, b) == IF a <= b THEN a ELSE b
Blank == [tokens |-> 0, lastTime |-> 0]

Init ==
  /\ now = 0
  /\ known = {}
  /\ bucket = [ip \in IPs |-> Blank]
  /\ answer = {}
  /\ window \in [ip : IPs, since : {0}, count : {0}]

(* The units in the bucket of ip if it were looked at now: lines 107 to 111. *)
RefillUncapped(ip) == bucket[ip].tokens + Rate * (now - bucket[ip].lastTime)   \* mutant
Refill(ip) ==
  Least(Burst, bucket[ip].tokens + Rate * (now - bucket[ip].lastTime))

Counted(ip) == [window EXCEPT !.count = IF window.ip = ip THEN @ + 1 ELSE @]

(* A client without a bucket gets a full one and is admitted. *)
First(ip) ==
  /\ ip \notin known
  /\ known' = known \union {ip}
  /\ bucket' = [bucket EXCEPT ![ip] = [tokens |-> Burst - Cost, lastTime |-> now]]
  /\ answer' = {<<ip, "admitted">>}
  /\ window' = Counted(ip)
  /\ UNCHANGED now

Admit(ip) ==
  /\ ip \in known
  /\ Refill(ip) >= Cost
  /\ bucket' = [bucket EXCEPT ![ip] = [tokens |-> Refill(ip) - Cost, lastTime |-> now]]
  /\ answer' = {<<ip, "admitted">>}
  /\ window' = Counted(ip)
  /\ UNCHANGED <<now, known>>

(* The refill and the time are kept when the request is refused, too. *)
RefuseWith(ip, tokens) ==
  /\ ip \in known
  /\ Refill(ip) < Cost
  /\ bucket' = [bucket EXCEPT ![ip] = [tokens |-> tokens, lastTime |-> now]]
  /\ answer' = {<<ip, "refused">>}
  /\ UNCHANGED <<now, known, window>>

RefuseForgetting(ip) == RefuseWith(ip, bucket[ip].tokens)            \* mutant
Refuse(ip) == RefuseWith(ip, Refill(ip))

(* The buckets the clean-up drops. *)
StaleYoung == {ip \in known : bucket[ip].lastTime < now}             \* mutant
Stale == {ip \in known : bucket[ip].lastTime < now - StaleAge}

(* The clean-up goroutine, under the lock; it may wake at any time. *)
Cleanup ==
  /\ Stale # {}
  /\ known' = known \ Stale
  /\ bucket' = [ip \in IPs |-> IF ip \in Stale THEN Blank ELSE bucket[ip]]
  /\ UNCHANGED <<now, answer, window>>

Tick ==
  /\ now < MaxTime
  /\ now' = now + 1
  /\ UNCHANGED <<known, bucket, answer, window>>

(* The history starts to count anew, for some client: every interval of time
   and every client is counted in some behaviour. *)
Observe ==
  /\ window' \in [ip : IPs, since : {now}, count : {0}]
  /\ UNCHANGED <<now, known, bucket, answer>>

Next ==
  \/ \E ip \in IPs : First(ip) \/ Admit(ip) \/ Refuse(ip)
  \/ Cleanup \/ Tick \/ Observe

Spec == Init /\ [][Next]_vars

-----------------------------------------------------------------------------
(* Tokens never leave 0..Burst and no bucket is from the future. *)
TypeOK ==
  /\ now \in 0..MaxTime
  /\ known \in SUBSET IPs
  /\ bucket \in [IPs -> [tokens : 0..Burst, lastTime : 0..now]]
  /\ answer \in SUBSET (IPs \X {"admitted", "refused"})
  /\ window \in [ip : IPs, since : 0..now, count : Nat]

(* In no interval of time is a client admitted more often than by a full
   bucket and what the interval adds to it, although the clean-up hands out
   new full buckets. *)
WindowBound == window.count * Cost <= Burst + Rate * (now - window.since)

(* The level an observer may assume: a dropped bucket counts as full. *)
Level(ip) == IF ip \in known THEN Refill(ip) ELSE Burst

Ideal == INSTANCE TokenBucket WITH level <- [ip \in IPs |-> Level(ip)]

(* Neither the lazy refill, nor that a refused request stores it, nor the
   clean-up can be noticed: the limiter answers every request as buckets that
   fill by themselves and are never dropped would. *)
ImplementsTokenBucket == Ideal!Spec
=============================================================================
