------------------------- MODULE RateLimiterProofs -------------------------
(***************************************************************************)
(* For all rates, bursts and stale ages with which a bucket is full before *)
(* the clean-up drops it, the limiter is the token bucket of TokenBucket.  *)
(* Everything rests on what each action does to Level, the units an        *)
(* observer may assume in the bucket of a client.                          *)
(***************************************************************************)
EXTENDS RateLimiter, TLAPS

(* Products of natural numbers, as far as they are needed: they are natural, *)
LEMMA ProductNat ==
  ASSUME NEW a \in Nat, NEW b \in Nat
  PROVE  a * b \in Nat
OBVIOUS

(* grow with a factor, *)
LEMMA ProductMonotone ==
  ASSUME NEW a \in Nat, NEW b \in Nat, NEW c \in Nat, b <= c
  PROVE  a * b <= a * c
OBVIOUS

(* distribute over a next one, *)
LEMMA ProductSucc ==
  ASSUME NEW a \in Int, NEW b \in Int
  PROVE  a * (b + 1) = a * b + a
OBVIOUS

(* and vanish. *)
LEMMA ProductZero ==
  ASSUME NEW a \in Int
  PROVE  a * 0 = 0
OBVIOUS

-----------------------------------------------------------------------------
(* What the types of the state give of one bucket. *)
LEMMA BucketTyped ==
  ASSUME TypeOK, NEW ip \in IPs
  PROVE  /\ bucket[ip].tokens \in 0..Burst
         /\ bucket[ip].lastTime \in 0..now
         /\ now \in Nat /\ Burst \in Nat /\ Rate \in Nat /\ Cost \in Nat
         /\ now - bucket[ip].lastTime \in Nat
         /\ Rate * (now - bucket[ip].lastTime) \in Nat
<1>1. /\ bucket[ip].tokens \in 0..Burst
      /\ bucket[ip].lastTime \in 0..now
      /\ now \in Nat /\ Burst \in Nat /\ Rate \in Nat /\ Cost \in Nat
  BY RateAssumption DEF TypeOK
<1>2. now - bucket[ip].lastTime \in Nat
  BY <1>1
<1>3. Rate * (now - bucket[ip].lastTime) \in Nat
  BY <1>1, <1>2, ProductNat
<1> QED
  BY <1>1, <1>2, <1>3

(* The bucket of a client holds between nothing and a burst. *)
LEMMA LevelBounded ==
  ASSUME TypeOK, NEW ip \in IPs
  PROVE  Refill(ip) \in 0..Burst /\ Level(ip) \in 0..Burst
<1>1. Refill(ip) \in 0..Burst
  BY BucketTyped DEF Refill, Least
<1> QED
  BY <1>1, RateAssumption DEF Level

(* A bucket looked at now holds its tokens and no more. *)
LEMMA RefillAtOnce ==
  ASSUME NEW ip \in IPs, NEW m \in Nat, NEW t \in 0..Burst, now' = m,
         bucket'[ip] = [tokens |-> t, lastTime |-> m], ip \in known'
  PROVE  Level(ip)' = t
<1>1. now' - bucket'[ip].lastTime = 0 /\ bucket'[ip].tokens = t
  OBVIOUS
<1>2. Rate * 0 = 0
  BY RateAssumption, ProductZero
<1>3. Level(ip)' = Least(Burst, bucket'[ip].tokens + Rate * (now' - bucket'[ip].lastTime))
  BY DEF Level, Refill
<1>4. Level(ip)' = Least(Burst, t + 0)
  BY <1>1, <1>2, <1>3
<1> QED
  BY <1>4, RateAssumption DEF Least

(* Neither the clock nor the bucket of a client changes: nor does its level. *)
LEMMA LevelUnchanged ==
  ASSUME NEW ip \in IPs, now' = now, bucket'[ip] = bucket[ip], ip \in known' <=> ip \in known
  PROVE  Level(ip)' = Level(ip)
BY DEF Level, Refill

(* The first request of a client finds a full bucket and takes a token. *)
LEMMA FirstLevel ==
  ASSUME TypeOK, NEW ip \in IPs, First(ip)
  PROVE  /\ Level(ip) = Burst
         /\ \A q \in IPs : Level(q)' = IF q = ip THEN Level(q) - Cost ELSE Level(q)
<1>1. Level(ip) = Burst
  BY DEF First, Level
<1>2. Level(ip)' = Burst - Cost
  <2>1. /\ bucket'[ip] = [tokens |-> Burst - Cost, lastTime |-> now]
        /\ ip \in known' /\ now' = now /\ now \in Nat /\ Burst - Cost \in 0..Burst
    BY RateAssumption DEF First, TypeOK
  <2> QED
    BY <2>1, RefillAtOnce
<1>3. ASSUME NEW q \in IPs, q # ip PROVE Level(q)' = Level(q)
  <2>1. now' = now /\ bucket'[q] = bucket[q] /\ (q \in known' <=> q \in known)
    BY <1>3 DEF First, TypeOK
  <2> QED
    BY <2>1, LevelUnchanged
<1> QED
  BY <1>1, <1>2, <1>3

(* An admitted request finds a token and takes it. *)
LEMMA AdmitLevel ==
  ASSUME TypeOK, NEW ip \in IPs, Admit(ip)
  PROVE  /\ Level(ip) >= Cost
         /\ \A q \in IPs : Level(q)' = IF q = ip THEN Level(q) - Cost ELSE Level(q)
<1>1. Level(ip) = Refill(ip) /\ Level(ip) >= Cost
  BY DEF Admit, Level
<1>2. Level(ip)' = Refill(ip) - Cost
  <2>1. Refill(ip) - Cost \in 0..Burst
    BY LevelBounded, RateAssumption, <1>1
  <2>2. /\ bucket'[ip] = [tokens |-> Refill(ip) - Cost, lastTime |-> now]
        /\ ip \in known' /\ now' = now /\ now \in Nat
    BY DEF Admit, TypeOK
  <2> QED
    BY <2>1, <2>2, RefillAtOnce
<1>3. ASSUME NEW q \in IPs, q # ip PROVE Level(q)' = Level(q)
  <2>1. now' = now /\ bucket'[q] = bucket[q] /\ (q \in known' <=> q \in known)
    BY <1>3 DEF Admit, TypeOK
  <2> QED
    BY <2>1, LevelUnchanged
<1> QED
  BY <1>1, <1>2, <1>3

(* A refused request finds none; the refill it stores changes no level. *)
LEMMA RefuseLevel ==
  ASSUME TypeOK, NEW ip \in IPs, Refuse(ip)
  PROVE  /\ Level(ip) < Cost
         /\ \A q \in IPs : Level(q)' = Level(q)
<1>1. Level(ip) = Refill(ip) /\ Level(ip) < Cost
  BY DEF Refuse, RefuseWith, Level
<1>2. Level(ip)' = Refill(ip)
  <2>1. Refill(ip) \in 0..Burst
    BY LevelBounded
  <2>2. /\ bucket'[ip] = [tokens |-> Refill(ip), lastTime |-> now]
        /\ ip \in known' /\ now' = now /\ now \in Nat
    BY DEF Refuse, RefuseWith, TypeOK
  <2> QED
    BY <2>1, <2>2, RefillAtOnce
<1>3. ASSUME NEW q \in IPs, q # ip PROVE Level(q)' = Level(q)
  <2>1. now' = now /\ bucket'[q] = bucket[q] /\ (q \in known' <=> q \in known)
    BY <1>3 DEF Refuse, RefuseWith, TypeOK
  <2> QED
    BY <2>1, LevelUnchanged
<1> QED
  BY <1>1, <1>2, <1>3

(* A bucket the clean-up drops was full. *)
LEMMA StaleIsFull ==
  ASSUME TypeOK, NEW ip \in IPs, ip \in Stale
  PROVE  Level(ip) = Burst
<1> DEFINE age == now - bucket[ip].lastTime
<1>1. age \in Nat /\ StaleAge \in Nat /\ StaleAge <= age
  BY BucketTyped, RateAssumption DEF Stale
<1>2. Rate * StaleAge <= Rate * age /\ Rate * StaleAge \in Nat
  BY <1>1, ProductMonotone, ProductNat, RateAssumption
<1>3. Burst <= Rate * age
  BY <1>2, BucketTyped, RateAssumption
<1>4. Refill(ip) = Burst
  BY <1>3, BucketTyped DEF Refill, Least
<1> QED
  BY <1>4 DEF Level, Stale

(* The clean-up changes no level. *)
LEMMA CleanupLevel ==
  ASSUME TypeOK, Cleanup
  PROVE  \A q \in IPs : Level(q)' = Level(q)
<1> SUFFICES ASSUME NEW q \in IPs PROVE Level(q)' = Level(q)
  OBVIOUS
<1>1. CASE q \in Stale
  <2>1. q \notin known'
    BY <1>1 DEF Cleanup
  <2> QED
    BY <2>1, <1>1, StaleIsFull DEF Level
<1>2. CASE q \notin Stale
  <2>1. now' = now /\ bucket'[q] = bucket[q] /\ (q \in known' <=> q \in known)
    BY <1>2 DEF Cleanup
  <2> QED
    BY <2>1, LevelUnchanged
<1> QED
  BY <1>1, <1>2

(* A tick fills every bucket by its rate. *)
LEMMA TickLevel ==
  ASSUME TypeOK, Tick
  PROVE  \A q \in IPs : Level(q)' = Least(Burst, Level(q) + Rate)
<1> SUFFICES ASSUME NEW q \in IPs PROVE Level(q)' = Least(Burst, Level(q) + Rate)
  OBVIOUS
<1>1. CASE q \in known
  <2> DEFINE age == now - bucket[q].lastTime
  <2>1. age \in Nat /\ Rate \in Nat /\ Burst \in Nat /\ Rate * age \in Nat
        /\ bucket[q].tokens \in 0..Burst
    BY BucketTyped
  <2>2. Rate * (age + 1) = Rate * age + Rate
    BY <2>1, ProductSucc
  <2>3. now' - bucket'[q].lastTime = age + 1 /\ bucket' = bucket /\ known' = known
    BY BucketTyped DEF Tick
  <2>4. Level(q)' = Least(Burst, bucket[q].tokens + Rate * (age + 1))
    BY <2>3, <1>1 DEF Level, Refill
  <2>5. Level(q) = Least(Burst, bucket[q].tokens + Rate * age)
    BY <1>1 DEF Level, Refill
  <2> HIDE DEF age
  <2> QED
    BY <2>1, <2>2, <2>4, <2>5 DEF Least
<1>2. CASE q \notin known
  BY <1>2, RateAssumption DEF Tick, Level, Least
<1> QED
  BY <1>1, <1>2

(* Looking changes no level. *)
LEMMA ObserveLevel ==
  ASSUME UNCHANGED <<now, known, bucket>>
  PROVE  \A q \in IPs : Level(q)' = Level(q)
BY DEF Level, Refill

-----------------------------------------------------------------------------
(* The types hold initially. *)
LEMMA TypeInit == Init => TypeOK
BY RateAssumption DEF Init, TypeOK, Blank

(* A history that goes on has its type. *)
LEMMA WindowTyped ==
  ASSUME TypeOK, NEW ip \in IPs
  PROVE  Counted(ip) \in [ip : IPs, since : 0..now, count : Nat]
BY DEF TypeOK, Counted

(* No step leaves the types. *)
LEMMA TypeStep ==
  ASSUME TypeOK, [Next]_vars
  PROVE  TypeOK'
<1> USE RateAssumption DEF TypeOK
<1>1. ASSUME NEW ip \in IPs, First(ip) PROVE TypeOK'
  <2>1. [tokens |-> Burst - Cost, lastTime |-> now] \in [tokens : 0..Burst, lastTime : 0..now]
    OBVIOUS
  <2>2. bucket' \in [IPs -> [tokens : 0..Burst, lastTime : 0..now]]
    BY <1>1, <2>1 DEF First
  <2>3. window' \in [ip : IPs, since : 0..now, count : Nat]
    BY <1>1, WindowTyped DEF First
  <2>4. answer' \in SUBSET (IPs \X {"admitted", "refused"}) /\ known' \in SUBSET IPs /\ now' = now
    BY <1>1 DEF First
  <2> QED
    BY <1>1, <2>2, <2>3, <2>4 DEF First
<1>2. ASSUME NEW ip \in IPs, Admit(ip) PROVE TypeOK'
  <2>1. Refill(ip) - Cost \in 0..Burst
    BY <1>2, LevelBounded DEF Admit
  <2>2. [tokens |-> Refill(ip) - Cost, lastTime |-> now] \in [tokens : 0..Burst, lastTime : 0..now]
    BY <2>1
  <2>3. bucket' \in [IPs -> [tokens : 0..Burst, lastTime : 0..now]]
    BY <1>2, <2>2 DEF Admit
  <2>4. window' \in [ip : IPs, since : 0..now, count : Nat]
    BY <1>2, WindowTyped DEF Admit
  <2>5. answer' \in SUBSET (IPs \X {"admitted", "refused"}) /\ known' \in SUBSET IPs /\ now' = now
    BY <1>2 DEF Admit
  <2> QED
    BY <1>2, <2>3, <2>4, <2>5 DEF Admit
<1>3. ASSUME NEW ip \in IPs, Refuse(ip) PROVE TypeOK'
  <2>1. Refill(ip) \in 0..Burst
    BY LevelBounded
  <2>2. [tokens |-> Refill(ip), lastTime |-> now] \in [tokens : 0..Burst, lastTime : 0..now]
    BY <2>1
  <2>3. bucket' \in [IPs -> [tokens : 0..Burst, lastTime : 0..now]]
    BY <1>3, <2>2 DEF Refuse, RefuseWith
  <2>4. answer' \in SUBSET (IPs \X {"admitted", "refused"}) /\ known' \in SUBSET IPs /\ now' = now
    BY <1>3 DEF Refuse, RefuseWith
  <2> QED
    BY <1>3, <2>3, <2>4 DEF Refuse, RefuseWith
<1>4. CASE Cleanup
  BY <1>4 DEF Cleanup, Blank
<1>5. CASE Tick
  <2>1. now' \in 0..MaxTime /\ 0..now \subseteq 0..now'
    BY <1>5 DEF Tick
  <2> QED
    BY <1>5, <2>1 DEF Tick
<1>6. CASE Observe
  BY <1>6 DEF Observe
<1>7. CASE UNCHANGED vars
  BY <1>7 DEF vars
<1> QED
  BY <1>1, <1>2, <1>3, <1>4, <1>5, <1>6, <1>7 DEF Next

(* The tokens of every bucket stay within 0 and the burst, and no bucket was
   looked at in the future: Allow's cap and its subtraction suffice. *)
THEOREM Typed == Spec => []TypeOK
<1>1. TypeOK /\ [Next]_vars => TypeOK'
  BY TypeStep
<1> QED
  BY TypeInit, <1>1, PTL DEF Spec

-----------------------------------------------------------------------------
(* What a client was admitted to since the history began, with what is left in
   its bucket, is at most a full bucket and what the time since has added. *)
Potential ==
  window.count * Cost + Level(window.ip) <= Burst + Rate * (now - window.since)

(* The types of the numbers in Potential. *)
LEMMA WindowFacts ==
  ASSUME TypeOK
  PROVE  /\ window.ip \in IPs /\ window.count \in Nat
         /\ now - window.since \in Nat
         /\ window.count * Cost \in Nat
         /\ Rate * (now - window.since) \in Nat
         /\ Level(window.ip) \in 0..Burst
         /\ Burst \in Nat /\ Rate \in Nat /\ Cost \in Nat
<1>1. /\ window.ip \in IPs /\ window.count \in Nat /\ window.since \in 0..now /\ now \in Nat
      /\ Burst \in Nat /\ Rate \in Nat /\ Cost \in Nat
  BY RateAssumption DEF TypeOK
<1>2. now - window.since \in Nat
  BY <1>1
<1> QED
  BY <1>1, <1>2, ProductNat, LevelBounded

(* What is left in a bucket is at least nothing. *)
LEMMA PotentialBounds ==
  ASSUME TypeOK, Potential
  PROVE  WindowBound
BY WindowFacts DEF Potential, WindowBound

(* No history has begun. *)
LEMMA PotentialInit ==
  ASSUME Init
  PROVE  Potential
<1>1. window.count = 0 /\ window.since = 0 /\ now = 0 /\ window.ip \notin known
  BY DEF Init
<1>2. window.count * Cost = 0 /\ Rate * (now - window.since) = 0
  BY <1>1, ProductZero, RateAssumption
<1>3. Level(window.ip) = Burst
  BY <1>1 DEF Level
<1> QED
  BY <1>2, <1>3, RateAssumption DEF Potential

(* An admitted request moves a token from the bucket to the history. *)
LEMMA PotentialAdmitted ==
  ASSUME TypeOK, Potential, NEW ip \in IPs, UNCHANGED now, window' = Counted(ip),
         \A q \in IPs : Level(q)' = IF q = ip THEN Level(q) - Cost ELSE Level(q)
  PROVE  Potential'
<1>1. window'.ip = window.ip /\ window'.since = window.since
  BY DEF TypeOK, Counted
<1>2. CASE window.ip = ip
  <2>1. window'.count = window.count + 1
    BY <1>2 DEF TypeOK, Counted
  <2>2. (window.count + 1) * Cost = window.count * Cost + Cost
    BY WindowFacts
  <2>3. Level(window.ip)' = Level(window.ip) - Cost
    <3>1. Level(ip)' = Level(ip) - Cost
      OBVIOUS
    <3>2. Level(window.ip)' = Level(ip)'
      BY <1>1, <1>2 DEF Level, Refill
    <3> QED
      BY <3>1, <3>2, <1>2
  <2> QED
    BY <1>1, <2>1, <2>2, <2>3, WindowFacts DEF Potential
<1>3. CASE window.ip # ip
  <2>1. window'.count = window.count
    BY <1>3 DEF TypeOK, Counted
  <2>2. Level(window.ip)' = Level(window.ip)
    <3> DEFINE w == window.ip
    <3>1. w \in IPs
      BY WindowFacts
    <3> QED
      BY <3>1, <1>1, <1>3 DEF Level, Refill
  <2> QED
    BY <1>1, <2>1, <2>2 DEF Potential
<1> QED
  BY <1>2, <1>3

(* Where levels stay, so does the potential. *)
LEMMA PotentialStill ==
  ASSUME TypeOK, Potential, UNCHANGED <<now, window>>,
         \A q \in IPs : Level(q)' = Level(q)
  PROVE  Potential'
<1>1. Level(window.ip)' = Level(window.ip)
  BY WindowFacts DEF Level, Refill
<1> QED
  BY <1>1 DEF Potential

(* A tick adds to the bucket at most what it adds to the bound. *)
LEMMA PotentialTick ==
  ASSUME TypeOK, Potential, Tick
  PROVE  Potential'
<1> DEFINE age == now - window.since
<1>1. Level(window.ip)' = Least(Burst, Level(window.ip) + Rate)
  <2>1. window' = window /\ window.ip \in IPs
    BY WindowFacts DEF Tick
  <2> QED
    BY <2>1, TickLevel DEF Level, Refill
<1>2. Rate * (age + 1) = Rate * age + Rate /\ Rate * age \in Nat
  BY WindowFacts, ProductSucc
<1>3. now' - window'.since = age + 1 /\ window' = window
  BY WindowFacts DEF Tick, TypeOK
<1>4. window.count * Cost + Level(window.ip) <= Burst + Rate * age
  BY DEF Potential
<1>5. Potential' <=> window.count * Cost + Level(window.ip)' <= Burst + Rate * (age + 1)
  BY <1>3 DEF Potential
<1> HIDE DEF age
<1> QED
  BY <1>1, <1>2, <1>4, <1>5, WindowFacts DEF Least

(* A history begins with at most a burst. *)
LEMMA PotentialObserve ==
  ASSUME TypeOK, Observe
  PROVE  Potential'
<1>1. /\ window'.ip \in IPs /\ window'.since = now /\ window'.count = 0
      /\ now' = now /\ now \in Nat
  BY DEF Observe, TypeOK
<1>2. Level(window.ip)' \in 0..Burst
  <2> DEFINE w == window'.ip
  <2>1. Level(w) \in 0..Burst
    BY <1>1, LevelBounded
  <2>2. Level(window.ip)' = Level(w)
    BY DEF Level, Refill, Observe
  <2> QED
    BY <2>1, <2>2
<1>3. window'.count * Cost = 0 /\ Rate * (now' - window'.since) = 0
  BY <1>1, ProductZero, RateAssumption
<1> QED
  BY <1>2, <1>3, RateAssumption DEF Potential

(* No step takes the potential above its bound. *)
LEMMA PotentialStep ==
  ASSUME TypeOK, Potential, [Next]_vars
  PROVE  Potential'
<1>1. ASSUME NEW ip \in IPs, First(ip) PROVE Potential'
  BY <1>1, FirstLevel, PotentialAdmitted DEF First
<1>2. ASSUME NEW ip \in IPs, Admit(ip) PROVE Potential'
  BY <1>2, AdmitLevel, PotentialAdmitted DEF Admit
<1>3. ASSUME NEW ip \in IPs, Refuse(ip) PROVE Potential'
  BY <1>3, RefuseLevel, PotentialStill DEF Refuse, RefuseWith
<1>4. CASE Cleanup
  BY <1>4, CleanupLevel, PotentialStill DEF Cleanup
<1>5. CASE Tick
  BY <1>5, PotentialTick
<1>6. CASE Observe
  BY <1>6, PotentialObserve
<1>7. CASE UNCHANGED vars
  BY <1>7, ObserveLevel, PotentialStill DEF vars
<1> QED
  BY <1>1, <1>2, <1>3, <1>4, <1>5, <1>6, <1>7 DEF Next

(* Whatever interval is looked at, a client is admitted at most as often as a
   full bucket and the tokens of the interval allow: the full bucket that
   Allow gives to a client the clean-up has dropped is none too many. *)
THEOREM Bounded == Spec => []WindowBound
<1>1. Init => TypeOK /\ Potential
  BY TypeInit, PotentialInit
<1>2. TypeOK /\ Potential /\ [Next]_vars => TypeOK' /\ Potential'
  BY TypeStep, PotentialStep
<1>3. TypeOK /\ Potential => WindowBound
  BY PotentialBounds
<1> QED
  BY <1>1, <1>2, <1>3, PTL DEF Spec

-----------------------------------------------------------------------------
(* The ideal buckets begin full, as clients that are not known have them. *)
LEMMA IdealInit ==
  ASSUME Init
  PROVE  Ideal!Init
BY DEF Init, Ideal!Init, Level

(* An admitted request takes a token of the ideal bucket. *)
LEMMA IdealAdmitted ==
  ASSUME TypeOK, NEW ip \in IPs, Level(ip) >= Cost, answer' = {<<ip, "admitted">>},
         \A q \in IPs : Level(q)' = IF q = ip THEN Level(q) - Cost ELSE Level(q)
  PROVE  Ideal!Request(ip)
<1> DEFINE L == [q \in IPs |-> Level(q)]
<1>1. L' = [L EXCEPT ![ip] = L[ip] - Cost]
  OBVIOUS
<1> QED
  BY <1>1 DEF Ideal!Request

(* Each step of the limiter is one of the ideal buckets, or none. *)
LEMMA IdealStep ==
  ASSUME TypeOK, [Next]_vars
  PROVE  [Ideal!Next]_(Ideal!vars)
<1>1. ASSUME NEW ip \in IPs, First(ip) PROVE Ideal!Request(ip)
  <2>1. Level(ip) >= Cost
    BY <1>1, FirstLevel, RateAssumption
  <2> QED
    BY <1>1, <2>1, FirstLevel, IdealAdmitted DEF First
<1>2. ASSUME NEW ip \in IPs, Admit(ip) PROVE Ideal!Request(ip)
  BY <1>2, AdmitLevel, IdealAdmitted DEF Admit
<1>3. ASSUME NEW ip \in IPs, Refuse(ip) PROVE Ideal!Request(ip)
  <2>1. Level(ip) < Cost /\ \A q \in IPs : Level(q)' = Level(q)
    BY <1>3, RefuseLevel
  <2>2. ~ (Level(ip) >= Cost)
    BY <2>1, LevelBounded, RateAssumption
  <2>3. answer' = {<<ip, "refused">>}
    BY <1>3 DEF Refuse, RefuseWith
  <2> QED
    BY <2>1, <2>2, <2>3 DEF Ideal!Request
<1>4. ASSUME Tick PROVE Ideal!Tick
  <2>1. \A q \in IPs : Level(q)' = Least(Burst, Level(q) + Rate)
    BY <1>4, TickLevel
  <2> QED
    BY <1>4, <2>1 DEF Tick, Ideal!Tick, Ideal!Least, Least
<1>5. ASSUME Cleanup PROVE UNCHANGED Ideal!vars
  BY <1>5, CleanupLevel DEF Cleanup, Ideal!vars
<1>6. ASSUME Observe \/ UNCHANGED vars PROVE UNCHANGED Ideal!vars
  BY <1>6, ObserveLevel DEF Observe, vars, Ideal!vars
<1> QED
  BY <1>1, <1>2, <1>3, <1>4, <1>5, <1>6 DEF Next, Ideal!Next

(* The limiter cannot be told from buckets that fill by themselves and are
   never dropped: the lazy refill, the refill a refusal stores and the
   clean-up of ten minutes are all invisible in the answers. *)
THEOREM Implements == Spec => ImplementsTokenBucket
<1>1. Init => Ideal!Init
  BY IdealInit
<1>2. TypeOK /\ [Next]_vars => [Ideal!Next]_(Ideal!vars)
  BY IdealStep
<1> QED
  BY <1>1, <1>2, Typed, PTL DEF Spec, ImplementsTokenBucket, Ideal!Spec
=============================================================================
