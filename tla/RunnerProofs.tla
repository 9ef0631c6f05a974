---------------------------- MODULE RunnerProofs ----------------------------
(***************************************************************************)
(* Theorems about Runner.tla, for any jobs, any runners and any number of  *)
(* crashes, stops and unreadable snapshots.                                *)
(***************************************************************************)
EXTENDS Runner, SequenceTheorems, TLAPS

-----------------------------------------------------------------------------
(* The inductive invariant, part by part.                                  *)

(* At most one message is unacknowledged, and while the connection lives it is
   the one in the channel or the one some runner holds, so that no two runners
   ever hold one. *)
WindowInv ==
  /\ Len(unacked) <= 1 /\ Len(inbox) <= 1
  /\ \A r, s \in Runners : Holding(r) /\ Holding(s) => r = s
  /\ \A r \in Runners : Holding(r) => inbox = <<>>
  /\ connected /\ inbox # <<>> => unacked = inbox
  /\ \A r \in Runners : connected /\ Holding(r) => unacked = <<runner[r].job>>
  /\ ~connected => unacked = <<>>

(* What is so in a process that does not serve, and in one that shuts down. *)
ProcessInv ==
  /\ connected => proc \in {"starting", "serving"}
  /\ ~Up => /\ inbox = <<>> /\ unacked = <<>> /\ begun = {} /\ final = "no"
            /\ \A r \in Runners : runner[r].at = "gone"
  /\ proc = "down" => mem = NoJobs
  /\ final # "no" => \A r \in Runners : runner[r].at = "gone"

(* Messages, executions and statuses come from submissions. *)
Published == {j \in Jobs : submit[j] = "published"}

SubmitInv ==
  /\ Range(queue) \subseteq Published /\ Range(unacked) \subseteq Published
  /\ Range(inbox) \subseteq Published
  /\ begun \subseteq {j \in Published : mem[j] # "absent"}
  /\ \A r \in Runners : Holding(r) => runner[r].job \in Published
  /\ \A j \in Jobs : mem[j] # "absent" \/ disk[j] # "absent" => submit[j] # "none"

(* A job has at most one message, and none on the way to a process that has
   executed it. *)
OnceInv ==
  /\ IsInjective(queue)
  /\ Range(unacked) \intersect Range(queue) = {}
  /\ connected => begun \intersect Range(queue) = {}
  /\ begun \intersect Range(inbox) = {}

(* What the place of a runner says of its job. *)
StageInv ==
  \A r \in Runners :
    /\ runner[r].at \in {"started", "doomed", "running"} => mem[runner[r].job] # "absent"
    /\ runner[r].at = "saving" => mem[runner[r].job] \in Terminal
    /\ runner[r].at = "acking" =>
         \/ mem[runner[r].job] = "absent"
         \/ runner[r].job \in excused
         \/ mem[runner[r].job] \in Terminal /\ disk[runner[r].job] \in Terminal

(* A job that memory shows active is being executed. *)
ActiveInv ==
  \A j \in Jobs : mem[j] = "active" =>
    \E r \in Runners : runner[r].at = "running" /\ runner[r].job = j

(* What store.json says, memory has taken over, or an execution is at it. *)
DiskInv ==
  /\ SnapshotHoldsNoActiveJob
  /\ counts.loadErrors = 0 /\ proc # "down" =>
       \A j \in Jobs :
         /\ disk[j] # "absent" => mem[j] # "absent"
         /\ disk[j] \in Terminal => mem[j] \in Terminal \union {"active"}

(* PendingHasMessage in every state of the process and for both copies of a
   status, without the runner that holds the job: its message is still there. *)
PendingInv ==
  counts.loadErrors = 0 =>
    \A j \in Published \ excused :
      mem[j] = "pending" \/ disk[j] = "pending" => InBroker(j)

(* All of them. *)
IndInv == /\ TypeOK /\ WindowInv /\ ProcessInv /\ SubmitInv /\ OnceInv
          /\ StageInv /\ ActiveInv /\ DiskInv /\ PendingInv
-----------------------------------------------------------------------------
(* Sequences of messages.                                                  *)

(* Sending adds a job to the range of a queue. *)
LEMMA RangeAppend ==
  ASSUME NEW S, NEW q \in Seq(S), NEW j \in S
  PROVE  Append(q, j) \in Seq(S) /\ Range(Append(q, j)) = Range(q) \union {j}
<1>1. /\ Append(q, j) \in Seq(S) /\ Len(Append(q, j)) = Len(q) + 1
      /\ Append(q, j)[Len(q) + 1] = j
      /\ \A i \in 1..Len(q) : Append(q, j)[i] = q[i]
  BY AppendProperties
<1>2. /\ DOMAIN q = 1..Len(q) /\ Len(q) \in Nat
      /\ DOMAIN Append(q, j) = 1..(Len(q) + 1)
  BY <1>1, LenProperties
<1>3. 1..(Len(q) + 1) = 1..Len(q) \union {Len(q) + 1}
  BY <1>2
<1>4. ASSUME NEW i \in 1..(Len(q) + 1) PROVE Append(q, j)[i] \in Range(q) \union {j}
  BY <1>1, <1>2, <1>3 DEF Range
<1>5. ASSUME NEW i \in 1..Len(q) PROVE q[i] \in Range(Append(q, j))
  BY <1>1, <1>2, <1>3 DEF Range
<1>6. j \in Range(Append(q, j))
  <2>1. Len(q) + 1 \in DOMAIN Append(q, j)
    BY <1>2
  <2>2. QED
    BY <2>1, <1>1 DEF Range
<1>7. Range(Append(q, j)) \subseteq Range(q) \union {j}
  BY <1>2, <1>4 DEF Range
<1>8. Range(q) \subseteq Range(Append(q, j))
  BY <1>2, <1>5 DEF Range
<1>9. QED
  BY <1>1, <1>6, <1>7, <1>8

(* Receiving takes the head out of the range; the rest keeps its order. *)
LEMMA RangeTail ==
  ASSUME NEW S, NEW q \in Seq(S), q # <<>>
  PROVE  /\ Tail(q) \in Seq(S) /\ Head(q) \in S
         /\ Range(q) = {Head(q)} \union Range(Tail(q))
<1>1. /\ Tail(q) \in Seq(S) /\ Head(q) \in S /\ Head(q) = q[1]
      /\ Len(Tail(q)) = Len(q) - 1 /\ Len(q) \in Nat /\ Len(q) > 0
      /\ \A i \in 1..Len(Tail(q)) : Tail(q)[i] = q[i + 1]
  BY HeadTailProperties, LenProperties, EmptySeq
<1>2. DOMAIN q = 1..Len(q) /\ DOMAIN Tail(q) = 1..(Len(q) - 1)
  BY <1>1, LenProperties
<1>3. ASSUME NEW i \in 1..Len(q) PROVE q[i] \in {Head(q)} \union Range(Tail(q))
  <2>1. CASE i = 1
    BY <2>1, <1>1
  <2>2. CASE i # 1
    <3>1. i - 1 \in DOMAIN Tail(q) /\ q[i] = Tail(q)[i - 1]
      BY <2>2, <1>1, <1>2
    <3>2. QED
      BY <3>1 DEF Range
  <2>3. QED
    BY <2>1, <2>2
<1>4. ASSUME NEW i \in DOMAIN Tail(q) PROVE Tail(q)[i] \in Range(q)
  <2>1. i + 1 \in DOMAIN q /\ Tail(q)[i] = q[i + 1]
    BY <1>1, <1>2
  <2>2. QED
    BY <2>1 DEF Range
<1>5. Head(q) \in Range(q)
  <2>1. 1 \in DOMAIN q
    BY <1>1, <1>2
  <2>2. QED
    BY <2>1, <1>1 DEF Range
<1>6. Range(q) \subseteq {Head(q)} \union Range(Tail(q))
  BY <1>3, <1>2 DEF Range
<1>7. Range(Tail(q)) \subseteq Range(q)
  BY <1>4 DEF Range
<1>8. QED
  BY <1>1, <1>5, <1>6, <1>7

(* A sequence of at most one message is empty or its head. *)
LEMMA OneElement ==
  ASSUME NEW S, NEW q \in Seq(S), Len(q) <= 1, q # <<>>
  PROVE  Head(q) \in S /\ Tail(q) = <<>> /\ q = <<Head(q)>> /\ Range(q) = {Head(q)}
<1>1. Len(q) \in Nat \ {0}
  BY EmptySeq
<1>2. Len(q) = 1
  BY <1>1
<1>3. Tail(q) \in Seq(S) /\ Head(q) \in S /\ Len(Tail(q)) = Len(q) - 1
  BY HeadTailProperties
<1>4. Tail(q) = <<>>
  <2>1. Len(Tail(q)) = 0
    BY <1>2, <1>3
  <2>2. QED
    BY <2>1, <1>3, EmptySeq
<1>5. <<Head(q)>> \in Seq(S) /\ Len(<<Head(q)>>) = 1 /\ <<Head(q)>>[1] = q[1]
  BY <1>2, <1>3
<1>6. q = <<Head(q)>>
  BY <1>2, <1>5, SeqEqual
<1>7. Range(<<>>) = {}
  BY DEF Range
<1>8. QED
  BY <1>3, <1>4, <1>6, <1>7, RangeTail

(* Acknowledging the only message leaves none. *)
LEMMA RemoveOnly ==
  ASSUME NEW j, NEW k \in {i \in DOMAIN <<j>> : <<j>>[i] = j}
  PROVE  RemoveAt(<<j>>, k) = <<>>
<1>1. k = 1 /\ Len(<<j>>) = 1
  OBVIOUS
<1>2. SubSeq(<<j>>, 1, 0) = <<>>
  OBVIOUS
<1>3. SubSeq(<<j>>, 2, 1) = <<>>
  OBVIOUS
<1>4. QED
  BY <1>1, <1>2, <1>3 DEF RemoveAt

(* Requeueing keeps every message. *)
LEMMA RangeConcat ==
  ASSUME NEW S, NEW p \in Seq(S), NEW q \in Seq(S)
  PROVE  p \o q \in Seq(S) /\ Range(p \o q) = Range(p) \union Range(q)
<1>1. p \o q \in Seq(S)
  BY ConcatProperties
<1>2. QED
  BY <1>1, RangeConcatenation

(* A message that no queue holds can be sent without a second copy. *)
LEMMA InjectiveAppend ==
  ASSUME NEW S, NEW q \in Seq(S), NEW j \in S, IsInjective(q), j \notin Range(q)
  PROVE  IsInjective(Append(q, j))
<1>1. /\ Append(q, j) \in Seq(S) /\ Len(Append(q, j)) = Len(q) + 1
      /\ Append(q, j)[Len(q) + 1] = j
      /\ \A i \in 1..Len(q) : Append(q, j)[i] = q[i]
  BY AppendProperties
<1>2. /\ DOMAIN q = 1..Len(q) /\ Len(q) \in Nat
      /\ DOMAIN Append(q, j) = 1..(Len(q) + 1)
  BY <1>1, LenProperties
<1>3. \A i \in 1..Len(q) : q[i] # j
  BY <1>2 DEF Range
<1>4. SUFFICES ASSUME NEW a \in 1..(Len(q) + 1), NEW b \in 1..(Len(q) + 1),
                      Append(q, j)[a] = Append(q, j)[b]
               PROVE  a = b
  BY <1>2, Zenon DEF IsInjective
<1>5. \A i \in 1..(Len(q) + 1) : i = Len(q) + 1 \/ i \in 1..Len(q)
  BY <1>2
<1>6. CASE a \in 1..Len(q) /\ b \in 1..Len(q)
  BY <1>1, <1>2, <1>4, <1>6 DEF IsInjective
<1>7. QED
  BY <1>1, <1>3, <1>4, <1>5, <1>6

(* The head of a queue is not in the rest of it, which has no copies either. *)
LEMMA InjectiveTail ==
  ASSUME NEW S, NEW q \in Seq(S), q # <<>>, IsInjective(q)
  PROVE  IsInjective(Tail(q)) /\ Head(q) \notin Range(Tail(q))
<1>1. /\ Tail(q) \in Seq(S) /\ Head(q) = q[1]
      /\ Len(Tail(q)) = Len(q) - 1 /\ Len(q) \in Nat /\ Len(q) > 0
      /\ \A i \in 1..Len(Tail(q)) : Tail(q)[i] = q[i + 1]
  BY HeadTailProperties, LenProperties, EmptySeq
<1>2. DOMAIN q = 1..Len(q) /\ DOMAIN Tail(q) = 1..(Len(q) - 1)
  BY <1>1, LenProperties
<1>3. \A i \in DOMAIN Tail(q) : i + 1 \in DOMAIN q /\ Tail(q)[i] = q[i + 1] /\ i + 1 # 1
  BY <1>1, <1>2
<1>4. ASSUME NEW i \in DOMAIN Tail(q) PROVE Tail(q)[i] # Head(q)
  <2>1. 1 \in DOMAIN q
    BY <1>1, <1>2
  <2>2. QED
    BY <2>1, <1>1, <1>3 DEF IsInjective
<1>5. ASSUME NEW a \in DOMAIN Tail(q), NEW b \in DOMAIN Tail(q), Tail(q)[a] = Tail(q)[b]
      PROVE  a = b
  <2>1. a + 1 = b + 1
    BY <1>3, <1>5 DEF IsInjective
  <2>2. a \in Int /\ b \in Int
    BY <1>2
  <2>3. QED
    BY <2>1, <2>2
<1>6. QED
  BY <1>4, <1>5 DEF IsInjective, Range

(* Requeueing a message of which the queue has no copy makes none. *)
LEMMA InjectiveConcat ==
  ASSUME NEW S, NEW p \in Seq(S), Len(p) <= 1, NEW q \in Seq(S), IsInjective(q),
         Range(p) \intersect Range(q) = {}
  PROVE  IsInjective(p \o q)
<1>1. /\ p \o q \in Seq(S) /\ Len(p \o q) = Len(p) + Len(q)
      /\ \A i \in 1..Len(p \o q) :
           (p \o q)[i] = IF i <= Len(p) THEN p[i] ELSE q[i - Len(p)]
  BY ConcatProperties
<1>2. /\ DOMAIN p = 1..Len(p) /\ Len(p) \in Nat
      /\ DOMAIN q = 1..Len(q) /\ Len(q) \in Nat
      /\ DOMAIN (p \o q) = 1..(Len(p) + Len(q))
  BY <1>1, LenProperties
<1>3. SUFFICES ASSUME NEW a \in 1..(Len(p) + Len(q)), NEW b \in 1..(Len(p) + Len(q)),
                      (p \o q)[a] = (p \o q)[b]
               PROVE  a = b
  BY <1>2, Zenon DEF IsInjective
<1>4. \A i \in 1..Len(p), k \in 1..Len(q) : p[i] # q[k]
  BY <1>2 DEF Range
<1>5. \A i, k \in 1..Len(q) : q[i] = q[k] => i = k
  BY <1>2 DEF IsInjective
<1>6. CASE a <= Len(p) /\ b <= Len(p)
  BY <1>2, <1>6
<1>7. CASE a > Len(p) /\ b > Len(p)
  <2>1. a - Len(p) \in 1..Len(q) /\ b - Len(p) \in 1..Len(q)
    BY <1>2, <1>7
  <2>2. (p \o q)[a] = q[a - Len(p)] /\ (p \o q)[b] = q[b - Len(p)]
    BY <1>1, <1>2, <1>7
  <2>3. a - Len(p) = b - Len(p)
    BY <2>1, <2>2, <1>3, <1>5
  <2>4. QED
    BY <2>3, <1>2
<1>8. CASE a <= Len(p) /\ b > Len(p)
  <2>1. (p \o q)[a] = p[a] /\ (p \o q)[b] = q[b - Len(p)]
    BY <1>1, <1>2, <1>8
  <2>2. a \in 1..Len(p) /\ b - Len(p) \in 1..Len(q)
    BY <1>2, <1>8
  <2>3. QED
    BY <2>1, <2>2, <1>3, <1>4
<1>9. CASE a > Len(p) /\ b <= Len(p)
  <2>1. (p \o q)[b] = p[b] /\ (p \o q)[a] = q[a - Len(p)]
    BY <1>1, <1>2, <1>9
  <2>2. b \in 1..Len(p) /\ a - Len(p) \in 1..Len(q)
    BY <1>2, <1>9
  <2>3. QED
    BY <2>1, <2>2, <1>3, <1>4
<1>10. QED
  BY <1>2, <1>6, <1>7, <1>8, <1>9
-----------------------------------------------------------------------------
(* The invariant holds at the start, and every action keeps it.            *)

(* Before anything has started. *)
LEMMA InitInv == Init => IndInv
<1> SUFFICES ASSUME Init PROVE IndInv
  OBVIOUS
<1>1. /\ <<>> \in Seq(Jobs) /\ Len(<<>>) = 0 /\ Range(<<>>) = {} /\ IsInjective(<<>>)
  BY DEF Range, IsInjective
<1>2. TypeOK
  <2>1. runner \in [Runners -> [at : {"idle", "started", "running", "doomed", "saving",
                                      "acking", "gone"}, job : Jobs]]
    BY JobsAssumption DEF Init, AllAt
  <2>2. mem \in [Jobs -> Statuses] /\ disk \in [Jobs -> Statuses]
    BY DEF Init, NoJobs, Statuses
  <2>3. counts \in [crashes : 0..MaxCrashes, terms : 0..MaxTerms,
                    brokerStops : 0..MaxBrokerStops, loadErrors : 0..MaxLoadErrors]
    BY BoundsAssumption DEF Init
  <2>4. QED
    BY <1>1, <2>1, <2>2, <2>3 DEF Init, TypeOK
<1>3. \A r \in Runners : runner[r].at = "gone"
  BY DEF Init, AllAt
<1>4. WindowInv /\ ProcessInv
  BY <1>1, <1>3 DEF Init, WindowInv, ProcessInv, Holding, Up
<1>5. SubmitInv /\ OnceInv
  BY <1>1, <1>3 DEF Init, SubmitInv, OnceInv, Holding, Published, NoJobs
<1>6. StageInv /\ ActiveInv /\ DiskInv /\ PendingInv
  <2>1. \A j \in Jobs : mem[j] = "absent" /\ disk[j] = "absent"
    BY DEF Init, NoJobs
  <2>2. Published = {}
    BY DEF Init, Published
  <2>3. QED
    BY <1>3, <2>1, <2>2 DEF StageInv, ActiveInv, DiskInv, PendingInv,
                            SnapshotHoldsNoActiveJob, Terminal
<1>7. QED
  BY <1>2, <1>4, <1>5, <1>6 DEF IndInv

(* A new job has no message, no runner and no snapshot. *)
LEMMA CreateInv == ASSUME IndInv, NEW j \in Jobs, Create(j) PROVE IndInv'
<1> USE DEF Create, CreateAs, process, store, broker
<1>1. TypeOK'
  BY DEF IndInv, TypeOK, Statuses
<1>2. mem' = [mem EXCEPT ![j] = "pending"] /\ mem[j] = "absent" /\ disk[j] = "absent"
  BY DEF IndInv, SubmitInv
<1>3. Published' = Published /\ j \notin Published
  BY DEF IndInv, TypeOK, Published
<1>4. WindowInv'
  BY DEF IndInv, WindowInv, Holding
<1>5. ProcessInv'
  BY DEF IndInv, ProcessInv, Up
<1>6. SubmitInv'
  BY <1>2, <1>3 DEF IndInv, TypeOK, SubmitInv, Holding
<1>7. OnceInv'
  BY DEF IndInv, OnceInv
<1>8. StageInv'
  <2>1. \A r \in Runners : Holding(r) => runner[r].job # j /\ runner[r].job \in Jobs
    BY <1>3 DEF IndInv, TypeOK, SubmitInv, Published
  <2>2. \A r \in Runners : Holding(r) => mem'[runner[r].job] = mem[runner[r].job]
    BY <1>2, <2>1 DEF IndInv, TypeOK
  <2> QED
    BY <2>2 DEF IndInv, StageInv, Holding
<1>9. ActiveInv'
  BY <1>2 DEF IndInv, TypeOK, ActiveInv
<1>10. DiskInv'
  BY <1>2 DEF IndInv, TypeOK, DiskInv, SnapshotHoldsNoActiveJob, Terminal
<1>11. PendingInv'
  BY <1>2, <1>3 DEF IndInv, TypeOK, PendingInv, InBroker
<1>12. QED
  BY <1>1, <1>4, <1>5, <1>6, <1>7, <1>8, <1>9, <1>10, <1>11 DEF IndInv

(* The first message of a job is its only one. *)
LEMMA PublishInv == ASSUME IndInv, NEW j \in Jobs, Publish(j) PROVE IndInv'
<1> USE DEF Publish, process, store, broker
<1>1. /\ Append(queue, j) \in Seq(Jobs)
      /\ Range(Append(queue, j)) = Range(queue) \union {j}
  BY RangeAppend DEF IndInv, TypeOK
<1>2. Published' = Published \union {j} /\ j \notin Published
  BY DEF IndInv, TypeOK, Published
<1>3. TypeOK'
  BY <1>1 DEF IndInv, TypeOK
<1>4. WindowInv'
  BY DEF IndInv, WindowInv, Holding
<1>5. ProcessInv'
  BY DEF IndInv, ProcessInv, Up
<1>6. SubmitInv'
  BY <1>1, <1>2 DEF IndInv, TypeOK, SubmitInv, Holding
<1>7. OnceInv'
  <2>1. IsInjective(Append(queue, j))
    BY <1>2, InjectiveAppend DEF IndInv, TypeOK, OnceInv, SubmitInv
  <2>2. QED
    BY <1>1, <1>2, <2>1 DEF IndInv, OnceInv, SubmitInv
<1>8. StageInv' /\ ActiveInv' /\ DiskInv'
  BY DEF IndInv, StageInv, ActiveInv, DiskInv, SnapshotHoldsNoActiveJob
<1>9. PendingInv'
  BY <1>1, <1>2 DEF IndInv, PendingInv, InBroker
<1>10. QED
  BY <1>3, <1>4, <1>5, <1>6, <1>7, <1>8, <1>9 DEF IndInv

(* The window is open: nothing else is on the way, and no runner holds a job. *)
LEMMA DeliverInv == ASSUME IndInv, Deliver PROVE IndInv'
<1> USE DEF Deliver, WindowOpen, process, store
<1>1. /\ Tail(queue) \in Seq(Jobs) /\ Head(queue) \in Jobs
      /\ Range(queue) = {Head(queue)} \union Range(Tail(queue))
      /\ IsInjective(Tail(queue)) /\ Head(queue) \notin Range(Tail(queue))
  BY RangeTail, InjectiveTail DEF IndInv, TypeOK, OnceInv
<1>2. inbox = <<>> /\ \A r \in Runners : ~Holding(r)
  BY DEF IndInv, WindowInv
<1>3. unacked' = <<Head(queue)>> /\ inbox' = <<Head(queue)>>
  BY <1>2
<1>4. /\ <<Head(queue)>> \in Seq(Jobs) /\ Len(<<Head(queue)>>) = 1
      /\ Range(<<Head(queue)>>) = {Head(queue)}
  BY <1>1 DEF Range
<1>5. TypeOK'
  BY <1>1, <1>3, <1>4 DEF IndInv, TypeOK
<1>6. WindowInv'
  BY <1>2, <1>3, <1>4 DEF IndInv, WindowInv, Holding
<1>7. ProcessInv'
  BY DEF IndInv, ProcessInv, Up
<1>8. Published' = Published
  BY DEF Published
<1>9. SubmitInv'
  BY <1>1, <1>3, <1>4, <1>8 DEF IndInv, SubmitInv, Holding
<1>10. OnceInv'
  BY <1>1, <1>3, <1>4 DEF IndInv, OnceInv
<1>11. StageInv' /\ ActiveInv' /\ DiskInv'
  BY DEF IndInv, StageInv, ActiveInv, DiskInv, SnapshotHoldsNoActiveJob
<1>12. PendingInv'
  <2>1. Range(unacked) = {}
    BY DEF Range
  <2>2. \A j \in Jobs : InBroker(j) => InBroker(j)'
    BY <1>1, <1>3, <1>4, <2>1 DEF InBroker
  <2>3. QED
    BY <1>8, <2>2 DEF IndInv, PendingInv, Published
<1>13. QED
  BY <1>5, <1>6, <1>7, <1>9, <1>10, <1>11, <1>12 DEF IndInv

(* The one message in the channel goes to one runner, who holds a job that the
   process has not executed. *)
LEMMA TakeInv ==
  ASSUME IndInv, NEW r \in Runners, Take(r)
  PROVE  /\ IndInv'
         /\ runner'[r].at \in {"started", "doomed"} => runner'[r].job \notin begun
<1> USE DEF process, broker
<1> DEFINE j == Head(inbox)
<1>1. j \in Jobs /\ Tail(inbox) = <<>> /\ inbox = <<j>> /\ Range(inbox) = {j}
  BY OneElement DEF IndInv, TypeOK, WindowInv, Take
<1>2. PICK p \in {"acking", "doomed", "started"} :
        /\ runner' = [runner EXCEPT ![r] = [at |-> p, job |-> j]]
        /\ mem[j] = "absent" <=> p = "acking"
        /\ begun' = IF p = "acking" THEN begun ELSE begun \union {j}
  BY DEF Take
<1>3. Up /\ runner[r].at = "idle" /\ inbox' = <<>>
  BY <1>1 DEF Take
<1>4. UNCHANGED <<process, mem, disk, submit, brokerUp, queue, unacked, counts, excused>>
  BY DEF Take
<1> HIDE DEF j
<1>5. \A s \in Runners : ~Holding(s)
  BY <1>1 DEF IndInv, WindowInv
<1>6. /\ runner'[r].at = p /\ runner'[r].job = j
      /\ \A s \in Runners \ {r} : runner'[s] = runner[s]
  BY <1>2 DEF IndInv, TypeOK
<1>7. /\ \A s \in Runners : Holding(s)' => s = r
      /\ <<>> \in Seq(Jobs) /\ Len(<<>>) = 0 /\ Range(<<>>) = {}
  BY <1>5, <1>6 DEF Holding, Range
<1>8. TypeOK'
  BY <1>1, <1>2, <1>3, <1>4, <1>7 DEF IndInv, TypeOK
<1>9. WindowInv'
  BY <1>1, <1>3, <1>4, <1>6, <1>7 DEF IndInv, WindowInv
<1>10. ProcessInv'
  BY <1>3, <1>4, <1>6 DEF IndInv, ProcessInv, Up
<1>11. Published' = Published
  BY <1>4 DEF Published
<1>12. SubmitInv'
  BY <1>1, <1>2, <1>3, <1>4, <1>6, <1>7, <1>11 DEF IndInv, SubmitInv
<1>13. connected => j \notin Range(queue)
  BY <1>1 DEF IndInv, WindowInv, OnceInv
<1>14. OnceInv'
  BY <1>2, <1>3, <1>4, <1>7, <1>13 DEF IndInv, OnceInv
<1>15. StageInv'
  BY <1>2, <1>4, <1>6 DEF IndInv, StageInv
<1>16. ActiveInv'
  BY <1>3, <1>4, <1>6 DEF IndInv, ActiveInv
<1>17. DiskInv' /\ PendingInv'
  BY <1>4, <1>11 DEF IndInv, DiskInv, SnapshotHoldsNoActiveJob, PendingInv, InBroker
<1>18. IndInv'
  BY <1>8, <1>9, <1>10, <1>12, <1>14, <1>15, <1>16, <1>17 DEF IndInv
<1>19. QED
  BY <1>1, <1>6, <1>18 DEF IndInv, OnceInv
(* The end of a context changes the place of some runners, and no job. *)
LEMMA DoomedRunners ==
  ASSUME IndInv, NEW rs, runner' = Doomed(rs)
  PROVE  /\ runner' \in [Runners -> [at : {"idle", "started", "running", "doomed", "saving",
                                           "acking", "gone"}, job : Jobs]]
         /\ \A r \in Runners :
              /\ runner'[r].job = runner[r].job
              /\ \/ runner'[r].at = runner[r].at
                 \/ runner[r].at = "started" /\ runner'[r].at = "doomed"
         /\ \A r \in Runners : Holding(r)' <=> Holding(r)
<1>1. ASSUME NEW r \in Runners
      PROVE  /\ runner'[r] \in [at : {"idle", "started", "running", "doomed", "saving",
                                      "acking", "gone"}, job : Jobs]
             /\ runner'[r].job = runner[r].job
             /\ \/ runner'[r].at = runner[r].at
                \/ runner[r].at = "started" /\ runner'[r].at = "doomed"
  BY DEF IndInv, TypeOK, Doomed
<1>2. runner' = [r \in Runners |-> runner'[r]]
  BY DEF Doomed
<1>3. QED
  BY <1>1, <1>2 DEF Holding

(* The timeout of a job dooms one execution. *)
LEMMA DoomInv == ASSUME IndInv, NEW r \in Runners, Doom(r) PROVE IndInv'
<1> USE DEF process, store, broker
<1>1. runner' = Doomed({r})
  BY DEF Doom
<1>2. UNCHANGED <<process, store, submit, broker, counts, excused>>
  BY DEF Doom
<1>3. TypeOK'
  BY <1>1, <1>2, DoomedRunners DEF IndInv, TypeOK
<1>4. WindowInv'
  BY <1>1, <1>2, DoomedRunners DEF IndInv, WindowInv
<1>5. ProcessInv'
  BY <1>1, <1>2, DoomedRunners DEF IndInv, ProcessInv, Up
<1>6. SubmitInv' /\ OnceInv'
  BY <1>1, <1>2, DoomedRunners DEF IndInv, SubmitInv, OnceInv, Published
<1>7. StageInv'
  BY <1>1, <1>2, DoomedRunners DEF IndInv, StageInv
<1>8. ActiveInv'
  <2>1. \A s \in Runners :
          /\ runner'[s].job = runner[s].job
          /\ runner[s].at = "running" => runner'[s].at = "running"
    BY <1>1, DoomedRunners
  <2>2. mem' = mem
    BY <1>2
  <2>3. QED
    BY <2>1, <2>2 DEF IndInv, ActiveInv
<1>9. DiskInv' /\ PendingInv'
  BY <1>2 DEF IndInv, DiskInv, SnapshotHoldsNoActiveJob, PendingInv, Published, InBroker
<1>10. QED
  BY <1>3, <1>4, <1>5, <1>6, <1>7, <1>8, <1>9 DEF IndInv

(* The user's cancel writes a terminal status over a job this process knows. *)
LEMMA CancelInv == ASSUME IndInv, NEW j \in Jobs, Cancel(j) PROVE IndInv'
<1> USE DEF process, broker
<1>1. PICK rs : runner' = Doomed(rs)
  BY DEF Cancel
<1>2. /\ UNCHANGED <<process, begun, disk, submit, broker, counts, excused>>
      /\ mem' = [mem EXCEPT ![j] = "cancelled"] /\ j \in begun /\ Up
  BY DEF Cancel
<1>3. TypeOK'
  BY <1>1, <1>2, DoomedRunners DEF IndInv, TypeOK, Statuses, Terminal
<1>4. WindowInv' /\ ProcessInv'
  BY <1>1, <1>2, DoomedRunners DEF IndInv, WindowInv, ProcessInv, Up
<1>5. SubmitInv' /\ OnceInv'
  BY <1>1, <1>2, DoomedRunners DEF IndInv, TypeOK, SubmitInv, OnceInv, Published
<1>6. /\ mem'[j] = "cancelled" /\ mem[j] # "absent"
      /\ \A k \in Jobs \ {j} : mem'[k] = mem[k]
  BY <1>2 DEF IndInv, TypeOK, SubmitInv
<1>7. StageInv'
  BY <1>1, <1>2, <1>6, DoomedRunners DEF IndInv, TypeOK, StageInv, Terminal
<1>8. ActiveInv'
  BY <1>1, <1>6, DoomedRunners DEF IndInv, ActiveInv
<1>9. DiskInv' /\ PendingInv'
  BY <1>2, <1>6 DEF IndInv, DiskInv, SnapshotHoldsNoActiveJob, PendingInv, Published,
                    InBroker, Terminal
<1>10. QED
  BY <1>3, <1>4, <1>5, <1>7, <1>8, <1>9 DEF IndInv

(* SIGTERM dooms executions; the flag it sets is in no part of the invariant. *)
LEMMA TermInv == ASSUME IndInv, Term PROVE IndInv'
<1> USE DEF process, store, broker
<1>1. PICK rs : runner' = Doomed(rs)
  BY DEF Term
<1>2. /\ UNCHANGED <<proc, connected, final, store, submit, broker, excused>>
      /\ stopping' = TRUE /\ counts' = [counts EXCEPT !.terms = @ + 1]
      /\ counts.terms < MaxTerms
  BY DEF Term
<1>3. counts' \in [crashes : 0..MaxCrashes, terms : 0..MaxTerms,
                   brokerStops : 0..MaxBrokerStops, loadErrors : 0..MaxLoadErrors]
      /\ counts'.loadErrors = counts.loadErrors
  <2>1. counts.terms \in Nat /\ counts.terms + 1 \in 0..MaxTerms
    BY <1>2, BoundsAssumption DEF IndInv, TypeOK
  <2>2. QED
    BY <1>2, <2>1 DEF IndInv, TypeOK
<1>4. TypeOK'
  BY <1>1, <1>2, <1>3, DoomedRunners DEF IndInv, TypeOK
<1>5. WindowInv'
  BY <1>1, <1>2, DoomedRunners DEF IndInv, WindowInv
<1>6. ProcessInv'
  BY <1>1, <1>2, DoomedRunners DEF IndInv, ProcessInv, Up
<1>7. SubmitInv' /\ OnceInv'
  BY <1>1, <1>2, DoomedRunners DEF IndInv, SubmitInv, OnceInv, Published
<1>8. StageInv'
  BY <1>1, <1>2, DoomedRunners DEF IndInv, StageInv
<1>9. ActiveInv'
  BY <1>1, <1>2, DoomedRunners DEF IndInv, ActiveInv
<1>10. DiskInv' /\ PendingInv'
  BY <1>2, <1>3 DEF IndInv, DiskInv, SnapshotHoldsNoActiveJob, PendingInv, Published,
                    InBroker
<1>11. QED
  BY <1>4, <1>5, <1>6, <1>7, <1>8, <1>9, <1>10 DEF IndInv

(* A runner that moves on with the job it holds, or without one, disturbs no
   message. *)
LEMMA RunnerMoves ==
  ASSUME IndInv, NEW r \in Runners,
         NEW place \in {"idle", "running", "saving", "acking", "gone"},
         runner' = [runner EXCEPT ![r].at = place]
  PROVE  /\ runner' \in [Runners -> [at : {"idle", "started", "running", "doomed", "saving",
                                           "acking", "gone"}, job : Jobs]]
         /\ runner'[r].at = place
         /\ \A s \in Runners : runner'[s].job = runner[s].job
         /\ \A s \in Runners \ {r} : runner'[s] = runner[s]
         /\ \A s \in Runners \ {r} : Holding(s)' <=> Holding(s)
         /\ Holding(r)' <=> place \notin {"idle", "gone"}
         /\ Holding(r) => \A s \in Runners \ {r} : ~Holding(s)
  BY DEF IndInv, TypeOK, WindowInv, Holding

(* The execution makes its job active. *)
LEMMA ProgressInv == ASSUME IndInv, NEW r \in Runners, Progress(r) PROVE IndInv'
<1> USE DEF process, broker
<1> DEFINE j == runner[r].job
<1>1. /\ runner' = [runner EXCEPT ![r].at = "running"]
      /\ mem' = [mem EXCEPT ![j] = "active"]
      /\ UNCHANGED <<process, begun, disk, submit, broker, counts, excused>>
      /\ Up /\ Holding(r) /\ mem[j] # "absent" /\ j \in Jobs
  BY DEF Progress, Holding, IndInv, StageInv, TypeOK
<1> HIDE DEF j
<1>2. /\ runner'[r].at = "running"
      /\ \A s \in Runners : runner'[s].job = runner[s].job
      /\ \A s \in Runners \ {r} : runner'[s] = runner[s]
      /\ \A s \in Runners : Holding(s)' <=> s = r
      /\ runner'[r].job = j
  BY <1>1, RunnerMoves DEF j
<1>3. TypeOK'
  BY <1>1, RunnerMoves DEF IndInv, TypeOK, Statuses
<1>4. WindowInv' /\ ProcessInv'
  <2>1. WindowInv'
    BY <1>1, <1>2 DEF IndInv, WindowInv
  <2>2. ProcessInv'
    BY <1>1, <1>2 DEF IndInv, ProcessInv, Up, Holding
  <2>3. QED
    BY <2>1, <2>2
<1>5. SubmitInv' /\ OnceInv'
  BY <1>1, <1>2 DEF IndInv, TypeOK, SubmitInv, OnceInv, Published
<1>6. mem'[j] = "active" /\ \A k \in Jobs \ {j} : mem'[k] = mem[k]
  BY <1>1 DEF IndInv, TypeOK
<1>7. StageInv'
  BY <1>1, <1>2, <1>6 DEF IndInv, TypeOK, StageInv, Holding
<1>8. ActiveInv'
  BY <1>1, <1>2, <1>6 DEF IndInv, ActiveInv, Holding
<1>9. DiskInv' /\ PendingInv'
  BY <1>1, <1>6 DEF IndInv, DiskInv, SnapshotHoldsNoActiveJob, PendingInv, Published,
                    InBroker
<1>10. QED
  BY <1>3, <1>4, <1>5, <1>7, <1>8, <1>9 DEF IndInv

(* The end of an execution: its job is not active any more. *)
LEMMA FinishInv == ASSUME IndInv, NEW r \in Runners, Finish(r) PROVE IndInv'
<1> USE DEF process, broker
<1> DEFINE j == runner[r].job
<1>1. PICK t \in Terminal : mem' = [mem EXCEPT ![j] = t]
  BY DEF Finish
<1>2. /\ runner' = [runner EXCEPT ![r].at = "saving"]
      /\ UNCHANGED <<process, begun, disk, submit, broker, counts, excused>>
      /\ Up
  BY DEF Finish
<1>3. runner[r].at \in {"started", "doomed", "running"}
  BY DEF Finish, Splits
<1>4. Holding(r) /\ mem[j] # "absent" /\ j \in Jobs
  BY <1>3 DEF Holding, IndInv, StageInv, TypeOK
<1> HIDE DEF j
<1>5. /\ runner'[r].at = "saving"
      /\ \A s \in Runners : runner'[s].job = runner[s].job
      /\ \A s \in Runners \ {r} : runner'[s] = runner[s]
      /\ \A s \in Runners : Holding(s)' <=> s = r
      /\ \A s \in Runners \ {r} : ~Holding(s)
      /\ runner'[r].job = j
  BY <1>2, <1>4, RunnerMoves DEF j
<1>6. TypeOK'
  BY <1>1, <1>2, RunnerMoves DEF IndInv, TypeOK, Statuses
<1>7. WindowInv' /\ ProcessInv'
  <2>1. WindowInv'
    BY <1>2, <1>4, <1>5 DEF IndInv, WindowInv
  <2>2. ProcessInv'
    BY <1>2, <1>4, <1>5 DEF IndInv, ProcessInv, Up, Holding
  <2>3. QED
    BY <2>1, <2>2
<1>8. mem'[j] = t /\ t # "absent" /\ \A k \in Jobs \ {j} : mem'[k] = mem[k]
  BY <1>1, <1>4 DEF IndInv, TypeOK, Terminal
<1>9. SubmitInv' /\ OnceInv'
  <2>1. SubmitInv'
    BY <1>2, <1>4, <1>5, <1>8 DEF IndInv, TypeOK, SubmitInv, Published
  <2>2. OnceInv'
    BY <1>2 DEF IndInv, OnceInv
  <2>3. QED
    BY <2>1, <2>2
<1>10. StageInv'
  BY <1>2, <1>5, <1>8 DEF IndInv, TypeOK, StageInv, Holding
<1>11. ActiveInv'
  <2>1. ASSUME NEW k \in Jobs, mem'[k] = "active" PROVE FALSE
    <3>1. k # j /\ mem[k] = "active"
      BY <2>1, <1>8 DEF Terminal
    <3>2. PICK s \in Runners : runner[s].at = "running" /\ runner[s].job = k
      BY <3>1 DEF IndInv, ActiveInv
    <3>3. s = r
      BY <3>2, <1>5 DEF Holding
    <3>4. QED
      BY <3>1, <3>2, <3>3 DEF j
  <2>2. QED
    BY <2>1 DEF ActiveInv
<1>12. DiskInv' /\ PendingInv'
  BY <1>2, <1>4, <1>8 DEF IndInv, DiskInv, SnapshotHoldsNoActiveJob, PendingInv, Published,
                          InBroker, Terminal
<1>13. QED
  BY <1>6, <1>7, <1>9, <1>10, <1>11, <1>12 DEF IndInv

(* A job found cancelled is excused from being saved. *)
LEMMA FinishUnsavedInv ==
  ASSUME IndInv, NEW r \in Runners, FinishUnsaved(r) PROVE IndInv'
<1> USE DEF process, store, broker
<1> DEFINE j == runner[r].job
<1>1. /\ runner' = [runner EXCEPT ![r].at = "acking"]
      /\ excused' = excused \union {j} /\ mem[j] = "cancelled"
      /\ UNCHANGED <<process, store, submit, broker, counts>>
      /\ Up /\ Holding(r) /\ j \in Jobs
  BY DEF FinishUnsaved, Splits, Holding, IndInv, TypeOK
<1> HIDE DEF j
<1>2. /\ runner'[r].at = "acking"
      /\ \A s \in Runners : runner'[s].job = runner[s].job
      /\ \A s \in Runners \ {r} : runner'[s] = runner[s]
      /\ \A s \in Runners : Holding(s)' <=> s = r
      /\ runner'[r].job = j
  BY <1>1, RunnerMoves DEF j
<1>3. TypeOK'
  BY <1>1, RunnerMoves DEF IndInv, TypeOK
<1>4. WindowInv' /\ ProcessInv'
  <2>1. WindowInv'
    BY <1>1, <1>2 DEF IndInv, WindowInv
  <2>2. ProcessInv'
    BY <1>1, <1>2 DEF IndInv, ProcessInv, Up, Holding
  <2>3. QED
    BY <2>1, <2>2
<1>5. SubmitInv' /\ OnceInv'
  BY <1>1, <1>2 DEF IndInv, SubmitInv, OnceInv, Published
<1>6. StageInv'
  BY <1>1, <1>2 DEF IndInv, StageInv
<1>7. ActiveInv'
  <2>1. ASSUME NEW k \in Jobs, mem[k] = "active"
        PROVE  \E s \in Runners \ {r} : runner[s].at = "running" /\ runner[s].job = k
    BY <2>1, <1>1 DEF IndInv, ActiveInv, j
  <2>2. QED
    BY <1>1, <1>2, <2>1 DEF ActiveInv
<1>8. DiskInv' /\ PendingInv'
  BY <1>1 DEF IndInv, DiskInv, SnapshotHoldsNoActiveJob, PendingInv, Published, InBroker
<1>9. QED
  BY <1>3, <1>4, <1>5, <1>6, <1>7, <1>8 DEF IndInv
(* The snapshot is taken while its runner is the only one that holds a job, and
   that job has ended: no job in memory is active. *)
LEMMA SaveInv ==
  ASSUME IndInv, NEW r \in Runners, Save(r)
  PROVE  /\ IndInv'
         /\ counts.loadErrors = 0 =>
              \A k \in Jobs : disk[k] \in Terminal => disk'[k] \in Terminal
<1> USE DEF process, broker
<1> DEFINE j == runner[r].job
<1>1. /\ runner' = [runner EXCEPT ![r].at = "acking"]
      /\ UNCHANGED <<process, mem, begun, submit, broker, counts>>
      /\ Up /\ runner[r].at = "saving" /\ Holding(r) /\ j \in Jobs
  BY DEF Save, Holding, IndInv, TypeOK
<1>2. \/ disk' = mem /\ excused' = excused
      \/ disk' = disk /\ excused' = excused \union {j}
  BY DEF Save
<1>3. mem[j] \in Terminal
  BY <1>1 DEF IndInv, StageInv
<1> HIDE DEF j
<1>4. /\ runner'[r].at = "acking"
      /\ \A s \in Runners : runner'[s].job = runner[s].job
      /\ \A s \in Runners \ {r} : runner'[s] = runner[s]
      /\ \A s \in Runners : Holding(s)' <=> s = r
      /\ \A s \in Runners \ {r} : ~Holding(s)
      /\ runner'[r].job = j
  BY <1>1, RunnerMoves DEF j
<1>5. \A k \in Jobs : mem[k] # "active"
  BY <1>1, <1>4 DEF IndInv, ActiveInv, Holding
<1>6. TypeOK'
  BY <1>1, <1>2, RunnerMoves DEF IndInv, TypeOK
<1>7. WindowInv'
  BY <1>1, <1>4 DEF IndInv, WindowInv
<1>8. ProcessInv'
  BY <1>1, <1>4 DEF IndInv, ProcessInv, Up, Holding
<1>9. SubmitInv' /\ OnceInv'
  BY <1>1, <1>2, <1>4 DEF IndInv, SubmitInv, OnceInv, Published
<1>10. StageInv'
  BY <1>1, <1>2, <1>3, <1>4 DEF IndInv, StageInv, Holding
<1>11. ActiveInv'
  BY <1>1, <1>5 DEF ActiveInv
<1>12. DiskInv'
  BY <1>1, <1>2, <1>5 DEF IndInv, DiskInv, SnapshotHoldsNoActiveJob
<1>13. PendingInv'
  BY <1>1, <1>2 DEF IndInv, PendingInv, Published, InBroker
<1>14. counts.loadErrors = 0 =>
         \A k \in Jobs : disk[k] \in Terminal => disk'[k] \in Terminal
  BY <1>1, <1>2, <1>5 DEF IndInv, DiskInv, Up
<1>15. QED
  BY <1>6, <1>7, <1>8, <1>9, <1>10, <1>11, <1>12, <1>13, <1>14 DEF IndInv

(* A message is removed only when its job needs it no more: it has ended in
   memory and on the disk, or nobody knows it, or its saving failed. *)
LEMMA AckInv == ASSUME IndInv, NEW r \in Runners, Ack(r) PROVE IndInv'
<1> USE DEF process, store
<1> DEFINE j == runner[r].job
<1>1. /\ runner' = [runner EXCEPT ![r].at = "idle"]
      /\ UNCHANGED <<process, store, submit, brokerUp, queue, inbox, counts, excused>>
      /\ Up /\ runner[r].at = "acking" /\ Holding(r) /\ j \in Jobs
  BY DEF Ack, AckOf, Holding, IndInv, TypeOK
<1>2. unacked' = <<>> /\ inbox = <<>> /\ (connected => unacked = <<j>>)
  <2>1. CASE connected
    <3>1. unacked = <<j>> /\ inbox = <<>>
      BY <2>1, <1>1 DEF IndInv, WindowInv
    <3>2. 1 \in {k \in DOMAIN <<j>> : <<j>>[k] = j}
      OBVIOUS
    <3>3. \E k \in {i \in DOMAIN <<j>> : <<j>>[i] = j} : unacked' = RemoveAt(<<j>>, k)
      BY <2>1, <3>1, <3>2 DEF Ack, AckOf
    <3>4. unacked' = <<>>
      BY <3>3, RemoveOnly
    <3>5. QED
      BY <3>1, <3>4
  <2>2. CASE ~connected
    BY <2>2, <1>1 DEF Ack, AckOf, IndInv, WindowInv
  <2>3. QED
    BY <2>1, <2>2
<1>3. mem[j] = "absent" \/ j \in excused \/ (mem[j] \in Terminal /\ disk[j] \in Terminal)
  BY <1>1 DEF IndInv, StageInv
<1> HIDE DEF j
<1>4. /\ runner'[r].at = "idle"
      /\ \A s \in Runners : runner'[s].job = runner[s].job
      /\ \A s \in Runners \ {r} : runner'[s] = runner[s]
      /\ \A s \in Runners : ~Holding(s)'
  BY <1>1, RunnerMoves
<1>5. <<>> \in Seq(Jobs) /\ Len(<<>>) = 0 /\ Range(<<>>) = {}
  BY DEF Range
<1>6. TypeOK'
  BY <1>1, <1>2, <1>5, RunnerMoves DEF IndInv, TypeOK
<1>7. WindowInv'
  BY <1>1, <1>2, <1>4, <1>5 DEF IndInv, WindowInv
<1>8. ProcessInv'
  BY <1>1, <1>2, <1>4 DEF IndInv, ProcessInv, Up, Holding
<1>9. SubmitInv' /\ OnceInv'
  BY <1>1, <1>2, <1>4, <1>5 DEF IndInv, SubmitInv, OnceInv, Published
<1>10. StageInv'
  BY <1>1, <1>4 DEF IndInv, StageInv
<1>11. ActiveInv'
  BY <1>1, <1>4 DEF IndInv, ActiveInv
<1>12. DiskInv'
  BY <1>1 DEF IndInv, DiskInv, SnapshotHoldsNoActiveJob
<1>13. PendingInv'
  <2>1. SUFFICES ASSUME counts.loadErrors = 0, NEW k \in Published \ excused,
                        mem[k] = "pending" \/ disk[k] = "pending"
                 PROVE  InBroker(k)'
    BY <1>1 DEF PendingInv, Published
  <2>2. InBroker(k) /\ k \in Jobs
    BY <2>1 DEF IndInv, PendingInv, Published
  <2>3. k # j
    BY <2>1, <1>1, <1>3 DEF IndInv, DiskInv, Up, Terminal
  <2>4. k \in Range(queue)
    <3>1. CASE connected
      <4>1. Range(<<j>>) = {j}
        BY DEF Range
      <4>2. QED
        BY <3>1, <4>1, <1>2, <2>2, <2>3 DEF InBroker
    <3>2. CASE ~connected
      BY <3>2, <1>5, <2>2 DEF InBroker, IndInv, WindowInv
    <3>3. QED
      BY <3>1, <3>2
  <2>5. QED
    BY <1>1, <2>4 DEF InBroker
<1>14. QED
  BY <1>6, <1>7, <1>8, <1>9, <1>10, <1>11, <1>12, <1>13 DEF IndInv

(* A runner that leaves holds nothing. *)
LEMMA LeaveInv == ASSUME IndInv, NEW r \in Runners, Leave(r) PROVE IndInv'
<1> USE DEF process, store, broker
<1>1. /\ runner' = [runner EXCEPT ![r].at = "gone"]
      /\ UNCHANGED <<process, store, submit, broker, counts, excused>>
      /\ Up /\ runner[r].at = "idle" /\ ~Holding(r)
  BY DEF Leave, Holding
<1>2. /\ runner'[r].at = "gone"
      /\ \A s \in Runners : runner'[s].job = runner[s].job
      /\ \A s \in Runners \ {r} : runner'[s] = runner[s]
      /\ \A s \in Runners : Holding(s)' <=> Holding(s)
  BY <1>1, RunnerMoves
<1>3. TypeOK'
  BY <1>1, RunnerMoves DEF IndInv, TypeOK
<1>4. WindowInv'
  BY <1>1, <1>2 DEF IndInv, WindowInv
<1>5. ProcessInv'
  BY <1>1, <1>2 DEF IndInv, ProcessInv, Up
<1>6. SubmitInv' /\ OnceInv'
  BY <1>1, <1>2 DEF IndInv, SubmitInv, OnceInv, Published
<1>7. StageInv'
  BY <1>1, <1>2 DEF IndInv, StageInv
<1>8. ActiveInv'
  <2>1. \A s \in Runners : runner[s].at = "running" => runner'[s].at = "running"
    BY <1>1, <1>2
  <2>2. QED
    BY <1>1, <1>2, <2>1 DEF IndInv, ActiveInv
<1>9. DiskInv' /\ PendingInv'
  BY <1>1 DEF IndInv, DiskInv, SnapshotHoldsNoActiveJob, PendingInv, Published, InBroker
<1>10. QED
  BY <1>3, <1>4, <1>5, <1>6, <1>7, <1>8, <1>9 DEF IndInv

(* Whatever was on the way is in the queue again, once. *)
LEMMA RequeuedMessages ==
  ASSUME IndInv
  PROVE  /\ Requeued \in Seq(Jobs) /\ IsInjective(Requeued)
         /\ Range(Requeued) = Range(unacked) \union Range(queue)
         /\ <<>> \in Seq(Jobs) /\ Len(<<>>) = 0 /\ Range(<<>>) = {}
<1>1. /\ unacked \in Seq(Jobs) /\ Len(unacked) <= 1 /\ queue \in Seq(Jobs)
      /\ IsInjective(queue) /\ Range(unacked) \intersect Range(queue) = {}
  BY DEF IndInv, TypeOK, WindowInv, OnceInv
<1>2. IsInjective(Requeued)
  BY <1>1, InjectiveConcat DEF Requeued
<1>3. Requeued \in Seq(Jobs) /\ Range(Requeued) = Range(unacked) \union Range(queue)
  BY <1>1, RangeConcat DEF Requeued
<1>4. <<>> \in Seq(Jobs) /\ Len(<<>>) = 0 /\ Range(<<>>) = {}
  BY DEF Range
<1>5. QED
  BY <1>2, <1>3, <1>4

(* A process that ends, however it ends, leaves the snapshot and the messages. *)
LEMMA ProcessEndsInv ==
  ASSUME IndInv, ProcessEnds, counts'.loadErrors = counts.loadErrors,
         counts' \in [crashes : 0..MaxCrashes, terms : 0..MaxTerms,
                      brokerStops : 0..MaxBrokerStops, loadErrors : 0..MaxLoadErrors]
  PROVE  IndInv'
<1>1. /\ proc' = "down" /\ stopping' = FALSE /\ connected' = FALSE /\ final' = "no"
      /\ mem' = NoJobs /\ begun' = {}
      /\ queue' = Requeued /\ unacked' = <<>> /\ inbox' = <<>>
      /\ runner' = AllAt("gone")
      /\ submit' = [j \in Jobs |-> IF submit[j] = "created" THEN "broken" ELSE submit[j]]
      /\ UNCHANGED <<disk, brokerUp, excused>>
  BY DEF ProcessEnds
<1>2. /\ \A r \in Runners : runner'[r].at = "gone" /\ ~Holding(r)'
      /\ runner' \in [Runners -> [at : {"idle", "started", "running", "doomed", "saving",
                                        "acking", "gone"}, job : Jobs]]
  BY <1>1, JobsAssumption DEF AllAt, Holding
<1>3. /\ Published' = Published
      /\ \A j \in Jobs : submit'[j] = "none" <=> submit[j] = "none"
      /\ submit' \in [Jobs -> {"none", "created", "published", "broken"}]
  BY <1>1 DEF IndInv, TypeOK, Published
<1>4. mem' \in [Jobs -> Statuses] /\ \A j \in Jobs : mem'[j] = "absent"
  BY <1>1 DEF NoJobs, Statuses
<1>5. TypeOK'
  BY <1>1, <1>2, <1>3, <1>4, RequeuedMessages DEF IndInv, TypeOK
<1>6. WindowInv'
  BY <1>1, <1>2, RequeuedMessages DEF IndInv, WindowInv
<1>7. ProcessInv'
  BY <1>1, <1>2 DEF ProcessInv, Up
<1>8. SubmitInv'
  BY <1>1, <1>2, <1>3, <1>4, RequeuedMessages DEF IndInv, SubmitInv
<1>9. OnceInv'
  BY <1>1, RequeuedMessages DEF OnceInv
<1>10. StageInv' /\ ActiveInv'
  BY <1>2, <1>4 DEF StageInv, ActiveInv
<1>11. DiskInv'
  BY <1>1 DEF IndInv, DiskInv, SnapshotHoldsNoActiveJob
<1>12. PendingInv'
  BY <1>1, <1>3, <1>4, RequeuedMessages
     DEF IndInv, PendingInv, InBroker, Published
<1>13. QED
  BY <1>5, <1>6, <1>7, <1>8, <1>9, <1>10, <1>11, <1>12 DEF IndInv

(* The ends a process meets by itself count no event. *)
LEMMA EndsInv ==
  ASSUME IndInv, ProcessEnds, UNCHANGED counts PROVE IndInv'
  BY ProcessEndsInv DEF IndInv, TypeOK

(* A crash is counted. *)
LEMMA CrashInv == ASSUME IndInv, Crash PROVE IndInv'
<1>1. counts.crashes \in Nat /\ counts.crashes + 1 \in 0..MaxCrashes
  BY BoundsAssumption DEF Crash, IndInv, TypeOK
<1>2. /\ counts'.loadErrors = counts.loadErrors
      /\ counts' \in [crashes : 0..MaxCrashes, terms : 0..MaxTerms,
                      brokerStops : 0..MaxBrokerStops, loadErrors : 0..MaxLoadErrors]
  BY <1>1 DEF Crash, IndInv, TypeOK
<1>3. QED
  BY <1>2, ProcessEndsInv DEF Crash
(* The shutdown takes its copy when every runner is gone. *)
LEMMA FinalCopyInv == ASSUME IndInv, FinalCopy PROVE IndInv'
<1> USE DEF FinalCopy, store, broker
<1>1. TypeOK'
  BY DEF IndInv, TypeOK
<1>2. WindowInv'
  BY DEF IndInv, WindowInv, Holding
<1>3. ProcessInv'
  BY DEF IndInv, ProcessInv, Up
<1>4. SubmitInv' /\ OnceInv'
  BY DEF IndInv, SubmitInv, OnceInv, Published, Holding
<1>5. StageInv' /\ ActiveInv'
  BY DEF IndInv, StageInv, ActiveInv
<1>6. DiskInv' /\ PendingInv'
  BY DEF IndInv, DiskInv, SnapshotHoldsNoActiveJob, PendingInv, Published, InBroker
<1>7. QED
  BY <1>1, <1>2, <1>3, <1>4, <1>5, <1>6 DEF IndInv

(* When the shutdown writes its snapshot no runner is left, so that no job in
   memory is active. *)
LEMMA FinalWriteInv ==
  ASSUME IndInv, FinalWrite
  PROVE  /\ IndInv'
         /\ counts.loadErrors = 0 =>
              \A k \in Jobs : disk[k] \in Terminal => disk'[k] \in Terminal
<1> USE DEF broker
<1>1. /\ UNCHANGED <<proc, stopping, connected, mem, begun, submit, broker, runner,
                     counts, excused>>
      /\ disk' = disk \/ disk' = mem
      /\ final' = "saved" /\ Up
      /\ \A r \in Runners : runner[r].at = "gone"
  BY DEF FinalWrite, IndInv, ProcessInv
<1>2. \A k \in Jobs : mem[k] # "active"
  BY <1>1 DEF IndInv, ActiveInv
<1>3. TypeOK'
  BY <1>1 DEF IndInv, TypeOK
<1>4. WindowInv'
  BY <1>1 DEF IndInv, WindowInv, Holding
<1>5. ProcessInv'
  BY <1>1 DEF IndInv, ProcessInv, Up
<1>6. SubmitInv' /\ OnceInv'
  BY <1>1 DEF IndInv, SubmitInv, OnceInv, Published, Holding
<1>7. StageInv' /\ ActiveInv'
  BY <1>1, <1>2 DEF StageInv, ActiveInv
<1>8. DiskInv'
  BY <1>1, <1>2 DEF IndInv, DiskInv, SnapshotHoldsNoActiveJob
<1>9. PendingInv'
  BY <1>1 DEF IndInv, PendingInv, Published, InBroker
<1>10. counts.loadErrors = 0 =>
         \A k \in Jobs : disk[k] \in Terminal => disk'[k] \in Terminal
  BY <1>1, <1>2 DEF IndInv, DiskInv, Up
<1>11. QED
  BY <1>3, <1>4, <1>5, <1>6, <1>7, <1>8, <1>9, <1>10 DEF IndInv

(* A started process has the statuses of the snapshot, or has counted an
   error. *)
LEMMA LoadInv ==
  ASSUME IndInv, NEW found \in {disk, NoJobs}, Load(found),
         \/ found = disk /\ counts' = counts
         \/ counts'.loadErrors # 0,
         counts' \in [crashes : 0..MaxCrashes, terms : 0..MaxTerms,
                      brokerStops : 0..MaxBrokerStops, loadErrors : 0..MaxLoadErrors]
  PROVE  IndInv'
<1> USE DEF broker
<1>1. /\ UNCHANGED <<stopping, connected, final, begun, disk, submit, broker, runner,
                     excused>>
      /\ proc = "down" /\ proc' = "connecting" /\ mem' = found
  BY DEF Load
<1>2. /\ inbox = <<>> /\ unacked = <<>> /\ begun = {} /\ final = "no" /\ ~connected
      /\ \A r \in Runners : runner[r].at = "gone"
  BY <1>1 DEF IndInv, ProcessInv, Up
<1>3. /\ mem' \in [Jobs -> Statuses]
      /\ \A j \in Jobs : mem'[j] # "active" /\ (mem'[j] = disk[j] \/ mem'[j] = "absent")
  BY <1>1 DEF IndInv, TypeOK, DiskInv, SnapshotHoldsNoActiveJob, NoJobs, Statuses
<1>4. TypeOK'
  BY <1>1, <1>3 DEF IndInv, TypeOK
<1>5. WindowInv'
  BY <1>1 DEF IndInv, WindowInv, Holding
<1>6. ProcessInv'
  BY <1>1, <1>2 DEF ProcessInv, Up
<1>7. SubmitInv' /\ OnceInv'
  BY <1>1, <1>2, <1>3 DEF IndInv, SubmitInv, OnceInv, Published, Holding
<1>8. StageInv' /\ ActiveInv'
  BY <1>1, <1>2, <1>3 DEF StageInv, ActiveInv
<1>9. DiskInv'
  BY <1>1 DEF IndInv, DiskInv, SnapshotHoldsNoActiveJob
<1>10. PendingInv'
  BY <1>1 DEF IndInv, PendingInv, Published, InBroker
<1>11. QED
  BY <1>4, <1>5, <1>6, <1>7, <1>8, <1>9, <1>10 DEF IndInv

(* NewStore finds the snapshot, or an error is counted. *)
LEMMA StartInv == ASSUME IndInv, Restart \/ LoadError PROVE IndInv'
<1>1. CASE Restart
  BY <1>1, LoadInv DEF Restart, IndInv, TypeOK
<1>2. CASE LoadError
  <2>1. counts.loadErrors \in Nat /\ counts.loadErrors + 1 \in 0..MaxLoadErrors
    BY <1>2, BoundsAssumption DEF LoadError, IndInv, TypeOK
  <2>2. counts' \in [crashes : 0..MaxCrashes, terms : 0..MaxTerms,
                     brokerStops : 0..MaxBrokerStops, loadErrors : 0..MaxLoadErrors]
    BY <1>2, <2>1 DEF LoadError, IndInv, TypeOK
  <2>3. counts'.loadErrors # 0
    BY <1>2, <2>1 DEF LoadError, IndInv, TypeOK
  <2>4. QED
    BY <1>2, <2>2, <2>3, LoadInv DEF LoadError
<1>3. QED
  BY <1>1, <1>2

(* A process that connects has executed nothing: nothing in the queue is
   known to it. *)
LEMMA ConnectInv == ASSUME IndInv, Connect PROVE IndInv'
<1> USE DEF Connect, store, broker
<1>1. /\ inbox = <<>> /\ unacked = <<>> /\ begun = {} /\ final = "no" /\ ~connected
      /\ \A r \in Runners : runner[r].at = "gone"
  BY DEF IndInv, ProcessInv, Up
<1>2. TypeOK'
  BY DEF IndInv, TypeOK
<1>3. WindowInv'
  BY <1>1 DEF IndInv, WindowInv, Holding
<1>4. ProcessInv'
  BY <1>1 DEF IndInv, ProcessInv, Up
<1>5. SubmitInv'
  BY DEF IndInv, SubmitInv, Published, Holding
<1>6. OnceInv'
  BY <1>1 DEF IndInv, OnceInv
<1>7. StageInv' /\ ActiveInv'
  BY DEF IndInv, StageInv, ActiveInv
<1>8. DiskInv' /\ PendingInv'
  BY DEF IndInv, DiskInv, SnapshotHoldsNoActiveJob, PendingInv, Published, InBroker
<1>9. QED
  BY <1>2, <1>3, <1>4, <1>5, <1>6, <1>7, <1>8 DEF IndInv

(* Runners start without a job. *)
LEMMA StartRunnersInv == ASSUME IndInv, StartRunners PROVE IndInv'
<1> USE DEF store, broker
<1>1. PICK place \in {"idle", "gone"} : runner' = AllAt(place)
  BY DEF StartRunners
<1>2. /\ UNCHANGED <<stopping, connected, final, store, submit, broker, counts, excused>>
      /\ proc = "starting" /\ proc' = "serving"
  BY DEF StartRunners
<1>3. /\ inbox = <<>> /\ unacked = <<>> /\ begun = {} /\ final = "no"
      /\ \A r \in Runners : runner[r].at = "gone"
  BY <1>2 DEF IndInv, ProcessInv, Up
<1>4. /\ \A r \in Runners : runner'[r].at = place /\ ~Holding(r)'
      /\ runner' \in [Runners -> [at : {"idle", "started", "running", "doomed", "saving",
                                        "acking", "gone"}, job : Jobs]]
  BY <1>1, JobsAssumption DEF AllAt, Holding
<1>5. TypeOK'
  BY <1>2, <1>4 DEF IndInv, TypeOK
<1>6. WindowInv'
  BY <1>2, <1>3, <1>4 DEF IndInv, WindowInv
<1>7. ProcessInv'
  BY <1>2, <1>3 DEF IndInv, ProcessInv, Up
<1>8. SubmitInv' /\ OnceInv'
  BY <1>2, <1>4 DEF IndInv, SubmitInv, OnceInv, Published
<1>9. StageInv'
  BY <1>4 DEF StageInv
<1>10. ActiveInv'
  BY <1>2, <1>3 DEF IndInv, ActiveInv
<1>11. DiskInv' /\ PendingInv'
  BY <1>2 DEF IndInv, DiskInv, SnapshotHoldsNoActiveJob, PendingInv, Published, InBroker
<1>12. QED
  BY <1>5, <1>6, <1>7, <1>8, <1>9, <1>10, <1>11 DEF IndInv

(* The broker stops: the message some runner holds is in the queue again, which
   this process never reads again; the one in the channel may still be read. *)
LEMMA BrokerStopInv == ASSUME IndInv, BrokerStop PROVE IndInv'
<1> USE DEF store
<1>1. /\ UNCHANGED <<proc, stopping, final, store, submit, runner, excused>>
      /\ brokerUp' = FALSE /\ connected' = FALSE /\ unacked' = <<>>
      /\ queue' = Requeued /\ inbox' \in {inbox, <<>>}
      /\ counts.brokerStops < MaxBrokerStops
      /\ counts' = [counts EXCEPT !.brokerStops = @ + 1]
  BY DEF BrokerStop, BrokerStopTo
<1>2. counts.brokerStops \in Nat /\ counts.brokerStops + 1 \in 0..MaxBrokerStops
  BY <1>1, BoundsAssumption DEF IndInv, TypeOK
<1>3. /\ counts' \in [crashes : 0..MaxCrashes, terms : 0..MaxTerms,
                      brokerStops : 0..MaxBrokerStops, loadErrors : 0..MaxLoadErrors]
      /\ counts'.loadErrors = counts.loadErrors
  BY <1>1, <1>2 DEF IndInv, TypeOK
<1>4. TypeOK'
  BY <1>1, <1>3, RequeuedMessages DEF IndInv, TypeOK
<1>5. WindowInv'
  BY <1>1, RequeuedMessages DEF IndInv, WindowInv, Holding
<1>6. ProcessInv'
  BY <1>1 DEF IndInv, ProcessInv, Up
<1>7. SubmitInv'
  BY <1>1, RequeuedMessages DEF IndInv, SubmitInv, Published, Holding
<1>8. OnceInv'
  BY <1>1, RequeuedMessages DEF IndInv, OnceInv
<1>9. StageInv' /\ ActiveInv'
  BY <1>1 DEF IndInv, StageInv, ActiveInv
<1>10. DiskInv'
  BY <1>1, <1>3 DEF IndInv, DiskInv, SnapshotHoldsNoActiveJob
<1>11. PendingInv'
  BY <1>1, <1>3, RequeuedMessages DEF IndInv, PendingInv, Published, InBroker
<1>12. QED
  BY <1>4, <1>5, <1>6, <1>7, <1>8, <1>10, <1>9, <1>11 DEF IndInv

(* A broker that starts again changes no message. *)
LEMMA BrokerStartInv == ASSUME IndInv, BrokerStart PROVE IndInv'
<1> USE DEF BrokerStart, process, store
<1>1. TypeOK'
  BY DEF IndInv, TypeOK
<1>2. WindowInv' /\ ProcessInv'
  BY DEF IndInv, WindowInv, ProcessInv, Holding, Up
<1>3. SubmitInv' /\ OnceInv'
  BY DEF IndInv, SubmitInv, OnceInv, Published, Holding
<1>4. StageInv' /\ ActiveInv'
  BY DEF IndInv, StageInv, ActiveInv
<1>5. DiskInv' /\ PendingInv'
  BY DEF IndInv, DiskInv, SnapshotHoldsNoActiveJob, PendingInv, Published, InBroker
<1>6. QED
  BY <1>1, <1>2, <1>3, <1>4, <1>5 DEF IndInv
-----------------------------------------------------------------------------
(* What follows.                                                           *)

(* One step of the center or of the broker. *)
LEMMA StepInv == IndInv /\ [Next]_vars => IndInv'
<1> SUFFICES ASSUME IndInv, [Next]_vars PROVE IndInv'
  OBVIOUS
<1>1. ASSUME NEW j \in Jobs, Create(j) \/ Publish(j) \/ Cancel(j) PROVE IndInv'
  BY <1>1, CreateInv, PublishInv, CancelInv
<1>2. CASE Deliver
  BY <1>2, DeliverInv
<1>3. ASSUME NEW r \in Runners, RunnerStep(r) PROVE IndInv'
  <2>1. CASE Execute(r)
    <3>1. CASE Panic(r)
      BY <3>1, EndsInv DEF Panic
    <3>2. QED
      BY <2>1, <3>1, DoomInv, ProgressInv, FinishInv, FinishUnsavedInv DEF Execute
  <2>2. QED
    BY <1>3, <2>1, TakeInv, SaveInv, AckInv, LeaveInv DEF RunnerStep
<1>4. CASE Boot
  <2>1. CASE GiveUp
    BY <2>1, EndsInv DEF GiveUp
  <2>2. QED
    BY <1>4, <2>1, StartInv, ConnectInv, StartRunnersInv DEF Boot
<1>5. CASE Stop
  <2>1. CASE FatalInsert \/ Exit
    BY <2>1, EndsInv DEF FatalInsert, Exit
  <2>2. QED
    BY <1>5, <2>1, CrashInv, TermInv, FinalCopyInv, FinalWriteInv DEF Stop
<1>6. CASE BrokerStop \/ BrokerStart
  BY <1>6, BrokerStopInv, BrokerStartInv
<1>7. CASE UNCHANGED vars
  <2>1. UNCHANGED <<proc, stopping, connected, final, mem, begun, disk, submit, brokerUp,
                    queue, unacked, inbox, runner, counts, excused>>
    BY <1>7 DEF vars, process, store, broker
  <2>2. TypeOK' /\ WindowInv' /\ ProcessInv'
    BY <2>1 DEF IndInv, TypeOK, WindowInv, ProcessInv, Holding, Up
  <2>3. SubmitInv' /\ OnceInv'
    BY <2>1 DEF IndInv, SubmitInv, OnceInv, Published, Holding
  <2>4. StageInv' /\ ActiveInv'
    BY <2>1 DEF IndInv, StageInv, ActiveInv
  <2>5. DiskInv' /\ PendingInv'
    BY <2>1 DEF IndInv, DiskInv, SnapshotHoldsNoActiveJob, PendingInv, Published, InBroker
  <2>6. QED
    BY <2>2, <2>3, <2>4, <2>5 DEF IndInv
<1>8. QED
  BY <1>1, <1>2, <1>3, <1>4, <1>5, <1>6, <1>7 DEF Next

(* The inductive invariant holds in every reachable state. *)
THEOREM Invariant == Spec => []IndInv
<1>1. QED
  BY InitInv, StepInv, PTL DEF Spec

(* Every variable has its type. *)
THEOREM Typed == Spec => []TypeOK
<1>1. IndInv => TypeOK
  BY DEF IndInv
<1>2. QED
  BY <1>1, Invariant, PTL

(* The window of one message keeps any two runners from executing the same
   job, through crashes, redeliveries and lost connections. *)
THEOREM Exclusive == Spec => []NoDoubleExecution
<1>1. IndInv => NoDoubleExecution
  BY DEF IndInv, WindowInv, NoDoubleExecution
<1>2. QED
  BY <1>1, Invariant, PTL

(* No snapshot, of a runner or of the shutdown, holds a job that is being
   executed. *)
THEOREM SnapshotsAreAtRest == Spec => []SnapshotHoldsNoActiveJob
<1>1. IndInv => SnapshotHoldsNoActiveJob
  BY DEF IndInv, DiskInv
<1>2. QED
  BY <1>1, Invariant, PTL

(* A published job that is shown pending has its message in the broker, unless
   its publishing or saving failed or the snapshot could not be read. *)
THEOREM PendingJobsHaveMessages == Spec => []PendingHasMessage
<1>1. IndInv => PendingHasMessage
  BY DEF IndInv, PendingInv, PendingHasMessage, Published
<1>2. QED
  BY <1>1, Invariant, PTL

(* A process executes a job at most once, whatever is delivered again. *)
THEOREM ExecutedOnce == Spec => ExecutedOncePerProcess
<1>1. ASSUME IndInv, [Next]_vars, NEW r \in Runners, runner[r].at = "idle",
             runner'[r].at \in {"started", "doomed"}
      PROVE  runner'[r].job \notin begun
  <2>1. ASSUME NEW s \in Runners, Take(s) PROVE runner'[r].job \notin begun
    <3>1. CASE s = r
      BY <2>1, <3>1, <1>1, TakeInv
    <3>2. CASE s # r
      BY <2>1, <3>2, <1>1 DEF Take, IndInv, TypeOK
    <3>3. QED
      BY <3>1, <3>2
  <2>2. ASSUME NEW rs, runner' = Doomed(rs) PROVE FALSE
    BY <2>2, <1>1, DoomedRunners
  <2>3. ASSUME NEW s \in Runners,
               NEW place \in {"idle", "running", "saving", "acking", "gone"},
               runner' = [runner EXCEPT ![s].at = place]
        PROVE  FALSE
    BY <2>3, <1>1 DEF IndInv, TypeOK
  <2>4. ASSUME NEW place \in {"idle", "gone"}, runner' = AllAt(place) PROVE FALSE
    BY <2>4, <1>1 DEF AllAt
  <2>5. runner' # runner
    BY <1>1
  <2>6. ASSUME NEW j \in Jobs, Create(j) \/ Publish(j) \/ Cancel(j) PROVE FALSE
    BY <2>6, <2>2, <2>5 DEF Create, CreateAs, Publish, Cancel
  <2>7. ASSUME NEW s \in Runners, RunnerStep(s), ~Take(s) PROVE FALSE
    <3>1. CASE Panic(s)
      BY <3>1, <2>4 DEF Panic, ProcessEnds
    <3>2. CASE Doom(s) \/ Progress(s) \/ Finish(s) \/ FinishUnsaved(s)
      BY <3>2, <2>2, <2>3 DEF Doom, Progress, Finish, FinishUnsaved
    <3>3. CASE Save(s) \/ Ack(s) \/ Leave(s)
      BY <3>3, <2>3 DEF Save, Ack, AckOf, Leave
    <3>4. QED
      BY <2>7, <3>1, <3>2, <3>3 DEF RunnerStep, Execute
  <2>8. CASE Boot
    BY <2>8, <2>4, <2>5 DEF Boot, Restart, LoadError, Load, Connect, GiveUp, StartRunners,
                            ProcessEnds
  <2>9. CASE Stop
    BY <2>9, <2>2, <2>4, <2>5 DEF Stop, Crash, Term, FinalCopy, FinalWrite, FatalInsert, Exit,
                                  ProcessEnds
  <2>10. CASE Deliver \/ BrokerStop \/ BrokerStart \/ UNCHANGED vars
    BY <2>10, <2>5 DEF Deliver, BrokerStop, BrokerStopTo, BrokerStart, vars
  <2>11. QED
    BY <1>1, <2>1, <2>6, <2>7, <2>8, <2>9, <2>10 DEF Next
<1>2. IndInv /\ [Next]_vars =>
        [\A r \in Runners :
           runner[r].at = "idle" /\ runner'[r].at \in {"started", "doomed"}
             => runner'[r].job \notin begun]_vars
  BY <1>1
<1>3. QED
  BY <1>2, Invariant, PTL DEF Spec, ExecutedOncePerProcess

(* A terminal status in store.json stays terminal, as long as the snapshot can
   be read at every start. *)
THEOREM EndsAreKept == Spec => SavedEndsAreKept
<1>1. ASSUME IndInv, [Next]_vars, NEW j \in Jobs, disk[j] \in Terminal,
             counts.loadErrors = 0
      PROVE  disk'[j] \in Terminal
  <2>1. ASSUME NEW r \in Runners, Save(r) PROVE disk'[j] \in Terminal
    BY <2>1, <1>1, SaveInv
  <2>2. CASE FinalWrite
    BY <2>2, <1>1, FinalWriteInv
  <2>3. CASE disk' = disk
    BY <2>3, <1>1
  <2>4. ASSUME NEW k \in Jobs, Create(k) \/ Publish(k) \/ Cancel(k) PROVE disk' = disk
    BY <2>4 DEF Create, CreateAs, Publish, Cancel, store
  <2>5. ASSUME NEW r \in Runners, RunnerStep(r), ~Save(r) PROVE disk' = disk
    BY <2>5 DEF RunnerStep, Execute, Take, Doom, Progress, Finish, FinishUnsaved, Panic,
                ProcessEnds, Ack, AckOf, Leave, store
  <2>6. CASE Boot
    BY <2>6, <2>3 DEF Boot, Restart, LoadError, Load, Connect, GiveUp, StartRunners,
                      ProcessEnds, store
  <2>7. CASE Stop
    BY <2>7, <2>2, <2>3 DEF Stop, Crash, Term, FinalCopy, FatalInsert, Exit, ProcessEnds, store
  <2>8. CASE Deliver \/ BrokerStop \/ BrokerStart \/ UNCHANGED vars
    BY <2>8, <2>3 DEF Deliver, BrokerStop, BrokerStopTo, BrokerStart, vars, store
  <2>9. QED
    BY <1>1, <2>1, <2>3, <2>4, <2>5, <2>6, <2>7, <2>8 DEF Next
<1>2. IndInv /\ [Next]_vars =>
        [\A j \in Jobs :
           disk[j] \in Terminal /\ counts.loadErrors = 0 => disk'[j] \in Terminal]_vars
  BY <1>1
<1>3. QED
  BY <1>2, Invariant, PTL DEF Spec, SavedEndsAreKept
=============================================================================
