------------------------------- MODULE Runner -------------------------------
(***************************************************************************)
(* The center's process and the message broker: jobs are created in memory,*)
(* their ids published to a durable queue, delivered to one consumer that  *)
(* a pool of goroutines shares, executed, saved in a snapshot of the whole *)
(* store and acknowledged.  The process starts, connects, may crash, be    *)
(* stopped by SIGTERM, or be ended by a panic, and is restarted; the       *)
(* broker may stop and start.  What an execution does inside is            *)
(* Scheduler.tla, which JobInCenter.tla shows to take only the steps it    *)
(* takes here, where it is one job that is active for a while.             *)
(***************************************************************************)
EXTENDS Integers, FiniteSets, SequencesExt

(* A definition marked `mutant` is never used: it is the definition after it
   with a plausible mistake, kept to show which property would notice. *)

CONSTANTS
  Jobs,               \* job ids, each submitted at most once (newID)
  Runners,            \* the goroutines of the pool
  Poisoned,           \* jobs whose splitter panics (a type assertion)
  MaxCrashes,         \* bound: how often the process is killed
  MaxTerms,           \* bound: how often it is told to stop
  MaxBrokerStops,     \* bound: how often the broker stops
  MaxLoadErrors       \* bound: how often store.json cannot be read

ASSUME JobsAssumption == Jobs # {}
ASSUME RunnersAssumption == IsFiniteSet(Runners) /\ Runners # {}
ASSUME PoisonedAssumption == Poisoned \subseteq Jobs
ASSUME BoundsAssumption ==
  {MaxCrashes, MaxTerms, MaxBrokerStops, MaxLoadErrors} \subseteq Nat

VARIABLES
  proc,        \* where main is: "down", "connecting", "starting", "serving"
  stopping,    \* it was told to stop: the context of the runners has ended
  connected,   \* its connection to the broker is alive
  final,       \* where the shutdown goroutine's SaveToDisk is
  mem,         \* Job.Status in Store.jobs, "absent" when the job is not there
  begun,       \* jobs this process has executed: Job.cancel # nil
  disk,        \* the same statuses in store.json
  submit,      \* where the submit handler of a job is
  brokerUp,    \* the broker runs
  queue,       \* the broker: messages ready to be delivered
  unacked,     \* the broker: messages delivered and not acknowledged
  inbox,       \* the channel of deliveries the runners read
  runner,      \* where each runner is, and with which job
  counts,      \* how often each of the bounded events has happened
  excused      \* history: jobs whose publishing or saving failed

process == <<proc, stopping, connected, final>>
store   == <<mem, begun, disk>>
broker  == <<brokerUp, queue, unacked, inbox>>
vars    == <<process, store, submit, broker, runner, counts, excused>>

(* The stages between pending and the end are one status here. *)
Terminal == {"done", "failed", "cancelled"}
Statuses == {"absent", "pending", "active"} \union Terminal
NoJobs   == [j \in Jobs |-> "absent"]

(* A runner that holds no job keeps the last one in its record. *)
AllAt(place) == [r \in Runners |-> [at |-> place, job |-> CHOOSE j \in Jobs : TRUE]]
Holding(r) == runner[r].at \notin {"idle", "gone"}

Up == proc = "serving"

(* The broker still has the message of job j. *)
InQueue(j)  == j \in Range(queue)
InBroker(j) == j \in Range(queue) \union Range(unacked)

(* The unacknowledged messages, back in their places at the head. *)
Requeued == unacked \o queue

Init ==
  /\ proc = "down"
  /\ stopping = FALSE
  /\ connected = FALSE
  /\ final = "no"
  /\ mem = NoJobs
  /\ begun = {}
  /\ disk = NoJobs
  /\ submit = [j \in Jobs |-> "none"]
  /\ brokerUp = TRUE
  /\ queue = <<>>
  /\ unacked = <<>>
  /\ inbox = <<>>
  /\ runner = AllAt("gone")
  /\ counts = [crashes |-> 0, terms |-> 0, brokerStops |-> 0, loadErrors |-> 0]
  /\ excused = {}

-----------------------------------------------------------------------------
(* POST /api/jobs/submit.                                                  *)

(* CreateJob: in memory only, no snapshot is taken. *)
CreateAs(j, s) ==
  /\ Up
  /\ submit[j] = "none"
  /\ submit' = [submit EXCEPT ![j] = "created"]
  /\ mem' = [mem EXCEPT ![j] = s]
  /\ UNCHANGED <<process, begun, disk, broker, runner, counts, excused>>

CreateUnset(j) == CreateAs(j, "")                                    \* mutant
Create(j) == CreateAs(j, "pending")

(* Enqueue: an error of Publish is logged and the client is not told. *)
Publish(j) ==
  /\ Up
  /\ submit[j] = "created"
  /\ submit' = [submit EXCEPT ![j] = "published"]
  /\ IF connected
       THEN queue' = Append(queue, j) /\ UNCHANGED excused
       ELSE excused' = excused \union {j} /\ UNCHANGED queue
  /\ UNCHANGED <<process, store, brokerUp, unacked, inbox, runner, counts>>

-----------------------------------------------------------------------------
(* The broker and the pool.                                                *)

(* Qos(1, 0, false) on the only channel, with one consumer on it: the broker
   lets one message at a time be unacknowledged, for all runners together. *)
WindowPerRunner == Len(unacked) < Cardinality(Runners)               \* mutant
WindowOpen == unacked = <<>>

Deliver ==
  /\ Up /\ connected
  /\ queue # <<>>
  /\ WindowOpen
  /\ queue' = Tail(queue)
  /\ unacked' = Append(unacked, Head(queue))
  /\ inbox' = Append(inbox, Head(queue))
  /\ UNCHANGED <<process, store, submit, brokerUp, runner, counts, excused>>

(* A runner takes a delivery: select chooses between it and an ended context.
   An unknown job is only logged. *)
Take(r) ==
  /\ Up
  /\ runner[r].at = "idle"
  /\ inbox # <<>>
  /\ inbox' = Tail(inbox)
  /\ LET j == Head(inbox)
         place == CASE mem[j] = "absent" -> "acking"
                    [] mem[j] # "absent" /\ stopping -> "doomed"
                    [] OTHER -> "started"
     IN  /\ runner' = [runner EXCEPT ![r] = [at |-> place, job |-> j]]
         /\ begun' = IF place = "acking" THEN begun ELSE begun \union {j}
  /\ UNCHANGED <<process, mem, disk, submit, brokerUp, queue, unacked, counts, excused>>

(* The context of an execution may end before any worker has answered its ping:
   it can then only fail. *)
Doomed(rs) ==
  [r \in Runners |-> IF r \in rs /\ runner[r].at = "started"
                       THEN [runner[r] EXCEPT !.at = "doomed"] ELSE runner[r]]

(* The timeout of the job. *)
Doom(r) ==
  /\ Up
  /\ runner[r].at = "started"
  /\ runner' = Doomed({r})
  /\ UNCHANGED <<process, store, submit, broker, counts, excused>>

(* ExecuteJob writes splitting, running or aggregating over what is there. *)
Progress(r) ==
  /\ Up
  /\ \/ runner[r].at = "started"
     \/ runner[r].at = "running" /\ mem[runner[r].job] = "cancelled"
  /\ runner' = [runner EXCEPT ![r].at = "running"]
  /\ mem' = [mem EXCEPT ![runner[r].job] = "active"]
  /\ UNCHANGED <<process, begun, disk, submit, broker, counts, excused>>

(* The splitter of a poisoned job does not return. *)
Splits(r) == runner[r].at = "running" /\ runner[r].job \notin Poisoned

(* ExecuteJob writes its last status, or leaves a cancelled one after its
   select took ctx.Done(); the snapshot follows.  Before the split, or under a
   context that had ended before ("doomed"), it can only fail. *)
Finish(r) ==
  /\ Up
  /\ \E s \in Terminal :
       /\ \/ s = "failed" /\ (runner[r].at \in {"started", "doomed"} \/ Splits(r))
          \/ s = "done" /\ Splits(r)
          \/ s = "cancelled" /\ Splits(r) /\ mem[runner[r].job] = s
       /\ mem' = [mem EXCEPT ![runner[r].job] = s]
  /\ runner' = [runner EXCEPT ![r].at = "saving"]
  /\ UNCHANGED <<process, begun, disk, submit, broker, counts, excused>>

(* Line 170 of scheduler.go: a job found cancelled is not saved. *)
FinishUnsaved(r) ==
  /\ Up
  /\ Splits(r)
  /\ mem[runner[r].job] = "cancelled"
  /\ runner' = [runner EXCEPT ![r].at = "acking"]
  /\ excused' = excused \union {runner[r].job}
  /\ UNCHANGED <<process, store, submit, broker, counts>>

(* saveToDiskPublic: all jobs, under the lock, by rename; errors are ignored. *)
Save(r) ==
  /\ Up
  /\ runner[r].at = "saving"
  /\ runner' = [runner EXCEPT ![r].at = "acking"]
  /\ \/ disk' = mem /\ UNCHANGED excused
     \/ excused' = excused \union {runner[r].job} /\ UNCHANGED disk
  /\ UNCHANGED <<process, mem, begun, submit, broker, counts>>

(* msg.Ack(false); it fails, unnoticed, on a dead connection. *)
AckOf(r, place) ==
  /\ Up
  /\ runner[r].at \in place
  /\ runner' = [runner EXCEPT ![r].at = "idle"]
  /\ LET delivered == {k \in DOMAIN unacked : unacked[k] = runner[r].job}
     IN  unacked' \in IF connected /\ delivered # {}
                        THEN {RemoveAt(unacked, k) : k \in delivered} ELSE {unacked}
  /\ UNCHANGED <<process, store, submit, brokerUp, queue, inbox, counts, excused>>

AckBeforeSave(r) == AckOf(r, {"saving", "acking"})                   \* mutant
AckKnown(r) == mem[runner[r].job] # "absent" /\ AckOf(r, {"acking"})  \* mutant
Ack(r) == AckOf(r, {"acking"})

(* A runner ends: the context has ended, or the channel is closed and empty. *)
Leave(r) ==
  /\ Up
  /\ runner[r].at = "idle"
  /\ stopping \/ (~connected /\ inbox = <<>>)
  /\ runner' = [runner EXCEPT ![r].at = "gone"]
  /\ UNCHANGED <<process, store, submit, broker, counts, excused>>

-----------------------------------------------------------------------------
(* The surroundings.                                                       *)

(* POST /api/jobs/{id}/cancel. *)
Cancel(j) ==
  /\ Up
  /\ j \in begun
  /\ mem[j] # "cancelled"
  /\ mem' = [mem EXCEPT ![j] = "cancelled"]
  /\ \E rs \in SUBSET {r \in Runners : runner[r].job = j} : runner' = Doomed(rs)
  /\ UNCHANGED <<process, begun, disk, submit, broker, counts, excused>>

(* The process is gone: memory and connection with it; what it had not
   acknowledged is ready again. *)
ProcessEnds ==
  /\ proc' = "down"
  /\ stopping' = FALSE
  /\ connected' = FALSE
  /\ final' = "no"
  /\ mem' = NoJobs
  /\ begun' = {}
  /\ queue' = Requeued
  /\ unacked' = <<>>
  /\ inbox' = <<>>
  /\ runner' = AllAt("gone")
  /\ submit' = [j \in Jobs |-> IF submit[j] = "created" THEN "broken" ELSE submit[j]]
  /\ UNCHANGED <<disk, brokerUp, excused>>

Crash ==
  /\ proc # "down"
  /\ counts.crashes < MaxCrashes
  /\ counts' = [counts EXCEPT !.crashes = @ + 1]
  /\ ProcessEnds

(* Lines 86 and 137 of splitter.go: nothing recovers the panic. *)
Panic(r) ==
  /\ Up
  /\ runner[r].at = "running" /\ runner[r].job \in Poisoned
  /\ ProcessEnds
  /\ UNCHANGED counts

(* SIGTERM or SIGINT: the contexts of the runners and of their jobs end. *)
Term ==
  /\ Up /\ ~stopping
  /\ counts.terms < MaxTerms
  /\ counts' = [counts EXCEPT !.terms = @ + 1]
  /\ stopping' = TRUE
  /\ \E rs \in SUBSET Runners : runner' = Doomed(rs)
  /\ UNCHANGED <<proc, connected, final, store, submit, broker, excused>>

(* The shutdown goroutine has seen every runner gone; SaveToDisk takes the map
   of jobs under the read lock, and encodes it after it has released it. *)
FinalCopy ==
  /\ Up /\ stopping
  /\ final = "no"
  /\ \A r \in Runners : runner[r].at = "gone"
  /\ final' = "encoding"
  /\ UNCHANGED <<proc, stopping, connected, store, submit, broker, runner, counts, excused>>

FinalWrite ==
  /\ Up
  /\ final = "encoding"
  /\ final' = "saved"
  /\ disk' \in {disk, mem}
  /\ UNCHANGED <<proc, stopping, connected, mem, begun, submit, broker, runner, counts, excused>>

(* A submission that outlived the ten seconds of Shutdown inserts its job while
   the map is being encoded: the Go runtime may end the process. *)
FatalInsert ==
  /\ Up
  /\ final = "encoding"
  /\ \E j \in Jobs : submit[j] = "none"
  /\ ProcessEnds
  /\ UNCHANGED counts

(* ListenAndServe returns as soon as Shutdown is called; main does not wait
   for the goroutine that called it. *)
Exit ==
  /\ Up /\ stopping
  /\ ProcessEnds
  /\ UNCHANGED counts

(* The container is restarted: NewStore loads the snapshot; an error is only
   logged, and the store starts empty. *)
Load(found) ==
  /\ proc = "down"
  /\ proc' = "connecting"
  /\ mem' = found
  /\ UNCHANGED <<stopping, connected, final, begun, disk, submit, broker, runner, excused>>

LoadNothing == Load(NoJobs) /\ UNCHANGED counts                      \* mutant
Restart == Load(disk) /\ UNCHANGED counts

LoadError ==
  /\ counts.loadErrors < MaxLoadErrors
  /\ counts' = [counts EXCEPT !.loadErrors = @ + 1]
  /\ Load(NoJobs)

(* ConnectMQ succeeds at one of its attempts. *)
Connect ==
  /\ proc = "connecting"
  /\ brokerUp
  /\ proc' = "starting"
  /\ connected' = TRUE
  /\ UNCHANGED <<stopping, final, store, submit, broker, runner, counts, excused>>

(* All thirty attempts failed, and main exits. *)
GiveUp ==
  /\ proc = "connecting"
  /\ ~brokerUp
  /\ ProcessEnds
  /\ UNCHANGED counts

(* JobRunner.Start: when Consume fails the error is logged, no runner starts
   and the server serves all the same. *)
StartRunners ==
  /\ proc = "starting"
  /\ proc' = "serving"
  /\ runner' = AllAt(IF connected THEN "idle" ELSE "gone")
  /\ UNCHANGED <<stopping, connected, final, store, submit, broker, counts, excused>>

(* The broker stops; the queue is durable and its messages persistent.  The
   client library closes the channel of deliveries, with or without the one
   that waits in it, and nothing connects again. *)
BrokerStopTo(alive) ==
  /\ brokerUp
  /\ counts.brokerStops < MaxBrokerStops
  /\ counts' = [counts EXCEPT !.brokerStops = @ + 1]
  /\ brokerUp' = alive
  /\ connected' = (connected /\ alive)
  /\ queue' = Requeued
  /\ unacked' = <<>>
  /\ inbox' \in {inbox, <<>>}
  /\ UNCHANGED <<proc, stopping, final, store, submit, runner, excused>>

BrokerBlink == BrokerStopTo(TRUE)                                    \* mutant
BrokerStop == BrokerStopTo(FALSE)

BrokerStart ==
  /\ ~brokerUp
  /\ brokerUp' = TRUE
  /\ UNCHANGED <<process, store, submit, queue, unacked, inbox, runner, counts, excused>>

-----------------------------------------------------------------------------
Execute(r) == Doom(r) \/ Progress(r) \/ Finish(r) \/ FinishUnsaved(r) \/ Panic(r)

RunnerStep(r) == Take(r) \/ Execute(r) \/ Save(r) \/ Ack(r) \/ Leave(r)

Boot == Restart \/ LoadError \/ Connect \/ GiveUp \/ StartRunners

Stop == Crash \/ Term \/ FinalCopy \/ FinalWrite \/ FatalInsert \/ Exit

Next ==
  \/ \E j \in Jobs : Create(j) \/ Publish(j) \/ Cancel(j)
  \/ Deliver
  \/ \E r \in Runners : RunnerStep(r)
  \/ Boot \/ Stop \/ BrokerStop \/ BrokerStart

Spec == Init /\ [][Next]_vars

(* Goroutines run, the broker delivers, an execution ends (Scheduler.tla:
   BegunJobReturns) and docker-compose restarts both containers ("restart:
   always").  Nobody need submit, cancel or stop anything. *)
Fairness ==
  /\ WF_vars(Deliver)
  /\ WF_vars(Restart) /\ WF_vars(Connect) /\ WF_vars(StartRunners)
  /\ WF_vars(Exit)
  /\ WF_vars(BrokerStart)
  /\ \A j \in Jobs : WF_vars(Publish(j))
  /\ \A r \in Runners :
       /\ WF_vars(Take(r))
       /\ WF_vars(Finish(r) \/ FinishUnsaved(r) \/ Panic(r))
       /\ WF_vars(Save(r) \/ Ack(r))
       /\ WF_vars(Leave(r))

FairSpec == Spec /\ Fairness

-----------------------------------------------------------------------------
(* Correctness.                                                            *)

(* Every variable has its type. *)
TypeOK ==
  /\ proc \in {"down", "connecting", "starting", "serving"}
  /\ stopping \in BOOLEAN /\ connected \in BOOLEAN /\ brokerUp \in BOOLEAN
  /\ final \in {"no", "encoding", "saved"}
  /\ mem \in [Jobs -> Statuses] /\ disk \in [Jobs -> Statuses]
  /\ begun \in SUBSET Jobs /\ excused \in SUBSET Jobs
  /\ submit \in [Jobs -> {"none", "created", "published", "broken"}]
  /\ queue \in Seq(Jobs) /\ unacked \in Seq(Jobs) /\ inbox \in Seq(Jobs)
  /\ runner \in [Runners -> [at : {"idle", "started", "running", "doomed", "saving",
                                   "acking", "gone"}, job : Jobs]]
  /\ counts \in [crashes : 0..MaxCrashes, terms : 0..MaxTerms,
                 brokerStops : 0..MaxBrokerStops, loadErrors : 0..MaxLoadErrors]

(* No two goroutines ever execute the same job, although a message is delivered
   again after a crash or a lost connection: nothing in ExecuteJob or in the
   store would stop the second one. *)
NoDoubleExecution ==
  \A r, s \in Runners :
    r # s /\ Holding(r) /\ Holding(s) => runner[r].job # runner[s].job

(* No snapshot holds a job that is being executed: a restarted center would
   show it running for ever.  saveLocked writes all jobs, whoever saves; only
   the one-message window keeps the other runners idle meanwhile. *)
SnapshotHoldsNoActiveJob == \A j \in Jobs : disk[j] # "active"

(* A job shown pending whose message was published and whose end was never
   left unsaved has a message on the way, through crashes, panics, redeliveries
   and restarts that find store.json: the acknowledgement comes after the
   snapshot. *)
PendingHasMessage ==
  counts.loadErrors = 0 =>
    \A j \in Jobs :
      Up /\ mem[j] = "pending" /\ submit[j] = "published" /\ j \notin excused
        => InBroker(j) \/ \E r \in Runners : Holding(r) /\ runner[r].job = j

(* No process executes a job twice: at-least-once delivery, a broker that stops
   while a runner works, and a message left in the channel repeat an execution
   only in another process. *)
ExecutedOncePerProcess ==
  [][\A r \in Runners :
       runner[r].at = "idle" /\ runner'[r].at \in {"started", "doomed"}
         => runner'[r].job \notin begun]_vars

(* Once the end of a job is on the disk, some end of it is there for ever:
   a redelivered message, a second execution and a crash during it never take
   the snapshot back to an unfinished job or lose it, as long as store.json can
   be read at every start. *)
SavedEndsAreKept ==
  [][\A j \in Jobs :
       disk[j] \in Terminal /\ counts.loadErrors = 0 => disk'[j] \in Terminal]_vars

(* Every message is served in the end, through crashes, stops and restarts of
   the center and whatever users cancel, also one whose job a crash erased,
   unless the center lost its broker while it ran (nothing ends it then) or a
   job that panics got into a snapshot before its message was acknowledged
   (every restart then runs into it again). *)
Deaf == Up /\ ~connected
CrashLoop == \E j \in Poisoned : disk[j] # "absent" /\ InBroker(j)
MessagesAreServed == \A j \in Jobs : InBroker(j) ~> ~InBroker(j) \/ Deaf \/ CrashLoop

-----------------------------------------------------------------------------
(* What the documents say and the code does not do.                        *)

(* The report: with prefetch 1 a slow job does not block the other consumers:
   with an idle runner, a ready message can be delivered or has been. *)
NoHeadOfLineBlocking ==
  Up /\ connected /\ queue # <<>> /\ (\E r \in Runners : runner[r].at = "idle")
    => WindowOpen \/ inbox # <<>>

(* The report: the durable queue ensures that jobs survive broker restarts. *)
JobsSurviveBrokerRestart == \A j \in Jobs : InQueue(j) ~> mem[j] \in Terminal

(* The README: on SIGTERM the center saves its state before it exits. *)
StateSavedOnShutdown == [][(Up /\ stopping /\ ~Up') => disk = mem]_vars
=============================================================================
