-------------------------- MODULE SharedStoreProofs --------------------------
(***************************************************************************)
(* The safety properties of SharedStore.tla for any sets of clients and of *)
(* tasks.  Where a goroutine is, is what it has still to do; every such    *)
(* place has a name here, and the invariant says what each one implies.    *)
(***************************************************************************)
EXTENDS SharedStore, Naturals, SequenceTheorems, TLAPS

(* The places of a client: in a view, in the statistics, in the list of the
   workers, in a cancel. *)
View1   == <<Do("runlock"), Look("status"), Look("result"), Look("tasks"), Do("send")>>
View2   == <<Look("status"), Look("result"), Look("tasks"), Do("send")>>
View3   == <<Look("result"), Look("tasks"), Do("send")>>
View4   == <<Look("tasks"), Do("send")>>
Sending == <<Do("send")>>

Stats1 == <<Look("status"), Look("finished"), Look("tasks"), Do("runlock"), Do("send")>>
Stats2 == <<Look("finished"), Look("tasks"), Do("runlock"), Do("send")>>
Stats3 == <<Look("tasks"), Do("runlock"), Do("send")>>
Stats4 == <<Do("runlock"), Do("send")>>

Workers1 == <<Do("send"), Do("runlock")>>
Leaving  == <<Do("runlock")>>

Cancel1 == <<Do("cancel")>>
Cancel2 == <<Put("status", "cancelled"), Do("unlock")>>
Closing == <<Do("unlock")>>

ClientPlaces ==
  {<<>>, View, View1, View2, View3, View4, Sending, Stats, Stats1, Stats2, Stats3, Stats4,
   WorkersList, Workers1, Leaving, CancelCall, Cancel1, Cancel2, Closing}

(* Where a client has read something. *)
Looking == {View3, View4, Stats2, Stats3, Stats4, Sending}

(* The places of the goroutine of a task. *)
Calling   == <<Do("call")>>
TaskDone1 == <<Put("output", Garbled), Put("output", "whole")>>
TaskDone2 == <<Put("output", "whole")>>

TaskPlaces == {<<>>, Calling, TaskDone, TaskDone1, TaskDone2, TaskFailed}

(* The places of ExecuteJob. *)
Splitting == <<Put("status", "splitting")>>

Running  == <<Do("lock"), Do("create"), Put("status", "running"), Do("unlock")>>
Running1 == <<Do("create"), Put("status", "running"), Do("unlock")>>
Running2 == <<Put("status", "running"), Do("unlock")>>

Launch(i)  == <<Do("lock"), [op |-> "start", which |-> i]>>
Launch1(i) == <<[op |-> "start", which |-> i]>>

Opening  == <<Do("lock")>>
Entering == <<Do("rlock")>>

Aggregating  == <<Do("lock"), Put("status", "aggregating"), Do("unlock")>>
Aggregating1 == <<Put("status", "aggregating"), Do("unlock")>>

Fail1 == <<Put("status", "failed"), Do("unlock"), Do("lock"), Do("encode"), Do("unlock")>>

Save0 == <<Do("unlock"), Do("lock"), Do("encode"), Do("unlock")>>
Save2 == <<Do("encode"), Do("unlock")>>

Ending == Put("finished", TRUE)
Done5 == <<Ending, Do("unlock"), Do("lock"), Do("encode"), Do("unlock")>>
Done4 == <<Put("status", "done"), Ending,
           Do("unlock"), Do("lock"), Do("encode"), Do("unlock")>>
Done3 == <<Put("result", "whole"), Put("status", "done"), Ending,
           Do("unlock"), Do("lock"), Do("encode"), Do("unlock")>>
Done2 == <<Put("result", Garbled), Put("result", "whole"), Put("status", "done"),
           Ending, Do("unlock"), Do("lock"), Do("encode"), Do("unlock")>>
First == <<Do("lock"), Put("result", Garbled), Put("result", "whole"), Put("status", "done"),
           Ending, Do("unlock"), Do("lock"), Do("encode"), Do("unlock")>>

Finishing == {First, Done2, Done3, Done4}
Saving    == {Done5, Save0, Save, Save2}
Settled   == Saving \union {Closing, <<>>}

-----------------------------------------------------------------------------
(* The parts of the invariant.                                             *)

(* The fields have their types, and a goroutine is somewhere. *)
JobType == [status : Statuses, result : {"none", Garbled, "whole"},
              finished : BOOLEAN, cancel : BOOLEAN, ctxDone : BOOLEAN]
TaskType == [status : {"pending", "running", "done", "failed"},
               output : {"none", Garbled, "whole"}]
SeenType == [status : Statuses \union {"unread"},
               result : {"unread", "none", Garbled, "whole"},
               finished : BOOLEAN, tasks : [Tasks -> TaskType]]

FieldInv ==
  /\ lock \in [writer : Callers \union {NoOne}, held : BOOLEAN, readers : SUBSET Callers]
  /\ phase \in {"queued", "ping", "split", "dispatch", "wait", "interrupted", "check",
                "collect", "aggregate", "over"}
  /\ called \in SUBSET Clients
  /\ job \in JobType
  /\ task \in [Tasks -> TaskType]
  /\ seen \in [Clients -> SeenType]
  /\ todo = [c \in Callers |-> todo[c]]

AllEnded == task = [i \in Tasks |-> Ended]
Idle == \A i \in Tasks : todo[i] = <<>>

(* A job that has ended done, in this process or in an earlier one. *)
Dones == {"done", DoneBefore}

(* A client has read exactly what its place says.  The parts it has read of a
   done job fit together; for the answer of a view, see SeenInv. *)
ClientInv(c) ==
  /\ todo[c] \in ClientPlaces
  /\ c \notin called => todo[c] = <<>>
  /\ todo[c] \notin Looking => seen[c] = Nothing
  /\ todo[c] \in {Stats2, Stats3, Stats4} => seen[c].result = "unread"
  /\ todo[c] = View4 =>
       seen[c].result # "unread" /\ (seen[c].status = "done" => seen[c].result = "whole")
  /\ todo[c] \in {Stats3, Stats4} /\ seen[c].status \in Dones => seen[c].finished
  /\ todo[c] = Stats4 /\ seen[c].status \in Dones
       => seen[c].tasks = [i \in Tasks |-> Ended]
  /\ todo[c] = Sending /\ seen[c].status \in Dones /\ seen[c].result = "unread"
       => seen[c].finished /\ seen[c].tasks = [i \in Tasks |-> Ended]
  /\ todo[c] = Sending /\ seen[c].status = "done" /\ seen[c].result # "unread"
       => seen[c].result = "whole" /\ seen[c].tasks = [i \in Tasks |-> Ended]

(* The goroutine of a task that is done leaves its output whole. *)
TaskInv(i) ==
  /\ todo[i] \in TaskPlaces
  /\ todo[i] = <<>> /\ task[i].status = "done" => task[i].output = "whole"

(* What ExecuteJob has still to do belongs to its phase. *)
PlaceInv ==
  \/ phase \in {"queued", "ping", "wait"} /\ todo[Execution] = <<>>
  \/ phase = "split" /\ todo[Execution] \in {Splitting, <<>>}
  \/ phase = "dispatch" /\ todo[Execution] \in {Running, Running1, Running2, Closing, <<>>}
  \/ phase = "dispatch" /\ \E i \in Tasks : todo[Execution] \in {Launch(i), Launch1(i)}
  \/ phase = "interrupted" /\ todo[Execution] \in {Opening, <<>>}
  \/ phase = "check" /\ todo[Execution] \in {Entering, <<>>}
  \/ phase = "collect" /\ todo[Execution] \in {Leaving, <<>>}
  \/ phase = "aggregate" /\ todo[Execution] \in {Aggregating, Aggregating1, Closing, <<>>}
  \/ phase = "over" /\ todo[Execution] \in {FailJob, Fail1, Leaving} \union Finishing \union Settled

(* A goroutine between its lock and its unlock has the lock. *)
WritePlace(s) ==
  \/ s \in {Cancel1, Cancel2, Closing, Running1, Running2, Aggregating1, Fail1,
           Done2, Done3, Done4, Done5, Save0, Save2}
  \/ \E i \in Tasks : s = Launch1(i)
ReadPlace(s) == s \in {View1, Stats1, Stats2, Stats3, Stats4, Workers1, Leaving}

Writing(c) == WritePlace(todo[c]) \/ (c = Execution /\ phase = "interrupted" /\ todo[c] = <<>>)
Reading(c) == ReadPlace(todo[c]) \/ (c = Execution /\ phase = "check" /\ todo[c] = <<>>)

LockInv ==
  /\ \A c \in Callers : Writing(c) => lock.held /\ lock.writer = c
  /\ \A c \in Callers : Reading(c) => c \in lock.readers
  /\ lock.held => lock.readers = {} /\ lock.writer # NoOne

(* What ExecuteJob and the cancels have made of the status. *)
StatusInv ==
  /\ \/ phase \in {"wait", "interrupted"}
     \/ phase = "dispatch" /\ todo[Execution] \notin {Running, Running1, Running2}
     => job.status \in {"running", "cancelled"}
  /\ phase = "over" /\ todo[Execution] \in Saving => job.status \in Terminal

(* What has been computed by the time it is written. *)
ComputedInv ==
  /\ phase \in {"check", "collect", "aggregate"} \/ todo[Execution] \in Finishing => Idle
  /\ phase = "aggregate" \/ todo[Execution] \in Finishing => AllEnded
  /\ todo[Execution] = Done4 => job.result = "whole"

(* A job is done as an earlier process left it until this execution writes a
   status, and as this one leaves it from the end on. *)
EarlyPlace ==
  phase \in {"queued", "ping"} \/ todo[Execution] \in {Splitting, FailJob, Fail1}
LastPlace == phase = "over" /\ todo[Execution] \in Settled

DoneInv ==
  /\ job.status \in Dones =>
       AllEnded /\ Idle /\ (job.finished \/ todo[Execution] = Done5)
  /\ job.status = DoneBefore => EarlyPlace
  /\ job.status = "done" => job.result = "whole" /\ LastPlace

(* What remains true once somebody has seen the job done. *)
Lasting == job.result = "whole" /\ LastPlace /\ AllEnded /\ Idle

SeenInv(c) ==
  /\ seen[c].status = "done" => Lasting
  /\ seen[c].status \in Dones /\ todo[c] \in {Stats2, Stats3} =>
       job.finished /\ AllEnded /\ Idle

(* store.json. *)
DiskInv == disk.status \in Terminal \union {"unread"} /\ SnapshotIsWhole

(* The parts about the execution and its tasks. *)
CoreInv ==
  (\A i \in Tasks : TaskInv(i)) /\ PlaceInv /\ StatusInv /\ ComputedInv /\ DoneInv

IndInv ==
  /\ FieldInv /\ LockInv /\ CoreInv /\ DiskInv
  /\ \A c \in Clients : ClientInv(c) /\ SeenInv(c)

-----------------------------------------------------------------------------
(* Sequences.                                                              *)

(* A concatenation is the sequence that has the elements of the one and then
   those of the other. *)
LEMMA ConcatIs ==
  ASSUME NEW S, NEW s \in Seq(S), NEW t \in Seq(S), NEW u \in Seq(S),
         Len(u) = Len(s) + Len(t),
         \A i \in 1..Len(s) : u[i] = s[i],
         \A i \in 1..Len(t) : u[Len(s) + i] = t[i]
  PROVE  s \o t = u
  <1>1. s \o t \in Seq(S) /\ Len(s \o t) = Len(s) + Len(t) BY ConcatProperties
  <1>2. ASSUME NEW i \in 1..Len(u) PROVE (s \o t)[i] = u[i]
    <2>1. CASE i <= Len(s) BY <2>1, ConcatProperties
    <2>2. CASE i > Len(s)
      <3>1. i - Len(s) \in 1..Len(t) BY <2>2
      <3>2. u[Len(s) + (i - Len(s))] = t[i - Len(s)] BY <3>1
      <3>3. (s \o t)[i] = t[i - Len(s)] BY <2>2, ConcatProperties
      <3> QED BY <3>2, <3>3
    <2> QED BY <2>1, <2>2
  <1> QED BY <1>1, <1>2, SeqEqual

(* The concatenations the programs are written with, by the lengths of the two. *)
LEMMA Join01 ==
  ASSUME NEW a
  PROVE  <<>> \o <<a>> = <<a>>
  <1> DEFINE S == {a}  s == <<>>  t == <<a>>  u == <<a>>
  <1>1. s \in Seq(S) /\ t \in Seq(S) /\ u \in Seq(S) OBVIOUS
  <1>2. Len(u) = Len(s) + Len(t) OBVIOUS
  <1>3. \A i \in 1..Len(s) : u[i] = s[i] OBVIOUS
  <1>4. \A i \in 1..Len(t) : u[Len(s) + i] = t[i] OBVIOUS
  <1> HIDE DEF S, s, t, u
  <1>5. s \o t = u BY <1>1, <1>2, <1>3, <1>4, ConcatIs
  <1> QED BY <1>5 DEF s, t, u

(* One and one. *)
LEMMA Join11 ==
  ASSUME NEW a, NEW b
  PROVE  <<a>> \o <<b>> = <<a, b>>
  <1> DEFINE S == {a, b}  s == <<a>>  t == <<b>>  u == <<a, b>>
  <1>1. s \in Seq(S) /\ t \in Seq(S) /\ u \in Seq(S) OBVIOUS
  <1>2. Len(u) = Len(s) + Len(t) OBVIOUS
  <1>3. \A i \in 1..Len(s) : u[i] = s[i] OBVIOUS
  <1>4. \A i \in 1..Len(t) : u[Len(s) + i] = t[i] OBVIOUS
  <1> HIDE DEF S, s, t, u
  <1>5. s \o t = u BY <1>1, <1>2, <1>3, <1>4, ConcatIs
  <1> QED BY <1>5 DEF s, t, u

(* One and two. *)
LEMMA Join12 ==
  ASSUME NEW a, NEW b, NEW c
  PROVE  <<a>> \o <<b, c>> = <<a, b, c>>
  <1> DEFINE S == {a, b, c}  s == <<a>>  t == <<b, c>>  u == <<a, b, c>>
  <1>1. s \in Seq(S) /\ t \in Seq(S) /\ u \in Seq(S) OBVIOUS
  <1>2. Len(u) = Len(s) + Len(t) OBVIOUS
  <1>3. \A i \in 1..Len(s) : u[i] = s[i] OBVIOUS
  <1>4. \A i \in 1..Len(t) : u[Len(s) + i] = t[i] OBVIOUS
  <1> HIDE DEF S, s, t, u
  <1>5. s \o t = u BY <1>1, <1>2, <1>3, <1>4, ConcatIs
  <1> QED BY <1>5 DEF s, t, u

(* One and three. *)
LEMMA Join13 ==
  ASSUME NEW a, NEW b, NEW c, NEW d
  PROVE  <<a>> \o <<b, c, d>> = <<a, b, c, d>>
  <1> DEFINE S == {a, b, c, d}  s == <<a>>  t == <<b, c, d>>  u == <<a, b, c, d>>
  <1>1. s \in Seq(S) /\ t \in Seq(S) /\ u \in Seq(S) OBVIOUS
  <1>2. Len(u) = Len(s) + Len(t) OBVIOUS
  <1>3. \A i \in 1..Len(s) : u[i] = s[i] OBVIOUS
  <1>4. \A i \in 1..Len(t) : u[Len(s) + i] = t[i] OBVIOUS
  <1> HIDE DEF S, s, t, u
  <1>5. s \o t = u BY <1>1, <1>2, <1>3, <1>4, ConcatIs
  <1> QED BY <1>5 DEF s, t, u

(* One and four. *)
LEMMA Join14 ==
  ASSUME NEW a, NEW b, NEW c, NEW d, NEW e
  PROVE  <<a>> \o <<b, c, d, e>> = <<a, b, c, d, e>>
  <1> DEFINE S == {a, b, c, d, e}  s == <<a>>  t == <<b, c, d, e>>  u == <<a, b, c, d, e>>
  <1>1. s \in Seq(S) /\ t \in Seq(S) /\ u \in Seq(S) OBVIOUS
  <1>2. Len(u) = Len(s) + Len(t) OBVIOUS
  <1>3. \A i \in 1..Len(s) : u[i] = s[i] OBVIOUS
  <1>4. \A i \in 1..Len(t) : u[Len(s) + i] = t[i] OBVIOUS
  <1> HIDE DEF S, s, t, u
  <1>5. s \o t = u BY <1>1, <1>2, <1>3, <1>4, ConcatIs
  <1> QED BY <1>5 DEF s, t, u

(* Two and one. *)
LEMMA Join21 ==
  ASSUME NEW a, NEW b, NEW c
  PROVE  <<a, b>> \o <<c>> = <<a, b, c>>
  <1> DEFINE S == {a, b, c}  s == <<a, b>>  t == <<c>>  u == <<a, b, c>>
  <1>1. s \in Seq(S) /\ t \in Seq(S) /\ u \in Seq(S) OBVIOUS
  <1>2. Len(u) = Len(s) + Len(t) OBVIOUS
  <1>3. \A i \in 1..Len(s) : u[i] = s[i] OBVIOUS
  <1>4. \A i \in 1..Len(t) : u[Len(s) + i] = t[i] OBVIOUS
  <1> HIDE DEF S, s, t, u
  <1>5. s \o t = u BY <1>1, <1>2, <1>3, <1>4, ConcatIs
  <1> QED BY <1>5 DEF s, t, u

(* Two and two. *)
LEMMA Join22 ==
  ASSUME NEW a, NEW b, NEW c, NEW d
  PROVE  <<a, b>> \o <<c, d>> = <<a, b, c, d>>
  <1> DEFINE S == {a, b, c, d}  s == <<a, b>>  t == <<c, d>>  u == <<a, b, c, d>>
  <1>1. s \in Seq(S) /\ t \in Seq(S) /\ u \in Seq(S) OBVIOUS
  <1>2. Len(u) = Len(s) + Len(t) OBVIOUS
  <1>3. \A i \in 1..Len(s) : u[i] = s[i] OBVIOUS
  <1>4. \A i \in 1..Len(t) : u[Len(s) + i] = t[i] OBVIOUS
  <1> HIDE DEF S, s, t, u
  <1>5. s \o t = u BY <1>1, <1>2, <1>3, <1>4, ConcatIs
  <1> QED BY <1>5 DEF s, t, u

(* Two and three. *)
LEMMA Join23 ==
  ASSUME NEW a, NEW b, NEW c, NEW d, NEW e
  PROVE  <<a, b>> \o <<c, d, e>> = <<a, b, c, d, e>>
  <1> DEFINE S == {a, b, c, d, e}  s == <<a, b>>  t == <<c, d, e>>  u == <<a, b, c, d, e>>
  <1>1. s \in Seq(S) /\ t \in Seq(S) /\ u \in Seq(S) OBVIOUS
  <1>2. Len(u) = Len(s) + Len(t) OBVIOUS
  <1>3. \A i \in 1..Len(s) : u[i] = s[i] OBVIOUS
  <1>4. \A i \in 1..Len(t) : u[Len(s) + i] = t[i] OBVIOUS
  <1> HIDE DEF S, s, t, u
  <1>5. s \o t = u BY <1>1, <1>2, <1>3, <1>4, ConcatIs
  <1> QED BY <1>5 DEF s, t, u

(* Three and one. *)
LEMMA Join31 ==
  ASSUME NEW a, NEW b, NEW c, NEW d
  PROVE  <<a, b, c>> \o <<d>> = <<a, b, c, d>>
  <1> DEFINE S == {a, b, c, d}  s == <<a, b, c>>  t == <<d>>  u == <<a, b, c, d>>
  <1>1. s \in Seq(S) /\ t \in Seq(S) /\ u \in Seq(S) OBVIOUS
  <1>2. Len(u) = Len(s) + Len(t) OBVIOUS
  <1>3. \A i \in 1..Len(s) : u[i] = s[i] OBVIOUS
  <1>4. \A i \in 1..Len(t) : u[Len(s) + i] = t[i] OBVIOUS
  <1> HIDE DEF S, s, t, u
  <1>5. s \o t = u BY <1>1, <1>2, <1>3, <1>4, ConcatIs
  <1> QED BY <1>5 DEF s, t, u

(* Three and three. *)
LEMMA Join33 ==
  ASSUME NEW a, NEW b, NEW c, NEW d, NEW e, NEW f
  PROVE  <<a, b, c>> \o <<d, e, f>> = <<a, b, c, d, e, f>>
  <1> DEFINE S == {a, b, c, d, e, f}  s == <<a, b, c>>  t == <<d, e, f>>  u == <<a, b, c, d, e, f>>
  <1>1. s \in Seq(S) /\ t \in Seq(S) /\ u \in Seq(S) OBVIOUS
  <1>2. Len(u) = Len(s) + Len(t) OBVIOUS
  <1>3. \A i \in 1..Len(s) : u[i] = s[i] OBVIOUS
  <1>4. \A i \in 1..Len(t) : u[Len(s) + i] = t[i] OBVIOUS
  <1> HIDE DEF S, s, t, u
  <1>5. s \o t = u BY <1>1, <1>2, <1>3, <1>4, ConcatIs
  <1> QED BY <1>5 DEF s, t, u

(* Four and one. *)
LEMMA Join41 ==
  ASSUME NEW a, NEW b, NEW c, NEW d, NEW e
  PROVE  <<a, b, c, d>> \o <<e>> = <<a, b, c, d, e>>
  <1> DEFINE S == {a, b, c, d, e}  s == <<a, b, c, d>>  t == <<e>>  u == <<a, b, c, d, e>>
  <1>1. s \in Seq(S) /\ t \in Seq(S) /\ u \in Seq(S) OBVIOUS
  <1>2. Len(u) = Len(s) + Len(t) OBVIOUS
  <1>3. \A i \in 1..Len(s) : u[i] = s[i] OBVIOUS
  <1>4. \A i \in 1..Len(t) : u[Len(s) + i] = t[i] OBVIOUS
  <1> HIDE DEF S, s, t, u
  <1>5. s \o t = u BY <1>1, <1>2, <1>3, <1>4, ConcatIs
  <1> QED BY <1>5 DEF s, t, u

(* Five and one. *)
LEMMA Join51 ==
  ASSUME NEW a, NEW b, NEW c, NEW d, NEW e, NEW f
  PROVE  <<a, b, c, d, e>> \o <<f>> = <<a, b, c, d, e, f>>
  <1> DEFINE S == {a, b, c, d, e, f}  s == <<a, b, c, d, e>>  t == <<f>>  u == <<a, b, c, d, e, f>>
  <1>1. s \in Seq(S) /\ t \in Seq(S) /\ u \in Seq(S) OBVIOUS
  <1>2. Len(u) = Len(s) + Len(t) OBVIOUS
  <1>3. \A i \in 1..Len(s) : u[i] = s[i] OBVIOUS
  <1>4. \A i \in 1..Len(t) : u[Len(s) + i] = t[i] OBVIOUS
  <1> HIDE DEF S, s, t, u
  <1>5. s \o t = u BY <1>1, <1>2, <1>3, <1>4, ConcatIs
  <1> QED BY <1>5 DEF s, t, u

(* Five and three. *)
LEMMA Join53 ==
  ASSUME NEW a, NEW b, NEW c, NEW d, NEW e, NEW f, NEW g, NEW h
  PROVE  <<a, b, c, d, e>> \o <<f, g, h>> = <<a, b, c, d, e, f, g, h>>
  <1> DEFINE S == {a, b, c, d, e, f, g, h}  s == <<a, b, c, d, e>>  t == <<f, g, h>>  u == <<a, b, c, d, e, f, g, h>>
  <1>1. s \in Seq(S) /\ t \in Seq(S) /\ u \in Seq(S) OBVIOUS
  <1>2. Len(u) = Len(s) + Len(t) OBVIOUS
  <1>3. \A i \in 1..Len(s) : u[i] = s[i] OBVIOUS
  <1>4. \A i \in 1..Len(t) : u[Len(s) + i] = t[i] OBVIOUS
  <1> HIDE DEF S, s, t, u
  <1>5. s \o t = u BY <1>1, <1>2, <1>3, <1>4, ConcatIs
  <1> QED BY <1>5 DEF s, t, u

(* Six and three. *)
LEMMA Join63 ==
  ASSUME NEW a, NEW b, NEW c, NEW d, NEW e, NEW f, NEW g, NEW h, NEW j
  PROVE  <<a, b, c, d, e, f>> \o <<g, h, j>> = <<a, b, c, d, e, f, g, h, j>>
  <1> DEFINE S == {a, b, c, d, e, f, g, h, j}  s == <<a, b, c, d, e, f>>  t == <<g, h, j>>  u == <<a, b, c, d, e, f, g, h, j>>
  <1>1. s \in Seq(S) /\ t \in Seq(S) /\ u \in Seq(S) OBVIOUS
  <1>2. Len(u) = Len(s) + Len(t) OBVIOUS
  <1>3. \A i \in 1..Len(s) : u[i] = s[i] OBVIOUS
  <1>4. \A i \in 1..Len(t) : u[Len(s) + i] = t[i] OBVIOUS
  <1> HIDE DEF S, s, t, u
  <1>5. s \o t = u BY <1>1, <1>2, <1>3, <1>4, ConcatIs
  <1> QED BY <1>5 DEF s, t, u

(* Locked puts its argument between a lock and an unlock. *)
LEMMA Locked1 ==
  ASSUME NEW a
  PROVE  Locked(<<a>>) = <<Do("lock"), a, Do("unlock")>>
  <1>1. <<Do("lock")>> \o <<a>> = <<Do("lock"), a>> BY Join11
  <1>2. <<Do("lock"), a>> \o <<Do("unlock")>> = <<Do("lock"), a, Do("unlock")>>
    BY Join21
  <1> QED BY <1>1, <1>2 DEF Locked

(* Two accesses. *)
LEMMA Locked2 ==
  ASSUME NEW a, NEW b
  PROVE  Locked(<<a, b>>) = <<Do("lock"), a, b, Do("unlock")>>
  <1>1. <<Do("lock")>> \o <<a, b>> = <<Do("lock"), a, b>> BY Join12
  <1>2. <<Do("lock"), a, b>> \o <<Do("unlock")>> = <<Do("lock"), a, b, Do("unlock")>>
    BY Join31
  <1> QED BY <1>1, <1>2 DEF Locked

(* Three accesses. *)
LEMMA Locked3 ==
  ASSUME NEW a, NEW b, NEW c
  PROVE  Locked(<<a, b, c>>) = <<Do("lock"), a, b, c, Do("unlock")>>
  <1>1. <<Do("lock")>> \o <<a, b, c>> = <<Do("lock"), a, b, c>> BY Join13
  <1>2. <<Do("lock"), a, b, c>> \o <<Do("unlock")>> = <<Do("lock"), a, b, c, Do("unlock")>>
    BY Join41
  <1> QED BY <1>1, <1>2 DEF Locked

(* Four accesses. *)
LEMMA Locked4 ==
  ASSUME NEW a, NEW b, NEW c, NEW d
  PROVE  Locked(<<a, b, c, d>>) = <<Do("lock"), a, b, c, d, Do("unlock")>>
  <1>1. <<Do("lock")>> \o <<a, b, c, d>> = <<Do("lock"), a, b, c, d>> BY Join14
  <1>2. <<Do("lock"), a, b, c, d>> \o <<Do("unlock")>> = <<Do("lock"), a, b, c, d, Do("unlock")>>
    BY Join51
  <1> QED BY <1>1, <1>2 DEF Locked

(* The programs, access by access. *)
LEMMA ViewText ==
  View = <<Do("rlock"), Do("runlock"), Look("status"), Look("result"), Look("tasks"), Do("send")>>
  <1>1. <<Do("rlock"), Do("runlock")>> \o Encode
          = <<Do("rlock"), Do("runlock"), Look("status"), Look("result"), Look("tasks")>>
    BY Join23 DEF Encode
  <1>2. <<Do("rlock"), Do("runlock"), Look("status"), Look("result"), Look("tasks")>> \o <<Do("send")>>
          = <<Do("rlock"), Do("runlock"), Look("status"), Look("result"), Look("tasks"), Do("send")>>
    BY Join51
  <1> QED BY <1>1, <1>2 DEF View

(* The rest of a cancel that finds the context of a job. *)
LEMMA CancelText == CancelWrites \o <<Do("unlock")>> = Cancel2
  BY Join11 DEF CancelWrites, Cancel2

(* What the goroutine of a task writes of a good answer. *)
LEMMA TaskDoneText ==
  TaskDone = <<Put("status", "done"), Put("output", Garbled), Put("output", "whole")>>
  BY Join12 DEF TaskDone, Whole

(* The save of the store. *)
LEMMA SaveText == Save = <<Do("lock"), Do("encode"), Do("unlock")>>
  BY Locked1 DEF Save

(* FailJob writes the status under the lock and saves. *)
LEMMA FailText ==
  FailJob = <<Do("lock"), Put("status", "failed"),
              Do("unlock"), Do("lock"), Do("encode"), Do("unlock")>>
  <1>1. Locked(FailWrites) = <<Do("lock"), Put("status", "failed"), Do("unlock")>>
    BY Locked1 DEF FailWrites
  <1> QED BY <1>1, SaveText, Join33 DEF FailJob

(* The two ways on from an interrupted wait: with the status, or without. *)
LEMMA InterruptedText ==
  /\ FailWrites \o <<Do("unlock")>> \o Save = Fail1
  /\ <<>> \o <<Do("unlock")>> \o Save = Save0
  <1>1. FailWrites \o <<Do("unlock")>> = <<Put("status", "failed"), Do("unlock")>>
    BY Join11 DEF FailWrites
  <1>2. <<Put("status", "failed"), Do("unlock")>> \o Save = Fail1
    BY SaveText, Join23 DEF Fail1
  <1>3. <<>> \o <<Do("unlock")>> = <<Do("unlock")>> BY Join01
  <1>4. <<Do("unlock")>> \o Save = Save0 BY SaveText, Join13 DEF Save0
  <1> QED BY <1>1, <1>2, <1>3, <1>4

(* The two changes of the status under the lock. *)
LEMMA DispatchText ==
  /\ Locked(<<Do("create"), Put("status", "running")>>) = Running
  /\ Locked(<<Put("status", "aggregating")>>) = Aggregating
  <1>1. Locked(<<Do("create"), Put("status", "running")>>) = Running BY Locked2 DEF Running
  <1>2. Locked(<<Put("status", "aggregating")>>) = Aggregating BY Locked1 DEF Aggregating
  <1> QED BY <1>1, <1>2

(* The end of a good execution. *)
LEMMA DoneText == Locked(DoneWrites) \o Save = First
  <1>1. DoneWrites = <<Put("result", Garbled), Put("result", "whole"),
                       Put("status", "done"), Ending>>
    BY Join22 DEF DoneWrites, Whole, Ending
  <1>2. Locked(DoneWrites) = <<Do("lock"), Put("result", Garbled), Put("result", "whole"),
                               Put("status", "done"), Ending, Do("unlock")>>
    BY <1>1, Locked4
  <1>3. Locked(DoneWrites) \o Save
          = <<Do("lock"), Put("result", Garbled), Put("result", "whole"), Put("status", "done"),
              Ending, Do("unlock"), Do("lock"), Do("encode"), Do("unlock")>>
    BY <1>2, SaveText, Join63
  <1> QED BY <1>3 DEF First

-----------------------------------------------------------------------------
(* Places.                                                                 *)

(* What the proofs look at: the kind of the next access, the number of accesses
   that are left and the place after the next one.  They tell all places of a
   goroutine apart, but for those that belong to different phases. *)
Op(s) == Head(s).op
Left(s) == Len(s)
Rest(s) == Tail(s)

(* The kind of the next access. *)
LEMMA NextOp ==
  ASSUME NEW c, NEW op
  PROVE  NextIs(c, op) <=> todo[c] # <<>> /\ Op(todo[c]) = op
  BY DEF NextIs, Op

(* The time of the end is the one access that stores a Boolean. *)
LEMMA EndingIs == Ending.op = "put" /\ Ending.field = "finished" /\ Ending.value = TRUE
  BY DEF Ending, Put

(* From each place of a client to the next. *)
LEMMA ClientNext ==
  /\ Rest(View) = View1
  /\ Rest(View1) = View2
  /\ Rest(View2) = View3
  /\ Rest(View3) = View4
  /\ Rest(View4) = Sending
  /\ Rest(Sending) = <<>>
  /\ Rest(Stats) = Stats1
  /\ Rest(Stats1) = Stats2
  /\ Rest(Stats2) = Stats3
  /\ Rest(Stats3) = Stats4
  /\ Rest(Stats4) = Sending
  /\ Rest(WorkersList) = Workers1
  /\ Rest(Workers1) = Leaving
  /\ Rest(Leaving) = <<>>
  /\ Rest(CancelCall) = Cancel1
  /\ Rest(Cancel1) = <<>>
  /\ Rest(Cancel2) = Closing
  /\ Rest(Closing) = <<>>
  <1>1. Rest(View) = View1 BY ViewText DEF View1, Rest
  <1>2. Rest(View1) = View2 BY DEF View1, View2, Rest
  <1>3. Rest(View2) = View3 BY DEF View2, View3, Rest
  <1>4. Rest(View3) = View4 BY DEF View3, View4, Rest
  <1>5. Rest(View4) = Sending BY DEF View4, Sending, Rest
  <1>6. Rest(Sending) = <<>> BY DEF Sending, Rest
  <1>7. Rest(Stats) = Stats1 BY DEF Stats, Stats1, Rest
  <1>8. Rest(Stats1) = Stats2 BY DEF Stats1, Stats2, Rest
  <1>9. Rest(Stats2) = Stats3 BY DEF Stats2, Stats3, Rest
  <1>10. Rest(Stats3) = Stats4 BY DEF Stats3, Stats4, Rest
  <1>11. Rest(Stats4) = Sending BY DEF Stats4, Sending, Rest
  <1>12. Rest(WorkersList) = Workers1 BY DEF WorkersList, Workers1, Rest
  <1>13. Rest(Workers1) = Leaving BY DEF Workers1, Leaving, Rest
  <1>14. Rest(Leaving) = <<>> BY DEF Leaving, Rest
  <1>15. Rest(CancelCall) = Cancel1 BY DEF CancelCall, Cancel1, Rest
  <1>16. Rest(Cancel1) = <<>> BY DEF Cancel1, Rest
  <1>17. Rest(Cancel2) = Closing BY DEF Cancel2, Closing, Rest
  <1>18. Rest(Closing) = <<>> BY DEF Closing, Rest
  <1> QED BY <1>1, <1>2, <1>3, <1>4, <1>5, <1>6, <1>7, <1>8, <1>9, <1>10, <1>11, <1>12, <1>13,
             <1>14, <1>15, <1>16, <1>17, <1>18

(* The accesses that are left at each place of a client. *)
LEMMA ClientLen ==
  /\ Left(<<>>) = 0
  /\ Left(View) = 6
  /\ Left(View1) = 5
  /\ Left(View2) = 4
  /\ Left(View3) = 3
  /\ Left(View4) = 2
  /\ Left(Sending) = 1
  /\ Left(Stats) = 6
  /\ Left(Stats1) = 5
  /\ Left(Stats2) = 4
  /\ Left(Stats3) = 3
  /\ Left(Stats4) = 2
  /\ Left(WorkersList) = 3
  /\ Left(Workers1) = 2
  /\ Left(Leaving) = 1
  /\ Left(CancelCall) = 2
  /\ Left(Cancel1) = 1
  /\ Left(Cancel2) = 2
  /\ Left(Closing) = 1
  <1>1. Left(<<>>) = 0 BY DEF Left
  <1>2. Left(View) = 6 BY ViewText DEF Left
  <1>3. Left(View1) = 5 BY DEF View1, Left
  <1>4. Left(View2) = 4 BY DEF View2, Left
  <1>5. Left(View3) = 3 BY DEF View3, Left
  <1>6. Left(View4) = 2 BY DEF View4, Left
  <1>7. Left(Sending) = 1 BY DEF Sending, Left
  <1>8. Left(Stats) = 6 BY DEF Stats, Left
  <1>9. Left(Stats1) = 5 BY DEF Stats1, Left
  <1>10. Left(Stats2) = 4 BY DEF Stats2, Left
  <1>11. Left(Stats3) = 3 BY DEF Stats3, Left
  <1>12. Left(Stats4) = 2 BY DEF Stats4, Left
  <1>13. Left(WorkersList) = 3 BY DEF WorkersList, Left
  <1>14. Left(Workers1) = 2 BY DEF Workers1, Left
  <1>15. Left(Leaving) = 1 BY DEF Leaving, Left
  <1>16. Left(CancelCall) = 2 BY DEF CancelCall, Left
  <1>17. Left(Cancel1) = 1 BY DEF Cancel1, Left
  <1>18. Left(Cancel2) = 2 BY DEF Cancel2, Left
  <1>19. Left(Closing) = 1 BY DEF Closing, Left
  <1> QED BY <1>1, <1>2, <1>3, <1>4, <1>5, <1>6, <1>7, <1>8, <1>9, <1>10, <1>11, <1>12, <1>13,
             <1>14, <1>15, <1>16, <1>17, <1>18, <1>19

(* The kind of access at each place of a client. *)
LEMMA ClientOps ==
  /\ Op(View) = "rlock"
  /\ Op(View1) = "runlock"
  /\ Op(View2) = "look"
  /\ Op(View3) = "look"
  /\ Op(View4) = "look"
  /\ Op(Sending) = "send"
  /\ Op(Stats) = "rlock"
  /\ Op(Stats1) = "look"
  /\ Op(Stats2) = "look"
  /\ Op(Stats3) = "look"
  /\ Op(Stats4) = "runlock"
  /\ Op(WorkersList) = "rlock"
  /\ Op(Workers1) = "send"
  /\ Op(Leaving) = "runlock"
  /\ Op(CancelCall) = "lock"
  /\ Op(Cancel1) = "cancel"
  /\ Op(Cancel2) = "put"
  /\ Op(Closing) = "unlock"
  <1>1. Op(View) = "rlock" BY ViewText DEF Op, Do
  <1>2. Op(View1) = "runlock" BY DEF View1, Op, Do
  <1>3. Op(View2) = "look" BY DEF View2, Op, Look
  <1>4. Op(View3) = "look" BY DEF View3, Op, Look
  <1>5. Op(View4) = "look" BY DEF View4, Op, Look
  <1>6. Op(Sending) = "send" BY DEF Sending, Op, Do
  <1>7. Op(Stats) = "rlock" BY DEF Stats, Op, Do
  <1>8. Op(Stats1) = "look" BY DEF Stats1, Op, Look
  <1>9. Op(Stats2) = "look" BY DEF Stats2, Op, Look
  <1>10. Op(Stats3) = "look" BY DEF Stats3, Op, Look
  <1>11. Op(Stats4) = "runlock" BY DEF Stats4, Op, Do
  <1>12. Op(WorkersList) = "rlock" BY DEF WorkersList, Op, Do
  <1>13. Op(Workers1) = "send" BY DEF Workers1, Op, Do
  <1>14. Op(Leaving) = "runlock" BY DEF Leaving, Op, Do
  <1>15. Op(CancelCall) = "lock" BY DEF CancelCall, Op, Do
  <1>16. Op(Cancel1) = "cancel" BY DEF Cancel1, Op, Do
  <1>17. Op(Cancel2) = "put" BY DEF Cancel2, Op, Put
  <1>18. Op(Closing) = "unlock" BY DEF Closing, Op, Do
  <1> QED BY <1>1, <1>2, <1>3, <1>4, <1>5, <1>6, <1>7, <1>8, <1>9, <1>10, <1>11, <1>12, <1>13,
             <1>14, <1>15, <1>16, <1>17, <1>18

(* The fields and values of the accesses of a client. *)
LEMMA ClientFields ==
  /\ Head(View2).field = "status"
  /\ Head(View3).field = "result"
  /\ Head(View4).field = "tasks"
  /\ Head(Stats1).field = "status"
  /\ Head(Stats2).field = "finished"
  /\ Head(Stats3).field = "tasks"
  /\ Head(Cancel2).field = "status" /\ Head(Cancel2).value = "cancelled"
  <1>1. Head(View2).field = "status" BY DEF View2, Look
  <1>2. Head(View3).field = "result" BY DEF View3, Look
  <1>3. Head(View4).field = "tasks" BY DEF View4, Look
  <1>4. Head(Stats1).field = "status" BY DEF Stats1, Look
  <1>5. Head(Stats2).field = "finished" BY DEF Stats2, Look
  <1>6. Head(Stats3).field = "tasks" BY DEF Stats3, Look
  <1>7. Head(Cancel2).field = "status" /\ Head(Cancel2).value = "cancelled" BY DEF Cancel2, Put
  <1> QED BY <1>1, <1>2, <1>3, <1>4, <1>5, <1>6, <1>7

(* From each place of a task to the next. *)
LEMMA TaskNext ==
  /\ Rest(Calling) = <<>>
  /\ Rest(TaskDone) = TaskDone1
  /\ Rest(TaskDone1) = TaskDone2
  /\ Rest(TaskDone2) = <<>>
  /\ Rest(TaskFailed) = <<>>
  <1>1. Rest(Calling) = <<>> BY DEF Calling, Rest
  <1>2. Rest(TaskDone) = TaskDone1 BY TaskDoneText DEF TaskDone1, Rest
  <1>3. Rest(TaskDone1) = TaskDone2 BY DEF TaskDone1, TaskDone2, Rest
  <1>4. Rest(TaskDone2) = <<>> BY DEF TaskDone2, Rest
  <1>5. Rest(TaskFailed) = <<>> BY DEF TaskFailed, Rest
  <1> QED BY <1>1, <1>2, <1>3, <1>4, <1>5

(* The accesses that are left at each place of a task. *)
LEMMA TaskLen ==
  /\ Left(<<>>) = 0
  /\ Left(Calling) = 1
  /\ Left(TaskDone) = 3
  /\ Left(TaskDone1) = 2
  /\ Left(TaskDone2) = 1
  /\ Left(TaskFailed) = 1
  <1>1. Left(<<>>) = 0 BY DEF Left
  <1>2. Left(Calling) = 1 BY DEF Calling, Left
  <1>3. Left(TaskDone) = 3 BY TaskDoneText DEF Left
  <1>4. Left(TaskDone1) = 2 BY DEF TaskDone1, Left
  <1>5. Left(TaskDone2) = 1 BY DEF TaskDone2, Left
  <1>6. Left(TaskFailed) = 1 BY DEF TaskFailed, Left
  <1> QED BY <1>1, <1>2, <1>3, <1>4, <1>5, <1>6

(* The kind of access at each place of a task. *)
LEMMA TaskOps ==
  /\ Op(Calling) = "call"
  /\ Op(TaskDone) = "put"
  /\ Op(TaskDone1) = "put"
  /\ Op(TaskDone2) = "put"
  /\ Op(TaskFailed) = "put"
  <1>1. Op(Calling) = "call" BY DEF Calling, Op, Do
  <1>2. Op(TaskDone) = "put" BY TaskDoneText DEF Op, Put
  <1>3. Op(TaskDone1) = "put" BY DEF TaskDone1, Op, Put
  <1>4. Op(TaskDone2) = "put" BY DEF TaskDone2, Op, Put
  <1>5. Op(TaskFailed) = "put" BY DEF TaskFailed, Op, Put
  <1> QED BY <1>1, <1>2, <1>3, <1>4, <1>5

(* The fields and values of the accesses of a task. *)
LEMMA TaskFields ==
  /\ Head(TaskDone).field = "status" /\ Head(TaskDone).value = "done"
  /\ Head(TaskDone1).field = "output" /\ Head(TaskDone1).value = Garbled
  /\ Head(TaskDone2).field = "output" /\ Head(TaskDone2).value = "whole"
  /\ Head(TaskFailed).field = "status" /\ Head(TaskFailed).value = "failed"
  <1>1. Head(TaskDone).field = "status" /\ Head(TaskDone).value = "done" BY TaskDoneText DEF Put
  <1>2. Head(TaskDone1).field = "output" /\ Head(TaskDone1).value = Garbled BY DEF TaskDone1, Put
  <1>3. Head(TaskDone2).field = "output" /\ Head(TaskDone2).value = "whole" BY DEF TaskDone2, Put
  <1>4. Head(TaskFailed).field = "status" /\ Head(TaskFailed).value = "failed" BY DEF TaskFailed, Put
  <1> QED BY <1>1, <1>2, <1>3, <1>4

(* From each place of ExecuteJob, but for the start of a task to the next. *)
LEMMA ExecuteNext ==
  /\ Rest(Splitting) = <<>>
  /\ Rest(Running) = Running1
  /\ Rest(Running1) = Running2
  /\ Rest(Running2) = Closing
  /\ Rest(Closing) = <<>>
  /\ Rest(Opening) = <<>>
  /\ Rest(Entering) = <<>>
  /\ Rest(Leaving) = <<>>
  /\ Rest(Aggregating) = Aggregating1
  /\ Rest(Aggregating1) = Closing
  /\ Rest(FailJob) = Fail1
  /\ Rest(Fail1) = Save0
  /\ Rest(Save0) = Save
  /\ Rest(Save) = Save2
  /\ Rest(Save2) = Closing
  /\ Rest(First) = Done2
  /\ Rest(Done2) = Done3
  /\ Rest(Done3) = Done4
  /\ Rest(Done4) = Done5
  /\ Rest(Done5) = Save0
  <1>1. Rest(Splitting) = <<>> BY DEF Splitting, Rest
  <1>2. Rest(Running) = Running1 BY DEF Running, Running1, Rest
  <1>3. Rest(Running1) = Running2 BY DEF Running1, Running2, Rest
  <1>4. Rest(Running2) = Closing BY DEF Running2, Closing, Rest
  <1>5. Rest(Closing) = <<>> BY DEF Closing, Rest
  <1>6. Rest(Opening) = <<>> BY DEF Opening, Rest
  <1>7. Rest(Entering) = <<>> BY DEF Entering, Rest
  <1>8. Rest(Leaving) = <<>> BY DEF Leaving, Rest
  <1>9. Rest(Aggregating) = Aggregating1 BY DEF Aggregating, Aggregating1, Rest
  <1>10. Rest(Aggregating1) = Closing BY DEF Aggregating1, Closing, Rest
  <1>11. Rest(FailJob) = Fail1 BY FailText DEF Fail1, Rest
  <1>12. Rest(Fail1) = Save0 BY DEF Fail1, Save0, Rest
  <1>13. Rest(Save0) = Save BY SaveText DEF Save0, Rest
  <1>14. Rest(Save) = Save2 BY SaveText DEF Save2, Rest
  <1>15. Rest(Save2) = Closing BY DEF Save2, Closing, Rest
  <1>16. Rest(First) = Done2 BY DEF First, Done2, Rest
  <1>18. Rest(Done2) = Done3 BY DEF Done2, Done3, Rest
  <1>19. Rest(Done3) = Done4 BY DEF Done3, Done4, Rest
  <1>20. Rest(Done4) = Done5 BY DEF Done4, Done5, Rest
  <1>21. Rest(Done5) = Save0 BY DEF Done5, Save0, Rest
  <1> QED BY <1>1, <1>2, <1>3, <1>4, <1>5, <1>6, <1>7, <1>8, <1>9, <1>10, <1>11, <1>12, <1>13,
             <1>14, <1>15, <1>16, <1>18, <1>19, <1>20, <1>21

(* The accesses that are left at each place of ExecuteJob, but for the start of a task. *)
LEMMA ExecuteLen ==
  /\ Left(<<>>) = 0
  /\ Left(Splitting) = 1
  /\ Left(Running) = 4
  /\ Left(Running1) = 3
  /\ Left(Running2) = 2
  /\ Left(Closing) = 1
  /\ Left(Opening) = 1
  /\ Left(Entering) = 1
  /\ Left(Leaving) = 1
  /\ Left(Aggregating) = 3
  /\ Left(Aggregating1) = 2
  /\ Left(FailJob) = 6
  /\ Left(Fail1) = 5
  /\ Left(Save0) = 4
  /\ Left(Save) = 3
  /\ Left(Save2) = 2
  /\ Left(First) = 9
  /\ Left(Done2) = 8
  /\ Left(Done3) = 7
  /\ Left(Done4) = 6
  /\ Left(Done5) = 5
  <1>1. Left(<<>>) = 0 BY DEF Left
  <1>2. Left(Splitting) = 1 BY DEF Splitting, Left
  <1>3. Left(Running) = 4 BY DEF Running, Left
  <1>4. Left(Running1) = 3 BY DEF Running1, Left
  <1>5. Left(Running2) = 2 BY DEF Running2, Left
  <1>6. Left(Closing) = 1 BY DEF Closing, Left
  <1>7. Left(Opening) = 1 BY DEF Opening, Left
  <1>8. Left(Entering) = 1 BY DEF Entering, Left
  <1>9. Left(Leaving) = 1 BY DEF Leaving, Left
  <1>10. Left(Aggregating) = 3 BY DEF Aggregating, Left
  <1>11. Left(Aggregating1) = 2 BY DEF Aggregating1, Left
  <1>12. Left(FailJob) = 6 BY FailText DEF Left
  <1>13. Left(Fail1) = 5 BY DEF Fail1, Left
  <1>14. Left(Save0) = 4 BY DEF Save0, Left
  <1>15. Left(Save) = 3 BY SaveText DEF Left
  <1>16. Left(Save2) = 2 BY DEF Save2, Left
  <1>17. Left(First) = 9 BY DEF First, Left
  <1>19. Left(Done2) = 8 BY DEF Done2, Left
  <1>20. Left(Done3) = 7 BY DEF Done3, Left
  <1>21. Left(Done4) = 6 BY DEF Done4, Left
  <1>22. Left(Done5) = 5 BY DEF Done5, Left
  <1> QED BY <1>1, <1>2, <1>3, <1>4, <1>5, <1>6, <1>7, <1>8, <1>9, <1>10, <1>11, <1>12, <1>13,
             <1>14, <1>15, <1>16, <1>17, <1>19, <1>20, <1>21, <1>22

(* The kind of access at each place of ExecuteJob, but for the start of a task. *)
LEMMA ExecuteOps ==
  /\ Op(Splitting) = "put"
  /\ Op(Running) = "lock"
  /\ Op(Running1) = "create"
  /\ Op(Running2) = "put"
  /\ Op(Closing) = "unlock"
  /\ Op(Opening) = "lock"
  /\ Op(Entering) = "rlock"
  /\ Op(Leaving) = "runlock"
  /\ Op(Aggregating) = "lock"
  /\ Op(Aggregating1) = "put"
  /\ Op(FailJob) = "lock"
  /\ Op(Fail1) = "put"
  /\ Op(Save0) = "unlock"
  /\ Op(Save) = "lock"
  /\ Op(Save2) = "encode"
  /\ Op(First) = "lock"
  /\ Op(Done2) = "put"
  /\ Op(Done3) = "put"
  /\ Op(Done4) = "put"
  /\ Op(Done5) = "put"
  <1>1. Op(Splitting) = "put" BY DEF Splitting, Op, Put
  <1>2. Op(Running) = "lock" BY DEF Running, Op, Do
  <1>3. Op(Running1) = "create" BY DEF Running1, Op, Do
  <1>4. Op(Running2) = "put" BY DEF Running2, Op, Put
  <1>5. Op(Closing) = "unlock" BY DEF Closing, Op, Do
  <1>6. Op(Opening) = "lock" BY DEF Opening, Op, Do
  <1>7. Op(Entering) = "rlock" BY DEF Entering, Op, Do
  <1>8. Op(Leaving) = "runlock" BY DEF Leaving, Op, Do
  <1>9. Op(Aggregating) = "lock" BY DEF Aggregating, Op, Do
  <1>10. Op(Aggregating1) = "put" BY DEF Aggregating1, Op, Put
  <1>11. Op(FailJob) = "lock" BY FailText DEF Op, Do
  <1>12. Op(Fail1) = "put" BY DEF Fail1, Op, Put
  <1>13. Op(Save0) = "unlock" BY DEF Save0, Op, Do
  <1>14. Op(Save) = "lock" BY SaveText DEF Op, Do
  <1>15. Op(Save2) = "encode" BY DEF Save2, Op, Do
  <1>16. Op(First) = "lock" BY DEF First, Op, Do
  <1>18. Op(Done2) = "put" BY DEF Done2, Op, Put
  <1>19. Op(Done3) = "put" BY DEF Done3, Op, Put
  <1>20. Op(Done4) = "put" BY DEF Done4, Op, Put
  <1>21. Op(Done5) = "put" BY EndingIs DEF Op, Done5
  <1> QED BY <1>1, <1>2, <1>3, <1>4, <1>5, <1>6, <1>7, <1>8, <1>9, <1>10, <1>11, <1>12, <1>13,
             <1>14, <1>15, <1>16, <1>18, <1>19, <1>20, <1>21

(* The fields and values of the accesses of ExecuteJob. *)
LEMMA ExecuteFields ==
  /\ Head(Splitting).field = "status" /\ Head(Splitting).value = "splitting"
  /\ Head(Running2).field = "status" /\ Head(Running2).value = "running"
  /\ Head(Aggregating1).field = "status" /\ Head(Aggregating1).value = "aggregating"
  /\ Head(Fail1).field = "status" /\ Head(Fail1).value = "failed"
  /\ Head(Done2).field = "result" /\ Head(Done2).value = Garbled
  /\ Head(Done3).field = "result" /\ Head(Done3).value = "whole"
  /\ Head(Done4).field = "status" /\ Head(Done4).value = "done"
  /\ Head(Done5).field = "finished" /\ Head(Done5).value = TRUE
  <1>1. Head(Splitting).field = "status" /\ Head(Splitting).value = "splitting" BY DEF Splitting, Put
  <1>2. Head(Running2).field = "status" /\ Head(Running2).value = "running" BY DEF Running2, Put
  <1>3. Head(Aggregating1).field = "status" /\ Head(Aggregating1).value = "aggregating" BY DEF Aggregating1, Put
  <1>4. Head(Fail1).field = "status" /\ Head(Fail1).value = "failed" BY DEF Fail1, Put
  <1>5. Head(Done2).field = "result" /\ Head(Done2).value = Garbled BY DEF Done2, Put
  <1>6. Head(Done3).field = "result" /\ Head(Done3).value = "whole" BY DEF Done3, Put
  <1>7. Head(Done4).field = "status" /\ Head(Done4).value = "done" BY DEF Done4, Put
  <1>8. Head(Done5).field = "finished" /\ Head(Done5).value = TRUE BY EndingIs DEF Done5
  <1> QED BY <1>1, <1>2, <1>3, <1>4, <1>5, <1>6, <1>7, <1>8

(* The start of a task. *)
LEMMA LaunchPlaces ==
  ASSUME NEW i
  PROVE  /\ Rest(Launch(i)) = Launch1(i) /\ Left(Launch(i)) = 2 /\ Op(Launch(i)) = "lock"
         /\ Rest(Launch1(i)) = <<>> /\ Left(Launch1(i)) = 1 /\ Op(Launch1(i)) = "start"
         /\ Head(Launch1(i)).which = i
  <1>1. Rest(Launch(i)) = Launch1(i) /\ Left(Launch(i)) = 2 BY DEF Rest, Left, Launch, Launch1
  <1>2. Rest(Launch1(i)) = <<>> /\ Left(Launch1(i)) = 1 BY DEF Rest, Left, Launch1
  <1>3. Op(Launch(i)) = "lock" BY DEF Op, Launch, Do
  <1>4. Op(Launch1(i)) = "start" /\ Head(Launch1(i)).which = i BY DEF Op, Launch1
  <1> QED BY <1>1, <1>2, <1>3, <1>4

(* Where a goroutine is when its next access is of a kind. *)
LEMMA ClientAt ==
  ASSUME NEW c, todo[c] \in ClientPlaces
  PROVE  /\ NextIs(c, "lock") => todo[c] = CancelCall
         /\ NextIs(c, "unlock") => todo[c] = Closing
         /\ NextIs(c, "rlock") => todo[c] \in {View, Stats, WorkersList}
         /\ NextIs(c, "runlock") => todo[c] \in {View1, Stats4, Leaving}
         /\ NextIs(c, "put") => todo[c] = Cancel2
         /\ NextIs(c, "look") => todo[c] \in {View2, View3, View4, Stats1, Stats2, Stats3}
         /\ NextIs(c, "send") => todo[c] \in {Sending, Workers1}
         /\ NextIs(c, "cancel") => todo[c] = Cancel1
  BY ClientOps, NextOp DEF ClientPlaces

(* The same of a task: it touches neither the lock nor what clients do. *)
LEMMA TaskAt ==
  ASSUME NEW i, todo[i] \in TaskPlaces
  PROVE  /\ NextIs(i, "put") => todo[i] \in {TaskDone, TaskDone1, TaskDone2, TaskFailed}
         /\ NextIs(i, "call") => todo[i] = Calling
         /\ \A op \in {"lock", "unlock", "rlock", "runlock", "look", "send", "cancel"} : ~NextIs(i, op)
  BY TaskOps, NextOp DEF TaskPlaces

(* The same of ExecuteJob. *)
LEMMA ExecuteAt ==
  ASSUME PlaceInv
  PROVE  /\ NextIs(Execution, "lock") =>
              \/ todo[Execution] \in {Running, Opening, Aggregating, FailJob, Save, First}
              \/ \E i \in Tasks : todo[Execution] = Launch(i)
         /\ NextIs(Execution, "unlock") => todo[Execution] \in {Closing, Save0}
         /\ NextIs(Execution, "rlock") => todo[Execution] = Entering
         /\ NextIs(Execution, "runlock") => todo[Execution] = Leaving
         /\ NextIs(Execution, "put") =>
              todo[Execution] \in {Splitting, Running2, Aggregating1, Fail1,
                                   Done2, Done3, Done4, Done5}
         /\ NextIs(Execution, "encode") => todo[Execution] = Save2
         /\ NextIs(Execution, "create") => todo[Execution] = Running1
         /\ NextIs(Execution, "start") => \E i \in Tasks : todo[Execution] = Launch1(i)
         /\ \A op \in {"look", "send", "cancel", "call"} : ~NextIs(Execution, op)
  <1> DEFINE e == todo[Execution]
  <1>1. \/ e \in {<<>>, Splitting, Running, Running1, Running2, Closing, Opening, Entering, Leaving,
                  Aggregating, Aggregating1, FailJob, Fail1, Save0, Save, Save2,
                  First, Done2, Done3, Done4, Done5}
        \/ \E i \in Tasks : e \in {Launch(i), Launch1(i)}
    BY DEF PlaceInv, Finishing, Settled, Saving
  <1> HIDE DEF e
  <1>2. CASE e = <<>> BY <1>2, NextOp DEF e
  <1>3. CASE e \in {Splitting, Running, Running1, Running2, Closing, Opening, Entering, Leaving,
                    Aggregating, Aggregating1, FailJob, Fail1, Save0, Save, Save2,
                    First, Done2, Done3, Done4, Done5}
    BY <1>3, ExecuteOps, NextOp DEF e
  <1>4. CASE \E i \in Tasks : e \in {Launch(i), Launch1(i)}
    BY <1>4, LaunchPlaces, NextOp DEF e
  <1> QED BY <1>1, <1>2, <1>3, <1>4

(* The places their kind and length do not tell apart. *)
LEMMA Different == Aggregating # Save /\ Running2 # Aggregating1 /\ Fail1 # Done5
  <1>1. Aggregating # Save BY ExecuteNext, ExecuteOps
  <1>2. Running2 # Aggregating1 BY ExecuteFields
  <1>3. Fail1 # Done5 BY ExecuteFields
  <1> QED BY <1>1, <1>2, <1>3

(* The phases a place belongs to. *)
LEMMA PhaseOf ==
  ASSUME PlaceInv
  PROVE  LET e == todo[Execution]
         IN  /\ e \in {Running, Running1, Running2} => phase = "dispatch"
             /\ \A i \in Tasks : e \in {Launch(i), Launch1(i)} => phase = "dispatch"
             /\ e = Splitting => phase = "split"
             /\ e = Opening => phase = "interrupted"
             /\ e = Entering => phase = "check"
             /\ e = Leaving => phase \in {"collect", "over"}
             /\ e = Closing => phase \in {"dispatch", "aggregate", "over"}
             /\ e \in {Aggregating, Aggregating1} => phase \in {"aggregate"}
             /\ e \in {FailJob, Fail1} \union Finishing \union {Done5, Save0, Save2} => phase = "over"
             /\ e = Save => phase = "over"
  <1> DEFINE e == todo[Execution]
  <1> HIDE DEF e
  <1>0. \/ phase \in {"queued", "ping", "wait"} /\ e = <<>>
        \/ phase = "split" /\ e \in {Splitting, <<>>}
        \/ phase = "dispatch" /\ e \in {Running, Running1, Running2, Closing, <<>>}
        \/ phase = "dispatch" /\ \E i \in Tasks : e \in {Launch(i), Launch1(i)}
        \/ phase = "interrupted" /\ e \in {Opening, <<>>}
        \/ phase = "check" /\ e \in {Entering, <<>>}
        \/ phase = "collect" /\ e \in {Leaving, <<>>}
        \/ phase = "aggregate" /\ e \in {Aggregating, Aggregating1, Closing, <<>>}
        \/ phase = "over" /\ e \in {FailJob, Fail1, Leaving, First, Done2, Done3, Done4,
                                    Done5, Save0, Save, Save2, Closing, <<>>}
    BY DEF e, PlaceInv, Finishing, Settled, Saving
  <1>1. CASE phase \in {"queued", "ping", "wait"} /\ e = <<>>
    BY <1>1, ExecuteLen, LaunchPlaces DEF e, Finishing
  <1>2. CASE phase = "split" /\ e \in {Splitting, <<>>}
    BY <1>2, ExecuteLen, ExecuteOps, LaunchPlaces, Different DEF e, Finishing
  <1>3. CASE phase = "dispatch" /\ e \in {Running, Running1, Running2, Closing, <<>>}
    BY <1>3, ExecuteLen, ExecuteOps, LaunchPlaces, Different DEF e, Finishing
  <1>4. CASE phase = "dispatch" /\ \E i \in Tasks : e \in {Launch(i), Launch1(i)}
    BY <1>4, ExecuteLen, ExecuteOps, LaunchPlaces, Different DEF e, Finishing
  <1>5. CASE phase = "interrupted" /\ e \in {Opening, <<>>}
    BY <1>5, ExecuteLen, ExecuteOps, LaunchPlaces, Different DEF e, Finishing
  <1>6. CASE phase = "check" /\ e \in {Entering, <<>>}
    BY <1>6, ExecuteLen, ExecuteOps, LaunchPlaces, Different DEF e, Finishing
  <1>7. CASE phase = "collect" /\ e \in {Leaving, <<>>}
    BY <1>7, ExecuteLen, ExecuteOps, LaunchPlaces, Different DEF e, Finishing
  <1>8. CASE phase = "aggregate" /\ e \in {Aggregating, Aggregating1, Closing, <<>>}
    BY <1>8, ExecuteLen, ExecuteOps, LaunchPlaces, Different DEF e, Finishing
  <1>9. CASE phase = "over" /\ e \in {FailJob, Fail1, Leaving, First, Done2, Done3, Done4,
                                      Done5, Save0, Save, Save2, Closing, <<>>}
    BY <1>9, ExecuteLen, ExecuteOps, LaunchPlaces, Different DEF e, Finishing
  <1> QED BY <1>0, <1>1, <1>2, <1>3, <1>4, <1>5, <1>6, <1>7, <1>8, <1>9

-----------------------------------------------------------------------------
(* What a step leaves alone.                                               *)

(* One goroutine moves. *)
LEMMA OneMoves ==
  ASSUME FieldInv, NEW d \in Callers, NEW s, todo' = [todo EXCEPT ![d] = s]
  PROVE  /\ todo'[d] = s
         /\ \A c \in Callers : c # d => todo'[c] = todo[c]
         /\ todo' = [c \in Callers |-> todo'[c]]
  BY DEF FieldInv

(* Who is who. *)
LEMMA Kinds ==
  /\ Execution \in Callers /\ Execution \notin Clients /\ Execution \notin Tasks
  /\ \A c \in Clients : c \in Callers /\ c \notin Tasks /\ c # Execution
  /\ \A i \in Tasks : i \in Callers /\ i \notin Clients /\ i # Execution
  /\ \A c \in Callers : c \in Clients \/ c \in Tasks \/ c = Execution
  /\ \A c \in Callers : c # NoOne
  BY CallersAssumption DEF Callers

(* The core speaks of the phase, the job, the tasks and their places. *)
LEMMA CoreFrame ==
  ASSUME CoreInv, UNCHANGED <<phase, task>>,
         job'.status = job.status, job'.result = job.result, job'.finished = job.finished,
         todo'[Execution] = todo[Execution], \A i \in Tasks : todo'[i] = todo[i]
  PROVE  CoreInv'
  <1>1. Idle' <=> Idle BY DEF Idle
  <1>2. AllEnded' <=> AllEnded BY DEF AllEnded
  <1>3. (EarlyPlace' <=> EarlyPlace) /\ (LastPlace' <=> LastPlace) BY DEF EarlyPlace, LastPlace
  <1>4. \A i \in Tasks : TaskInv(i)' BY DEF CoreInv, TaskInv
  <1>5. PlaceInv' BY DEF CoreInv, PlaceInv
  <1>6. StatusInv' BY DEF CoreInv, StatusInv
  <1>7. ComputedInv' BY <1>1, <1>2 DEF CoreInv, ComputedInv
  <1>8. DoneInv' BY <1>1, <1>2, <1>3 DEF CoreInv, DoneInv
  <1> QED BY <1>4, <1>5, <1>6, <1>7, <1>8 DEF CoreInv

(* What a client may rely on speaks of the same. *)
LEMMA SeenFrame ==
  ASSUME NEW c, SeenInv(c), UNCHANGED <<phase, task>>,
         job'.result = job.result, job'.finished = job.finished,
         seen'[c] = seen[c], todo'[c] = todo[c],
         todo'[Execution] = todo[Execution], \A i \in Tasks : todo'[i] = todo[i]
  PROVE  SeenInv(c)'
  <1>1. Idle' <=> Idle BY DEF Idle
  <1>2. AllEnded' <=> AllEnded BY DEF AllEnded
  <1>3. Lasting' <=> Lasting BY <1>1, <1>2 DEF Lasting, LastPlace
  <1> QED BY <1>1, <1>2, <1>3 DEF SeenInv

(* What a client has read is its own affair. *)
LEMMA ClientFrame ==
  ASSUME NEW c, ClientInv(c), c \in called' => c \in called \/ todo[c] # <<>>,
         c \in called => c \in called', seen'[c] = seen[c], todo'[c] = todo[c]
  PROVE  ClientInv(c)'
  BY DEF ClientInv

(* The lock, when nobody comes to hold it. *)
LEMMA LockFrame ==
  ASSUME LockInv, lock' = lock,
         \A c \in Callers : (Writing(c)' => Writing(c)) /\ (Reading(c)' => Reading(c))
  PROVE  LockInv'
  BY DEF LockInv

(* Who does not move, nor change phase, holds what it held. *)
LEMMA HoldFrame ==
  ASSUME NEW c, phase' = phase \/ c # Execution, todo'[c] = todo[c]
  PROVE  (Writing(c)' <=> Writing(c)) /\ (Reading(c)' <=> Reading(c))
  BY DEF Writing, Reading

(* What was saved stays saved. *)
LEMMA DiskFrame == ASSUME DiskInv, disk' = disk PROVE DiskInv'
  BY DEF DiskInv, SnapshotIsWhole

-----------------------------------------------------------------------------
(* ExecuteJob goes on within a phase.                                      *)

(* An access that stores nothing leaves the execution at a place of its phase
   that says no more than the last one said. *)
LEMMA ExecuteQuiet ==
  ASSUME CoreInv, NEW op \in {"lock", "unlock", "rlock", "runlock", "encode"},
         NextIs(Execution, op), todo'[Execution] = Tail(todo[Execution]),
         \A i \in Tasks : todo'[i] = todo[i],
         UNCHANGED <<phase, job, task>>
  PROVE  /\ CoreInv'
         /\ todo[Execution] \in Settled => todo'[Execution] \in Settled
  <1> DEFINE e == todo[Execution]
  <1>1. \/ e \in {Running, Opening, Aggregating, FailJob, Save, First,
                  Closing, Save0, Entering, Leaving, Save2}
        \/ \E i \in Tasks : e = Launch(i)
    BY ExecuteAt DEF CoreInv
  <1>2. Idle' <=> Idle BY DEF Idle
  <1>3. AllEnded' <=> AllEnded BY DEF AllEnded
  <1>4. \A i \in Tasks : TaskInv(i)' BY DEF CoreInv, TaskInv

  <1> DEFINE f == todo'[Execution]
  <1> HIDE DEF e, f
  <1>0. f = Rest(e) BY DEF e, f, Rest
  <1>5. /\ e = Running => f = Running1
        /\ e \in {Opening, Entering, Leaving, Closing} => f = <<>>
        /\ e = Aggregating => f = Aggregating1
        /\ e = FailJob => f = Fail1
        /\ e = Save0 => f = Save
        /\ e = Save => f = Save2
        /\ e = Save2 => f = Closing
        /\ e = First => f = Done2
    BY <1>0, ExecuteNext
  <1>6. ASSUME NEW i \in Tasks, e = Launch(i) PROVE f = Launch1(i)
    BY <1>0, <1>6, LaunchPlaces
  <1>7. PlaceInv /\ StatusInv /\ ComputedInv /\ DoneInv /\ UNCHANGED <<phase, job, task>>
    BY DEF CoreInv
  <1>8. PlaceInv'
    <2>1. CASE \E i \in Tasks : e = Launch(i)
      BY <1>6, <1>7, <2>1, PhaseOf DEF PlaceInv, e, f
    <2>2. CASE e \in {Running, Aggregating, First, FailJob, Save, Save0, Save2}
      BY <1>5, <1>7, <2>2, PhaseOf DEF PlaceInv, Finishing, Settled, Saving, e, f
    <2>3. CASE e \in {Opening, Entering, Leaving, Closing}
      BY <1>5, <1>7, <2>3, PhaseOf DEF PlaceInv, Finishing, Settled, Saving, e, f
    <2> QED BY <1>1, <2>1, <2>2, <2>3
  <1>9. e \in Settled => f \in Settled
    BY <1>1, <1>5, LaunchPlaces, ExecuteLen, ExecuteOps DEF Settled, Saving
  <1>10. StatusInv'
    <2>1. \/ phase \in {"wait", "interrupted"}
          \/ phase = "dispatch" /\ f \notin {Running, Running1, Running2}
          => e \notin {Running, Running1, Running2}
      <3>1. e \notin {Running1, Running2} BY <1>1, LaunchPlaces, ExecuteOps
      <3>2. e = Running => phase = "dispatch" BY <1>7, PhaseOf DEF e
      <3> QED BY <1>5, <3>1, <3>2
    <2>2. f \in Saving => e \in Saving
      BY <1>1, <1>5, <1>6, LaunchPlaces, ExecuteLen, ExecuteOps, Different DEF Saving
    <2> QED BY <1>7, <2>1, <2>2 DEF StatusInv, e, f
  <1>11. ComputedInv'
    <2>1. f \in Finishing => e \in Finishing
      BY <1>1, <1>5, <1>6, LaunchPlaces, ExecuteLen, ExecuteOps DEF Finishing
    <2>2. f # Done4
      BY <1>1, <1>5, <1>6, LaunchPlaces, ExecuteLen, ExecuteOps
    <2>3. f \in {First, Done2} => e \in {First, Done2}
      BY <1>1, <1>5, <1>6, LaunchPlaces, ExecuteLen, ExecuteOps
    <2> QED BY <1>2, <1>3, <1>7, <2>1, <2>2, <2>3 DEF ComputedInv, e, f
  <1>12. DoneInv'
    <2>1. e # Done5 /\ e # <<>> /\ e # Splitting /\ e # Fail1
      BY <1>1, LaunchPlaces, ExecuteLen, ExecuteOps
    <2>2. EarlyPlace => EarlyPlace' BY <1>5, <1>7, <2>1 DEF EarlyPlace, e, f
    <2>3. LastPlace => LastPlace' BY <1>7, <1>9 DEF LastPlace, e, f
    <2> QED BY <1>2, <1>3, <1>7, <2>1, <2>2, <2>3 DEF DoneInv, e
  <1> QED BY <1>4, <1>8, <1>9, <1>10, <1>11, <1>12 DEF CoreInv, e, f

(* What ExecuteJob stores is what its place says, and it takes nothing back that
   somebody may have relied on. *)
LEMMA ExecuteStores ==
  ASSUME CoreInv, job \in JobType, NextIs(Execution, "put"),
         job' = [job EXCEPT ![Head(todo[Execution]).field] = Head(todo[Execution]).value],
         todo'[Execution] = Tail(todo[Execution]),
         \A i \in Tasks : todo'[i] = todo[i],
         UNCHANGED <<phase, task>>
  PROVE  /\ CoreInv'
         /\ job' \in JobType
         /\ todo[Execution] \in Settled => todo'[Execution] \in Settled
         /\ job.finished => job'.finished
         /\ job.result = "whole" /\ todo[Execution] \in Settled => job'.result = "whole"
  <1> DEFINE e == todo[Execution]
             f == todo'[Execution]
  <1>1. e \in {Splitting, Running2, Aggregating1, Fail1, Done2, Done3, Done4, Done5}
    BY ExecuteAt DEF CoreInv
  <1>2. Idle' <=> Idle BY DEF Idle
  <1>3. AllEnded' <=> AllEnded BY DEF AllEnded
  <1>4. \A i \in Tasks : TaskInv(i)' BY DEF CoreInv, TaskInv
  <1>5. f = Rest(e) BY DEF Rest
  <1>6. PlaceInv /\ StatusInv /\ ComputedInv /\ DoneInv /\ UNCHANGED <<phase, task>>
    BY DEF CoreInv
  <1>7. job' = [job EXCEPT ![Head(e).field] = Head(e).value] OBVIOUS
  <1> HIDE DEF e, f
  <1>8. CASE e = Splitting
    <2>1. f = <<>> /\ phase = "split" BY <1>5, <1>6, <1>8, ExecuteNext, PhaseOf DEF e
    <2>2. job' = [job EXCEPT !.status = "splitting"]
      BY <1>7, <1>8, ExecuteFields DEF JobType
    <2>3. job' \in JobType /\ job'.status \notin Dones /\ job'.result = job.result
          /\ job'.finished = job.finished
      BY <2>2 DEF JobType, Statuses, Terminal, Dones, DoneBefore
    <2>4. PlaceInv' BY <1>6, <2>1 DEF PlaceInv, f
    <2>5. StatusInv' BY <1>6, <2>1 DEF StatusInv
    <2>6. e \notin Settled BY <1>8, ExecuteLen, ExecuteOps DEF Settled, Saving
    <2>7. f \notin Finishing /\ f # Done4 BY <2>1, ExecuteLen DEF Finishing
    <2>8. f \notin {First, Done2} BY <2>1, ExecuteLen
    <2>9. ComputedInv' BY <1>2, <1>3, <1>6, <2>1, <2>3, <2>7, <2>8 DEF ComputedInv, f
    <2>10. DoneInv' BY <2>3 DEF DoneInv, Dones, DoneBefore
    <2> QED BY <1>4, <2>3, <2>4, <2>5, <2>6, <2>9, <2>10 DEF CoreInv, e, f
  <1>9. CASE e = Running2
    <2>1. f = Closing /\ phase = "dispatch" BY <1>5, <1>6, <1>9, ExecuteNext, PhaseOf DEF e
    <2>2. job' = [job EXCEPT !.status = "running"]
      BY <1>7, <1>9, ExecuteFields DEF JobType
    <2>3. job' \in JobType /\ job'.status = "running" /\ job'.result = job.result
          /\ job'.finished = job.finished
      BY <2>2 DEF JobType, Statuses, Terminal, Dones, DoneBefore
    <2>4. PlaceInv' BY <1>6, <2>1 DEF PlaceInv, f
    <2>5. StatusInv' BY <1>6, <2>1, <2>3 DEF StatusInv
    <2>6. e \notin Settled BY <1>9, ExecuteLen, ExecuteOps DEF Settled, Saving
    <2>7. f \notin Finishing /\ f # Done4 BY <2>1, ExecuteOps, ExecuteLen DEF Finishing
    <2>8. f \notin {First, Done2} BY <2>1, ExecuteOps, ExecuteLen
    <2>9. ComputedInv' BY <1>2, <1>3, <1>6, <2>1, <2>3, <2>7, <2>8 DEF ComputedInv, f
    <2>10. DoneInv' BY <2>3 DEF DoneInv, Dones, DoneBefore
    <2> QED BY <1>4, <2>3, <2>4, <2>5, <2>6, <2>9, <2>10 DEF CoreInv, e, f
  <1>10. CASE e = Aggregating1
    <2>1. f = Closing /\ phase = "aggregate" BY <1>5, <1>6, <1>10, ExecuteNext, PhaseOf DEF e
    <2>2. job' = [job EXCEPT !.status = "aggregating"]
      BY <1>7, <1>10, ExecuteFields DEF JobType
    <2>3. job' \in JobType /\ job'.status \notin Dones /\ job'.result = job.result
          /\ job'.finished = job.finished
      BY <2>2 DEF JobType, Statuses, Terminal, Dones, DoneBefore
    <2>4. PlaceInv' BY <1>6, <2>1 DEF PlaceInv, f
    <2>5. StatusInv' BY <1>6, <2>1 DEF StatusInv
    <2>6. e \notin Settled BY <1>10, ExecuteLen, ExecuteOps DEF Settled, Saving
    <2>7. f # Done4 BY <2>1, ExecuteOps
    <2>8. f \notin {First, Done2} BY <2>1, ExecuteOps
    <2>9. ComputedInv' BY <1>2, <1>3, <1>6, <2>1, <2>3, <2>7, <2>8 DEF ComputedInv, f
    <2>10. DoneInv' BY <2>3 DEF DoneInv, Dones, DoneBefore
    <2> QED BY <1>4, <2>3, <2>4, <2>5, <2>6, <2>9, <2>10 DEF CoreInv, e, f
  <1>11. CASE e = Fail1
    <2>1. f = Save0 /\ phase = "over" BY <1>5, <1>6, <1>11, ExecuteNext, PhaseOf DEF e
    <2>2. job' = [job EXCEPT !.status = "failed"]
      BY <1>7, <1>11, ExecuteFields DEF JobType
    <2>3. job' \in JobType /\ job'.status = "failed" /\ job'.result = job.result
          /\ job'.finished = job.finished
      BY <2>2 DEF JobType, Statuses, Terminal, Dones, DoneBefore
    <2>4. PlaceInv' BY <1>6, <2>1 DEF PlaceInv, Settled, Saving, f
    <2>5. StatusInv' BY <1>6, <2>1, <2>3 DEF StatusInv, Terminal
    <2>6. f \in Settled BY <2>1 DEF Settled, Saving
    <2>7. f \notin Finishing /\ f # Done4 BY <2>1, ExecuteOps, ExecuteLen DEF Finishing
    <2>8. f \notin {First, Done2} BY <2>1, ExecuteOps, ExecuteLen
    <2>9. ComputedInv' BY <1>2, <1>3, <1>6, <2>1, <2>3, <2>7, <2>8 DEF ComputedInv, f
    <2>10. DoneInv' BY <2>3 DEF DoneInv, Dones, DoneBefore
    <2> QED BY <1>4, <2>3, <2>4, <2>5, <2>6, <2>9, <2>10 DEF CoreInv, e, f
  <1>12. CASE e \in {Done2, Done3}
    <2>1. /\ f = (IF e = Done2 THEN Done3 ELSE Done4)
          /\ phase = "over"
      BY <1>5, <1>6, <1>12, ExecuteNext, ExecuteLen, PhaseOf DEF e, Finishing
    <2>2. job' = [job EXCEPT !.result = IF e = Done2 THEN Garbled ELSE "whole"]
      <3>1. Done2 # Done3 BY ExecuteLen
      <3>2. CASE e = Done2
        <4>1. Head(e).field = "result" /\ Head(e).value = Garbled BY <3>2, ExecuteFields
        <4>2. job' = [job EXCEPT !.result = Garbled] BY ONLY <1>7, <4>1
        <4> QED BY ONLY <3>2, <4>2
      <3>3. CASE e = Done3
        <4>1. Head(e).field = "result" /\ Head(e).value = "whole" BY <3>3, ExecuteFields
        <4>2. job' = [job EXCEPT !.result = "whole"] BY ONLY <1>7, <4>1
        <4> QED BY ONLY <3>1, <3>3, <4>2
      <3> QED BY <1>12, <3>2, <3>3
    <2>3. job' \in JobType /\ job'.status = job.status /\ job'.finished = job.finished
          /\ job'.result = (IF e = Done2 THEN Garbled ELSE "whole")
      BY <2>2 DEF JobType
    <2>4. PlaceInv' BY <1>6, <2>1 DEF PlaceInv, Finishing, f
    <2>5. e \notin Settled /\ f \notin Settled
      BY <1>12, <2>1, ExecuteLen, ExecuteOps DEF Settled, Saving
    <2>6. StatusInv' BY <1>6, <2>1, <2>5 DEF StatusInv, Settled, f
    <2>7. e \in Finishing /\ f \notin {First, Done2}
      BY <1>12, <2>1, ExecuteOps, ExecuteLen DEF Finishing
    <2>9. f = Done4 => job'.result = "whole"
      BY <1>12, <2>1, <2>3, ExecuteLen
    <2>10. ComputedInv'
      BY <1>2, <1>3, <1>6, <1>12, <2>1, <2>3, <2>7, <2>9, ExecuteLen DEF ComputedInv, e, f
    <2>11. ~EarlyPlace /\ ~LastPlace
      BY <1>12, <2>1, <2>5, ExecuteLen, ExecuteOps DEF EarlyPlace, LastPlace, e
    <2>12. DoneInv' BY <1>6, <2>3, <2>11 DEF DoneInv, Dones
    <2> QED BY <1>4, <1>12, <2>3, <2>4, <2>5, <2>6, <2>10, <2>12, ExecuteLen DEF CoreInv,
               e, f
  <1>13. CASE e = Done4
    <2>1. f = Done5 /\ phase = "over"
      BY <1>5, <1>6, <1>13, ExecuteNext, PhaseOf DEF e, Finishing
    <2>2. job' = [job EXCEPT !.status = "done"]
      BY <1>7, <1>13, ExecuteFields DEF JobType
    <2>3. job' \in JobType /\ job'.status = "done" /\ job'.result = job.result
          /\ job'.finished = job.finished
      BY <2>2 DEF JobType, Statuses, Terminal, Dones, DoneBefore
    <2>4. PlaceInv' BY <1>6, <2>1 DEF PlaceInv, Settled, Saving, f
    <2>5. StatusInv' BY <1>6, <2>1, <2>3 DEF StatusInv, Terminal
    <2>6. f \in Settled BY <2>1 DEF Settled, Saving
    <2>7. f \notin Finishing /\ f # Done4 BY <2>1, ExecuteOps, ExecuteLen DEF Finishing
    <2>8. f \notin {First, Done2} BY <2>1, ExecuteOps, ExecuteLen
    <2>9. ComputedInv' BY <1>2, <1>3, <1>6, <2>1, <2>3, <2>7, <2>8 DEF ComputedInv, f
    <2>10. job.result = "whole" /\ Idle /\ AllEnded
      BY <1>6, <1>13 DEF ComputedInv, Finishing, e
    <2>11. LastPlace' BY <1>6, <2>1, <2>6 DEF LastPlace, f
    <2>12. DoneInv' BY <1>2, <1>3, <2>1, <2>3, <2>10, <2>11 DEF DoneInv, Dones, DoneBefore, f
    <2> QED BY <1>4, <2>3, <2>4, <2>5, <2>6, <2>9, <2>12 DEF CoreInv, e, f
  <1>14. CASE e = Done5
    <2>1. f = Save0 /\ phase = "over" BY <1>5, <1>6, <1>14, ExecuteNext, PhaseOf DEF e
    <2>2. job' = [job EXCEPT !.finished = TRUE]
      BY <1>7, <1>14, ExecuteFields DEF JobType
    <2>3. job' \in JobType /\ job'.status = job.status /\ job'.result = job.result
          /\ job'.finished = TRUE
      BY <2>2 DEF JobType
    <2>4. PlaceInv' BY <1>6, <2>1 DEF PlaceInv, Settled, Saving, f
    <2>5. StatusInv' BY <1>6, <1>14, <2>1, <2>3 DEF StatusInv, Saving, e
    <2>6. f \in Settled BY <2>1 DEF Settled, Saving
    <2>7. f \notin Finishing /\ f # Done4 BY <2>1, ExecuteOps, ExecuteLen DEF Finishing
    <2>8. f \notin {First, Done2} BY <2>1, ExecuteOps, ExecuteLen
    <2>9. ComputedInv' BY <1>2, <1>3, <1>6, <2>1, <2>3, <2>7, <2>8 DEF ComputedInv, f
    <2>10. LastPlace' BY <1>6, <2>1, <2>6 DEF LastPlace, f
    <2>11. ~EarlyPlace BY <1>14, <2>1, ExecuteLen, Different DEF EarlyPlace, e
    <2>12. DoneInv' BY <1>2, <1>3, <1>6, <2>3, <2>10, <2>11 DEF DoneInv, f
    <2> QED BY <1>4, <2>3, <2>4, <2>5, <2>6, <2>9, <2>12 DEF CoreInv, e, f
  <1> QED BY <1>1, <1>8, <1>9, <1>10, <1>11, <1>12, <1>13, <1>14

-----------------------------------------------------------------------------
(* ExecuteJob goes from one phase to the next.                             *)

(* What all these steps leave alone. *)
Goes(from, to, s) ==
  /\ phase = from /\ phase' = to
  /\ todo[Execution] = <<>> /\ todo' = [todo EXCEPT ![Execution] = s]
  /\ UNCHANGED <<called, lock, task, seen, disk>>
  /\ job'.status = job.status /\ job'.result = job.result /\ job'.finished = job.finished
  /\ job' \in JobType

(* It is enough to look at the new place. *)
LEMMA GoFrame ==
  ASSUME CoreInv, FieldInv, NEW from, NEW to, NEW s, Goes(from, to, s),
         PlaceInv', StatusInv', ComputedInv', EarlyPlace => EarlyPlace', LastPlace => LastPlace'
  PROVE  CoreInv'
  <1>1. \A i \in Tasks : todo'[i] = todo[i] BY OneMoves, Kinds DEF Goes
  <1>2. Idle' <=> Idle BY <1>1 DEF Idle
  <1>3. AllEnded' <=> AllEnded BY DEF AllEnded, Goes
  <1>4. \A i \in Tasks : TaskInv(i)' BY <1>1 DEF CoreInv, TaskInv, Goes
  <1>5. todo[Execution] # Done5 BY ExecuteLen DEF Goes
  <1>6. DoneInv' BY <1>2, <1>3, <1>5 DEF CoreInv, DoneInv, Goes
  <1> QED BY <1>4, <1>6 DEF CoreInv

(* The steps between the phases, and where they lead. *)
GoStep ==
  \/ Begin /\ Goes("queued", "ping", <<>>)
  \/ NoWorkers /\ Goes("ping", "over", FailJob)
  \/ StartSplit /\ Goes("ping", "split", Splitting)
  \/ SplitError /\ Goes("split", "over", FailJob)
  \/ SplitOk /\ Goes("split", "dispatch", Running)
  \/ EndDispatch /\ Goes("dispatch", "wait", <<>>)
  \/ AllDone /\ Goes("wait", "check", Entering)
  \/ Interrupted /\ Goes("wait", "interrupted", Opening)
  \/ CheckCancelled /\ Goes("check", "over", Leaving)
  \/ CheckPassed /\ Goes("check", "collect", Leaving)
  \/ CollectFailed /\ Goes("collect", "over", FailJob)
  \/ Collect /\ Goes("collect", "aggregate", Aggregating)
  \/ AggregateError /\ Goes("aggregate", "over", FailJob)
  \/ InterruptedWrite /\ Goes("interrupted", "over", IF job.status = "running" THEN Fail1 ELSE Save0)
  \/ AggregateOk /\ Goes("aggregate", "over", First)

(* Each of the steps between the phases is one of these. *)
LEMMA GoSteps ==
  ASSUME FieldInv,
         \/ Begin \/ NoWorkers \/ StartSplit \/ SplitError \/ SplitOk \/ EndDispatch
         \/ AllDone \/ Interrupted \/ InterruptedWrite \/ CheckCancelled \/ CheckPassed
         \/ CollectFailed \/ Collect \/ AggregateError \/ AggregateOk
  PROVE  GoStep
  <1>1. ASSUME NEW from, NEW to, NEW s, Go(from, to, s), UNCHANGED job
        PROVE  Goes(from, to, s)
    BY <1>1 DEF Go, Goes, Turn, FieldInv
  <1>2. CASE Begin
    <2>1. job' = [job EXCEPT !.cancel = TRUE] BY <1>2 DEF Begin
    <2>2. job' \in JobType /\ job'.status = job.status /\ job'.result = job.result
          /\ job'.finished = job.finished
      BY <2>1 DEF FieldInv, JobType
    <2> QED BY <1>2, <2>2 DEF Begin, Go, Goes, Turn, GoStep
  <1>3. CASE NoWorkers
    <2>1. Goes("ping", "over", FailJob) BY <1>1, <1>3 DEF NoWorkers
    <2> QED BY <1>3, <2>1 DEF GoStep
  <1>4. CASE StartSplit
    <2>1. Goes("ping", "split", Splitting) BY <1>1, <1>4 DEF StartSplit, Splitting
    <2> QED BY <1>4, <2>1 DEF GoStep
  <1>5. CASE SplitError
    <2>1. Goes("split", "over", FailJob) BY <1>1, <1>5 DEF SplitError
    <2> QED BY <1>5, <2>1 DEF GoStep
  <1>6. CASE SplitOk
    <2>1. Goes("split", "dispatch", Running) BY <1>1, <1>6, DispatchText DEF SplitOk
    <2> QED BY <1>6, <2>1 DEF GoStep
  <1>7. CASE EndDispatch
    <2>1. Goes("dispatch", "wait", <<>>) BY <1>1, <1>7 DEF EndDispatch
    <2> QED BY <1>7, <2>1 DEF GoStep
  <1>8. CASE AllDone
    <2>1. Goes("wait", "check", Entering) BY <1>1, <1>8 DEF AllDone, Entering
    <2> QED BY <1>8, <2>1 DEF GoStep
  <1>9. CASE Interrupted
    <2>1. Goes("wait", "interrupted", Opening) BY <1>1, <1>9 DEF Interrupted, Opening
    <2> QED BY <1>9, <2>1 DEF GoStep
  <1>10. CASE CheckCancelled
    <2>1. Goes("check", "over", Leaving) BY <1>1, <1>10 DEF CheckCancelled, Leaving
    <2> QED BY <1>10, <2>1 DEF GoStep
  <1>11. CASE CheckPassed
    <2>1. Goes("check", "collect", Leaving) BY <1>1, <1>11 DEF CheckPassed, Leaving
    <2> QED BY <1>11, <2>1 DEF GoStep
  <1>12. CASE CollectFailed
    <2>1. Goes("collect", "over", FailJob) BY <1>1, <1>12 DEF CollectFailed
    <2> QED BY <1>12, <2>1 DEF GoStep
  <1>13. CASE Collect
    <2>1. Goes("collect", "aggregate", Aggregating) BY <1>1, <1>13, DispatchText DEF Collect
    <2> QED BY <1>13, <2>1 DEF GoStep
  <1>14. CASE AggregateError
    <2>1. Goes("aggregate", "over", FailJob) BY <1>1, <1>14 DEF AggregateError
    <2> QED BY <1>14, <2>1 DEF GoStep
  <1>15. CASE InterruptedWrite
    <2>1. Goes("interrupted", "over", IF job.status = "running" THEN Fail1 ELSE Save0)
      <3>1. CASE job.status = "running"
        BY <1>1, <1>15, <3>1, InterruptedText DEF InterruptedWrite
      <3>2. CASE job.status # "running"
        BY <1>1, <1>15, <3>2, InterruptedText DEF InterruptedWrite
      <3> QED BY <3>1, <3>2
    <2> QED BY <1>15, <2>1 DEF GoStep
  <1>16. CASE AggregateOk
    <2>1. Goes("aggregate", "over", First)
      BY <1>1, <1>16, DoneText DEF AggregateOk
    <2> QED BY <1>16, <2>1 DEF GoStep
  <1> QED BY <1>2, <1>3, <1>4, <1>5, <1>6, <1>7, <1>8, <1>9, <1>10, <1>11, <1>12, <1>13, <1>14,
             <1>15, <1>16

(* Every such step keeps the core. *)
LEMMA GoCore ==
  ASSUME FieldInv, CoreInv, GoStep
  PROVE  CoreInv'
  <1> DEFINE e == todo[Execution]
             f == todo'[Execution]
  <1>1. ASSUME NEW from, NEW to, NEW s, Goes(from, to, s)
        PROVE  /\ phase = from /\ e = <<>> /\ phase' = to /\ f = s
               /\ job'.status = job.status /\ job'.result = job.result
               /\ job'.finished = job.finished
               /\ Idle' <=> Idle
               /\ AllEnded' <=> AllEnded
               /\ ComputedInv /\ StatusInv /\ DoneInv
    <2>1. \A d \in Callers : d # Execution => todo'[d] = todo[d] BY <1>1, OneMoves, Kinds DEF Goes
    <2>2. Idle' <=> Idle BY <2>1, Kinds DEF Idle
    <2>3. AllEnded' <=> AllEnded BY <1>1 DEF AllEnded, Goes
    <2>4. f = s BY <1>1, OneMoves, Kinds DEF Goes
    <2>5. ComputedInv /\ StatusInv /\ DoneInv BY DEF CoreInv
    <2> QED BY <1>1, <2>2, <2>3, <2>4, <2>5 DEF Goes
  <1>2. <<>> \notin {Splitting, FailJob, Fail1} BY ExecuteLen
  <1>3. e = <<>> /\ phase \notin {"queued", "ping", "over"} => ~EarlyPlace /\ ~LastPlace
    BY <1>2, ExecuteLen DEF EarlyPlace, LastPlace
  <1> HIDE DEF e, f
  <1>4. ASSUME Goes("queued", "ping", <<>>), Begin
        PROVE  CoreInv'
    <2>1. /\ phase = "queued" /\ e = <<>> /\ phase' = "ping" /\ f = <<>>
          /\ job'.status = job.status /\ job'.result = job.result
          /\ job'.finished = job.finished
          /\ Idle' <=> Idle
          /\ AllEnded' <=> AllEnded
          /\ ComputedInv /\ StatusInv /\ DoneInv
      BY <1>1, <1>4
    <2>2. f \notin Finishing \union Saving \union {Done4, First, Done2}
      BY <2>1, ExecuteLen, ExecuteOps DEF Finishing, Saving
    <2>3. PlaceInv' BY <2>1 DEF PlaceInv, Settled, f
    <2>5. StatusInv' BY <2>1, <2>2 DEF StatusInv, f
    <2>7. ComputedInv' BY <2>1, <2>2 DEF ComputedInv, f
    <2>9. (EarlyPlace => EarlyPlace') /\ (LastPlace => LastPlace')
      BY <1>2, <2>1 DEF EarlyPlace, LastPlace, e
    <2> QED BY <1>4, <2>3, <2>5, <2>7, <2>9, GoFrame
  <1>5. ASSUME Goes("ping", "over", FailJob), NoWorkers
        PROVE  CoreInv'
    <2>1. /\ phase = "ping" /\ e = <<>> /\ phase' = "over" /\ f = FailJob
          /\ job'.status = job.status /\ job'.result = job.result
          /\ job'.finished = job.finished
          /\ Idle' <=> Idle
          /\ AllEnded' <=> AllEnded
          /\ ComputedInv /\ StatusInv /\ DoneInv
      BY <1>1, <1>5
    <2>2. f \notin Finishing \union Saving \union {Done4, First, Done2}
      BY <2>1, ExecuteLen, ExecuteOps DEF Finishing, Saving
    <2>3. PlaceInv' BY <2>1 DEF PlaceInv, Settled, f
    <2>5. StatusInv' BY <2>1, <2>2 DEF StatusInv, f
    <2>7. ComputedInv' BY <2>1, <2>2 DEF ComputedInv, f
    <2>9. (EarlyPlace => EarlyPlace') /\ (LastPlace => LastPlace')
      BY <1>2, <2>1 DEF EarlyPlace, LastPlace, e, f
    <2> QED BY <1>5, <2>3, <2>5, <2>7, <2>9, GoFrame
  <1>6. ASSUME Goes("ping", "split", Splitting), StartSplit
        PROVE  CoreInv'
    <2>1. /\ phase = "ping" /\ e = <<>> /\ phase' = "split" /\ f = Splitting
          /\ job'.status = job.status /\ job'.result = job.result
          /\ job'.finished = job.finished
          /\ Idle' <=> Idle
          /\ AllEnded' <=> AllEnded
          /\ ComputedInv /\ StatusInv /\ DoneInv
      BY <1>1, <1>6
    <2>2. f \notin Finishing \union Saving \union {Done4, First, Done2}
      BY <2>1, ExecuteLen, ExecuteOps DEF Finishing, Saving
    <2>3. PlaceInv' BY <2>1 DEF PlaceInv, Settled, f
    <2>5. StatusInv' BY <2>1, <2>2 DEF StatusInv, f
    <2>7. ComputedInv' BY <2>1, <2>2 DEF ComputedInv, f
    <2>9. (EarlyPlace => EarlyPlace') /\ (LastPlace => LastPlace')
      BY <1>2, <2>1 DEF EarlyPlace, LastPlace, e, f
    <2> QED BY <1>6, <2>3, <2>5, <2>7, <2>9, GoFrame
  <1>7. ASSUME Goes("split", "over", FailJob), SplitError
        PROVE  CoreInv'
    <2>1. /\ phase = "split" /\ e = <<>> /\ phase' = "over" /\ f = FailJob
          /\ job'.status = job.status /\ job'.result = job.result
          /\ job'.finished = job.finished
          /\ Idle' <=> Idle
          /\ AllEnded' <=> AllEnded
          /\ ComputedInv /\ StatusInv /\ DoneInv
      BY <1>1, <1>7
    <2>2. f \notin Finishing \union Saving \union {Done4, First, Done2}
      BY <2>1, ExecuteLen, ExecuteOps DEF Finishing, Saving
    <2>3. PlaceInv' BY <2>1 DEF PlaceInv, Settled, f
    <2>5. StatusInv' BY <2>1, <2>2 DEF StatusInv, f
    <2>7. ComputedInv' BY <2>1, <2>2 DEF ComputedInv, f
    <2>9. ~EarlyPlace /\ ~LastPlace BY <1>3, <2>1
    <2> QED BY <1>7, <2>3, <2>5, <2>7, <2>9, GoFrame
  <1>8. ASSUME Goes("split", "dispatch", Running), SplitOk
        PROVE  CoreInv'
    <2>1. /\ phase = "split" /\ e = <<>> /\ phase' = "dispatch" /\ f = Running
          /\ job'.status = job.status /\ job'.result = job.result
          /\ job'.finished = job.finished
          /\ Idle' <=> Idle
          /\ AllEnded' <=> AllEnded
          /\ ComputedInv /\ StatusInv /\ DoneInv
      BY <1>1, <1>8
    <2>2. f \notin Finishing \union Saving \union {Done4, First, Done2}
      BY <2>1, ExecuteLen, ExecuteOps DEF Finishing, Saving
    <2>3. PlaceInv' BY <2>1 DEF PlaceInv, Settled, f
    <2>5. StatusInv' BY <2>1, <2>2 DEF StatusInv, f
    <2>7. ComputedInv' BY <2>1, <2>2 DEF ComputedInv, f
    <2>9. ~EarlyPlace /\ ~LastPlace BY <1>3, <2>1
    <2> QED BY <1>8, <2>3, <2>5, <2>7, <2>9, GoFrame
  <1>9. ASSUME Goes("dispatch", "wait", <<>>), EndDispatch
        PROVE  CoreInv'
    <2>1. /\ phase = "dispatch" /\ e = <<>> /\ phase' = "wait" /\ f = <<>>
          /\ job'.status = job.status /\ job'.result = job.result
          /\ job'.finished = job.finished
          /\ Idle' <=> Idle
          /\ AllEnded' <=> AllEnded
          /\ ComputedInv /\ StatusInv /\ DoneInv
      BY <1>1, <1>9
    <2>2. f \notin Finishing \union Saving \union {Done4, First, Done2}
      BY <2>1, ExecuteLen, ExecuteOps DEF Finishing, Saving
    <2>3. PlaceInv' BY <2>1 DEF PlaceInv, Settled, f
    <2>4. e \notin {Running, Running1, Running2} BY <2>1, ExecuteLen
    <2>5. StatusInv' BY <2>1, <2>2, <2>4 DEF StatusInv, e, f
    <2>7. ComputedInv' BY <2>1, <2>2 DEF ComputedInv, f
    <2>9. ~EarlyPlace /\ ~LastPlace BY <1>3, <2>1
    <2> QED BY <1>9, <2>3, <2>5, <2>7, <2>9, GoFrame
  <1>10. ASSUME Goes("wait", "check", Entering), AllDone
        PROVE  CoreInv'
    <2>1. /\ phase = "wait" /\ e = <<>> /\ phase' = "check" /\ f = Entering
          /\ job'.status = job.status /\ job'.result = job.result
          /\ job'.finished = job.finished
          /\ Idle' <=> Idle
          /\ AllEnded' <=> AllEnded
          /\ ComputedInv /\ StatusInv /\ DoneInv
      BY <1>1, <1>10
    <2>2. f \notin Finishing \union Saving \union {Done4, First, Done2}
      BY <2>1, ExecuteLen, ExecuteOps DEF Finishing, Saving
    <2>3. PlaceInv' BY <2>1 DEF PlaceInv, Settled, f
    <2>5. StatusInv' BY <2>1, <2>2 DEF StatusInv, f
    <2>6. Idle BY <1>10 DEF AllDone, Idle
    <2>7. ComputedInv' BY <2>1, <2>2, <2>6 DEF ComputedInv, f
    <2>9. ~EarlyPlace /\ ~LastPlace BY <1>3, <2>1
    <2> QED BY <1>10, <2>3, <2>5, <2>7, <2>9, GoFrame
  <1>11. ASSUME Goes("wait", "interrupted", Opening), Interrupted
        PROVE  CoreInv'
    <2>1. /\ phase = "wait" /\ e = <<>> /\ phase' = "interrupted" /\ f = Opening
          /\ job'.status = job.status /\ job'.result = job.result
          /\ job'.finished = job.finished
          /\ Idle' <=> Idle
          /\ AllEnded' <=> AllEnded
          /\ ComputedInv /\ StatusInv /\ DoneInv
      BY <1>1, <1>11
    <2>2. f \notin Finishing \union Saving \union {Done4, First, Done2}
      BY <2>1, ExecuteLen, ExecuteOps DEF Finishing, Saving
    <2>3. PlaceInv' BY <2>1 DEF PlaceInv, Settled, f
    <2>5. StatusInv' BY <2>1, <2>2 DEF StatusInv, f
    <2>7. ComputedInv' BY <2>1, <2>2 DEF ComputedInv, f
    <2>9. ~EarlyPlace /\ ~LastPlace BY <1>3, <2>1
    <2> QED BY <1>11, <2>3, <2>5, <2>7, <2>9, GoFrame
  <1>12. ASSUME Goes("check", "over", Leaving), CheckCancelled
        PROVE  CoreInv'
    <2>1. /\ phase = "check" /\ e = <<>> /\ phase' = "over" /\ f = Leaving
          /\ job'.status = job.status /\ job'.result = job.result
          /\ job'.finished = job.finished
          /\ Idle' <=> Idle
          /\ AllEnded' <=> AllEnded
          /\ ComputedInv /\ StatusInv /\ DoneInv
      BY <1>1, <1>12
    <2>2. f \notin Finishing \union Saving \union {Done4, First, Done2}
      BY <2>1, ExecuteLen, ExecuteOps DEF Finishing, Saving
    <2>3. PlaceInv' BY <2>1 DEF PlaceInv, Settled, f
    <2>5. StatusInv' BY <2>1, <2>2 DEF StatusInv, f
    <2>7. ComputedInv' BY <2>1, <2>2 DEF ComputedInv, f
    <2>9. ~EarlyPlace /\ ~LastPlace BY <1>3, <2>1
    <2> QED BY <1>12, <2>3, <2>5, <2>7, <2>9, GoFrame
  <1>13. ASSUME Goes("check", "collect", Leaving), CheckPassed
        PROVE  CoreInv'
    <2>1. /\ phase = "check" /\ e = <<>> /\ phase' = "collect" /\ f = Leaving
          /\ job'.status = job.status /\ job'.result = job.result
          /\ job'.finished = job.finished
          /\ Idle' <=> Idle
          /\ AllEnded' <=> AllEnded
          /\ ComputedInv /\ StatusInv /\ DoneInv
      BY <1>1, <1>13
    <2>2. f \notin Finishing \union Saving \union {Done4, First, Done2}
      BY <2>1, ExecuteLen, ExecuteOps DEF Finishing, Saving
    <2>3. PlaceInv' BY <2>1 DEF PlaceInv, Settled, f
    <2>5. StatusInv' BY <2>1, <2>2 DEF StatusInv, f
    <2>7. ComputedInv' BY <2>1, <2>2 DEF ComputedInv, f
    <2>9. ~EarlyPlace /\ ~LastPlace BY <1>3, <2>1
    <2> QED BY <1>13, <2>3, <2>5, <2>7, <2>9, GoFrame
  <1>14. ASSUME Goes("collect", "over", FailJob), CollectFailed
        PROVE  CoreInv'
    <2>1. /\ phase = "collect" /\ e = <<>> /\ phase' = "over" /\ f = FailJob
          /\ job'.status = job.status /\ job'.result = job.result
          /\ job'.finished = job.finished
          /\ Idle' <=> Idle
          /\ AllEnded' <=> AllEnded
          /\ ComputedInv /\ StatusInv /\ DoneInv
      BY <1>1, <1>14
    <2>2. f \notin Finishing \union Saving \union {Done4, First, Done2}
      BY <2>1, ExecuteLen, ExecuteOps DEF Finishing, Saving
    <2>3. PlaceInv' BY <2>1 DEF PlaceInv, Settled, f
    <2>5. StatusInv' BY <2>1, <2>2 DEF StatusInv, f
    <2>7. ComputedInv' BY <2>1, <2>2 DEF ComputedInv, f
    <2>9. ~EarlyPlace /\ ~LastPlace BY <1>3, <2>1
    <2> QED BY <1>14, <2>3, <2>5, <2>7, <2>9, GoFrame
  <1>15. ASSUME Goes("collect", "aggregate", Aggregating), Collect
        PROVE  CoreInv'
    <2>1. /\ phase = "collect" /\ e = <<>> /\ phase' = "aggregate" /\ f = Aggregating
          /\ job'.status = job.status /\ job'.result = job.result
          /\ job'.finished = job.finished
          /\ Idle' <=> Idle
          /\ AllEnded' <=> AllEnded
          /\ ComputedInv /\ StatusInv /\ DoneInv
      BY <1>1, <1>15
    <2>2. f \notin Finishing \union Saving \union {Done4, First, Done2}
      BY <2>1, ExecuteLen, ExecuteOps, Different DEF Finishing, Saving
    <2>3. PlaceInv' BY <2>1 DEF PlaceInv, Settled, f
    <2>5. StatusInv' BY <2>1, <2>2 DEF StatusInv, f
    <2>6. Idle BY <2>1 DEF ComputedInv
    <2>7. AllEnded
      <3>1. \A i \in Tasks : task[i].status = "done" BY <1>15 DEF Collect, AllTasksDone
      <3>2. \A i \in Tasks : task[i].output = "whole"
        BY <2>6, <3>1 DEF CoreInv, TaskInv, Idle
      <3>3. \A i \in Tasks : task[i] = Ended
        BY <3>1, <3>2 DEF FieldInv, TaskType, Ended
      <3> QED BY <3>3 DEF FieldInv, AllEnded
    <2>8. ComputedInv' BY <2>1, <2>2, <2>6, <2>7 DEF ComputedInv, f
    <2>9. ~EarlyPlace /\ ~LastPlace BY <1>3, <2>1
    <2> QED BY <1>15, <2>3, <2>5, <2>8, <2>9, GoFrame
  <1>16. ASSUME Goes("aggregate", "over", FailJob), AggregateError
        PROVE  CoreInv'
    <2>1. /\ phase = "aggregate" /\ e = <<>> /\ phase' = "over" /\ f = FailJob
          /\ job'.status = job.status /\ job'.result = job.result
          /\ job'.finished = job.finished
          /\ Idle' <=> Idle
          /\ AllEnded' <=> AllEnded
          /\ ComputedInv /\ StatusInv /\ DoneInv
      BY <1>1, <1>16
    <2>2. f \notin Finishing \union Saving \union {Done4, First, Done2}
      BY <2>1, ExecuteLen, ExecuteOps DEF Finishing, Saving
    <2>3. PlaceInv' BY <2>1 DEF PlaceInv, Settled, f
    <2>5. StatusInv' BY <2>1, <2>2 DEF StatusInv, f
    <2>7. ComputedInv' BY <2>1, <2>2 DEF ComputedInv, f
    <2>9. ~EarlyPlace /\ ~LastPlace BY <1>3, <2>1
    <2> QED BY <1>16, <2>3, <2>5, <2>7, <2>9, GoFrame
  <1>17. ASSUME Goes("interrupted", "over", IF job.status = "running" THEN Fail1 ELSE Save0)
        PROVE  CoreInv'
    <2>1. /\ phase = "interrupted" /\ e = <<>> /\ phase' = "over"
          /\ f = (IF job.status = "running" THEN Fail1 ELSE Save0)
          /\ job'.status = job.status /\ job'.result = job.result
          /\ job'.finished = job.finished
          /\ Idle' <=> Idle
          /\ AllEnded' <=> AllEnded
          /\ ComputedInv /\ StatusInv /\ DoneInv
      BY <1>1, <1>17
    <2>2. f \notin Finishing \union {Done4, First, Done2}
      BY <2>1, ExecuteLen, ExecuteOps DEF Finishing
    <2>3. PlaceInv' BY <2>1 DEF PlaceInv, Settled, Saving, f
    <2>4. job.status \in {"running", "cancelled"} BY <2>1 DEF StatusInv
    <2>5. f \in Saving => job.status = "cancelled"
      BY <2>1, <2>4, ExecuteLen, ExecuteOps, Different DEF Saving
    <2>6. StatusInv' BY <2>1, <2>5 DEF StatusInv, Terminal, f
    <2>7. ComputedInv' BY <2>1, <2>2 DEF ComputedInv, f
    <2>8. ~EarlyPlace /\ ~LastPlace BY <1>3, <2>1
    <2> QED BY <1>17, <2>3, <2>6, <2>7, <2>8, GoFrame
  <1>18. ASSUME Goes("aggregate", "over", First)
        PROVE  CoreInv'
    <2>1. /\ phase = "aggregate" /\ e = <<>> /\ phase' = "over"
          /\ f = First
          /\ job'.status = job.status /\ job'.result = job.result
          /\ job'.finished = job.finished
          /\ Idle' <=> Idle
          /\ AllEnded' <=> AllEnded
          /\ ComputedInv /\ StatusInv /\ DoneInv
      BY <1>1, <1>18
    <2>2. f \notin Saving \union {Done4}
      BY <2>1, ExecuteLen, ExecuteOps DEF Saving
    <2>3. PlaceInv' BY <2>1 DEF PlaceInv, Finishing, f
    <2>4. StatusInv' BY <2>1, <2>2 DEF StatusInv, f
    <2>5. Idle /\ AllEnded BY <2>1 DEF ComputedInv
    <2>7. ComputedInv' BY <2>1, <2>2, <2>5 DEF ComputedInv, f
    <2>8. ~EarlyPlace /\ ~LastPlace BY <1>3, <2>1
    <2> QED BY <1>18, <2>3, <2>4, <2>7, <2>8, GoFrame
  <1> QED BY <1>4, <1>5, <1>6, <1>7, <1>8, <1>9, <1>10, <1>11, <1>12, <1>13, <1>14, <1>15, <1>16,
             <1>17, <1>18 DEF GoStep

-----------------------------------------------------------------------------
(* The other steps that change the job or its tasks.                       *)

(* A client stores "cancelled" over any status. *)
LEMMA CancelledCore ==
  ASSUME CoreInv, UNCHANGED <<phase, task>>,
         job'.status = "cancelled", job'.result = job.result, job'.finished = job.finished,
         todo'[Execution] = todo[Execution], \A i \in Tasks : todo'[i] = todo[i]
  PROVE  CoreInv'
  <1>1. Idle' <=> Idle BY DEF Idle
  <1>2. AllEnded' <=> AllEnded BY DEF AllEnded
  <1>3. \A i \in Tasks : TaskInv(i)' BY DEF CoreInv, TaskInv
  <1>4. PlaceInv' BY DEF CoreInv, PlaceInv
  <1>5. StatusInv' BY DEF CoreInv, StatusInv, Terminal
  <1>6. ComputedInv' BY <1>1, <1>2 DEF CoreInv, ComputedInv
  <1>7. DoneInv' BY DEF DoneInv, Dones, DoneBefore
  <1> QED BY <1>3, <1>4, <1>5, <1>6, <1>7 DEF CoreInv

(* In the phase of the dispatch the job is not done, and nothing is claimed of
   what has been computed. *)
LEMMA DispatchFrame ==
  ASSUME CoreInv, phase = "dispatch", UNCHANGED <<phase, job>>,
         \A i \in Tasks : TaskInv(i)',
         \/ todo'[Execution] \in {Running2, Closing}
         \/ \E i \in Tasks : todo'[Execution] = Launch(i),
         todo[Execution] \in {Running, Running1, Running2} => todo'[Execution] = Running2,
         ~EarlyPlace /\ ~LastPlace
  PROVE  CoreInv'
  <1> DEFINE f == todo'[Execution]
  <1>1. f \notin Finishing \union {Done4, First, Done2}
    BY ExecuteLen, ExecuteOps, LaunchPlaces DEF Finishing
  <1>2. PlaceInv' BY DEF PlaceInv
  <1>3. StatusInv'
    <2>1. todo[Execution] \in {Running, Running1, Running2} => f \in {Running, Running1, Running2}
      OBVIOUS
    <2> QED BY <2>1 DEF CoreInv, StatusInv
  <1>4. ComputedInv' BY <1>1 DEF CoreInv, ComputedInv
  <1>5. DoneInv' BY DEF CoreInv, DoneInv, Dones
  <1> QED BY <1>2, <1>3, <1>4, <1>5 DEF CoreInv

(* Nothing keeps a job done while its tasks are dispatched. *)
LEMMA DispatchNotDone ==
  ASSUME phase = "dispatch",
         todo[Execution] \in {<<>>, Running1} \/ \E i \in Tasks : todo[Execution] = Launch1(i)
  PROVE  ~EarlyPlace /\ ~LastPlace
  BY ExecuteLen, ExecuteOps, LaunchPlaces DEF EarlyPlace, LastPlace

(* The creation of the tasks. *)
LEMMA CreateCore ==
  ASSUME FieldInv, CoreInv, Create
  PROVE  /\ CoreInv'
         /\ todo[Execution] = Running1 /\ phase = "dispatch"
         /\ task' \in [Tasks -> TaskType]
  <1>1. todo[Execution] = Running1 BY ExecuteAt DEF Create, CoreInv
  <1>2. phase = "dispatch" BY <1>1, PhaseOf DEF CoreInv
  <1>3. todo' = [todo EXCEPT ![Execution] = Running2]
    BY <1>1, ExecuteNext DEF Create, Advance, Rest
  <1>4. todo'[Execution] = Running2 /\ \A i \in Tasks : todo'[i] = todo[i]
    BY <1>3, OneMoves, Kinds
  <1>5. task' = [i \in Tasks |-> NewTask] BY DEF Create
  <1>6. NewTask \in TaskType /\ NewTask.status # "done" BY DEF NewTask, TaskType
  <1>7. \A i \in Tasks : TaskInv(i)' BY <1>4, <1>5, <1>6 DEF CoreInv, TaskInv
  <1>8. ~EarlyPlace /\ ~LastPlace BY <1>1, <1>2, DispatchNotDone
  <1>9. UNCHANGED <<phase, job>> BY DEF Create
  <1>10. CoreInv' BY <1>2, <1>4, <1>7, <1>8, <1>9, DispatchFrame
  <1> QED BY <1>1, <1>2, <1>5, <1>6, <1>10

(* A task is given to a worker. *)
LEMMA DispatchCore ==
  ASSUME FieldInv, CoreInv, NEW i \in Tasks, Dispatch(i)
  PROVE  /\ CoreInv'
         /\ todo[Execution] = <<>> /\ phase = "dispatch"
         /\ todo' = [todo EXCEPT ![Execution] = Launch(i)]
  <1>1. todo[Execution] = <<>> /\ phase = "dispatch" BY DEF Dispatch
  <1>2. todo' = [todo EXCEPT ![Execution] = Launch(i)] BY DEF Dispatch, Turn, Launch
  <1>3. todo'[Execution] = Launch(i) /\ \A j \in Tasks : todo'[j] = todo[j]
    BY <1>2, OneMoves, Kinds
  <1>4. UNCHANGED <<phase, job, task>> BY DEF Dispatch
  <1>5. \A j \in Tasks : TaskInv(j)' BY <1>3, <1>4 DEF CoreInv, TaskInv
  <1>6. ~EarlyPlace /\ ~LastPlace BY <1>1, DispatchNotDone
  <1>7. todo[Execution] \notin {Running, Running1, Running2} BY <1>1, ExecuteLen
  <1>8. CoreInv' BY <1>1, <1>3, <1>4, <1>5, <1>6, <1>7, DispatchFrame
  <1> QED BY <1>1, <1>2, <1>8

(* Its goroutine starts. *)
LEMMA StartCore ==
  ASSUME FieldInv, CoreInv, NEW i \in Tasks, Start(i)
  PROVE  /\ CoreInv'
         /\ todo[Execution] = Launch1(i) /\ phase = "dispatch"
         /\ task' \in [Tasks -> TaskType]
         /\ todo' = [todo EXCEPT ![Execution] = Closing, ![i] = Calling]
  <1>1. todo[Execution] = Launch1(i)
    <2>1. PICK j \in Tasks : todo[Execution] = Launch1(j) BY ExecuteAt DEF Start, CoreInv
    <2>2. Head(todo[Execution]).which = j BY <2>1, LaunchPlaces
    <2> QED BY <2>1, <2>2 DEF Start
  <1>2. phase = "dispatch" BY <1>1, PhaseOf DEF CoreInv
  <1>3. todo' = [todo EXCEPT ![Execution] = Closing, ![i] = Calling] BY DEF Start, Closing, Calling
  <1>4. todo'[Execution] = Closing /\ todo'[i] = Calling
    BY <1>3, Kinds DEF FieldInv
  <1>5. \A j \in Tasks : j # i => todo'[j] = todo[j]
    BY <1>3, Kinds DEF FieldInv
  <1>6. task' = [task EXCEPT ![i].status = "running"] BY DEF Start
  <1>7. task' \in [Tasks -> TaskType] /\ \A j \in Tasks : j # i => task'[j] = task[j]
    BY <1>6 DEF FieldInv, TaskType
  <1>8. Calling # <<>> BY TaskLen
  <1>9. UNCHANGED <<phase, job>> BY DEF Start
  <1>10. ASSUME NEW j \in Tasks PROVE TaskInv(j)'
    <2>1. CASE j = i BY <1>4, <1>8, <2>1 DEF TaskInv, TaskPlaces
    <2>2. CASE j # i BY <1>5, <1>7, <2>2 DEF CoreInv, TaskInv
    <2> QED BY <2>1, <2>2
  <1>11. ~EarlyPlace /\ ~LastPlace BY <1>1, <1>2, DispatchNotDone
  <1>12. todo[Execution] \notin {Running, Running1, Running2}
    BY <1>1, ExecuteOps, LaunchPlaces
  <1>13. CoreInv' BY <1>2, <1>4, <1>9, <1>10, <1>11, <1>12, DispatchFrame
  <1> QED BY <1>1, <1>2, <1>3, <1>7, <1>13

(* While the goroutine of a task has anything left to do, nobody relies on the
   tasks: only they may change. *)
LEMMA TaskFrames ==
  ASSUME CoreInv, NEW i \in Tasks, todo[i] # <<>>, TaskInv(i)',
         todo'[Execution] = todo[Execution],
         \A j \in Tasks : j # i => todo'[j] = todo[j] /\ task'[j] = task[j],
         UNCHANGED <<phase, job>>
  PROVE  CoreInv' /\ ~Idle /\ job.status \notin Dones
  <1>1. ~Idle BY DEF Idle
  <1>2. job.status \notin Dones BY <1>1 DEF CoreInv, DoneInv
  <1>3. \A j \in Tasks : TaskInv(j)' BY DEF CoreInv, TaskInv
  <1>4. PlaceInv' BY DEF CoreInv, PlaceInv
  <1>5. StatusInv' BY DEF CoreInv, StatusInv
  <1>6. /\ phase \notin {"check", "collect", "aggregate"}
        /\ todo[Execution] \notin Finishing
    BY <1>1 DEF CoreInv, ComputedInv
  <1>7. ComputedInv' BY <1>6 DEF CoreInv, ComputedInv
  <1>8. DoneInv' BY <1>2 DEF DoneInv, Dones
  <1> QED BY <1>1, <1>2, <1>3, <1>4, <1>5, <1>7, <1>8 DEF CoreInv

(* The call of a task ends. *)
LEMMA TaskEndCore ==
  ASSUME FieldInv, CoreInv, NEW i \in Tasks, NEW s \in {TaskDone, TaskFailed}, TaskEnd(i, s)
  PROVE  CoreInv' /\ ~Idle /\ todo' = [todo EXCEPT ![i] = s]
  <1>1. todo[i] # <<>> BY DEF TaskEnd, NextIs
  <1>2. todo' = [todo EXCEPT ![i] = s] BY DEF TaskEnd, Turn
  <1>3. /\ todo'[i] = s /\ todo'[Execution] = todo[Execution]
        /\ \A j \in Tasks : j # i => todo'[j] = todo[j]
    BY <1>2, OneMoves, Kinds
  <1>4. UNCHANGED <<phase, job, task>> BY DEF TaskEnd
  <1>5. s # <<>> BY TaskLen
  <1>6. TaskInv(i)' BY <1>3, <1>5 DEF TaskInv, TaskPlaces
  <1> QED BY <1>1, <1>2, <1>3, <1>4, <1>6, TaskFrames

(* The goroutine of a task stores: after the last store of a good answer the
   output is whole. *)
LEMMA TaskStoreCore ==
  ASSUME FieldInv, CoreInv, NEW i \in Tasks, Store(i)
  PROVE  /\ CoreInv' /\ ~Idle
         /\ todo' = [todo EXCEPT ![i] = Tail(todo[i])]
         /\ task' \in [Tasks -> TaskType]
         /\ UNCHANGED job
  <1> DEFINE e == todo[i]
             f == todo'[i]
  <1>1. e \in {TaskDone, TaskDone1, TaskDone2, TaskFailed}
    BY TaskAt DEF Store, CoreInv, TaskInv
  <1>2. e # <<>> BY DEF Store, NextIs
  <1>3. todo' = [todo EXCEPT ![i] = Tail(todo[i])] BY DEF Store, Advance
  <1>4. /\ f = Rest(e) /\ todo'[Execution] = todo[Execution]
        /\ \A j \in Tasks : j # i => todo'[j] = todo[j]
    BY <1>3, OneMoves, Kinds DEF Rest
  <1>5. UNCHANGED <<phase, job>> BY Kinds DEF Store
  <1>6. task' = [task EXCEPT ![i][Head(e).field] = Head(e).value] BY Kinds DEF Store
  <1>7. task[i] \in TaskType BY DEF FieldInv
  <1> HIDE DEF e, f
  <1>8. task'[i] \in TaskType /\ (f = <<>> /\ task'[i].status = "done" => task'[i].output = "whole")
    <2>0. task'[i] = [task[i] EXCEPT ![Head(e).field] = Head(e).value] BY <1>6 DEF FieldInv
    <2>1. CASE e = TaskDone
      <3>1. task'[i] = [task[i] EXCEPT !.status = "done"] /\ f = TaskDone1
        BY <1>4, <1>7, <2>0, <2>1, TaskFields, TaskNext DEF TaskType
      <3> QED BY <1>7, <3>1, TaskLen DEF TaskType
    <2>2. CASE e = TaskDone1
      <3>1. task'[i] = [task[i] EXCEPT !.output = Garbled] /\ f = TaskDone2
        BY <1>4, <1>7, <2>0, <2>2, TaskFields, TaskNext DEF TaskType
      <3> QED BY <1>7, <3>1, TaskLen DEF TaskType
    <2>3. CASE e = TaskDone2
      <3>1. task'[i] = [task[i] EXCEPT !.output = "whole"]
        BY <1>7, <2>0, <2>3, TaskFields DEF TaskType
      <3> QED BY <1>7, <3>1 DEF TaskType
    <2>4. CASE e = TaskFailed
      <3>1. task'[i] = [task[i] EXCEPT !.status = "failed"]
        BY <1>7, <2>0, <2>4, TaskFields DEF TaskType
      <3> QED BY <1>7, <3>1 DEF TaskType
    <2> QED BY <1>1, <2>1, <2>2, <2>3, <2>4
  <1>9. task' \in [Tasks -> TaskType] /\ \A j \in Tasks : j # i => task'[j] = task[j]
    BY <1>6, <1>8 DEF FieldInv
  <1>10. f \in TaskPlaces BY <1>1, <1>4, TaskNext DEF TaskPlaces
  <1>11. TaskInv(i)' BY <1>8, <1>10 DEF TaskInv, f
  <1>12. CoreInv' /\ ~Idle BY <1>2, <1>4, <1>5, <1>9, <1>11, TaskFrames DEF e
  <1> QED BY <1>3, <1>5, <1>9, <1>12

-----------------------------------------------------------------------------
(* The lock.                                                               *)

(* What is next tells whether the lock is held. *)
LEMMA HoldingOps ==
  ASSUME NEW s
  PROVE  /\ WritePlace(s) =>
              Left(s) # 0 /\ Op(s) \in {"cancel", "put", "unlock", "create", "encode", "start"}
         /\ ReadPlace(s) => Left(s) # 0 /\ Op(s) \in {"runlock", "look", "send"}
  <1>1. s \in {Cancel1, Cancel2, Closing} => Left(s) # 0 /\ Op(s) \in {"cancel", "put", "unlock"}
    BY ClientOps, ClientLen
  <1>2. s \in {Running1, Running2, Aggregating1, Fail1, Done2, Done3, Done4, Done5, Save0, Save2}
        => Left(s) # 0 /\ Op(s) \in {"put", "unlock", "create", "encode"}
    BY ExecuteOps, ExecuteLen
  <1>3. (\E i \in Tasks : s = Launch1(i)) => Left(s) # 0 /\ Op(s) = "start"
    BY LaunchPlaces
  <1>4. ReadPlace(s) => Left(s) # 0 /\ Op(s) \in {"runlock", "look", "send"}
    BY ClientOps, ClientLen DEF ReadPlace
  <1>5. WritePlace(s) =>
          Left(s) # 0 /\ Op(s) \in {"cancel", "put", "unlock", "create", "encode", "start"}
    BY <1>1, <1>2, <1>3 DEF WritePlace
  <1> QED BY <1>4, <1>5

(* The places of a view and of the statistics that are as long as each other. *)
LEMMA ClientDifferent == View2 # Stats2 /\ View3 # Stats3 /\ View4 # Stats4
  <1>1. View2 # Stats2 BY ClientFields
  <1>2. View3 # Stats3 BY ClientFields
  <1>3. View4 # Stats4 BY ClientOps
  <1> QED BY <1>1, <1>2, <1>3

(* Three places without the read lock. *)
LEMMA NotReading == ~ReadPlace(View2) /\ ~ReadPlace(Sending) /\ ~ReadPlace(<<>>)
  <1>1. ~ReadPlace(View2) BY ClientLen, ClientOps, ClientDifferent DEF ReadPlace
  <1>2. ~ReadPlace(Sending) BY ClientLen, ClientOps DEF ReadPlace
  <1>3. ~ReadPlace(<<>>) BY ClientLen DEF ReadPlace
  <1> QED BY <1>1, <1>2, <1>3

(* Where a goroutine is after an access to the lock. *)
LEMMA AfterLock ==
  ASSUME FieldInv, CoreInv, \A d \in Clients : ClientInv(d), NEW c \in Callers,
         todo' = [todo EXCEPT ![c] = Tail(todo[c])], phase' = phase
  PROVE  /\ NextIs(c, "lock") => ~Reading(c)'
         /\ NextIs(c, "unlock") => Writing(c) /\ ~Writing(c)' /\ ~Reading(c)'
         /\ NextIs(c, "rlock") => ~Writing(c)'
         /\ NextIs(c, "runlock") => ~Writing(c)' /\ ~Reading(c)'
  <1> DEFINE e == todo[c]
             f == todo'[c]
  <1>1. f = Rest(e) BY OneMoves DEF Rest
  <1>2. CASE c \in Clients
    <2>1. c # Execution BY <1>2, Kinds
    <2>2. e \in ClientPlaces BY <1>2 DEF ClientInv
    <2>3. NextIs(c, "lock") => ~Reading(c)'
      <3> SUFFICES ASSUME NextIs(c, "lock") PROVE ~Reading(c)' OBVIOUS
      <3>1. f = Cancel1 BY <1>1, <2>2, ClientAt, ClientNext
      <3> QED BY <2>1, <3>1, ClientOps, HoldingOps DEF Reading
    <2>4. NextIs(c, "unlock") => Writing(c) /\ ~Writing(c)' /\ ~Reading(c)'
      <3> SUFFICES ASSUME NextIs(c, "unlock") PROVE Writing(c) /\ ~Writing(c)' /\ ~Reading(c)' OBVIOUS
      <3>1. e = Closing /\ f = <<>> BY <1>1, <2>2, ClientAt, ClientNext
      <3>2. Writing(c) BY <3>1 DEF Writing, WritePlace
      <3>3. ~Writing(c)' BY <2>1, <3>1, ClientLen, HoldingOps DEF Writing
      <3>4. ~Reading(c)' BY <2>1, <3>1, ClientLen, HoldingOps DEF Reading
      <3> QED BY <3>2, <3>3, <3>4
    <2>5. NextIs(c, "rlock") => ~Writing(c)'
      <3> SUFFICES ASSUME NextIs(c, "rlock") PROVE ~Writing(c)' OBVIOUS
      <3>1. f \in {View1, Stats1, Workers1} BY <1>1, <2>2, ClientAt, ClientNext
      <3> QED BY <2>1, <3>1, ClientOps, HoldingOps DEF Writing
    <2>6. NextIs(c, "runlock") => ~Writing(c)' /\ ~Reading(c)'
      <3> SUFFICES ASSUME NextIs(c, "runlock") PROVE ~Writing(c)' /\ ~Reading(c)' OBVIOUS
      <3>1. f \in {View2, Sending, <<>>} BY <1>1, <2>2, ClientAt, ClientNext
      <3>2. ~Writing(c)'
        BY <2>1, <3>1, ClientLen, ClientOps, HoldingOps DEF Writing
      <3>3. ~Reading(c)'
        BY <2>1, <3>1, NotReading DEF Reading
      <3> QED BY <3>2, <3>3
    <2> QED BY <2>3, <2>4, <2>5, <2>6
  <1>3. CASE c \in Tasks
    BY <1>3, TaskAt DEF CoreInv, TaskInv
  <1>4. CASE c = Execution
    <2>1. PlaceInv BY DEF CoreInv
    <2>2. NextIs(c, "lock") => ~Reading(c)'
      <3> SUFFICES ASSUME NextIs(c, "lock") PROVE ~Reading(c)' OBVIOUS
      <3>1. CASE e \in {Running, Opening, Aggregating, FailJob, Save, First}
        <4>1. f \in {Running1, <<>>, Aggregating1, Fail1, Save2, Done2, Done3}
          BY <1>1, <3>1, ExecuteNext
        <4>2. ~ReadPlace(f) BY <4>1, ExecuteOps, ExecuteLen, HoldingOps
        <4>3. phase # "check"
          <5>1. e \in {Running, Opening, Aggregating} => phase # "check" BY <1>4, <2>1, PhaseOf
          <5>2. e \in {FailJob, Save, First} => phase # "check"
            BY <1>4, <2>1, PhaseOf DEF Finishing
          <5> QED BY <3>1, <5>1, <5>2
        <4> QED BY <4>2, <4>3 DEF Reading
      <3>2. CASE \E i \in Tasks : e = Launch(i)
        <4>1. PICK i \in Tasks : f = Launch1(i) BY <1>1, <3>2, LaunchPlaces
        <4>2. Launch1(i) # <<>> BY DEF Launch1
        <4> QED BY <4>1, <4>2, LaunchPlaces, HoldingOps DEF Reading
      <3> QED BY <1>4, <2>1, <3>1, <3>2, ExecuteAt
    <2>3. NextIs(c, "unlock") => Writing(c) /\ ~Writing(c)' /\ ~Reading(c)'
      <3> SUFFICES ASSUME NextIs(c, "unlock") PROVE Writing(c) /\ ~Writing(c)' /\ ~Reading(c)' OBVIOUS
      <3>1. e \in {Closing, Save0} BY <1>4, <2>1, ExecuteAt
      <3>2. f \in {<<>>, Save} BY <1>1, <3>1, ExecuteNext
      <3>3. phase' \notin {"interrupted", "check"} BY <1>4, <2>1, <3>1, PhaseOf
      <3>4. Writing(c) BY <3>1 DEF Writing, WritePlace
      <3>5. ~Writing(c)' BY <3>2, <3>3, ExecuteLen, ExecuteOps, HoldingOps DEF Writing
      <3>6. ~Reading(c)' BY <3>2, <3>3, ExecuteLen, ExecuteOps, HoldingOps DEF Reading
      <3> QED BY <3>4, <3>5, <3>6
    <2>4. NextIs(c, "rlock") => ~Writing(c)'
      <3> SUFFICES ASSUME NextIs(c, "rlock") PROVE ~Writing(c)' OBVIOUS
      <3>1. e = Entering BY <1>4, <2>1, ExecuteAt
      <3>2. f = <<>> /\ phase' = "check" BY <1>1, <1>4, <2>1, <3>1, ExecuteNext, PhaseOf
      <3> QED BY <3>2, ExecuteLen, HoldingOps DEF Writing
    <2>5. NextIs(c, "runlock") => ~Writing(c)' /\ ~Reading(c)'
      <3> SUFFICES ASSUME NextIs(c, "runlock") PROVE ~Writing(c)' /\ ~Reading(c)' OBVIOUS
      <3>1. e = Leaving BY <1>4, <2>1, ExecuteAt
      <3>2. f = <<>> /\ phase' \in {"collect", "over"}
        BY <1>1, <1>4, <2>1, <3>1, ExecuteNext, PhaseOf
      <3>3. ~Writing(c)' BY <3>2, ExecuteLen, HoldingOps DEF Writing
      <3>4. ~Reading(c)' BY <3>2, ExecuteLen, HoldingOps DEF Reading
      <3> QED BY <3>3, <3>4
    <2> QED BY <2>2, <2>3, <2>4, <2>5
  <1> QED BY <1>2, <1>3, <1>4, Kinds

(* The four accesses to the lock keep what is known of it. *)
LEMMA LockSteps ==
  ASSUME FieldInv, LockInv, CoreInv, \A d \in Clients : ClientInv(d), NEW c \in Callers,
         Lock(c) \/ Unlock(c) \/ RLock(c) \/ RUnlock(c)
  PROVE  /\ LockInv'
         /\ lock' \in [writer : Callers \union {NoOne}, held : BOOLEAN, readers : SUBSET Callers]
  <1>1. todo' = [todo EXCEPT ![c] = Tail(todo[c])] /\ phase' = phase
    BY DEF Lock, Unlock, RLock, RUnlock, Advance
  <1>2. ASSUME NEW d \in Callers, d # c
        PROVE  (Writing(d)' <=> Writing(d)) /\ (Reading(d)' <=> Reading(d))
    BY <1>1, <1>2, OneMoves, HoldFrame
  <1>3. /\ \A d \in Callers : Writing(d) => lock.held /\ lock.writer = d
        /\ \A d \in Callers : Reading(d) => d \in lock.readers
        /\ lock.held => lock.readers = {} /\ lock.writer # NoOne
    BY DEF LockInv
  <1>4. lock \in [writer : Callers \union {NoOne}, held : BOOLEAN, readers : SUBSET Callers]
    BY DEF FieldInv
  <1>5. CASE Lock(c)
    <2>1. lock.writer = c /\ lock.readers = {} /\ lock' = [lock EXCEPT !.held = TRUE]
      BY <1>5 DEF Lock
    <2>2. lock'.held /\ lock'.writer = c /\ lock'.readers = {} BY <1>4, <2>1
    <2>3. ~Reading(c)' BY <1>1, <1>5, AfterLock DEF Lock
    <2>4. \A d \in Callers : Writing(d)' => d = c BY <1>2, <1>3, <2>1
    <2>5. \A d \in Callers : ~Reading(d)' BY <1>2, <1>3, <2>1, <2>3
    <2>6. LockInv' BY <2>2, <2>4, <2>5, Kinds DEF LockInv
    <2> QED BY <1>4, <2>1, <2>6
  <1>6. CASE Unlock(c)
    <2>1. Writing(c) /\ ~Writing(c)' /\ ~Reading(c)' BY <1>1, <1>6, AfterLock DEF Unlock
    <2>2. lock' = [lock EXCEPT !.writer = NoOne, !.held = FALSE] BY <1>6 DEF Unlock
    <2>3. ~lock'.held /\ lock'.writer = NoOne /\ lock'.readers = lock.readers BY <1>4, <2>2
    <2>4. lock.held /\ lock.writer = c BY <1>3, <2>1
    <2>5. \A d \in Callers : ~Writing(d)' BY <1>2, <1>3, <2>1, <2>4
    <2>6. \A d \in Callers : ~Reading(d)' BY <1>2, <1>3, <2>1, <2>4
    <2>7. LockInv' BY <2>3, <2>5, <2>6 DEF LockInv
    <2> QED BY <1>4, <2>2, <2>7
  <1>7. CASE RLock(c)
    <2>1. ~Writing(c)' BY <1>1, <1>7, AfterLock DEF RLock
    <2>2. lock.writer = NoOne /\ lock' = [lock EXCEPT !.readers = @ \union {c}] BY <1>7 DEF RLock
    <2>3. ~lock.held BY <1>3, <2>2
    <2>4. ~lock'.held /\ lock'.readers = lock.readers \union {c} BY <1>4, <2>2, <2>3
    <2>5. \A d \in Callers : ~Writing(d)' BY <1>2, <1>3, <2>1, <2>3
    <2>6. \A d \in Callers : Reading(d)' => d \in lock'.readers BY <1>2, <1>3, <2>4
    <2>7. LockInv' BY <2>4, <2>5, <2>6 DEF LockInv
    <2> QED BY <1>4, <2>2, <2>7
  <1>8. CASE RUnlock(c)
    <2>1. ~Writing(c)' /\ ~Reading(c)' BY <1>1, <1>8, AfterLock DEF RUnlock
    <2>2. lock' = [lock EXCEPT !.readers = @ \ {c}] BY <1>8 DEF RUnlock
    <2>3. lock'.held = lock.held /\ lock'.writer = lock.writer
          /\ lock'.readers = lock.readers \ {c}
      BY <1>4, <2>2
    <2>4. \A d \in Callers : Writing(d)' => lock'.held /\ lock'.writer = d
      BY <1>2, <1>3, <2>1, <2>3
    <2>5. \A d \in Callers : Reading(d)' => d \in lock'.readers BY <1>2, <1>3, <2>1, <2>3
    <2>6. LockInv' BY <1>3, <2>3, <2>4, <2>5 DEF LockInv
    <2> QED BY <1>4, <2>2, <2>6
  <1> QED BY <1>5, <1>6, <1>7, <1>8

-----------------------------------------------------------------------------
(* The clients.                                                            *)

(* The places where something has been read are different, from each other and
   from the rest. *)
LEMMA LookingApart ==
  /\ View3 \notin {View4, Stats2, Stats3, Stats4, Sending}
  /\ View4 \notin {Stats2, Stats3, Stats4, Sending}
  /\ Stats2 \notin {Stats3, Stats4, Sending}
  /\ Stats3 \notin {Stats4, Sending}
  /\ Stats4 # Sending
  <1>1. View3 \notin {View4, Stats2, Stats3, Stats4, Sending} BY ClientLen, ClientDifferent
  <1>2. View4 \notin {Stats2, Stats3, Stats4, Sending} BY ClientLen, ClientDifferent
  <1>3. Stats2 \notin {Stats3, Stats4, Sending} BY ClientLen
  <1>4. Stats3 \notin {Stats4, Sending} BY ClientLen
  <1>5. Stats4 # Sending BY ClientLen
  <1> QED BY <1>1, <1>2, <1>3, <1>4, <1>5

(* At all other places nothing has been read. *)
LEMMA NotLooking ==
  ASSUME NEW s \in {View, View1, View2, Stats, Stats1, WorkersList, Workers1, Leaving,
                    CancelCall, Cancel1, Cancel2, Closing, <<>>}
  PROVE  s \notin Looking
  <1>1. CASE s = <<>> BY <1>1, ClientLen DEF Looking
  <1>2. CASE s \in {View, Stats, WorkersList} BY <1>2, ClientOps DEF Looking
  <1>3. CASE s \in {View1, Leaving} BY <1>3, ClientOps, ClientLen DEF Looking
  <1>4. CASE s = View2 BY <1>4, ClientOps, ClientLen, ClientDifferent DEF Looking
  <1>5. CASE s = Stats1 BY <1>5, ClientLen DEF Looking
  <1>6. CASE s = Workers1 BY <1>6, ClientOps, ClientLen DEF Looking
  <1>7. CASE s \in {CancelCall, Cancel1, Cancel2, Closing} BY <1>7, ClientOps DEF Looking
  <1> QED BY <1>1, <1>2, <1>3, <1>4, <1>5, <1>6, <1>7

(* A client moves: the others see nothing of it. *)
LEMMA ClientMoves ==
  ASSUME IndInv, NEW c \in Clients, FieldInv', LockInv', ClientInv(c)', SeenInv(c)',
         \A d \in Callers : d # c => todo'[d] = todo[d],
         \A d \in Clients : d # c => seen'[d] = seen[d] /\ (d \in called' <=> d \in called),
         UNCHANGED <<phase, task, disk>>,
         job'.result = job.result, job'.finished = job.finished,
         job'.status \in {job.status, "cancelled"}
  PROVE  IndInv'
  <1>1. todo'[Execution] = todo[Execution] /\ \A i \in Tasks : todo'[i] = todo[i] BY Kinds
  <1>2. CoreInv'
    <2>1. CASE job'.status = job.status BY <1>1, <2>1, CoreFrame DEF IndInv
    <2>2. CASE job'.status = "cancelled" BY <1>1, <2>2, CancelledCore DEF IndInv
    <2> QED BY <2>1, <2>2
  <1>3. DiskInv' BY DiskFrame DEF IndInv
  <1>4. ASSUME NEW d \in Clients, d # c PROVE ClientInv(d)' /\ SeenInv(d)'
    <2>1. todo'[d] = todo[d] /\ seen'[d] = seen[d] /\ (d \in called' <=> d \in called)
      BY <1>4, Kinds
    <2>2. ClientInv(d) /\ SeenInv(d) BY DEF IndInv
    <2>3. ClientInv(d)' BY <2>1, <2>2, ClientFrame
    <2>4. SeenInv(d)' BY <1>1, <2>1, <2>2, SeenFrame
    <2> QED BY <2>3, <2>4
  <1> QED BY <1>2, <1>3, <1>4 DEF IndInv

(* A client that has read nothing claims nothing. *)
LEMMA ClientFresh ==
  ASSUME NEW c, seen'[c] = Nothing, todo'[c] \in ClientPlaces, todo'[c] # View4,
         c \in called' \/ todo'[c] = <<>>
  PROVE  ClientInv(c)' /\ SeenInv(c)'
  <1>1. Nothing.status \notin Dones /\ Nothing.result = "unread"
    BY DEF Nothing, Dones, DoneBefore
  <1> QED BY <1>1 DEF ClientInv, SeenInv, Dones

(* A client takes or leaves the lock. *)
LEMMA ClientLocks ==
  ASSUME IndInv, NEW c \in Clients, Lock(c) \/ Unlock(c) \/ RLock(c) \/ RUnlock(c)
  PROVE  IndInv'
  <1>1. todo' = [todo EXCEPT ![c] = Tail(todo[c])]
        /\ UNCHANGED <<called, phase, job, task, seen, disk>>
    BY DEF Lock, Unlock, RLock, RUnlock, Advance
  <1>2. /\ todo'[c] = Rest(todo[c]) /\ \A d \in Callers : d # c => todo'[d] = todo[d]
        /\ todo' = [d \in Callers |-> todo'[d]]
    BY <1>1, OneMoves, Kinds DEF IndInv, Rest
  <1>3. LockInv' /\ lock' \in [writer : Callers \union {NoOne}, held : BOOLEAN, readers : SUBSET Callers]
    BY LockSteps, Kinds DEF IndInv
  <1>4. FieldInv' BY <1>1, <1>2, <1>3 DEF IndInv, FieldInv
  <1>5. ClientInv(c) /\ SeenInv(c) BY DEF IndInv
  <1>6. todo[c] # <<>> BY DEF Lock, Unlock, RLock, RUnlock, NextIs
  <1>7. c \in called' BY <1>1, <1>5, <1>6 DEF ClientInv
  <1>8. \/ todo[c] \in {CancelCall, Closing, View, Stats, WorkersList, View1, Leaving}
        \/ todo[c] = Stats4
    BY <1>5, ClientAt DEF Lock, Unlock, RLock, RUnlock, ClientInv
  <1>9. CASE todo[c] \in {CancelCall, Closing, View, Stats, WorkersList, View1, Leaving}
    <2>1. seen'[c] = Nothing BY <1>1, <1>5, <1>9, NotLooking DEF ClientInv
    <2>2. todo'[c] \in {Cancel1, <<>>, View1, Stats1, Workers1, View2}
      BY <1>2, <1>9, ClientNext
    <2>3. View4 \notin {Cancel1, <<>>, View1, Stats1, Workers1, View2}
      BY ClientLen, ClientOps
    <2>4. todo'[c] \in ClientPlaces BY <2>2 DEF ClientPlaces
    <2>5. ClientInv(c)' /\ SeenInv(c)' BY <1>7, <2>1, <2>2, <2>3, <2>4, ClientFresh
    <2> QED BY <1>1, <1>2, <1>3, <1>4, <2>5, ClientMoves
  <1>10. CASE todo[c] = Stats4
    <2>1. todo'[c] = Sending BY <1>2, <1>10, ClientNext
    <2>2. Sending \in ClientPlaces /\ Sending \in Looking BY DEF ClientPlaces, Looking
    <2>3. seen'[c] = seen[c] BY <1>1
    <2>4. ClientInv(c)'
      BY <1>5, <1>7, <1>10, <2>1, <2>2, <2>3, LookingApart DEF ClientInv
    <2>5. Lasting' <=> Lasting
      <3>1. Idle' <=> Idle BY <1>2, Kinds DEF Idle
      <3>2. AllEnded' <=> AllEnded BY <1>1 DEF AllEnded
      <3>3. todo'[Execution] = todo[Execution] BY <1>2, Kinds
      <3> QED BY <1>1, <3>1, <3>2, <3>3 DEF Lasting, LastPlace
    <2>6. SeenInv(c)' BY <1>5, <2>1, <2>3, <2>5, LookingApart DEF SeenInv
    <2> QED BY <1>1, <1>2, <1>3, <1>4, <2>4, <2>6, ClientMoves
  <1> QED BY <1>8, <1>9, <1>10

(* A client asks for the lock, or anybody. *)
LEMMA Announces ==
  ASSUME IndInv, NEW c \in Callers, Announce(c)
  PROVE  IndInv'
  <1>1. UNCHANGED <<called, todo, phase, job, task, seen, disk>> BY DEF Announce
  <1>2. lock.writer = NoOne /\ lock' = [lock EXCEPT !.writer = c] BY DEF Announce
  <1>3. lock \in [writer : Callers \union {NoOne}, held : BOOLEAN, readers : SUBSET Callers]
    BY DEF IndInv, FieldInv
  <1>4. ~lock.held BY <1>2 DEF IndInv, LockInv
  <1>5. lock' \in [writer : Callers \union {NoOne}, held : BOOLEAN, readers : SUBSET Callers]
        /\ ~lock'.held /\ lock'.readers = lock.readers
    BY <1>2, <1>3, <1>4
  <1>6. \A d \in Callers : (Writing(d)' <=> Writing(d)) /\ (Reading(d)' <=> Reading(d))
    BY <1>1, HoldFrame
  <1>7. LockInv' BY <1>4, <1>5, <1>6 DEF IndInv, LockInv
  <1>8. FieldInv' BY <1>1, <1>5 DEF IndInv, FieldInv
  <1>9. CoreInv' BY <1>1, CoreFrame DEF IndInv
  <1>10. DiskInv' BY <1>1, DiskFrame DEF IndInv
  <1>11. \A d \in Clients : ClientInv(d)' BY <1>1, ClientFrame DEF IndInv
  <1>12. \A d \in Clients : SeenInv(d)' BY <1>1, SeenFrame DEF IndInv
  <1> QED BY <1>7, <1>8, <1>9, <1>10, <1>11, <1>12 DEF IndInv

(* A client between its calls of the lock keeps what it has of it. *)
LEMMA ClientHolds ==
  ASSUME LockInv, NEW c \in Clients, UNCHANGED <<lock, phase>>,
         \A d \in Callers : d # c => todo'[d] = todo[d],
         WritePlace(todo'[c]) => WritePlace(todo[c]), ReadPlace(todo'[c]) => ReadPlace(todo[c])
  PROVE  LockInv'
  <1>1. ASSUME NEW d \in Callers
        PROVE  (Writing(d)' => Writing(d)) /\ (Reading(d)' => Reading(d))
    <2>1. CASE d = c BY <2>1, Kinds DEF Writing, Reading
    <2>2. CASE d # c BY <2>2, HoldFrame
    <2> QED BY <2>1, <2>2
  <1> QED BY <1>1, LockFrame

(* It stores the one thing it may: that the job is cancelled. *)
LEMMA ClientStores ==
  ASSUME IndInv, NEW c \in Clients, Store(c)
  PROVE  IndInv'
  <1>1. todo[c] = Cancel2 BY ClientAt DEF IndInv, ClientInv, Store
  <1>2. todo' = [todo EXCEPT ![c] = Tail(todo[c])]
        /\ UNCHANGED <<called, lock, phase, seen, disk>>
    BY DEF Store, Advance
  <1>3. /\ todo'[c] = Rest(todo[c]) /\ \A d \in Callers : d # c => todo'[d] = todo[d]
        /\ todo' = [d \in Callers |-> todo'[d]]
    BY <1>2, OneMoves, Kinds DEF IndInv, Rest
  <1>4. todo'[c] = Closing BY <1>1, <1>3, ClientNext
  <1>5. job' = [job EXCEPT !.status = "cancelled"] /\ task' = task
    BY <1>1, Kinds, ClientFields DEF Store
  <1>6. job' \in JobType /\ job'.status = "cancelled" /\ job'.result = job.result
        /\ job'.finished = job.finished
    BY <1>5 DEF IndInv, FieldInv, JobType, Statuses, Terminal
  <1>7. FieldInv' BY <1>2, <1>3, <1>5, <1>6 DEF IndInv, FieldInv
  <1>8. WritePlace(todo[c]) BY <1>1 DEF WritePlace
  <1>9. ~ReadPlace(todo'[c]) BY <1>4, ClientOps, HoldingOps
  <1>10. LockInv' BY <1>2, <1>3, <1>8, <1>9, ClientHolds DEF IndInv
  <1>11. todo[c] # <<>> BY DEF Store, NextIs
  <1>12. c \in called' BY <1>2, <1>11 DEF IndInv, ClientInv
  <1>13. seen'[c] = Nothing BY <1>1, <1>2, NotLooking DEF IndInv, ClientInv
  <1>14. todo'[c] \in ClientPlaces /\ todo'[c] # View4 BY <1>4, ClientLen DEF ClientPlaces
  <1>15. ClientInv(c)' /\ SeenInv(c)' BY <1>12, <1>13, <1>14, ClientFresh
  <1> QED BY <1>2, <1>3, <1>5, <1>6, <1>7, <1>10, <1>15, ClientMoves

(* It has taken its answer. *)
LEMMA ClientSends ==
  ASSUME IndInv, NEW c \in Clients, SentAway(c)
  PROVE  IndInv'
  <1>1. todo[c] \in {Sending, Workers1} BY ClientAt DEF IndInv, ClientInv, SentAway
  <1>2. todo' = [todo EXCEPT ![c] = Tail(todo[c])] /\ seen' = [seen EXCEPT ![c] = Nothing]
        /\ UNCHANGED <<called, lock, phase, job, task, disk>>
    BY DEF SentAway, Advance
  <1>3. /\ todo'[c] = Rest(todo[c]) /\ \A d \in Callers : d # c => todo'[d] = todo[d]
        /\ todo' = [d \in Callers |-> todo'[d]]
    BY <1>2, OneMoves, Kinds DEF IndInv, Rest
  <1>4. \/ todo[c] = Sending /\ todo'[c] = <<>>
        \/ todo[c] = Workers1 /\ todo'[c] = Leaving
    BY <1>1, <1>3, ClientNext
  <1>5. Nothing \in SeenType
    BY DEF Nothing, SeenType, NewTask, TaskType
  <1>6. seen' \in [Clients -> SeenType] /\ seen'[c] = Nothing
        /\ \A d \in Clients : d # c => seen'[d] = seen[d]
    BY <1>2, <1>5 DEF IndInv, FieldInv
  <1>7. FieldInv' BY <1>2, <1>3, <1>6 DEF IndInv, FieldInv
  <1>8. ~WritePlace(todo'[c]) BY <1>4, ClientLen, ClientOps, HoldingOps
  <1>9. ReadPlace(todo'[c]) => ReadPlace(todo[c]) BY <1>4, NotReading DEF ReadPlace
  <1>10. LockInv' BY <1>2, <1>3, <1>8, <1>9, ClientHolds DEF IndInv
  <1>11. todo[c] # <<>> BY DEF SentAway, NextIs
  <1>12. c \in called' BY <1>2, <1>11 DEF IndInv, ClientInv
  <1>13. todo'[c] \in ClientPlaces /\ todo'[c] # View4 BY <1>4, ClientLen DEF ClientPlaces
  <1>14. ClientInv(c)' /\ SeenInv(c)' BY <1>6, <1>12, <1>13, ClientFresh
  <1> QED BY <1>2, <1>3, <1>6, <1>7, <1>10, <1>14, ClientMoves

(* It ends the context of the job, if there is one to end. *)
LEMMA ClientCancels ==
  ASSUME IndInv, NEW c \in Clients, Cancel(c)
  PROVE  IndInv'
  <1>1. todo[c] = Cancel1 BY ClientAt DEF IndInv, ClientInv, Cancel, CancelWith
  <1>2. UNCHANGED <<called, lock, phase, task, seen, disk>> BY DEF Cancel, CancelWith
  <1>3. \/ todo' = [todo EXCEPT ![c] = Cancel2] /\ job' = [job EXCEPT !.ctxDone = TRUE]
        \/ todo' = [todo EXCEPT ![c] = Closing] /\ job' = job
    BY CancelText DEF Cancel, CancelWith, Turn, Closing
  <1>4. /\ todo'[c] \in {Cancel2, Closing} /\ \A d \in Callers : d # c => todo'[d] = todo[d]
        /\ todo' = [d \in Callers |-> todo'[d]]
    <2>1. CASE todo' = [todo EXCEPT ![c] = Cancel2] BY <2>1, OneMoves, Kinds DEF IndInv
    <2>2. CASE todo' = [todo EXCEPT ![c] = Closing] BY <2>2, OneMoves, Kinds DEF IndInv
    <2> QED BY <1>3, <2>1, <2>2
  <1>5. job' \in JobType /\ job'.status = job.status /\ job'.result = job.result
        /\ job'.finished = job.finished
    BY <1>3 DEF IndInv, FieldInv, JobType
  <1>6. FieldInv' BY <1>2, <1>4, <1>5 DEF IndInv, FieldInv
  <1>7. WritePlace(todo[c]) BY <1>1 DEF WritePlace
  <1>8. ~ReadPlace(todo'[c]) BY <1>4, ClientOps, HoldingOps
  <1>9. LockInv' BY <1>2, <1>4, <1>7, <1>8, ClientHolds DEF IndInv
  <1>10. todo[c] # <<>> BY DEF Cancel, CancelWith, NextIs
  <1>11. c \in called' BY <1>2, <1>10 DEF IndInv, ClientInv
  <1>12. seen'[c] = Nothing BY <1>1, <1>2, NotLooking DEF IndInv, ClientInv
  <1>13. todo'[c] \in ClientPlaces /\ todo'[c] # View4
    BY <1>4, ClientLen, ClientOps DEF ClientPlaces
  <1>14. ClientInv(c)' /\ SeenInv(c)' BY <1>11, <1>12, <1>13, ClientFresh
  <1> QED BY <1>2, <1>4, <1>5, <1>6, <1>9, <1>14, ClientMoves

(* It calls. *)
LEMMA ClientCalls ==
  ASSUME IndInv, NEW c \in Clients, Call(c)
  PROVE  IndInv'
  <1>1. c \notin called /\ called' = called \union {c}
        /\ UNCHANGED <<lock, phase, job, task, seen, disk>>
    BY DEF Call
  <1>2. PICK s \in {View, Stats, WorkersList, CancelCall} : todo' = [todo EXCEPT ![c] = s]
    BY DEF Call, Turn
  <1>3. /\ todo'[c] = s /\ \A d \in Callers : d # c => todo'[d] = todo[d]
        /\ todo' = [d \in Callers |-> todo'[d]]
    BY <1>2, OneMoves, Kinds DEF IndInv
  <1>4. FieldInv' BY <1>1, <1>3 DEF IndInv, FieldInv
  <1>5. ~WritePlace(s) /\ ~ReadPlace(s) BY ClientOps, HoldingOps
  <1>6. LockInv' BY <1>1, <1>3, <1>5, ClientHolds DEF IndInv
  <1>7. todo[c] = <<>> BY <1>1 DEF IndInv, ClientInv
  <1>8. seen'[c] = Nothing BY <1>1, <1>7, NotLooking DEF IndInv, ClientInv
  <1>9. todo'[c] \in ClientPlaces /\ todo'[c] # View4
    BY <1>3, ClientOps DEF ClientPlaces
  <1>10. ClientInv(c)' /\ SeenInv(c)' BY <1>1, <1>8, <1>9, ClientFresh
  <1>11. \A d \in Clients : d # c => (d \in called' <=> d \in called) BY <1>1
  <1> QED BY <1>1, <1>3, <1>4, <1>6, <1>10, <1>11, ClientMoves

(* A client reads a field of the job, or its tasks. *)
LEMMA ClientLoads ==
  ASSUME IndInv, NEW c \in Clients, Load(c)
  PROVE  IndInv'
  <1> DEFINE e == todo[c]
             f == todo'[c]
             r == seen[c]
             t == seen'[c]
  <1>1. e \in {View2, View3, View4, Stats1, Stats2, Stats3}
    BY ClientAt DEF IndInv, ClientInv, Load
  <1>2. todo' = [todo EXCEPT ![c] = Tail(todo[c])]
        /\ UNCHANGED <<called, lock, phase, job, task, disk>>
    BY DEF Load, Advance
  <1>3. /\ f = Rest(e) /\ \A d \in Callers : d # c => todo'[d] = todo[d]
        /\ todo' = [d \in Callers |-> todo'[d]]
    BY <1>2, OneMoves, Kinds DEF IndInv, Rest
  <1>4. seen' = [seen EXCEPT ![c] = [seen[c] EXCEPT ![Head(e).field] =
                   IF Head(e).field = "tasks" THEN task ELSE job[Head(e).field]]]
    BY DEF Load
  <1>5. t = [r EXCEPT ![Head(e).field] =
               IF Head(e).field = "tasks" THEN task ELSE job[Head(e).field]]
        /\ \A d \in Clients : d # c => seen'[d] = seen[d]
    BY <1>4 DEF IndInv, FieldInv
  <1>6. job \in JobType /\ task \in [Tasks -> TaskType] /\ r \in SeenType /\ seen \in [Clients -> SeenType]
    BY DEF IndInv, FieldInv
  <1>7. ClientInv(c) /\ SeenInv(c) BY DEF IndInv
  <1>8. e # <<>> BY DEF Load, NextIs
  <1>9. c \in called' BY <1>2, <1>7, <1>8 DEF ClientInv
  <1>10. (Idle' <=> Idle) /\ (AllEnded' <=> AllEnded)
    <2>1. Idle' <=> Idle BY <1>3, Kinds DEF Idle
    <2>2. AllEnded' <=> AllEnded BY <1>2 DEF AllEnded
    <2> QED BY <2>1, <2>2
  <1>11. Lasting' <=> Lasting
    <2>1. todo'[Execution] = todo[Execution] BY <1>3, Kinds
    <2> QED BY <1>2, <1>10, <2>1 DEF Lasting, LastPlace
  <1>12. /\ job.status = "done" => Lasting
         /\ job.status \in Dones =>
              AllEnded /\ Idle /\ (job.finished \/ todo[Execution] = Done5)
    BY DEF IndInv, CoreInv, DoneInv, Lasting, Dones
  <1>13. f \in {View3, View4, Sending, Stats2, Stats3, Stats4}
    BY <1>1, <1>3, ClientNext
  <1>14. ~WritePlace(f) BY <1>13, ClientOps, HoldingOps
  <1>15. e \notin Looking => r = Nothing BY <1>7 DEF ClientInv
  <1>16. Nothing.result = "unread" BY DEF Nothing
  <1>17. Sending \in ClientPlaces /\ {View3, View4, Stats2, Stats3, Stats4} \subseteq ClientPlaces
    BY DEF ClientPlaces
  <1> HIDE DEF e, f, r, t
  <1>18. f \in Looking /\ f \in ClientPlaces BY <1>13, <1>17 DEF Looking
  <1>19. /\ t \in SeenType
         /\ ClientInv(c)' /\ SeenInv(c)'
         /\ ReadPlace(f) => ReadPlace(e)
    <2>1. CASE e = View2
      <3>1. f = View3 /\ t = [r EXCEPT !.status = job.status]
        BY <1>3, <1>5, <2>1, ClientNext, ClientFields
      <3>2. t \in SeenType /\ t.status = job.status BY <1>6, <3>1 DEF SeenType, JobType
      <3>3. ClientInv(c)'
        BY <1>9, <1>18, <3>1, LookingApart DEF ClientInv, f, t
      <3>4. SeenInv(c)' BY <1>11, <1>12, <3>1, <3>2, LookingApart DEF SeenInv, f, t
      <3>5. ~ReadPlace(f)
        BY <3>1, LookingApart, ClientLen, ClientOps DEF ReadPlace
      <3> QED BY <3>2, <3>3, <3>4, <3>5
    <2>2. CASE e = View3
      <3>1. f = View4 /\ t = [r EXCEPT !.result = job.result]
        BY <1>3, <1>5, <2>2, ClientNext, ClientFields
      <3>2. t \in SeenType /\ t.status = r.status /\ t.result = job.result
            /\ job.result # "unread"
        BY <1>6, <3>1 DEF SeenType, JobType, Garbled
      <3>3. r.status = "done" => Lasting BY <1>7 DEF SeenInv, r
      <3>4. r.status = "done" => job.result = "whole" BY <3>3 DEF Lasting, LastPlace
      <3>5. ClientInv(c)'
        BY <1>9, <1>18, <3>1, <3>2, <3>4, LookingApart DEF ClientInv, f, t
      <3>6. SeenInv(c)' BY <1>11, <3>1, <3>2, <3>3, LookingApart DEF SeenInv, f, t
      <3>7. ~ReadPlace(f)
        BY <3>1, LookingApart, ClientLen, ClientOps DEF ReadPlace
      <3> QED BY <3>2, <3>5, <3>6, <3>7
    <2>3. CASE e = View4
      <3>1. f = Sending /\ t = [r EXCEPT !.tasks = task]
        BY <1>3, <1>5, <2>3, ClientNext, ClientFields
      <3>2. t \in SeenType /\ t.status = r.status /\ t.result = r.result /\ t.tasks = task
        BY <1>6, <3>1 DEF SeenType
      <3>3. r.status = "done" => Lasting BY <1>7 DEF SeenInv, r
      <3>4. r.result # "unread" /\ (r.status = "done" => r.result = "whole")
        BY <1>7, <2>3 DEF ClientInv, e, r
      <3>5. r.status = "done" => t.tasks = [i \in Tasks |-> Ended]
        BY <1>2, <3>2, <3>3 DEF Lasting, AllEnded
      <3>6. ClientInv(c)'
        BY <1>9, <1>18, <3>1, <3>2, <3>4, <3>5, LookingApart DEF ClientInv, f, t
      <3>7. SeenInv(c)' BY <1>11, <3>1, <3>2, <3>3, LookingApart DEF SeenInv, f, t
      <3> QED BY <3>1, <3>2, <3>6, <3>7, NotReading
    <2>4. CASE e = Stats1
      <3>1. f = Stats2 /\ t = [r EXCEPT !.status = job.status]
        BY <1>3, <1>5, <2>4, ClientNext, ClientFields
      <3>2. r.result = "unread" BY <1>15, <1>16, <2>4, NotLooking
      <3>3. t \in SeenType /\ t.status = job.status /\ t.result = "unread"
        BY <1>6, <3>1, <3>2 DEF SeenType, JobType
      <3>4. ClientInv(c)'
        BY <1>9, <1>18, <3>1, <3>3, LookingApart DEF ClientInv, f, t
      <3>5. ReadPlace(e) BY <2>4 DEF ReadPlace
      <3>6. todo[Execution] # Done5
        <4>1. Reading(c) BY <3>5 DEF Reading, e
        <4>2. c \in lock.readers BY <4>1, Kinds DEF IndInv, LockInv
        <4>3. ~Writing(Execution) BY <4>2, Kinds DEF IndInv, LockInv
        <4> QED BY <4>3 DEF Writing, WritePlace
      <3>7. SeenInv(c)' BY <1>2, <1>10, <1>11, <1>12, <3>1, <3>3, <3>6 DEF SeenInv, f, t
      <3> QED BY <3>3, <3>4, <3>5, <3>7
    <2>5. CASE e = Stats2
      <3>1. f = Stats3 /\ t = [r EXCEPT !.finished = job.finished]
        BY <1>3, <1>5, <2>5, ClientNext, ClientFields
      <3>2. r.result = "unread" BY <1>7, <2>5 DEF ClientInv, e, r
      <3>3. t \in SeenType /\ t.status = r.status /\ t.result = "unread" /\ t.finished = job.finished
        BY <1>6, <3>1, <3>2 DEF SeenType, JobType
      <3>4. r.status \in Dones => job.finished /\ AllEnded /\ Idle
        BY <1>7, <2>5 DEF SeenInv, e, r
      <3>5. ClientInv(c)'
        BY <1>9, <1>18, <3>1, <3>3, <3>4, LookingApart DEF ClientInv, f, t
      <3>6. SeenInv(c)' BY <1>2, <1>7, <1>10, <1>11, <3>1, <3>3, <3>4 DEF SeenInv, f, t, r
      <3>7. ReadPlace(e) BY <2>5 DEF ReadPlace
      <3> QED BY <3>3, <3>5, <3>6, <3>7
    <2>6. CASE e = Stats3
      <3>1. f = Stats4 /\ t = [r EXCEPT !.tasks = task]
        BY <1>3, <1>5, <2>6, ClientNext, ClientFields
      <3>2. r.result = "unread" /\ (r.status \in Dones => r.finished)
        BY <1>7, <2>6 DEF ClientInv, e, r
      <3>3. t \in SeenType /\ t.status = r.status /\ t.result = "unread" /\ t.finished = r.finished
            /\ t.tasks = task
        BY <1>6, <3>1, <3>2 DEF SeenType
      <3>4. (r.status = "done" => Lasting) /\ (r.status \in Dones => AllEnded)
        BY <1>7, <2>6 DEF SeenInv, e, r
      <3>5. r.status \in Dones => t.tasks = [i \in Tasks |-> Ended]
        BY <3>3, <3>4 DEF AllEnded
      <3>6. ClientInv(c)'
        BY <1>9, <1>18, <3>1, <3>2, <3>3, <3>5, LookingApart DEF ClientInv, f, t
      <3>7. SeenInv(c)' BY <1>11, <3>1, <3>3, <3>4, LookingApart DEF SeenInv, f, t
      <3>8. ReadPlace(e) BY <2>6 DEF ReadPlace
      <3> QED BY <3>3, <3>6, <3>7, <3>8
    <2> QED BY <1>1, <2>1, <2>2, <2>3, <2>4, <2>5, <2>6
  <1>20. seen' \in [Clients -> SeenType]
    <2>1. seen' = [seen EXCEPT ![c] = t] BY <1>4, <1>5 DEF r
    <2> QED BY <1>6, <1>19, <2>1
  <1>21. FieldInv' BY <1>2, <1>3, <1>20 DEF IndInv, FieldInv
  <1>22. LockInv' BY <1>2, <1>3, <1>14, <1>19, ClientHolds DEF IndInv, e, f
  <1> QED BY <1>2, <1>3, <1>5, <1>19, <1>21, <1>22, ClientMoves

-----------------------------------------------------------------------------
(* ExecuteJob and its tasks: the clients do not move.                      *)

(* The clients keep what they have read, if the job and its tasks keep what
   they rely on. *)
LEMMA ExecuteMoves ==
  ASSUME IndInv, FieldInv', LockInv', CoreInv', DiskInv',
         \A c \in Clients : todo'[c] = todo[c],
         UNCHANGED <<called, seen>>,
         Lasting => Lasting',
         \A c \in Clients : todo[c] \in {Stats2, Stats3} /\ job.finished /\ AllEnded /\ Idle
                              => job'.finished /\ AllEnded' /\ Idle'
  PROVE  IndInv'
  <1>1. ASSUME NEW c \in Clients PROVE ClientInv(c)' /\ SeenInv(c)'
    <2>1. ClientInv(c) /\ SeenInv(c) BY DEF IndInv
    <2>2. todo'[c] = todo[c] /\ seen'[c] = seen[c] /\ called' = called
      OBVIOUS
    <2>3. ClientInv(c)' BY <2>1, <2>2, ClientFrame
    <2>4. SeenInv(c)' BY <2>1, <2>2 DEF SeenInv
    <2> QED BY <2>3, <2>4
  <1> QED BY <1>1 DEF IndInv

(* No place of a task is one where the lock is held. *)
LEMMA TaskHolds ==
  ASSUME NEW s \in TaskPlaces
  PROVE  ~WritePlace(s) /\ ~ReadPlace(s)
  <1>1. CASE s = <<>> BY <1>1, ClientLen, HoldingOps
  <1>2. CASE s = Calling BY <1>2, TaskOps, HoldingOps
  <1>3. CASE s \in {TaskDone, TaskDone1, TaskDone2, TaskFailed}
    <2>1. ~ReadPlace(s) BY <1>3, TaskOps, HoldingOps
    <2>2. s \notin {Cancel1, Cancel2, Closing}
      BY <1>3, TaskOps, TaskLen, TaskFields, ClientOps, ClientLen, ClientFields
    <2>3. s \notin {Running1, Running2, Aggregating1, Fail1, Done2, Done3, Done4, Done5, Save0, Save2}
      BY <1>3, TaskOps, TaskLen, TaskFields, ExecuteOps, ExecuteLen, ExecuteFields
    <2>4. \A i \in Tasks : s # Launch1(i) BY <1>3, TaskOps, LaunchPlaces
    <2>5. ~WritePlace(s) BY <2>2, <2>3, <2>4 DEF WritePlace
    <2> QED BY <2>1, <2>5
  <1> QED BY <1>1, <1>2, <1>3 DEF TaskPlaces

(* The lock, when ExecuteJob moves, or a task. *)
LEMMA ExecuteHolds ==
  ASSUME LockInv, CoreInv', lock' = lock,
         \A c \in Clients : todo'[c] = todo[c],
         Writing(Execution)' => Writing(Execution), Reading(Execution)' => Reading(Execution)
  PROVE  LockInv'
  <1>1. ASSUME NEW d \in Callers
        PROVE  (Writing(d)' => Writing(d)) /\ (Reading(d)' => Reading(d))
    <2>1. CASE d \in Clients BY <2>1, HoldFrame, Kinds
    <2>2. CASE d \in Tasks
      <3>1. todo'[d] \in TaskPlaces BY <2>2 DEF CoreInv, TaskInv
      <3>2. d # Execution BY <2>2, Kinds
      <3> QED BY <3>1, <3>2, TaskHolds DEF Writing, Reading
    <2>3. CASE d = Execution BY <2>3
    <2> QED BY <2>1, <2>2, <2>3, Kinds
  <1> QED BY <1>1, LockFrame

(* ExecuteJob takes or leaves the lock. *)
LEMMA ExecuteLocks ==
  ASSUME IndInv,
         Lock(Execution) \/ Unlock(Execution) \/ RLock(Execution) \/ RUnlock(Execution)
  PROVE  IndInv'
  <1>1. todo' = [todo EXCEPT ![Execution] = Tail(todo[Execution])]
        /\ UNCHANGED <<called, phase, job, task, seen, disk>>
    BY DEF Lock, Unlock, RLock, RUnlock, Advance
  <1>2. /\ todo'[Execution] = Tail(todo[Execution])
        /\ \A d \in Callers : d # Execution => todo'[d] = todo[d]
        /\ todo' = [d \in Callers |-> todo'[d]]
    BY <1>1, OneMoves, Kinds DEF IndInv
  <1>3. LockInv' /\ lock' \in [writer : Callers \union {NoOne}, held : BOOLEAN, readers : SUBSET Callers]
    BY LockSteps, Kinds DEF IndInv
  <1>4. FieldInv' BY <1>1, <1>2, <1>3 DEF IndInv, FieldInv
  <1>5. (\A i \in Tasks : todo'[i] = todo[i]) /\ (\A c \in Clients : todo'[c] = todo[c])
    BY <1>2, Kinds
  <1>6. PICK op \in {"lock", "unlock", "rlock", "runlock", "encode"} : NextIs(Execution, op)
    BY DEF Lock, Unlock, RLock, RUnlock
  <1>7. CoreInv' /\ (todo[Execution] \in Settled => todo'[Execution] \in Settled)
    BY <1>1, <1>2, <1>5, <1>6, ExecuteQuiet DEF IndInv
  <1>8. DiskInv' BY <1>1, DiskFrame DEF IndInv
  <1>9. (Idle' <=> Idle) /\ (AllEnded' <=> AllEnded)
    BY <1>1, <1>5 DEF Idle, AllEnded
  <1>10. Lasting => Lasting' BY <1>1, <1>7, <1>9 DEF Lasting, LastPlace
  <1> QED BY <1>1, <1>3, <1>4, <1>5, <1>7, <1>8, <1>9, <1>10, ExecuteMoves

(* It stores to the job. *)
LEMMA ExecuteWrites ==
  ASSUME IndInv, Store(Execution)
  PROVE  IndInv'
  <1> DEFINE e == todo[Execution]
             f == todo'[Execution]
  <1>1. todo' = [todo EXCEPT ![Execution] = Tail(todo[Execution])]
        /\ UNCHANGED <<called, lock, phase, seen, disk>>
    BY DEF Store, Advance
  <1>2. job' = [job EXCEPT ![Head(todo[Execution]).field] = Head(todo[Execution]).value]
        /\ task' = task
    BY Kinds DEF Store
  <1>3. /\ todo'[Execution] = Tail(todo[Execution])
        /\ \A d \in Callers : d # Execution => todo'[d] = todo[d]
        /\ todo' = [d \in Callers |-> todo'[d]]
    BY <1>1, OneMoves, Kinds DEF IndInv
  <1>4. (\A i \in Tasks : todo'[i] = todo[i]) /\ (\A c \in Clients : todo'[c] = todo[c])
    BY <1>3, Kinds
  <1>5. NextIs(Execution, "put") BY DEF Store
  <1>6. job \in JobType BY DEF IndInv, FieldInv
  <1>7. /\ CoreInv' /\ job' \in JobType
        /\ e \in Settled => f \in Settled
        /\ job.finished => job'.finished
        /\ job.result = "whole" /\ e \in Settled => job'.result = "whole"
    BY <1>1, <1>2, <1>3, <1>4, <1>5, <1>6, ExecuteStores DEF IndInv
  <1>8. FieldInv' BY <1>1, <1>2, <1>3, <1>7 DEF IndInv, FieldInv
  <1>9. DiskInv' BY <1>1, DiskFrame DEF IndInv
  <1>10. (Idle' <=> Idle) /\ (AllEnded' <=> AllEnded)
    BY <1>2, <1>4 DEF Idle, AllEnded
  <1>11. Lasting => Lasting' BY <1>1, <1>7, <1>10 DEF Lasting, LastPlace
  <1>12. PlaceInv BY DEF IndInv, CoreInv
  <1>13. f = Rest(e) BY <1>3 DEF Rest
  <1>14. e \in {Splitting, Running2, Aggregating1, Fail1, Done2, Done3, Done4, Done5}
    BY <1>5, <1>12, ExecuteAt
  <1>15. (Writing(Execution)' => Writing(Execution)) /\ ~Reading(Execution)'
    <2> HIDE DEF f
    <2>1. CASE e = Splitting
      <3>1. f = <<>> /\ phase' = "split" BY <1>1, <1>12, <1>13, <2>1, ExecuteNext, PhaseOf
      <3> QED BY <3>1, ExecuteLen, HoldingOps DEF Writing, Reading, f
    <2>2. CASE e # Splitting
      <3>1. Writing(Execution) BY <1>14, <2>2 DEF Writing, WritePlace
      <3>2. f \in {Closing, Save0, Done3, Done4, Done5} BY <1>13, <1>14, <2>2, ExecuteNext
      <3>3. Op(f) \in {"unlock", "put"} /\ Left(f) # 0 BY <3>2, ExecuteOps, ExecuteLen
      <3>4. ~ReadPlace(f) /\ f # <<>> BY <3>3, HoldingOps, ExecuteLen
      <3> QED BY <3>1, <3>4 DEF Reading, f
    <2> QED BY <2>1, <2>2
  <1>16. LockInv' BY <1>1, <1>4, <1>7, <1>15, ExecuteHolds DEF IndInv
  <1> QED BY <1>1, <1>4, <1>7, <1>8, <1>9, <1>10, <1>11, <1>16, ExecuteMoves

(* It saves the job. *)
LEMMA ExecuteSaves ==
  ASSUME IndInv, Snapshot
  PROVE  IndInv'
  <1>1. todo' = [todo EXCEPT ![Execution] = Tail(todo[Execution])]
        /\ UNCHANGED <<called, lock, phase, job, task, seen>>
        /\ disk' = [status |-> job.status, result |-> job.result,
                    finished |-> job.finished, tasks |-> task]
    BY DEF Snapshot, Advance
  <1>2. /\ todo'[Execution] = Tail(todo[Execution])
        /\ \A d \in Callers : d # Execution => todo'[d] = todo[d]
        /\ todo' = [d \in Callers |-> todo'[d]]
    BY <1>1, OneMoves, Kinds DEF IndInv
  <1>3. (\A i \in Tasks : todo'[i] = todo[i]) /\ (\A c \in Clients : todo'[c] = todo[c])
    BY <1>2, Kinds
  <1>4. FieldInv' BY <1>1, <1>2 DEF IndInv, FieldInv
  <1>5. NextIs(Execution, "encode") BY DEF Snapshot
  <1>6. CoreInv' /\ (todo[Execution] \in Settled => todo'[Execution] \in Settled)
    BY <1>1, <1>2, <1>3, <1>5, ExecuteQuiet DEF IndInv
  <1>7. todo[Execution] = Save2 BY <1>5, ExecuteAt DEF IndInv, CoreInv
  <1>8. phase = "over" BY <1>7, PhaseOf DEF IndInv, CoreInv
  <1>9. todo'[Execution] = Closing BY <1>2, <1>7, ExecuteNext DEF Rest
  <1>10. DiskInv'
    <2>1. job.status \in Terminal
      <3>1. todo[Execution] \in Saving BY <1>7 DEF Saving
      <3> QED BY <1>8, <3>1 DEF IndInv, CoreInv, StatusInv
    <2>2. disk'.status = job.status /\ disk'.result = job.result
          /\ disk'.finished = job.finished /\ disk'.tasks = task
      BY <1>1
    <2>3. Save2 # Done5 BY ExecuteOps
    <2>4. job.status = "done" => job.result = "whole" /\ job.finished /\ AllEnded
      BY <1>7, <2>3 DEF IndInv, CoreInv, DoneInv, Dones
    <2> QED BY <2>1, <2>2, <2>4 DEF DiskInv, SnapshotIsWhole, AllEnded
  <1>11. Writing(Execution) BY <1>7 DEF Writing, WritePlace
  <1>12. ~Reading(Execution)'
    BY <1>9, ExecuteOps, ExecuteLen, HoldingOps DEF Reading
  <1>13. LockInv' BY <1>1, <1>3, <1>6, <1>11, <1>12, ExecuteHolds DEF IndInv
  <1>14. (Idle' <=> Idle) /\ (AllEnded' <=> AllEnded)
    BY <1>1, <1>3 DEF Idle, AllEnded
  <1>15. Lasting => Lasting' BY <1>1, <1>6, <1>14 DEF Lasting, LastPlace
  <1> QED BY <1>1, <1>3, <1>4, <1>6, <1>10, <1>13, <1>14, <1>15, ExecuteMoves

(* It goes on to the next phase. *)
LEMMA ExecuteGoes ==
  ASSUME IndInv, GoStep
  PROVE  IndInv'
  <1> DEFINE e == todo[Execution]
             f == todo'[Execution]
  <1>1. ASSUME NEW from, NEW to, NEW s, Goes(from, to, s)
        PROVE  phase = from /\ e = <<>> /\ phase' = to /\ f = s /\ Goes(phase, phase', f)
    <2>1. f = s BY <1>1, OneMoves, Kinds DEF Goes, IndInv
    <2> QED BY <1>1, <2>1 DEF Goes
  <1> HIDE DEF e, f
  <1>2. \/ phase = "interrupted" /\ phase' = "over" /\ f \in {Fail1, Save0}
        \/ phase = "check" /\ phase' \in {"over", "collect"} /\ f = Leaving
        \/ /\ phase \notin {"interrupted", "check", "over"}
           /\ f \in {FailJob, Splitting, Running, Entering, Opening, Aggregating, First}
        \/ phase \notin {"interrupted", "check", "over"} /\ f = <<>> /\ phase' \in {"ping", "wait"}
    BY <1>1 DEF GoStep
  <1>3. Goes(phase, phase', f) /\ e = <<>> BY <1>1 DEF GoStep
  <1>4. (Writing(Execution)' => Writing(Execution)) /\ (Reading(Execution)' => Reading(Execution))
    <2>1. CASE phase = "interrupted" /\ phase' = "over" /\ f \in {Fail1, Save0}
      <3>1. Writing(Execution) BY <1>3, <2>1 DEF Writing, e
      <3>2. ~Reading(Execution)'
        BY <2>1, ExecuteOps, HoldingOps DEF Reading, f
      <3> QED BY <3>1, <3>2
    <2>2. CASE phase = "check" /\ phase' \in {"over", "collect"} /\ f = Leaving
      <3>1. Reading(Execution) BY <1>3, <2>2 DEF Reading, e
      <3>2. ~Writing(Execution)'
        BY <2>2, ExecuteOps, HoldingOps DEF Writing, f
      <3> QED BY <3>1, <3>2
    <2>3. CASE f \in {FailJob, Splitting, Running, Entering, Opening, Aggregating, First}
      <3>1. f # <<>> BY <2>3, ExecuteLen
      <3>2. ~ReadPlace(f) BY <2>3, ExecuteOps, HoldingOps
      <3>3. ~WritePlace(f)
        <4>1. CASE f = Splitting
          <5>1. f \notin {Cancel1, Cancel2, Closing} BY <4>1, ExecuteOps, ExecuteLen, ClientOps, ClientLen
          <5>2. f \notin {Running1, Running2, Aggregating1, Fail1, Done2, Done3, Done4, Done5, Save0, Save2}
            BY <4>1, ExecuteOps, ExecuteLen
          <5>3. \A i \in Tasks : f # Launch1(i) BY <4>1, ExecuteOps, LaunchPlaces
          <5> QED BY <5>1, <5>2, <5>3 DEF WritePlace
        <4>2. CASE f # Splitting BY <2>3, <4>2, ExecuteOps, HoldingOps
        <4> QED BY <4>1, <4>2
      <3> QED BY <3>1, <3>2, <3>3 DEF Writing, Reading, f
    <2>4. CASE f = <<>> /\ phase' \in {"ping", "wait"}
      BY <2>4, ExecuteLen, HoldingOps DEF Writing, Reading, f
    <2> QED BY <1>2, <2>1, <2>2, <2>3, <2>4
  <1>5. FieldInv /\ CoreInv BY DEF IndInv
  <1>6. CoreInv' BY <1>5, GoCore
  <1>7. /\ \A d \in Callers : d # Execution => todo'[d] = todo[d]
        /\ todo' = [d \in Callers |-> todo'[d]]
    BY <1>3, <1>5, OneMoves, Kinds DEF Goes
  <1>8. (\A i \in Tasks : todo'[i] = todo[i]) /\ (\A c \in Clients : todo'[c] = todo[c])
    BY <1>7, Kinds
  <1>9. UNCHANGED <<called, lock, task, seen, disk>> /\ job' \in JobType
        /\ job'.result = job.result /\ job'.finished = job.finished
    BY <1>3 DEF Goes
  <1>10. phase' \in {"queued", "ping", "split", "dispatch", "wait", "interrupted", "check",
                     "collect", "aggregate", "over"}
    BY <1>1 DEF GoStep
  <1>11. FieldInv' BY <1>5, <1>7, <1>9, <1>10 DEF FieldInv
  <1>12. LockInv' BY <1>4, <1>6, <1>8, <1>9, ExecuteHolds DEF IndInv
  <1>13. DiskInv' BY <1>9, DiskFrame DEF IndInv
  <1>14. (Idle' <=> Idle) /\ (AllEnded' <=> AllEnded)
    BY <1>8, <1>9 DEF Idle, AllEnded
  <1>15. phase # "over" BY <1>2
  <1>16. Lasting => Lasting' BY <1>9, <1>15 DEF Lasting, LastPlace
  <1> QED BY <1>6, <1>8, <1>9, <1>11, <1>12, <1>13, <1>14, <1>16, ExecuteMoves

(* It creates, gives away or starts a task: nobody has seen this execution's done
   yet, and who counts the job for the statistics keeps the lock from it. *)
LEMMA ExecuteTasks ==
  ASSUME IndInv, Create \/ \E i \in Tasks : Dispatch(i) \/ Start(i)
  PROVE  IndInv'
  <1> DEFINE e == todo[Execution]
             f == todo'[Execution]
  <1>1. FieldInv /\ CoreInv BY DEF IndInv
  <1>2. UNCHANGED <<called, lock, phase, job, seen, disk>>
    BY DEF Create, Dispatch, Start
  <1>3. phase = "dispatch" /\ CoreInv' /\ task' \in [Tasks -> TaskType]
    BY <1>1, CreateCore, DispatchCore, StartCore DEF Dispatch, FieldInv
  <1>4. DiskInv' BY <1>2, DiskFrame DEF IndInv
  <1>5. Lasting => Lasting' BY <1>2, <1>3 DEF Lasting, LastPlace
  <1>6. (\A c \in Clients : todo'[c] = todo[c]) /\ todo' = [d \in Callers |-> todo'[d]]
    <2>1. CASE Create
      <3>1. todo' = [todo EXCEPT ![Execution] = Tail(todo[Execution])] BY <2>1 DEF Create, Advance
      <3> QED BY <1>1, <3>1, OneMoves, Kinds
    <2>2. ASSUME NEW i \in Tasks, Dispatch(i)
          PROVE  (\A c \in Clients : todo'[c] = todo[c]) /\ todo' = [d \in Callers |-> todo'[d]]
      BY <1>1, <2>2, DispatchCore, OneMoves, Kinds
    <2>3. ASSUME NEW i \in Tasks, Start(i)
          PROVE  (\A c \in Clients : todo'[c] = todo[c]) /\ todo' = [d \in Callers |-> todo'[d]]
      <3>1. todo' = [todo EXCEPT ![Execution] = Closing, ![i] = Calling] BY <1>1, <2>3, StartCore
      <3> QED BY <1>1, <3>1, Kinds DEF FieldInv
    <2> QED BY <2>1, <2>2, <2>3
  <1>7. FieldInv' BY <1>1, <1>2, <1>3, <1>6 DEF FieldInv
  <1>8. (Writing(Execution)' => Writing(Execution)) /\ ~Reading(Execution)'
    <2>1. CASE Create
      <3>1. e = Running1 BY <1>1, <2>1, CreateCore
      <3>2. f = Running2
        <4>1. todo' = [todo EXCEPT ![Execution] = Tail(todo[Execution])] BY <2>1 DEF Create, Advance
        <4> QED BY <1>1, <3>1, <4>1, OneMoves, Kinds, ExecuteNext DEF Rest
      <3>3. Writing(Execution) BY <3>1 DEF Writing, WritePlace
      <3> QED BY <3>2, <3>3, ExecuteOps, ExecuteLen, HoldingOps DEF Reading
    <2>2. ASSUME NEW i \in Tasks, Dispatch(i)
          PROVE  ~Writing(Execution)' /\ ~Reading(Execution)'
      <3>1. f = Launch(i) BY <1>1, <2>2, DispatchCore, OneMoves, Kinds
      <3>2. f # <<>> BY <3>1, LaunchPlaces, ExecuteLen
      <3> QED BY <3>1, <3>2, LaunchPlaces, HoldingOps DEF Writing, Reading
    <2>3. ASSUME NEW i \in Tasks, Start(i)
          PROVE  Writing(Execution) /\ ~Reading(Execution)'
      <3>1. e = Launch1(i) BY <1>1, <2>3, StartCore
      <3>2. f = Closing
        <4>1. todo' = [todo EXCEPT ![Execution] = Closing, ![i] = Calling] BY <1>1, <2>3, StartCore
        <4> QED BY <1>1, <4>1, Kinds DEF FieldInv
      <3>3. Writing(Execution) BY <3>1 DEF Writing, WritePlace
      <3> QED BY <3>2, <3>3, ExecuteOps, ExecuteLen, HoldingOps DEF Reading
    <2> QED BY <2>1, <2>2, <2>3
  <1>9. LockInv' BY <1>2, <1>3, <1>6, <1>8, ExecuteHolds DEF IndInv
  <1>10. ASSUME NEW c \in Clients, todo[c] \in {Stats2, Stats3}, job.finished, AllEnded, Idle
         PROVE  job'.finished /\ AllEnded' /\ Idle'
    <2>1. Reading(c) BY <1>10 DEF Reading, ReadPlace
    <2>2. c \in lock.readers BY <2>1, Kinds DEF IndInv, LockInv
    <2>3. ~Writing(Execution) BY <2>2, Kinds DEF IndInv, LockInv
    <2>4. ~Create
      <3> SUFFICES ASSUME Create PROVE FALSE OBVIOUS
      <3>1. e = Running1 BY <1>1, CreateCore
      <3> QED BY <2>3, <3>1 DEF Writing, WritePlace
    <2>5. ASSUME NEW i \in Tasks, Start(i) PROVE FALSE
      <3>1. e = Launch1(i) BY <1>1, <2>5, StartCore
      <3> QED BY <2>3, <3>1 DEF Writing, WritePlace
    <2>6. ASSUME NEW i \in Tasks, Dispatch(i) PROVE FALSE
      BY <1>10, <2>6 DEF Dispatch, AllEnded, Ended
    <2> QED BY <2>4, <2>5, <2>6
  <1> QED BY <1>2, <1>3, <1>4, <1>5, <1>6, <1>7, <1>9, <1>10, ExecuteMoves

(* The goroutine of a task moves: nobody relies on the tasks yet. *)
LEMMA TaskMoves ==
  ASSUME IndInv, NEW i \in Tasks,
         Answer(i) \/ Exhaust(i) \/ Abort(i) \/ Store(i)
  PROVE  IndInv'
  <1>1. FieldInv /\ CoreInv BY DEF IndInv
  <1>2. UNCHANGED <<called, lock, phase, job, seen, disk>>
    BY Kinds DEF Answer, Exhaust, Abort, TaskEnd, Store
  <1>3. /\ CoreInv' /\ ~Idle /\ task' \in [Tasks -> TaskType]
        /\ (\A d \in Callers : d # i => todo'[d] = todo[d])
        /\ todo' = [d \in Callers |-> todo'[d]]
    <2>1. CASE Store(i)
      <3>1. CoreInv' /\ ~Idle /\ task' \in [Tasks -> TaskType]
            /\ todo' = [todo EXCEPT ![i] = Tail(todo[i])]
        BY <1>1, <2>1, TaskStoreCore
      <3> QED BY <1>1, <3>1, OneMoves, Kinds
    <2>2. CASE Answer(i) \/ Exhaust(i) \/ Abort(i)
      <3>1. PICK s \in {TaskDone, TaskFailed} : TaskEnd(i, s) BY <2>2 DEF Answer, Exhaust, Abort
      <3>2. CoreInv' /\ ~Idle /\ todo' = [todo EXCEPT ![i] = s] BY <1>1, <3>1, TaskEndCore
      <3>3. task' = task BY <3>1 DEF TaskEnd
      <3>4. task' \in [Tasks -> TaskType] BY <1>1, <3>3 DEF FieldInv
      <3> QED BY <1>1, <3>2, <3>4, OneMoves, Kinds
    <2> QED BY <2>1, <2>2
  <1>4. (\A c \in Clients : todo'[c] = todo[c]) /\ todo'[Execution] = todo[Execution]
    BY <1>3, Kinds
  <1>5. FieldInv' BY <1>1, <1>2, <1>3 DEF FieldInv
  <1>6. DiskInv' BY <1>2, DiskFrame DEF IndInv
  <1>7. (Writing(Execution)' => Writing(Execution)) /\ (Reading(Execution)' => Reading(Execution))
    BY <1>2, <1>4, HoldFrame
  <1>8. LockInv' BY <1>2, <1>3, <1>4, <1>7, ExecuteHolds DEF IndInv
  <1>9. Lasting => Lasting' BY <1>2, <1>3 DEF Lasting, LastPlace
  <1> QED BY <1>2, <1>3, <1>4, <1>5, <1>6, <1>8, <1>9, ExecuteMoves

(* The time of the job is up. *)
LEMMA TimeIsUp ==
  ASSUME IndInv, Timeout
  PROVE  IndInv'
  <1>1. UNCHANGED <<called, lock, todo, phase, task, seen, disk>>
        /\ job' = [job EXCEPT !.ctxDone = TRUE]
    BY DEF Timeout
  <1>2. job' \in JobType /\ job'.status = job.status /\ job'.result = job.result
        /\ job'.finished = job.finished
    BY <1>1 DEF IndInv, FieldInv, JobType
  <1>3. FieldInv' BY <1>1, <1>2 DEF IndInv, FieldInv
  <1>4. CoreInv' BY <1>1, <1>2, CoreFrame DEF IndInv
  <1>5. DiskInv' BY <1>1, DiskFrame DEF IndInv
  <1>6. (Idle' <=> Idle) /\ (AllEnded' <=> AllEnded) BY <1>1 DEF Idle, AllEnded
  <1>7. Lasting => Lasting' BY <1>1, <1>2, <1>6 DEF Lasting, LastPlace
  <1>8. (Writing(Execution)' => Writing(Execution)) /\ (Reading(Execution)' => Reading(Execution))
    BY <1>1, HoldFrame
  <1>9. LockInv' BY <1>1, <1>4, <1>8, ExecuteHolds DEF IndInv
  <1> QED BY <1>1, <1>2, <1>3, <1>4, <1>5, <1>6, <1>7, <1>9, ExecuteMoves

-----------------------------------------------------------------------------
(* The accesses are those of the model.                                    *)

Ops == {"lock", "unlock", "rlock", "runlock", "put", "look", "encode",
        "send", "cancel", "create", "start", "call"}
OpsIn(s) == \A k \in DOMAIN s : s[k].op \in Ops

(* At every place of a client and of a task. *)
LEMMA ClientOpsIn ==
  /\ OpsIn(<<>>)
  /\ OpsIn(View)
  /\ OpsIn(View1)
  /\ OpsIn(View2)
  /\ OpsIn(View3)
  /\ OpsIn(View4)
  /\ OpsIn(Sending)
  /\ OpsIn(Stats)
  /\ OpsIn(Stats1)
  /\ OpsIn(Stats2)
  /\ OpsIn(Stats3)
  /\ OpsIn(Stats4)
  /\ OpsIn(WorkersList)
  /\ OpsIn(Workers1)
  /\ OpsIn(Leaving)
  /\ OpsIn(CancelCall)
  /\ OpsIn(Cancel1)
  /\ OpsIn(Cancel2)
  /\ OpsIn(Closing)
  /\ OpsIn(Calling)
  /\ OpsIn(TaskDone)
  /\ OpsIn(TaskDone1)
  /\ OpsIn(TaskDone2)
  /\ OpsIn(TaskFailed)
  <1>1. OpsIn(<<>>) BY DEF OpsIn
  <1>2. OpsIn(View) BY ViewText DEF OpsIn, Ops, Do, Look
  <1>3. OpsIn(View1) BY DEF OpsIn, Ops, View1, Do, Look
  <1>4. OpsIn(View2) BY DEF OpsIn, Ops, View2, Do, Look
  <1>5. OpsIn(View3) BY DEF OpsIn, Ops, View3, Do, Look
  <1>6. OpsIn(View4) BY DEF OpsIn, Ops, View4, Do, Look
  <1>7. OpsIn(Sending) BY DEF OpsIn, Ops, Sending, Do
  <1>8. OpsIn(Stats) BY DEF OpsIn, Ops, Stats, Do, Look
  <1>9. OpsIn(Stats1) BY DEF OpsIn, Ops, Stats1, Do, Look
  <1>10. OpsIn(Stats2) BY DEF OpsIn, Ops, Stats2, Do, Look
  <1>11. OpsIn(Stats3) BY DEF OpsIn, Ops, Stats3, Do, Look
  <1>12. OpsIn(Stats4) BY DEF OpsIn, Ops, Stats4, Do
  <1>13. OpsIn(WorkersList) BY DEF OpsIn, Ops, WorkersList, Do
  <1>14. OpsIn(Workers1) BY DEF OpsIn, Ops, Workers1, Do
  <1>15. OpsIn(Leaving) BY DEF OpsIn, Ops, Leaving, Do
  <1>16. OpsIn(CancelCall) BY DEF OpsIn, Ops, CancelCall, Do
  <1>17. OpsIn(Cancel1) BY DEF OpsIn, Ops, Cancel1, Do
  <1>18. OpsIn(Cancel2) BY DEF OpsIn, Ops, Cancel2, Do, Put
  <1>19. OpsIn(Closing) BY DEF OpsIn, Ops, Closing, Do
  <1>20. OpsIn(Calling) BY DEF OpsIn, Ops, Calling, Do
  <1>21. OpsIn(TaskDone) BY TaskDoneText DEF OpsIn, Ops, Put
  <1>22. OpsIn(TaskDone1) BY DEF OpsIn, Ops, TaskDone1, Put
  <1>23. OpsIn(TaskDone2) BY DEF OpsIn, Ops, TaskDone2, Put
  <1>24. OpsIn(TaskFailed) BY DEF OpsIn, Ops, TaskFailed, Put
  <1> QED BY <1>1, <1>2, <1>3, <1>4, <1>5, <1>6, <1>7, <1>8, <1>9, <1>10, <1>11, <1>12, <1>13,
             <1>14, <1>15, <1>16, <1>17, <1>18, <1>19, <1>20, <1>21, <1>22, <1>23, <1>24

(* At every place of ExecuteJob but those of a start. *)
LEMMA ExecuteOpsIn ==
  /\ OpsIn(Splitting)
  /\ OpsIn(Running)
  /\ OpsIn(Running1)
  /\ OpsIn(Running2)
  /\ OpsIn(Opening)
  /\ OpsIn(Entering)
  /\ OpsIn(Aggregating)
  /\ OpsIn(Aggregating1)
  /\ OpsIn(FailJob)
  /\ OpsIn(Fail1)
  /\ OpsIn(Save0)
  /\ OpsIn(Save)
  /\ OpsIn(Save2)
  /\ OpsIn(First)
  /\ OpsIn(Done2)
  /\ OpsIn(Done3)
  /\ OpsIn(Done4)
  /\ OpsIn(Done5)
  <1>1. OpsIn(Splitting) BY DEF OpsIn, Ops, Splitting, Put
  <1>2. OpsIn(Running) BY DEF OpsIn, Ops, Running, Do, Put
  <1>3. OpsIn(Running1) BY DEF OpsIn, Ops, Running1, Do, Put
  <1>4. OpsIn(Running2) BY DEF OpsIn, Ops, Running2, Do, Put
  <1>5. OpsIn(Opening) BY DEF OpsIn, Ops, Opening, Do
  <1>6. OpsIn(Entering) BY DEF OpsIn, Ops, Entering, Do
  <1>7. OpsIn(Aggregating) BY DEF OpsIn, Ops, Aggregating, Do, Put
  <1>8. OpsIn(Aggregating1) BY DEF OpsIn, Ops, Aggregating1, Do, Put
  <1>9. OpsIn(FailJob) BY FailText DEF OpsIn, Ops, Do, Put
  <1>10. OpsIn(Fail1) BY DEF OpsIn, Ops, Fail1, Do, Put
  <1>11. OpsIn(Save0) BY DEF OpsIn, Ops, Save0, Do
  <1>12. OpsIn(Save) BY SaveText DEF OpsIn, Ops, Do
  <1>13. OpsIn(Save2) BY DEF OpsIn, Ops, Save2, Do
  <1>14. OpsIn(First) BY EndingIs DEF OpsIn, Ops, First, Do, Put
  <1>16. OpsIn(Done2) BY EndingIs DEF OpsIn, Ops, Done2, Do, Put
  <1>17. OpsIn(Done3) BY EndingIs DEF OpsIn, Ops, Done3, Do, Put
  <1>18. OpsIn(Done4) BY EndingIs DEF OpsIn, Ops, Done4, Do, Put
  <1>19. OpsIn(Done5) BY EndingIs DEF OpsIn, Ops, Done5, Do, Put
  <1> QED BY <1>1, <1>2, <1>3, <1>4, <1>5, <1>6, <1>7, <1>8, <1>9, <1>10, <1>11, <1>12, <1>13,
             <1>14, <1>16, <1>17, <1>18, <1>19

(* At the two of a start. *)
LEMMA LaunchOpsIn ==
  ASSUME NEW i
  PROVE  OpsIn(Launch(i)) /\ OpsIn(Launch1(i))
  <1>1. OpsIn(Launch(i)) BY DEF OpsIn, Ops, Launch, Do
  <1>2. OpsIn(Launch1(i)) BY DEF OpsIn, Ops, Launch1
  <1> QED BY <1>1, <1>2

-----------------------------------------------------------------------------
(* The theorems.                                                           *)

(* It holds of a job nobody has executed and of one an earlier process did. *)
LEMMA InitIndInv == Init => IndInv
  <1> SUFFICES ASSUME Init PROVE IndInv OBVIOUS
  <1>1. \A c \in Callers : todo[c] = <<>> BY DEF Init
  <1>2. /\ lock = [writer |-> NoOne, held |-> FALSE, readers |-> {}]
        /\ called = {} /\ phase = "queued"
        /\ seen = [c \in Clients |-> Nothing] /\ disk = Nothing
    BY DEF Init
  <1>3. PICK again \in BOOLEAN :
          /\ task = [i \in Tasks |-> IF again THEN Ended ELSE NewTask]
          /\ job = [status |-> IF again THEN DoneBefore ELSE "pending",
                    result |-> IF again THEN "whole" ELSE "none",
                    finished |-> again, cancel |-> FALSE, ctxDone |-> FALSE]
    BY DEF Init
  <1>4. job \in JobType BY <1>3 DEF JobType, Statuses, Terminal
  <1>5. Ended \in TaskType /\ NewTask \in TaskType BY DEF Ended, NewTask, TaskType
  <1>6. task \in [Tasks -> TaskType] BY <1>3, <1>5
  <1>7. Nothing \in SeenType BY <1>5 DEF Nothing, SeenType
  <1>8. seen \in [Clients -> SeenType] BY <1>2, <1>7
  <1>9. todo = [c \in Callers |-> todo[c]] BY DEF Init
  <1>10. lock \in [writer : Callers \union {NoOne}, held : BOOLEAN, readers : SUBSET Callers]
    BY <1>2
  <1>11. FieldInv BY <1>2, <1>4, <1>6, <1>8, <1>9, <1>10 DEF FieldInv
  <1>12. ~WritePlace(<<>>) /\ ~ReadPlace(<<>>) BY ClientLen, HoldingOps
  <1>13. LockInv BY <1>1, <1>2, <1>12, Kinds DEF LockInv, Writing, Reading
  <1>14. todo[Execution] = <<>> /\ \A i \in Tasks : todo[i] = <<>> BY <1>1, Kinds
  <1>15. \A i \in Tasks : TaskInv(i)
    BY <1>3, <1>14 DEF TaskInv, TaskPlaces, Ended, NewTask
  <1>16. PlaceInv BY <1>2, <1>14 DEF PlaceInv
  <1>17. StatusInv BY <1>2 DEF StatusInv
  <1>18. <<>> \notin Finishing \union {Done4, First, Done2} BY ExecuteLen DEF Finishing
  <1>19. ComputedInv BY <1>2, <1>3, <1>14, <1>18 DEF ComputedInv
  <1>20. again => AllEnded BY <1>3 DEF AllEnded
  <1>21. DoneInv
    BY <1>2, <1>3, <1>14, <1>20 DEF DoneInv, Dones, DoneBefore, EarlyPlace, Idle
  <1>22. Nothing.status = "unread" BY DEF Nothing
  <1>23. DiskInv BY <1>2, <1>22 DEF DiskInv, SnapshotIsWhole
  <1>24. \A c \in Clients : todo[c] = <<>> /\ seen[c] = Nothing BY <1>1, <1>2, Kinds
  <1>25. <<>> \notin {View4, Stats2, Stats3, Stats4, Sending} /\ <<>> \in ClientPlaces BY ClientLen DEF ClientPlaces
  <1>26. Nothing.result = "unread" BY DEF Nothing
  <1>27. \A c \in Clients : ClientInv(c) BY <1>22, <1>24, <1>25 DEF ClientInv, Dones, DoneBefore
  <1>28. \A c \in Clients : SeenInv(c) BY <1>22, <1>24 DEF SeenInv, Dones, DoneBefore
  <1> QED BY <1>11, <1>13, <1>15, <1>16, <1>17, <1>19, <1>21, <1>23, <1>27, <1>28
       DEF IndInv, CoreInv

(* Every step keeps it. *)
LEMMA NextIndInv == IndInv /\ [Next]_vars => IndInv'
  <1> SUFFICES ASSUME IndInv, [Next]_vars PROVE IndInv' OBVIOUS
  <1>1. ASSUME NEW c \in Callers, Access(c) PROVE IndInv'
    <2>1. CASE Announce(c) BY <2>1, Announces
    <2>2. CASE c \in Clients
      <3>1. CASE Lock(c) \/ Unlock(c) \/ RLock(c) \/ RUnlock(c) BY <2>2, <3>1, ClientLocks
      <3>2. CASE Store(c) BY <2>2, <3>2, ClientStores
      <3>3. CASE Load(c) BY <2>2, <3>3, ClientLoads
      <3>4. CASE SentAway(c) BY <2>2, <3>4, ClientSends
      <3>5. CASE Cancel(c) BY <2>2, <3>5, ClientCancels
      <3> QED BY <1>1, <2>1, <3>1, <3>2, <3>3, <3>4, <3>5 DEF Access
    <2>3. CASE c \in Tasks
      <3>1. todo[c] \in TaskPlaces BY <2>3 DEF IndInv, CoreInv, TaskInv
      <3>2. \A op \in {"lock", "unlock", "rlock", "runlock", "look", "send", "cancel"} : ~NextIs(c, op)
        BY <3>1, TaskAt
      <3>3. Store(c)
        BY <1>1, <3>2 DEF Access, Announce, Lock, Unlock, RLock, RUnlock, Load, SentAway, Cancel,
           CancelWith
      <3> QED BY <2>3, <3>3, TaskMoves
    <2>4. CASE c = Execution
      <3>1. CASE Lock(c) \/ Unlock(c) \/ RLock(c) \/ RUnlock(c) BY <2>4, <3>1, ExecuteLocks
      <3>2. CASE Store(c) BY <2>4, <3>2, ExecuteWrites
      <3>3. \A op \in {"look", "send", "cancel"} : ~NextIs(c, op)
        BY <2>4, ExecuteAt DEF IndInv, CoreInv
      <3> QED BY <1>1, <2>1, <3>1, <3>2, <3>3 DEF Access, Load, SentAway, Cancel, CancelWith
    <2> QED BY <2>2, <2>3, <2>4, Kinds
  <1>2. ASSUME NEW c \in Clients, Call(c) PROVE IndInv'
    BY <1>2, ClientCalls
  <1>3. CASE Begin \/ ExecuteJob
    <2>1. CASE Create \/ \E i \in Tasks : Dispatch(i) \/ Start(i) BY <2>1, ExecuteTasks
    <2>2. CASE Snapshot BY <2>2, ExecuteSaves
    <2>3. CASE \/ Begin \/ NoWorkers \/ StartSplit \/ SplitError \/ SplitOk \/ EndDispatch
               \/ AllDone \/ Interrupted \/ InterruptedWrite \/ CheckCancelled \/ CheckPassed
               \/ CollectFailed \/ Collect \/ AggregateError \/ AggregateOk
      <3>1. GoStep BY <2>3, GoSteps DEF IndInv
      <3> QED BY <3>1, ExecuteGoes
    <2> QED BY <1>3, <2>1, <2>2, <2>3 DEF ExecuteJob
  <1>4. CASE Timeout BY <1>4, TimeIsUp
  <1>5. ASSUME NEW i \in Tasks, Answer(i) \/ Exhaust(i) \/ Abort(i) PROVE IndInv'
    BY <1>5, TaskMoves
  <1>6. CASE UNCHANGED vars
    <2>1. UNCHANGED <<lock, called, todo, phase, job, task, seen, disk>> BY <1>6 DEF vars
    <2>2. FieldInv' BY <2>1 DEF IndInv, FieldInv
    <2>3. \A d \in Callers : (Writing(d)' <=> Writing(d)) /\ (Reading(d)' <=> Reading(d))
      BY <2>1, HoldFrame
    <2>4. LockInv' BY <2>1, <2>3, LockFrame DEF IndInv
    <2>5. CoreInv' BY <2>1, CoreFrame DEF IndInv
    <2>6. DiskInv' BY <2>1, DiskFrame DEF IndInv
    <2>7. \A d \in Clients : ClientInv(d)' BY <2>1, ClientFrame DEF IndInv
    <2>8. \A d \in Clients : SeenInv(d)' BY <2>1, SeenFrame DEF IndInv
    <2> QED BY <2>2, <2>4, <2>5, <2>6, <2>7, <2>8 DEF IndInv
  <1> QED BY <1>1, <1>2, <1>3, <1>4, <1>5, <1>6 DEF Next

(* Where everybody is, what is held, and what has been read, written and saved
   by then: for any number of clients and of tasks. *)
THEOREM Inductive == Spec => []IndInv
  BY InitIndInv, NextIndInv, PTL DEF Spec

(* Every variable has its type: an access is one of the model, a field has one
   of its values, and what store.json holds is over or was never written. *)
THEOREM Typed == Spec => []TypeOK
  <1>1. IndInv => TypeOK
    <2> SUFFICES ASSUME IndInv PROVE TypeOK OBVIOUS
    <2>1. FieldInv /\ CoreInv /\ DiskInv BY DEF IndInv
    <2>2. \A c \in Clients : seen[c].status \in Statuses \union {"unread"}
      BY <2>1 DEF FieldInv, SeenType
    <2>3. ASSUME NEW c \in Callers PROVE OpsIn(todo[c])
      <3>1. CASE c \in Clients
        <4>1. todo[c] \in ClientPlaces BY <3>1 DEF IndInv, ClientInv
        <4> QED BY <4>1, ClientOpsIn DEF ClientPlaces
      <3>2. CASE c \in Tasks
        <4>1. todo[c] \in TaskPlaces BY <2>1, <3>2 DEF CoreInv, TaskInv
        <4> QED BY <4>1, ClientOpsIn DEF TaskPlaces
      <3>3. CASE c = Execution
        <4>1. PlaceInv BY <2>1 DEF CoreInv
        <4>2. \/ todo[c] \in {<<>>, Splitting, Running, Running1, Running2, Closing, Opening, Entering,
                              Leaving, Aggregating, Aggregating1, FailJob, Fail1, Save0, Save, Save2,
                              First, Done2, Done3, Done4, Done5}
              \/ \E i \in Tasks : todo[c] \in {Launch(i), Launch1(i)}
          BY <3>3, <4>1 DEF PlaceInv, Finishing, Settled, Saving
        <4> QED BY <4>2, ClientOpsIn, ExecuteOpsIn, LaunchOpsIn
      <3> QED BY <3>1, <3>2, <3>3, Kinds
    <2>4. \A c \in Callers : \A k \in DOMAIN todo[c] :
            todo[c][k].op \in {"lock", "unlock", "rlock", "runlock", "put", "look", "encode",
                              "send", "cancel", "create", "start", "call"}
      BY <2>3 DEF OpsIn, Ops
    <2> QED BY <2>1, <2>2, <2>4 DEF TypeOK, FieldInv, JobType, TaskType, DiskInv
  <1> QED BY <1>1, Inductive, PTL

(* An answer of GET /api/jobs/{id} that says this execution's done, be it the
   first or a second one of the job, carries the whole result and all tasks with
   their outputs, although the handler reads field after field without the lock. *)
THEOREM ViewsAreWhole == Spec => []DoneViewIsWhole
  <1>1. IndInv => DoneViewIsWhole BY DEF IndInv, ClientInv, DoneViewIsWhole, Sending
  <1> QED BY <1>1, Inductive, PTL

(* A job counted as done in the statistics has its time of ending and all its
   tasks are counted with it. *)
THEOREM StatsFit == Spec => []StatsOfDoneJobs
  <1>1. IndInv => StatsOfDoneJobs BY DEF IndInv, ClientInv, StatsOfDoneJobs, Sending, Dones
  <1> QED BY <1>1, Inductive, PTL

(* A job that store.json holds as done is there as a whole, whatever cancels and
   late goroutines write meanwhile. *)
THEOREM SavedWhole == Spec => []SnapshotIsWhole
  <1>1. IndInv => SnapshotIsWhole BY DEF IndInv, DiskInv
  <1> QED BY <1>1, Inductive, PTL
=============================================================================
