----------------------------- MODULE PageProofs -----------------------------
(***************************************************************************)
(* What the page shows when it has stopped polling, for any set of jobs and *)
(* any number of requests on their way.                                    *)
(***************************************************************************)
EXTENDS Page, SequenceTheorems, TLAPS

(* At most one interval runs, and pollTimer names it.  That is why the answer
   to a poll of a job that is not polled is the only one that can bring back a
   status the page had left behind. *)
OneInterval == live = {timer} \ {None}

(* What is on the page has ended unless an interval will ask again, whatever
   requests are still on their way: more than QuietPageShowsTheEnd says. *)
ShownInv ==
  timer = None /\ shown.job # None =>
    \/ shown.status = "ended"
    \/ shown.by = "stray"
    \/ shown.by = "click" /\ shown.status = "aggregating"

IndInv == TypeOK /\ OneInterval /\ ShownInv

-----------------------------------------------------------------------------
(* Operators.                                                              *)

(* The classes of the statuses, spelled out. *)
LEMMA ClassesAre == Classes = {"open", "aggregating", "ended"}
  <1>1. Shown = {"pending", "splitting", "running", "aggregating", "cancelled", "done", "failed"}
    BY DEF Shown, After
  <1>2. \A s \in Shown : Class(s) \in {"open", "aggregating", "ended"}
    BY <1>1 DEF Class, Final
  <1>3. Class("pending") = "open" /\ Class("aggregating") = "aggregating" /\ Class("done") = "ended"
    BY DEF Class, Final
  <1> QED BY <1>1, <1>2, <1>3 DEF Classes

(* What follows a class is a class. *)
LEMMA ClassAfterIsClass == ASSUME NEW c PROVE ClassAfter(c) \subseteq Classes
  <1>1. \A s \in Shown : After[s] \subseteq Shown
    BY DEF Shown, After
  <1> QED BY <1>1 DEF ClassAfter, Classes

(* A sequence without one of its elements is a sequence over the same set. *)
LEMMA RemovedIsSeq ==
  ASSUME NEW S, NEW s \in Seq(S), NEW k \in 1..Len(s)
  PROVE  RemoveAt(s, k) \in Seq(S)
  <1>1. SubSeq(s, 1, k - 1) \in Seq(S) BY SubSeqProperties
  <1>2. SubSeq(s, k + 1, Len(s)) \in Seq(S) BY SubSeqProperties
  <1>3. SubSeq(s, 1, k - 1) \o SubSeq(s, k + 1, Len(s)) \in Seq(S) BY <1>1, <1>2
  <1> QED BY <1>3 DEF RemoveAt

-----------------------------------------------------------------------------
(* The initial states. *)
LEMMA InitIndInv == Init => IndInv
  <1> SUFFICES ASSUME Init PROVE IndInv OBVIOUS
  <1>1. TypeOK BY ClassesAre DEF Init, TypeOK
  <1> QED BY <1>1 DEF IndInv, OneInterval, ShownInv, Init

Message == [kind : {"submit", "click", "poll"}, job : Jobs,
            answer : Classes \union {"none", "error"}]

(* A request leaves. *)
LEMMA RequestIndInv ==
  ASSUME IndInv, NEW kind \in {"submit", "click", "poll"}, NEW j \in Jobs, Request(kind, j)
  PROVE  IndInv'
  <1>1. flight \in Seq(Message) BY DEF IndInv, TypeOK, Message
  <1>2. [kind |-> kind, job |-> j, answer |-> "none"] \in Message BY DEF Message
  <1>3. flight' \in Seq(Message) BY <1>1, <1>2, AppendProperties DEF Request
  <1>4. UNCHANGED <<server, live, timer, shown>> BY DEF Request
  <1>5. TypeOK' BY <1>3, <1>4 DEF IndInv, TypeOK, Message
  <1> QED BY <1>4, <1>5 DEF IndInv, OneInterval, ShownInv

(* The center moves a job. *)
LEMMA MoveIndInv ==
  ASSUME IndInv, NEW j \in Jobs, NEW s \in Classes \union {"lost"}, MoveTo(j, s)
  PROVE  IndInv'
  <1>1. server' \in [Jobs -> Classes \union {"unknown", "lost"}]
    BY DEF IndInv, TypeOK, MoveTo
  <1>2. UNCHANGED <<flight, live, timer, shown>> BY DEF MoveTo
  <1> QED BY <1>1, <1>2 DEF IndInv, TypeOK, OneInterval, ShownInv

(* The center answers, or the answer is lost. *)
LEMMA AnswerIndInv ==
  ASSUME IndInv, NEW k, NEW s \in Classes \union {"error"}, AnswerWith(k, s)
  PROVE  IndInv'
  <1>1. flight \in Seq(Message) BY DEF IndInv, TypeOK, Message
  <1>2. k \in 1..Len(flight) BY <1>1 DEF AnswerWith
  <1>3. flight[k] \in Message BY <1>1, <1>2
  <1>4. [flight[k] EXCEPT !.answer = s] \in Message BY <1>3 DEF Message
  <1>5. flight' = [flight EXCEPT ![k] = [flight[k] EXCEPT !.answer = s]] BY DEF AnswerWith
  <1>6. flight' \in Seq(Message) BY <1>1, <1>2, <1>4, <1>5, ExceptSeq
  <1>7. UNCHANGED <<server, live, timer, shown>> BY DEF AnswerWith
  <1>8. TypeOK' BY <1>6, <1>7 DEF IndInv, TypeOK, Message
  <1> QED BY <1>7, <1>8 DEF IndInv, OneInterval, ShownInv

(* A callback runs: the only step that starts or stops an interval. *)
LEMMA ArriveIndInv == ASSUME IndInv, NEW k, Arrive(k) PROVE IndInv'
  <1> DEFINE a == flight[k]
  <1>1. flight \in Seq(Message) BY DEF IndInv, TypeOK, Message
  <1>2. k \in 1..Len(flight) BY <1>1 DEF Arrive, ArriveUnless
  <1>3. a \in Message BY <1>1, <1>2
  <1>4. /\ a.kind \in {"submit", "click", "poll"}
        /\ a.job \in Jobs
        /\ a.answer \in Classes
    BY <1>3 DEF Message, Arrive, ArriveUnless
  <1>5. a.job # None BY <1>4, NoneAssumption
  <1>6. flight' \in Seq(Message)
    BY <1>1, <1>2, RemovedIsSeq DEF Arrive, ArriveUnless
  <1>7. UNCHANGED server BY DEF Arrive, ArriveUnless
  <1> HIDE DEF a
  <1>8. ASSUME live' \in SUBSET Jobs, timer' \in Jobs \union {None},
               shown' \in [job : Jobs \union {None}, status : Classes \union {"unknown"},
                           by : {"nothing", "submit", "click", "poll", "stray"}]
        PROVE  TypeOK'
    BY <1>6, <1>7, <1>8 DEF IndInv, TypeOK, Message
  <1>9. live \in SUBSET Jobs /\ timer \in Jobs \union {None} BY DEF IndInv, TypeOK
  <1>10. CASE PollArrives(k)
    <2> DEFINE by == IF a.job \in live THEN "poll" ELSE "stray"
    <2>1. shown' = [job |-> a.job, status |-> a.answer, by |-> by]
      BY <1>10 DEF PollArrives, ShowJob, a
    <2>2. CASE a.answer = "ended"
      <3>1. live' = live \ {timer} /\ timer' = None
        BY <1>10, <2>2 DEF PollArrives, Ends, StopPolling, a
      <3>2. TypeOK' BY <1>4, <1>8, <1>9, <2>1, <3>1
      <3> QED BY <2>1, <2>2, <3>1, <3>2 DEF IndInv, OneInterval, ShownInv
    <2>3. CASE a.answer # "ended"
      <3>1. live' = live /\ timer' = timer
        BY <1>10, <2>3 DEF PollArrives, Ends, a
      <3>2. TypeOK' BY <1>4, <1>8, <1>9, <2>1, <3>1
      <3>3. by = "stray" \/ timer # None BY <1>5 DEF IndInv, OneInterval
      <3> QED BY <2>1, <3>1, <3>2, <3>3 DEF IndInv, OneInterval, ShownInv
    <2> QED BY <2>2, <2>3
  <1>11. ASSUME StartPolling(a.job), NEW by \in {"submit", "click"},
                shown' = [job |-> a.job, status |-> a.answer, by |-> by]
         PROVE  IndInv'
    <2>1. live' = (live \ {timer}) \union {a.job} /\ timer' = a.job
      BY <1>11 DEF StartPolling
    <2>2. live' = {a.job} BY <2>1 DEF IndInv, OneInterval
    <2>3. TypeOK' BY <1>4, <1>8, <1>11, <2>1, <2>2
    <2> QED BY <1>5, <2>1, <2>2, <2>3 DEF IndInv, OneInterval, ShownInv
  <1>12. CASE SubmitArrives(k)
    BY <1>11, <1>12 DEF SubmitArrives, ShowJob, a
  <1>13. CASE ClickArrives(k)
    <2>1. shown' = [job |-> a.job, status |-> a.answer, by |-> "click"]
      BY <1>13 DEF ClickArrives, ShowJob, a
    <2>2. CASE a.answer = "open"
      BY <1>11, <1>13, <2>1, <2>2 DEF ClickArrives, a
    <2>3. CASE a.answer # "open"
      <3>1. live' = live /\ timer' = timer
        BY <1>13, <2>3 DEF ClickArrives, a
      <3>2. TypeOK' BY <1>4, <1>8, <1>9, <2>1, <3>1
      <3>3. a.answer \in {"ended", "aggregating"} BY <1>4, <2>3, ClassesAre
      <3> QED BY <2>1, <3>1, <3>2, <3>3 DEF IndInv, OneInterval, ShownInv
    <2> QED BY <2>2, <2>3
  <1> QED BY <1>10, <1>12, <1>13 DEF Arrive, ArriveUnless

(* A callback ends with an error. *)
LEMMA FailIndInv == ASSUME IndInv, NEW k, Fail(k) PROVE IndInv'
  <1>1. flight \in Seq(Message) BY DEF IndInv, TypeOK, Message
  <1>2. k \in 1..Len(flight) BY <1>1 DEF Fail
  <1>3. flight' \in Seq(Message) BY <1>1, <1>2, RemovedIsSeq DEF Fail
  <1>4. UNCHANGED <<server, live, timer, shown>> BY DEF Fail
  <1>5. TypeOK' BY <1>3, <1>4 DEF IndInv, TypeOK, Message
  <1> QED BY <1>4, <1>5 DEF IndInv, OneInterval, ShownInv

(* Every step keeps the invariant. *)
LEMMA NextIndInv == IndInv /\ [Next]_vars => IndInv'
  <1> SUFFICES ASSUME IndInv, [Next]_vars PROVE IndInv' OBVIOUS
  <1>1. ASSUME NEW j \in Jobs, Submit(j) \/ Click(j) \/ Tick(j) PROVE IndInv'
    BY <1>1, RequestIndInv DEF Submit, Click, Tick
  <1>2. ASSUME NEW j \in Jobs, Move(j) PROVE IndInv'
    BY <1>2, MoveIndInv, ClassAfterIsClass DEF Move
  <1>3. ASSUME NEW j \in Jobs, Redeliver(j) PROVE IndInv'
    <2>1. \A s \in Restarts : Class(s) \in Classes BY ClassesAre DEF Restarts, Class, Final
    <2> QED BY <1>3, <2>1, MoveIndInv DEF Redeliver
  <1>4. ASSUME NEW j \in Jobs, Restart(j) PROVE IndInv'
    <2>1. Class("pending") \in Classes BY ClassesAre DEF Class, Final
    <2> QED BY <1>4, <2>1, MoveIndInv DEF Restart
  <1>5. ASSUME NEW k \in 1..MaxFlight, Create(k) PROVE IndInv'
    <2>1. Class("pending") \in Classes BY ClassesAre DEF Class, Final
    <2>2. flight \in Seq(Message) BY DEF IndInv, TypeOK, Message
    <2>3. flight[k] \in Message BY <1>5, <2>2 DEF Create
    <2>4. flight[k].job \in Jobs BY <2>3 DEF Message
    <2> QED BY <1>5, <2>1, <2>4, MoveIndInv DEF Create
  <1>6. ASSUME NEW k \in 1..MaxFlight, Answer(k) PROVE IndInv'
    BY <1>6, AnswerIndInv DEF Answer
  <1>7. ASSUME NEW k \in 1..MaxFlight, Refuse(k) PROVE IndInv'
    BY <1>7, AnswerIndInv DEF Refuse
  <1>8. ASSUME NEW k \in 1..MaxFlight, Arrive(k) PROVE IndInv' BY <1>8, ArriveIndInv
  <1>9. ASSUME NEW k \in 1..MaxFlight, Fail(k) PROVE IndInv' BY <1>9, FailIndInv
  <1>10. CASE UNCHANGED vars
    BY <1>10 DEF vars, IndInv, TypeOK, OneInterval, ShownInv
  <1> QED BY <1>1, <1>2, <1>3, <1>4, <1>5, <1>6, <1>7, <1>8, <1>9, <1>10 DEF Next

-----------------------------------------------------------------------------
(* The inductive invariant holds in every behaviour. *)
THEOREM Inductive == Spec => []IndInv
  BY InitIndInv, NextIndInv, PTL DEF Spec

(* Every variable of the page has its type. *)
THEOREM Typed == Spec => []TypeOK
  <1>1. IndInv => TypeOK BY DEF IndInv
  <1> QED BY <1>1, Inductive, PTL

(* The page never stops following a job before it has ended, but for the two
   ways QuietPageShowsTheEnd names: proved for any number of jobs and requests. *)
THEOREM Followed == Spec => []QuietPageShowsTheEnd
  <1>1. IndInv => QuietPageShowsTheEnd BY DEF IndInv, ShownInv, QuietPageShowsTheEnd
  <1> QED BY <1>1, Inductive, PTL
=============================================================================
