-------------------------------- MODULE Page --------------------------------
(***************************************************************************)
(* The page job-submit.html and the center as it sees it: a job is         *)
(* submitted or picked from the history, shown, and polled by an interval  *)
(* timer that does not wait for the answer to its last poll.  Answers may  *)
(* fail and may arrive in any order; every callback is one step, as the    *)
(* browser runs them.                                                      *)
(***************************************************************************)
EXTENDS Naturals, Sequences, SequencesExt, StatusGraph

(* A definition marked `mutant` is never used: it is the definition after it
   with a plausible mistake, kept to show which property would notice. *)

CONSTANTS
  Jobs,        \* the jobs this page may submit or find in the history
  None,        \* no job
  MaxFlight    \* bound: requests on their way at one time

ASSUME NoneAssumption == None \notin Jobs
ASSUME FlightAssumption == MaxFlight \in Nat \ {0}

VARIABLES
  server,    \* Job.Status in the center, "unknown" before and "lost" after it
  flight,    \* the requests on their way
  live,      \* the jobs polled by an interval that has not been cleared
  timer,     \* pollTimer: the job of the interval it names
  shown      \* the job on the page, its status, and how the answer came

vars == <<server, flight, live, timer, shown>>

Init ==
  /\ server = [j \in Jobs |-> "unknown"]
  /\ flight = <<>>
  /\ live = {}
  /\ timer = None
  /\ shown = [job |-> None, status |-> "unknown", by |-> "nothing"]

-----------------------------------------------------------------------------
(* Requests.                                                               *)

Request(kind, j) ==
  /\ Len(flight) < MaxFlight
  /\ flight' = Append(flight, [kind |-> kind, job |-> j, answer |-> "none"])
  /\ UNCHANGED <<server, live, timer, shown>>

(* The button is disabled while a submission is on its way. *)
Submit(j) ==
  /\ server[j] = "unknown"
  /\ \A k \in DOMAIN flight : flight[k].kind # "submit"
  /\ Request("submit", j)

(* A card of the history. *)
Click(j) == server[j] \in Classes /\ Request("click", j)

(* Every 800 ms, whether or not the last poll was answered. *)
Tick(j) == j \in live /\ Request("poll", j)

-----------------------------------------------------------------------------
(* The center.                                                             *)

MoveTo(j, s) ==
  /\ server' = [server EXCEPT ![j] = s]
  /\ UNCHANGED <<flight, live, timer, shown>>

(* The handler of the submission creates the job, and has yet to answer. *)
Create(k) ==
  /\ k \in DOMAIN flight
  /\ flight[k].kind = "submit" /\ flight[k].answer = "none"
  /\ server[flight[k].job] = "unknown"
  /\ MoveTo(flight[k].job, Class("pending"))

(* The execution goes on, or somebody cancels. *)
Move(j) == server[j] \in Classes /\ \E s \in ClassAfter(server[j]) : MoveTo(j, s)

(* The message of a job that had ended is delivered again. *)
Redeliver(j) == server[j] = "ended" /\ \E s \in Restarts : MoveTo(j, Class(s))

(* After a restart of the center the job is as an older snapshot has it: before
   its execution, or not at all. *)
Restart(j) == server[j] \in Classes /\ \E s \in {Class("pending"), "lost"} : MoveTo(j, s)

AnswerWith(k, s) ==
  /\ k \in DOMAIN flight
  /\ flight[k].answer = "none"
  /\ flight' = [flight EXCEPT ![k].answer = s]
  /\ UNCHANGED <<server, live, timer, shown>>

(* The job as it is now, or the text "job not found", which is no JSON. *)
Answer(k) ==
  /\ k \in DOMAIN flight
  /\ LET s == server[flight[k].job]
     IN  /\ flight[k].kind = "submit" => s # "unknown"
         /\ AnswerWith(k, IF s \in Classes THEN s ELSE "error")

(* Refused by the rate limiter, or lost. *)
Refuse(k) == AnswerWith(k, "error")

-----------------------------------------------------------------------------
(* Callbacks.                                                              *)

ShowJob(k, by) == shown' = [job |-> flight[k].job, status |-> flight[k].answer, by |-> by]

StartPollingTwice(j) ==                                              \* mutant
  /\ live' = live \union {j}
  /\ timer' = j

StartPolling(j) ==
  /\ live' = (live \ {timer}) \union {j}
  /\ timer' = j

(* clearInterval(pollTimer): whosever answer it is. *)
StopPolling ==
  /\ live' = live \ {timer}
  /\ timer' = None

Uncancellable(s) == s # "open"                                       \* mutant
Ends(s) == s = "ended"

(* An answer is stray when its interval was cleared before it came. *)
PollArrives(k) ==
  /\ flight[k].kind = "poll"
  /\ ShowJob(k, IF flight[k].job \in live THEN "poll" ELSE "stray")
  /\ IF Ends(flight[k].answer) THEN StopPolling ELSE UNCHANGED <<live, timer>>

SubmitArrives(k) ==
  /\ flight[k].kind = "submit"
  /\ ShowJob(k, "submit")
  /\ StartPolling(flight[k].job)

ClickArrives(k) ==
  /\ flight[k].kind = "click"
  /\ ShowJob(k, "click")
  /\ IF flight[k].answer = "open" THEN StartPolling(flight[k].job) ELSE UNCHANGED <<live, timer>>

ArriveUnless(k, refused) ==
  /\ k \in DOMAIN flight
  /\ flight[k].answer \notin {"none", "error"} \ refused
  /\ PollArrives(k) \/ SubmitArrives(k) \/ ClickArrives(k)
  /\ flight' = RemoveAt(flight, k)
  /\ UNCHANGED server

ArriveUncaught(k) == ArriveUnless(k, {"error"})                      \* mutant
Arrive(k) == ArriveUnless(k, {})

(* An error is caught, or ends the callback before it has done anything. *)
Fail(k) ==
  /\ k \in DOMAIN flight
  /\ flight[k].answer = "error"
  /\ flight' = RemoveAt(flight, k)
  /\ UNCHANGED <<server, live, timer, shown>>

-----------------------------------------------------------------------------
PollAnswered(j) ==
  \E k \in DOMAIN flight : flight[k].kind = "poll" /\ flight[k].job = j /\ Answer(k)

Next ==
  \/ \E j \in Jobs : Submit(j) \/ Click(j) \/ Tick(j)
  \/ \E j \in Jobs : Move(j) \/ Redeliver(j) \/ Restart(j)
  \/ \E k \in 1..MaxFlight :
       Create(k) \/ Answer(k) \/ Refuse(k) \/ Arrive(k) \/ Fail(k)

Spec == Init /\ [][Next]_vars

(* Intervals fire; a request, the oldest first, is answered, refused or given up,
   and its callback runs; the polls of a job are not refused for ever (one page
   polls at a fortieth of the limiter's rate). *)
Fairness ==
  /\ WF_vars(Answer(1) \/ Refuse(1))
  /\ WF_vars(Arrive(1) \/ Fail(1))
  /\ \A j \in Jobs : SF_vars(Tick(j)) /\ SF_vars(PollAnswered(j))

FairSpec == Spec /\ Fairness

-----------------------------------------------------------------------------
(* Correctness.                                                            *)

(* Every variable has its type. *)
TypeOK ==
  /\ server \in [Jobs -> Classes \union {"unknown", "lost"}]
  /\ flight \in Seq([kind : {"submit", "click", "poll"}, job : Jobs,
                     answer : Classes \union {"none", "error"}])
  /\ live \in SUBSET Jobs
  /\ timer \in Jobs \union {None}
  /\ shown \in [job : Jobs \union {None}, status : Classes \union {"unknown"},
                by : {"nothing", "submit", "click", "poll", "stray"}]

(* A page that polls nothing and waits for nothing shows a job that has ended:
   it never stops following a job too early, however answers are reordered or
   lost and whatever was picked meanwhile, but for two ways: the answer to a
   poll that comes when its interval has been cleared draws the page once more,
   and a job that is picked while it is aggregated is not polled. *)
QuietPageShowsTheEnd ==
  timer = None /\ flight = <<>> /\ shown.job # None =>
    \/ shown.status = "ended"
    \/ shown.by = "stray"
    \/ shown.by = "click" /\ shown.status = "aggregating"

(* When a job has ended for good the page stops polling it, whatever the user
   picks, whichever requests fail and however the answers are ordered. *)
PollingEnds ==
  \A j \in Jobs : <>[](server[j] = "ended") => <>[](j \notin live)
=============================================================================
