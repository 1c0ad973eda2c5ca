---------------------------- MODULE ScheduledRuns ---------------------------
(***************************************************************************)
(* The scheduled executions of the batch jobs.  EventBridge fires a rule   *)
(* every day, each firing is an asynchronous Lambda invocation, and an     *)
(* attempt that crashes or exceeds its 300 seconds is retried like any     *)
(* other.  A firing may be delivered twice: two runs of one job on one day *)
(* go on side by side.  A run begins and ends on its day: its attempts     *)
(* take minutes and an event waits for two hours at most.                  *)
(*                                                                         *)
(* step[r] names the DynamoDB request the run makes next.                  *)
(***************************************************************************)
EXTENDS TierIndex

CONSTANTS
  Runs,             \* the invocations EventBridge makes
  JobOf,            \* the job each of them runs
  DayOf,            \* the day it runs on
  MaxRunAttempts,   \* the first attempt and its retries: three in the stack
  RunFaults,        \* the kinds of fault that may happen to a run
  Calendar          \* the days on which anything may happen

VARIABLES
  step,         \* where the current attempt of each run is
  runAttempt,   \* the number of attempts started
  work,         \* the local variables of the attempt
  outcome,      \* what the job returned
  hollow        \* ledger entries whose item has a key and nothing else: an
                \* update after the item was deleted made it anew

runVars == <<step, runAttempt, work, outcome, hollow>>

ASSUME RunAssumption ==
  /\ JobOf \in [Runs -> {"expiration", "evaluation"}]
  /\ DayOf \in [Runs -> Calendar]
  /\ MaxRunAttempts \in Nat \ {0}
  /\ RunFaults \subseteq {"crash", "request error", "response lost", "event too old"}
  /\ Calendar \subseteq 0..MaxDay
  /\ Runs \X (1..MaxRunAttempts) \subseteq Stamps

NoWork == [now |-> 0]

\* get_star_ledger_entries raises KeyError at an item that has no earnedDate.
Unreadable(m) == \E b \in hollow : b.member = m

\* What a job answers: the status and the number of errors; the other counters
\* are left out.
Reply(status, errors) == [status |-> status, errors |-> errors]

NoReply == Reply("none", 0)

Ended == {"done", "dead letter"}

RunsInit ==
  /\ step = [r \in Runs |-> "waiting"]
  /\ runAttempt = [r \in Runs |-> 0]
  /\ work = [r \in Runs |-> NoWork]
  /\ outcome = [r \in Runs |-> NoReply]
  /\ hollow = {}

Stamp(r) == <<r, runAttempt[r]>>

RunGoesTo(r, label) == step' = [step EXCEPT ![r] = label]

SetWork(r, new) == work' = [work EXCEPT ![r] = new]

RunReturns(r, result) ==
  /\ step' = [step EXCEPT ![r] = "done"]
  /\ outcome' = [outcome EXCEPT ![r] = result]
  /\ work' = [work EXCEPT ![r] = NoWork]

\* Lambda starts an attempt at a run of the job; the handler takes the time.
StartRun(r, job, firstRequest, firstWork) ==
  /\ JobOf[r] = job
  /\ DayOf[r] = today
  /\ step[r] = "waiting"
  /\ runAttempt' = [runAttempt EXCEPT ![r] = @ + 1]
  /\ RunGoesTo(r, firstRequest)
  /\ SetWork(r, firstWork)
  /\ UNCHANGED <<tableVars, today, byTier, hollow, outcome>>

\* One retry too many.
AfterRunCrashOneMore(r) ==
  IF runAttempt[r] <= MaxRunAttempts THEN "waiting" ELSE "dead letter"

\* Lambda starts the run again, or gives it up.
AfterRunCrash(r) ==
  IF runAttempt[r] < MaxRunAttempts THEN "waiting" ELSE "dead letter"

\* The runtime dies or the timeout strikes between two requests.
CrashRun(r) ==
  /\ "crash" \in RunFaults
  /\ step[r] \notin Ended \cup {"waiting"}
  /\ RunGoesTo(r, AfterRunCrash(r))
  /\ SetWork(r, NoWork)
  /\ UNCHANGED <<tableVars, today, byTier, hollow, runAttempt, outcome>>

\* The event waited longer than maxEventAge for its next attempt.
DiscardRun(r) ==
  /\ "event too old" \in RunFaults
  /\ DayOf[r] = today
  /\ step[r] = "waiting"
  /\ RunGoesTo(r, "dead letter")
  /\ UNCHANGED <<tableVars, today, byTier, hollow, runAttempt, work, outcome>>

\* Time goes on to the next day of the calendar when the runs of the day ended.
AdvanceCalendar ==
  /\ \A r \in Runs : DayOf[r] <= today => step[r] \in Ended
  /\ \E d \in Calendar :
       /\ d > today
       /\ \A e \in Calendar : e > today => d <= e
       /\ today' = d
  /\ UNCHANGED <<tableVars, byTier, runVars>>
=============================================================================
