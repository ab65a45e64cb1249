----------------------------- MODULE WorkerLoop -----------------------------
(***************************************************************************)
(* The budgets of one queued task (engine/worker.go, RunTaskWorker): the   *)
(* cap on launches per day, the task's own MaxRetries and the deadline of  *)
(* RETRY_MAX_DAYS.  The counters are local variables of the goroutine, the *)
(* status of the row and the clock are shared, and the task is served by   *)
(* one goroutine after the other: a start, and the resume after a restart, *)
(* begin a new run with counters of its own.                               *)
(*                                                                         *)
(* Scheduler has the same loop with every access to shared state and all   *)
(* the requests; here the requests are single steps, and the clock and the *)
(* counters are explicit.                                                  *)
(***************************************************************************)
EXTENDS Integers

CONSTANTS
  Runs,                    \* runs of RunTaskWorker, one goroutine each
  RetryMaxDays,            \* 0 = no deadline
  RetryMaxLaunchesPerDay,  \* 0 = no cap
  MaxRetries,              \* of the task; 0 = no budget
  DayParts,                \* ticks of the clock in a day
  LastDay,                 \* bound: the clock stops at the end of this day
  CountBound               \* bound: counters saturate here

ASSUME BudgetsOK ==
  /\ RetryMaxDays \in Nat
  /\ RetryMaxLaunchesPerDay \in Nat
  /\ MaxRetries \in Nat
  /\ DayParts \in Nat \ {0}
  /\ LastDay \in Nat
  /\ CountBound \in Nat
  /\ CountBound > RetryMaxLaunchesPerDay + 1
  /\ CountBound > MaxRetries

VARIABLES
  status,         \* launch_tasks.status
  createdPart,    \* CreatedAt: a part of day 0
  day, part,      \* the clock
  pc,             \* where each run is
  gone,           \* its context is cancelled
  verdict,        \* the status it is about to write
  launches,       \* its attempts
  launchesToday,  \* its attempts on dayKey
  dayKey,         \* the day it last read from the clock; -1 before that
  begun,          \* the day it started
  calls,          \* LaunchInstance calls it made on the current day
  real,           \* LaunchInstance calls it made
  late            \* LaunchInstance calls it made since the row left "running"

clockVars == <<createdPart, day, part>>
counterVars == <<launches, launchesToday, dayKey>>
tallyVars == <<begun, calls, real, late>>
vars == <<status, clockVars, pc, gone, verdict, counterVars, tallyVars>>

PCs == {"fresh", "top", "lock", "report", "attempt", "judge", "write", "sleep", "done"}
Verdicts == {"none", "success", "failed", "stopped"}

Now == day * DayParts + part
Alive(r) == pc[r] \notin {"fresh", "done"}
Bump(n) == IF n < CountBound THEN n + 1 ELSE n

\* The row was created on day 0 and is not queued yet.
Init ==
  /\ status = "stopped"
  /\ createdPart \in 0 .. DayParts - 1
  /\ day = 0
  /\ part = createdPart
  /\ pc = [r \in Runs |-> "fresh"]
  /\ gone = [r \in Runs |-> FALSE]
  /\ verdict = [r \in Runs |-> "none"]
  /\ launches = [r \in Runs |-> 0]
  /\ launchesToday = [r \in Runs |-> 0]
  /\ dayKey = [r \in Runs |-> -1]
  /\ begun = [r \in Runs |-> 0]
  /\ calls = [r \in Runs |-> 0]
  /\ real = [r \in Runs |-> 0]
  /\ late = [r \in Runs |-> 0]

Go(r, label) == pc' = [pc EXCEPT ![r] = label]

\* Mutant: the verdict is not handed to setTaskStatus.
DecideSilently(r, s) == Go(r, "write") /\ UNCHANGED verdict

\* setTaskStatus follows as a step of its own.
Decide(r, s) ==
  /\ verdict' = [verdict EXCEPT ![r] = s]
  /\ Go(r, "write")

-----------------------------------------------------------------------------
(* One iteration of the loop.                                               *)

Deadline == createdPart + RetryMaxDays * DayParts

\* Mutant: the deadline only ends a task that has launched something.
PastDeadlineOnceTried(r) == RetryMaxDays > 0 /\ Now > Deadline /\ launches[r] > 0

PastDeadline(r) == RetryMaxDays > 0 /\ Now > Deadline

\* Mutant: only the context is looked at.
LeaveOnContext(r) == gone[r]

MustLeave(r) == gone[r] \/ status # "running"

\* Context, row, profile (which may be gone) and deadline.
LoopTop(r) ==
  /\ pc[r] = "top"
  /\ \/ MustLeave(r) /\ Go(r, "done") /\ UNCHANGED verdict
     \/ ~MustLeave(r) /\ Decide(r, "failed")
     \/ ~MustLeave(r) /\ PastDeadline(r) /\ Decide(r, "stopped")
     \/ ~MustLeave(r) /\ ~PastDeadline(r) /\ Go(r, "lock") /\ UNCHANGED verdict
  /\ UNCHANGED <<status, clockVars, gone, counterVars, tallyVars>>

\* Mutant: the count starts again although the day has not changed.
ResetAlways(r) ==
  /\ dayKey' = [dayKey EXCEPT ![r] = day]
  /\ launchesToday' = [launchesToday EXCEPT ![r] = 0]

ReadDay(r) ==
  /\ dayKey' = [dayKey EXCEPT ![r] = day]
  /\ launchesToday' = [launchesToday EXCEPT ![r] = IF dayKey[r] = day THEN @ ELSE 0]

\* The account lock, or the wait for it; then the date is read.
TakeLock(r) ==
  /\ pc[r] = "lock"
  /\ \/ Go(r, "report") /\ ReadDay(r)
     \/ Go(r, "sleep") /\ UNCHANGED <<launchesToday, dayKey>>
  /\ UNCHANGED <<status, clockVars, gone, verdict, launches, tallyVars>>

Capped(r) == RetryMaxLaunchesPerDay > 0 /\ launchesToday[r] >= RetryMaxLaunchesPerDay

\* The capacity report (without it, the domains in turn), then the daily cap.
Report(r) ==
  /\ pc[r] = "report"
  /\ \/ ~Capped(r) /\ Go(r, "attempt")
     \/ Go(r, "sleep")
     \/ gone[r] /\ Go(r, "done")
  /\ UNCHANGED <<status, clockVars, gone, verdict, counterVars, tallyVars>>

\* AttemptLaunch: an instance of that name exists (a success without a call), or the context is
\* cancelled, or LaunchInstance is called.
Attempt(r) ==
  /\ pc[r] = "attempt"
  /\ \/ /\ verdict' = [verdict EXCEPT ![r] = "success"]
        /\ Go(r, "judge")
        /\ UNCHANGED <<calls, real, late>>
     \/ /\ gone[r]
        /\ Go(r, "done")
        /\ UNCHANGED <<verdict, calls, real, late>>
     \/ /\ ~gone[r]
        /\ calls' = [calls EXCEPT ![r] = Bump(@)]
        /\ real' = [real EXCEPT ![r] = Bump(@)]
        /\ late' = [late EXCEPT ![r] = IF status = "running" THEN @ ELSE Bump(@)]
        /\ \E v \in {"none", "success", "failed"} : verdict' = [verdict EXCEPT ![r] = v]
        /\ Go(r, "judge")
  /\ UNCHANGED <<status, clockVars, gone, counterVars, begun>>

\* Mutant: the attempt too many is only noticed by the next one.
SpentOffByOne(n) == MaxRetries > 0 /\ n > MaxRetries

Spent(n) == MaxRetries > 0 /\ n >= MaxRetries

\* Counted, then judged: cancelled, success, fatal, budget spent, or wait and try again.
Judge(r) ==
  /\ pc[r] = "judge"
  /\ \/ /\ gone[r] /\ verdict[r] # "success"
        /\ Go(r, "done")
        /\ verdict' = [verdict EXCEPT ![r] = "none"]
     \/ /\ verdict[r] = "success" \/ (verdict[r] = "failed" /\ ~gone[r])
        /\ Decide(r, verdict[r])
     \/ /\ verdict[r] = "none" /\ ~gone[r]
        /\ \/ Spent(Bump(launches[r])) /\ Decide(r, "stopped")
           \/ ~Spent(Bump(launches[r])) /\ Go(r, "sleep") /\ UNCHANGED verdict
  /\ launches' = [launches EXCEPT ![r] = Bump(@)]
  /\ launchesToday' = [launchesToday EXCEPT ![r] = Bump(@)]
  /\ UNCHANGED <<status, clockVars, gone, dayKey, tallyVars>>

\* The update is made by id: it does not look at the status it replaces.
Write(r) ==
  /\ pc[r] = "write"
  /\ status' = verdict[r]
  /\ verdict' = [verdict EXCEPT ![r] = "none"]
  /\ Go(r, "done")
  /\ UNCHANGED <<clockVars, gone, counterVars, tallyVars>>

\* Every wait of the loop ends with the timer or with the context.
Wake(r) ==
  /\ pc[r] = "sleep"
  /\ Go(r, IF gone[r] THEN "done" ELSE "top")
  /\ UNCHANGED <<status, clockVars, gone, verdict, counterVars, tallyVars>>

-----------------------------------------------------------------------------
(* The requests, the restart and the clock.                                 *)

\* StartTask: cancel the worker, mark the row running, begin a run.
BeginRun(r, cancelled) ==
  /\ pc[r] = "fresh"
  /\ status' = "running"
  /\ pc' = [q \in Runs |-> IF q = r THEN "top" ELSE IF q \in cancelled THEN "done" ELSE pc[q]]
  /\ begun' = [begun EXCEPT ![r] = day]
  /\ late' = [q \in Runs |-> 0]
  /\ UNCHANGED <<clockVars, verdict, counterVars, calls, real>>

\* StartExistingTask on a task that is not queued.
Queue(r) ==
  /\ status \in {"stopped", "failed"}
  /\ BeginRun(r, {})
  /\ gone' = [q \in Runs |-> gone[q] \/ Alive(q)]

\* The process dies; the next one resumes a running row with a new run.
Resume(r) ==
  /\ status = "running"
  /\ BeginRun(r, {q \in Runs : Alive(q)})
  /\ UNCHANGED gone

RestartUnqueued ==
  /\ status # "running"
  /\ \E q \in Runs : Alive(q)
  /\ pc' = [q \in Runs |-> IF Alive(q) THEN "done" ELSE pc[q]]
  /\ UNCHANGED <<status, clockVars, gone, verdict, counterVars, tallyVars>>

StopTask ==
  /\ status = "running"
  /\ status' = "stopped"
  /\ gone' = [q \in Runs |-> gone[q] \/ Alive(q)]
  /\ UNCHANGED <<clockVars, pc, verdict, counterVars, tallyVars>>

\* The health check of the account writes the row and leaves the worker to notice.
HealthPause ==
  /\ status = "running"
  /\ status' = "stopped"
  /\ UNCHANGED <<clockVars, pc, gone, verdict, counterVars, tallyVars>>

Tick ==
  /\ \/ /\ part < DayParts - 1
        /\ part' = part + 1
        /\ UNCHANGED <<day, calls>>
     \/ /\ part = DayParts - 1 /\ day < LastDay
        /\ part' = 0
        /\ day' = day + 1
        /\ calls' = [r \in Runs |-> 0]
  /\ UNCHANGED <<status, createdPart, pc, gone, verdict, counterVars, begun, real, late>>

RunStep(r) ==
  LoopTop(r) \/ TakeLock(r) \/ Report(r) \/ Attempt(r) \/ Judge(r) \/ Write(r) \/ Wake(r)

Next ==
  \/ \E r \in Runs : RunStep(r) \/ Queue(r) \/ Resume(r)
  \/ RestartUnqueued
  \/ StopTask
  \/ HealthPause
  \/ Tick

Spec == Init /\ [][Next]_vars

\* Goroutines that can run do run, and time passes.
Fairness == WF_vars(Tick) /\ \A r \in Runs : WF_vars(RunStep(r))

FairSpec == Spec /\ Fairness

-----------------------------------------------------------------------------
(* Correctness.                                                             *)

\* Every variable keeps its type.
TypeOK ==
  /\ status \in {"running", "success", "failed", "stopped"}
  /\ createdPart \in 0 .. DayParts - 1
  /\ day \in 0 .. LastDay
  /\ part \in 0 .. DayParts - 1
  /\ pc \in [Runs -> PCs]
  /\ gone \in [Runs -> BOOLEAN]
  /\ verdict \in [Runs -> Verdicts]
  /\ launches \in [Runs -> 0 .. CountBound]
  /\ launchesToday \in [Runs -> 0 .. CountBound]
  /\ dayKey \in [Runs -> -1 .. LastDay]
  /\ begun \in [Runs -> 0 .. LastDay]
  /\ calls \in [Runs -> 0 .. CountBound]
  /\ real \in [Runs -> 0 .. CountBound]
  /\ late \in [Runs -> 0 .. CountBound]

\* The iteration that was under way at midnight read the date before it launched: its call is
\* booked on the day before.
Carry(r) == IF begun[r] < day THEN 1 ELSE 0

\* One run of the worker never makes more than RETRY_MAX_LAUNCHES_PER_DAY calls on a calendar
\* day, plus the one that was under way at midnight (RunTaskWorker, "Daily cap").
DailyCapPerRun ==
  RetryMaxLaunchesPerDay > 0 =>
    \A r \in Runs : calls[r] <= RetryMaxLaunchesPerDay + Carry(r)

\* One run never makes more LaunchInstance calls than the task's MaxRetries ("the task's own
\* budget counts real creation attempts"), over midnights, reports, waits and stops.
BudgetPerRun == MaxRetries > 0 => \A r \in Runs : real[r] <= MaxRetries

\* A task whose row left "running" without its worker being cancelled (the health check's pause)
\* costs at most the one call that was under way: the row is read again before the next one.
PausedLaunchesOnce == \A r \in Runs : late[r] <= 1

\* With a deadline, a queued task does not stay queued for ever: not when Oracle never has
\* capacity, nor when the account lock is never free or the cap is always reached.
QueueEnds == RetryMaxDays > 0 => (status = "running" ~> status # "running")

=============================================================================
