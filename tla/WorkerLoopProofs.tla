-------------------------- MODULE WorkerLoopProofs --------------------------
(***************************************************************************)
(* The budgets of RunTaskWorker hold for every number of runs, every cap,  *)
(* budget and deadline and every length of the day.                        *)
(***************************************************************************)
EXTENDS WorkerLoop, TLAPS

\* A run that has not begun has counted nothing, and a run that writes knows what.
Shape(r) ==
  /\ pc[r] = "fresh" => /\ calls[r] = 0 /\ real[r] = 0 /\ late[r] = 0
                        /\ launches[r] = 0 /\ launchesToday[r] = 0 /\ dayKey[r] = -1
  /\ pc[r] = "write" => verdict[r] # "none"
  /\ begun[r] <= day /\ dayKey[r] <= day
  /\ dayKey[r] # -1 => begun[r] <= dayKey[r]
  /\ dayKey[r] = -1 => calls[r] = 0 /\ pc[r] \notin {"report", "attempt", "judge"}

\* Why the cap holds.  While the date the run has read is today's, its calls are booked in
\* launchesToday, but for one from before midnight; once it is not, the run makes at most one
\* more call before it reads the date again.
CapInv(r) ==
  /\ calls[r] <= RetryMaxLaunchesPerDay + Carry(r)
  /\ dayKey[r] = day =>
       /\ launchesToday[r] <= RetryMaxLaunchesPerDay
       /\ pc[r] \in {"attempt", "judge"} => launchesToday[r] < RetryMaxLaunchesPerDay
       /\ pc[r] \notin {"judge", "done"} => calls[r] <= launchesToday[r] + Carry(r)
       /\ pc[r] = "judge" => calls[r] <= launchesToday[r] + 1 + Carry(r)
  /\ dayKey[r] # day =>
       /\ calls[r] <= Carry(r)
       /\ pc[r] \in {"report", "attempt"} => calls[r] = 0

\* Why the budget holds: a call is counted before the run can make another one.
BudgetInv(r) ==
  /\ real[r] <= MaxRetries
  /\ pc[r] \notin {"judge", "write", "done"} => real[r] <= launches[r]
  /\ pc[r] = "judge" => real[r] <= launches[r] + 1
  /\ pc[r] \notin {"write", "done"} => launches[r] < MaxRetries

\* Why a pause costs one call: after it the run has to pass the head of the loop.
LateInv(r) ==
  /\ late[r] <= 1
  /\ late[r] = 1 => status # "running" /\ pc[r] \in {"judge", "write", "sleep", "top", "done"}

Inv ==
  /\ TypeOK
  /\ \A r \in Runs : Shape(r)
  /\ RetryMaxLaunchesPerDay > 0 => \A r \in Runs : CapInv(r)
  /\ MaxRetries > 0 => \A r \in Runs : BudgetInv(r)
  /\ \A r \in Runs : LateInv(r)

\* Every step keeps the types.
LEMMA TypeStep ==
  ASSUME TypeOK, \A q \in Runs : Shape(q), Next
  PROVE  TypeOK'
<1> USE BudgetsOK DEF BudgetsOK, TypeOK, Shape, PCs, Verdicts, vars, clockVars, counterVars, tallyVars
<1>1. ASSUME NEW r \in Runs, RunStep(r) PROVE TypeOK'
  <2>1. CASE LoopTop(r) BY <2>1 DEF LoopTop, MustLeave, PastDeadline, Decide, Go
  <2>2. CASE TakeLock(r) BY <2>2 DEF TakeLock, ReadDay, Go
  <2>3. CASE Report(r) BY <2>3 DEF Report, Capped, Go
  <2>4. CASE Attempt(r) BY <2>4 DEF Attempt, Go, Bump
  <2>5. CASE Judge(r) BY <2>5 DEF Judge, Spent, Decide, Go, Bump
  <2>6. CASE Write(r) BY <2>6 DEF Write, Go
  <2>7. CASE Wake(r) BY <2>7 DEF Wake, Go
  <2> QED BY <1>1, <2>1, <2>2, <2>3, <2>4, <2>5, <2>6, <2>7 DEF RunStep
<1>2. ASSUME NEW r \in Runs, Queue(r) PROVE TypeOK'
  BY <1>2 DEF Queue, BeginRun, Alive, Now
<1>3. ASSUME NEW r \in Runs, Resume(r) PROVE TypeOK'
  BY <1>3 DEF Resume, BeginRun, Alive
<1>4. CASE RestartUnqueued BY <1>4 DEF RestartUnqueued, Alive
<1>5. CASE StopTask BY <1>5 DEF StopTask, Alive
<1>6. CASE HealthPause BY <1>6 DEF HealthPause
<1>7. CASE Tick BY <1>7 DEF Tick
<1> QED BY <1>1, <1>2, <1>3, <1>4, <1>5, <1>6, <1>7 DEF Next

\* Every step keeps the shape of a run.
LEMMA ShapeStep ==
  ASSUME TypeOK, NEW q \in Runs, Shape(q), Next
  PROVE  Shape(q)'
<1> USE BudgetsOK DEF BudgetsOK, TypeOK, Shape, PCs, Verdicts, vars, clockVars, counterVars, tallyVars
<1>1. ASSUME NEW r \in Runs, RunStep(r) PROVE Shape(q)'
  <2>1. CASE LoopTop(r) BY <2>1 DEF LoopTop, MustLeave, PastDeadline, Decide, Go
  <2>2. CASE TakeLock(r) BY <2>2 DEF TakeLock, ReadDay, Go
  <2>3. CASE Report(r) BY <2>3 DEF Report, Capped, Go
  <2>4. CASE Attempt(r) BY <2>4 DEF Attempt, Go, Bump
  <2>5. CASE Judge(r) BY <2>5 DEF Judge, Spent, Decide, Go, Bump
  <2>6. CASE Write(r) BY <2>6 DEF Write, Go
  <2>7. CASE Wake(r) BY <2>7 DEF Wake, Go
  <2> QED BY <1>1, <2>1, <2>2, <2>3, <2>4, <2>5, <2>6, <2>7 DEF RunStep
<1>2. ASSUME NEW r \in Runs, Queue(r) PROVE Shape(q)'
  BY <1>2 DEF Queue, BeginRun, Alive
<1>3. ASSUME NEW r \in Runs, Resume(r) PROVE Shape(q)'
  BY <1>3 DEF Resume, BeginRun, Alive
<1>4. CASE RestartUnqueued BY <1>4 DEF RestartUnqueued, Alive
<1>5. CASE StopTask BY <1>5 DEF StopTask, Alive
<1>6. CASE HealthPause BY <1>6 DEF HealthPause
<1>7. CASE Tick BY <1>7 DEF Tick
<1> QED BY <1>1, <1>2, <1>3, <1>4, <1>5, <1>6, <1>7 DEF Next

\* Every step keeps the daily cap of a run.
LEMMA CapStep ==
  ASSUME TypeOK, NEW q \in Runs, Shape(q), CapInv(q), RetryMaxLaunchesPerDay > 0, Next
  PROVE  CapInv(q)'
<1> USE BudgetsOK DEF BudgetsOK, TypeOK, Shape, CapInv, Carry, vars, clockVars, counterVars, tallyVars
<1>1. ASSUME NEW r \in Runs, RunStep(r) PROVE CapInv(q)'
  <2>1. CASE LoopTop(r) BY <2>1 DEF LoopTop, MustLeave, PastDeadline, Decide, Go
  <2>2. CASE TakeLock(r) BY <2>2 DEF TakeLock, ReadDay, Go
  <2>3. CASE Report(r) BY <2>3 DEF Report, Capped, Go
  <2>4. CASE Attempt(r) BY <2>4 DEF Attempt, Go, Bump
  <2>5. CASE Judge(r) BY <2>5 DEF Judge, Spent, Decide, Go, Bump
  <2>6. CASE Write(r) BY <2>6 DEF Write, Go
  <2>7. CASE Wake(r) BY <2>7 DEF Wake, Go
  <2> QED BY <1>1, <2>1, <2>2, <2>3, <2>4, <2>5, <2>6, <2>7 DEF RunStep
<1>2. ASSUME NEW r \in Runs, Queue(r) PROVE CapInv(q)'
  BY <1>2 DEF Queue, BeginRun, Alive
<1>3. ASSUME NEW r \in Runs, Resume(r) PROVE CapInv(q)'
  BY <1>3 DEF Resume, BeginRun, Alive
<1>4. CASE RestartUnqueued BY <1>4 DEF RestartUnqueued, Alive
<1>5. CASE StopTask BY <1>5 DEF StopTask, Alive
<1>6. CASE HealthPause BY <1>6 DEF HealthPause
<1>7. CASE Tick BY <1>7 DEF Tick
<1> QED BY <1>1, <1>2, <1>3, <1>4, <1>5, <1>6, <1>7 DEF Next

\* Every step keeps the budget of a run.
LEMMA BudgetStep ==
  ASSUME TypeOK, NEW q \in Runs, Shape(q), BudgetInv(q), MaxRetries > 0, Next
  PROVE  BudgetInv(q)'
<1> USE BudgetsOK DEF BudgetsOK, TypeOK, Shape, BudgetInv, vars, clockVars, counterVars, tallyVars
<1>1. ASSUME NEW r \in Runs, RunStep(r) PROVE BudgetInv(q)'
  <2>1. CASE LoopTop(r) BY <2>1 DEF LoopTop, MustLeave, PastDeadline, Decide, Go
  <2>2. CASE TakeLock(r) BY <2>2 DEF TakeLock, ReadDay, Go
  <2>3. CASE Report(r) BY <2>3 DEF Report, Capped, Go
  <2>4. CASE Attempt(r) BY <2>4 DEF Attempt, Go, Bump
  <2>5. CASE Judge(r) BY <2>5 DEF Judge, Spent, Decide, Go, Bump
  <2>6. CASE Write(r) BY <2>6 DEF Write, Go
  <2>7. CASE Wake(r) BY <2>7 DEF Wake, Go
  <2> QED BY <1>1, <2>1, <2>2, <2>3, <2>4, <2>5, <2>6, <2>7 DEF RunStep
<1>2. ASSUME NEW r \in Runs, Queue(r) PROVE BudgetInv(q)'
  BY <1>2 DEF Queue, BeginRun, Alive
<1>3. ASSUME NEW r \in Runs, Resume(r) PROVE BudgetInv(q)'
  BY <1>3 DEF Resume, BeginRun, Alive
<1>4. CASE RestartUnqueued BY <1>4 DEF RestartUnqueued, Alive
<1>5. CASE StopTask BY <1>5 DEF StopTask, Alive
<1>6. CASE HealthPause BY <1>6 DEF HealthPause
<1>7. CASE Tick BY <1>7 DEF Tick
<1> QED BY <1>1, <1>2, <1>3, <1>4, <1>5, <1>6, <1>7 DEF Next

\* Every step keeps a paused run to one call.
LEMMA LateStep ==
  ASSUME TypeOK, NEW q \in Runs, Shape(q), LateInv(q), Next
  PROVE  LateInv(q)'
<1> USE BudgetsOK DEF BudgetsOK, TypeOK, Shape, LateInv, PCs, Verdicts, vars, clockVars, counterVars, tallyVars
<1>1. ASSUME NEW r \in Runs, RunStep(r) PROVE LateInv(q)'
  <2>1. CASE LoopTop(r) BY <2>1 DEF LoopTop, MustLeave, PastDeadline, Decide, Go
  <2>2. CASE TakeLock(r) BY <2>2 DEF TakeLock, ReadDay, Go
  <2>3. CASE Report(r) BY <2>3 DEF Report, Capped, Go
  <2>4. CASE Attempt(r) BY <2>4 DEF Attempt, Go, Bump
  <2>5. CASE Judge(r) BY <2>5 DEF Judge, Spent, Decide, Go, Bump
  <2>6. CASE Write(r) BY <2>6 DEF Write, Go
  <2>7. CASE Wake(r) BY <2>7 DEF Wake, Go
  <2> QED BY <1>1, <2>1, <2>2, <2>3, <2>4, <2>5, <2>6, <2>7 DEF RunStep
<1>2. ASSUME NEW r \in Runs, Queue(r) PROVE LateInv(q)'
  BY <1>2 DEF Queue, BeginRun, Alive
<1>3. ASSUME NEW r \in Runs, Resume(r) PROVE LateInv(q)'
  BY <1>3 DEF Resume, BeginRun, Alive
<1>4. CASE RestartUnqueued BY <1>4 DEF RestartUnqueued, Alive
<1>5. CASE StopTask BY <1>5 DEF StopTask, Alive
<1>6. CASE HealthPause BY <1>6 DEF HealthPause
<1>7. CASE Tick BY <1>7 DEF Tick
<1> QED BY <1>1, <1>2, <1>3, <1>4, <1>5, <1>6, <1>7 DEF Next

\* The initial states satisfy the invariant.
LEMMA InitInv == Init => Inv
<1> SUFFICES ASSUME Init PROVE Inv OBVIOUS
<1> USE BudgetsOK DEF Init, BudgetsOK
<1>1. TypeOK BY DEF TypeOK, PCs, Verdicts
<1>2. \A q \in Runs : Shape(q) BY DEF Shape
<1>3. \A q \in Runs : CapInv(q) BY DEF CapInv, Carry
<1>4. MaxRetries > 0 => \A q \in Runs : BudgetInv(q) BY DEF BudgetInv
<1>5. \A q \in Runs : LateInv(q) BY DEF LateInv
<1> QED BY <1>1, <1>2, <1>3, <1>4, <1>5 DEF Inv

\* The invariant is inductive.
LEMMA NextInv == Inv /\ [Next]_vars => Inv'
<1> SUFFICES ASSUME Inv, [Next]_vars PROVE Inv' OBVIOUS
<1>1. CASE Next
  <2>1. TypeOK' BY <1>1, TypeStep DEF Inv
  <2>2. \A q \in Runs : Shape(q)' BY <1>1, ShapeStep DEF Inv
  <2>3. RetryMaxLaunchesPerDay > 0 => \A q \in Runs : CapInv(q)' BY <1>1, CapStep DEF Inv
  <2>4. MaxRetries > 0 => \A q \in Runs : BudgetInv(q)' BY <1>1, BudgetStep DEF Inv
  <2>5. \A q \in Runs : LateInv(q)' BY <1>1, LateStep DEF Inv
  <2> QED BY <2>1, <2>2, <2>3, <2>4, <2>5 DEF Inv
<1>2. CASE UNCHANGED vars
  BY <1>2 DEF Inv, TypeOK, Shape, CapInv, Carry, BudgetInv, LateInv, vars, clockVars, counterVars,
     tallyVars
<1> QED BY <1>1, <1>2

\* The inductive invariant holds in every reachable state.
THEOREM LoopInvariance == Spec => []Inv
<1>1. Init => Inv BY InitInv
<1>2. Inv /\ [Next]_vars => Inv' BY NextInv
<1> QED BY <1>1, <1>2, PTL DEF Spec

\* Every variable keeps its type (RunTaskWorker).
THEOREM LoopTypeCorrect == Spec => []TypeOK
<1>1. Inv => TypeOK BY DEF Inv
<1> QED BY <1>1, LoopInvariance, PTL

\* A run makes at most RETRY_MAX_LAUNCHES_PER_DAY calls a day, and one more when it was under
\* way at midnight (RunTaskWorker, the daily cap).
THEOREM DailyCapHolds == Spec => []DailyCapPerRun
<1>1. Inv => DailyCapPerRun BY DEF Inv, CapInv, DailyCapPerRun
<1> QED BY <1>1, LoopInvariance, PTL

\* A run makes at most MaxRetries calls (RunTaskWorker, the task's own budget).
THEOREM BudgetHolds == Spec => []BudgetPerRun
<1>1. Inv => BudgetPerRun BY DEF Inv, BudgetInv, BudgetPerRun
<1> QED BY <1>1, LoopInvariance, PTL

\* A run whose row was paused makes at most the one call that was under way.
THEOREM PauseCostsOneCall == Spec => []PausedLaunchesOnce
<1>1. Inv => PausedLaunchesOnce BY DEF Inv, LateInv, PausedLaunchesOnce
<1> QED BY <1>1, LoopInvariance, PTL

=============================================================================
