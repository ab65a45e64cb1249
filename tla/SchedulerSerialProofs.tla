------------------------ MODULE SchedulerSerialProofs ------------------------
(***************************************************************************)
(* What holds of Scheduler when its handlers do not overlap, and no longer *)
(* when they do.  There may be any number of tasks, of workers, of         *)
(* requests one after the other and of restarts.                           *)
(***************************************************************************)
EXTENDS SchedulerProofs

\* No two requests are served at once.
OneHandler == \A c, d \in Calls : c = d

-----------------------------------------------------------------------------
(* A goroutine that is not cancelled is registered. *)

\* The handler that takes a worker off a task finds the key as it left it: nobody
\* else stores a handle in the meantime.
KeyAsLeft(c) ==
  /\ pc[c] = "fire" => registry[on[c]] \in {held[c], None}
  /\ pc[c] \in {"begin", "spawn"} => registry[on[c]] = None
  /\ pc[c] = "rangeDelete" => registry[on[c]] = None \/ gone[registry[on[c]]]

\* Which operation an access of a handler belongs to.
CallRoute(c) ==
  /\ op[c] \in Ops \cup {"none"}
  /\ pc[c] = "idle" <=> op[c] = "none"
  /\ pc[c] \in {"active", "begin", "spawn"} => op[c] = "start"
  /\ pc[c] \in {"acquire", "validate"} => op[c] \in {"start", "create"}
  /\ pc[c] \in {"load", "fire"} => op[c] \in {"start", "stop", "delete", "deleteProfile"}
  /\ pc[c] = "mark" => op[c] \in {"stop", "delete", "deleteProfile"}
  /\ pc[c] = "erase" => op[c] = "delete"
  /\ pc[c] = "next" => op[c] = "deleteProfile"

StoppableInv == Stoppable /\ \A c \in Calls : KeyAsLeft(c)

-----------------------------------------------------------------------------
(* A task has at most one goroutine that may launch. *)

\* Requests come one at a time, and none takes a task away from a worker that is
\* launching and leaves it there to be started again (stop, lockdown, health
\* check); lookups answer, and no goroutine panics.
Unstopped ==
  /\ OneHandler
  /\ Ops \cap {"stop", "panic", "pause"} = {}
  /\ Faults \cap {"list", "panic"} = {}

Looping(w, t) == on[w] = t /\ pc[w] \in WorkerLoopPCs
NoLoop(t) == \A w \in Workers : ~Looping(w, t)

\* At most one worker of a task is in its loop.
OneLoop == \A t \in Tasks, v, w \in Workers : Looping(v, t) /\ Looping(w, t) => v = w

\* The handler is taking the task away for good.
Removing(c, t) ==
  \/ op[c] = "delete" /\ on[c] = t
  \/ op[c] = "deleteProfile" /\ prof[c] = ProfileOf[t]

\* The row of a worker in its loop says "running" and the registry names the
\* worker, or the task cannot be started again.
Known(w, t) ==
  \/ status[t] = "running" /\ registry[t] = w
  \/ status[t] = "deleted"
  \/ ProfileOf[t] \notin profiles
  \/ \E c \in Calls : Removing(c, t)

LoopKnown == \A t \in Tasks, w \in Workers : Looping(w, t) => Known(w, t)

\* A task that is not yet created, or that its handler still creates, has no worker.
NewHasNoWorker == \A w \in Workers : pc[w] # "idle" => status[on[w]] \notin {"absent", "creating"}

\* What a handler knows of its task.
CallKnows(c) ==
  /\ op[c] = "create" /\ pc[c] \in {"acquire", "validate", "insert"} => status[on[c]] = "absent"
  /\ op[c] = "create" /\ pc[c] \in CreateFlowPCs => status[on[c]] = "creating"
  /\ op[c] = "start" => status[on[c]] \notin Missing
  /\ pc[c] = "spawn" => status[on[c]] = "running"
  /\ op[c] = "start" /\ pc[c] = "acquire" => NoLoop(on[c]) \/ ProfileOf[on[c]] \notin profiles
  /\ op[c] = "start" /\ pc[c] \in {"validate", "load", "fire", "begin", "spawn"} => NoLoop(on[c])
  /\ op[c] = "delete" => status[on[c]] # "absent"
  /\ op[c] = "deleteProfile" =>
       /\ \A t \in todo[c] : ProfileOf[t] = prof[c]
       /\ pc[c] # "next" => ProfileOf[on[c]] = prof[c]

\* An instance is only created where there is none.
LaunchesFirst == \A a \in Actors : pc[a] = "launch" => cloud[on[a]] = 0

NoPanic == \A w \in Workers : res[w] # "panic" /\ pc[w] # "recover"

OnceInv ==
  /\ OneLoop
  /\ LoopKnown
  /\ NewHasNoWorker
  /\ \A c \in Calls : CallKnows(c)
  /\ LaunchesFirst
  /\ NoPanic
  /\ AtMostOneInstance

-----------------------------------------------------------------------------
(* Their preservation. *)

\* Every access belongs to an operation that leads to it.
LEMMA RouteStep ==
  ASSUME TypeOK, Shape, \A c \in Calls : CallRoute(c), Next
  PROVE  \A d \in Calls : CallRoute(d)'
<1> USE ConstantsOK DEF ConstantsOK, TypeOK, Actors, rowVars, actorVars, callVars, Shape,
     NoTaskPCs, CallShape, WorkerShape, CallRoute, CreateFlowPCs, AttemptPCs
<1>1. ASSUME NEW c \in Calls, HandlerStep(c) PROVE \A d \in Calls : CallRoute(d)'
  <2>1. CASE CancelLoad(c)
    BY <2>1 DEF CancelLoad, Go, AfterCancel
  <2>2. CASE CancelFire(c)
    BY <2>2 DEF CancelFire, Go, AfterCancel
  <2>3. CASE BeginRun(c) \/ BeginRunFails(c)
    BY <2>3 DEF BeginRun, Go, SetStatus, BeginRunFails, ReleaseAccountLock, Reply
  <2>4. ASSUME NEW w \in Workers, Spawn(c, w) PROVE \A d \in Calls : CallRoute(d)'
    BY <2>4 DEF Spawn, FreeSlot
  <2>5. CASE MarkStopped(c) \/ EraseRow(c)
    BY <2>5 DEF MarkStopped, StopRow, Go, Reply, EraseRow, SetStatus
  <2>6. ASSUME NEW t \in Tasks, DeleteProfileNext(c, t) PROVE \A d \in Calls : CallRoute(d)'
    BY <2>6 DEF DeleteProfileNext, Go
  <2>7. CASE DeleteProfileRow(c)
    BY <2>7 DEF DeleteProfileRow, Reply
  <2>8. ASSUME NEW t \in Tasks, LockdownVisit(c, t) PROVE \A d \in Calls : CallRoute(d)'
    BY <2>8 DEF LockdownVisit, Go
  <2>9. CASE LockdownDelete(c) \/ LockdownMark(c)
    BY <2>9 DEF LockdownDelete, DeleteKey, Go, LockdownMark, StopRunning, Reply
  <2>10. CASE ActiveCheck(c) \/ HandlerLock(c) \/ HandlerLockRefused(c) \/ Validate(c) \/
       ValidateRejects(c)
    BY <2>10 DEF ActiveCheck, Go, Reply, HandlerLock, AcquireAccountLock, HandlerLockRefused,
         Validate, ValidateRejects, ReleaseAccountLock
  <2>11. CASE InsertRow(c) \/ CreateResolve(c) \/ CreateCapacity(c)
    BY <2>11 DEF InsertRow, Go, CreateResolve, GiveUp, CreateCapacity
  <2>12. CASE Attempt(c)
    BY <2>12 DEF Attempt, FindExisting, MayMiss, AttemptEnds, Go, LaunchCreates, LaunchRefused,
         Retryable, ConfirmLaunched
  <2>13. CASE CreateJudge(c) \/ CreateUnlock(c) \/ CreateRelease(c)
    BY <2>13 DEF CreateJudge, Verdict, Retryable, NextDomain, Go, GiveUp, CreateUnlock,
         ReleaseAccountLock, Reply, CreateRelease
  <2>14. CASE CreateSuccess(c) \/ CreateFinal(c)
    BY <2>14 DEF CreateSuccess, SetStatus, Go, CreateFinal, Reply
  <2> QED BY <1>1, <2>1, <2>2, <2>3, <2>4, <2>5, <2>6, <2>7, <2>8, <2>9, <2>10, <2>11, <2>12,
       <2>13, <2>14 DEF HandlerStep
<1>2. ASSUME NEW w \in Workers, WorkerStep(w) PROVE \A d \in Calls : CallRoute(d)'
  <2>1. CASE Boot(w) \/ BootFail(w)
    BY <2>1 DEF Boot, Go, Decide, BootFail, SetStatus
  <2>2. CASE LoopTop(w) \/ WorkerLock(w)
    BY <2>2 DEF LoopTop, MustLeave, Decide, Go, WorkerLock, AcquireAccountLock, Probe
  <2>3. CASE Attempt(w)
    BY <2>3 DEF Attempt, FindExisting, MayMiss, AttemptEnds, Go, LaunchCreates, LaunchRefused,
         Retryable, ConfirmLaunched
  <2>4. CASE WorkerJudge(w) \/ WorkerWrite(w)
    BY <2>4 DEF WorkerJudge, Verdict, Retryable, Decide, Go, WorkerWrite, SetStatus
  <2>5. CASE CountOthers(w) \/ WorkerUnlock(w)
    BY <2>5 DEF CountOthers, Go, WorkerUnlock, ReleaseAccountLock
  <2>6. CASE WorkerExit(w) \/ Recover(w)
    BY <2>6 DEF WorkerExit, Deregister, Vacate, Go, Recover, SetStatusIf
  <2> QED BY <1>2, <2>1, <2>2, <2>3, <2>4, <2>5, <2>6 DEF WorkerStep
<1>3. ASSUME NEW c \in Calls, Request(c) PROVE \A d \in Calls : CallRoute(d)'
  <2>1. ASSUME NEW t \in Tasks, StopRequest(c, t) PROVE \A d \in Calls : CallRoute(d)'
    BY <2>1 DEF StopRequest, Serve
  <2>2. ASSUME NEW t \in Tasks, StartRequest(c, t) PROVE \A d \in Calls : CallRoute(d)'
    BY <2>2 DEF StartRequest, Serve
  <2>3. ASSUME NEW t \in Tasks, CreateRequest(c, t) PROVE \A d \in Calls : CallRoute(d)'
    BY <2>3 DEF CreateRequest, Serve
  <2>4. ASSUME NEW p \in Profiles, DeleteProfileRequest(c, p) PROVE \A d \in Calls : CallRoute(d)'
    BY <2>4 DEF DeleteProfileRequest, Serve, TasksOf
  <2>5. CASE LockdownRequest(c)
    BY <2>5 DEF LockdownRequest, Serve
  <2> QED BY <1>3, <2>1, <2>2, <2>3, <2>4, <2>5 DEF Request
<1>4. CASE (\E c \in Calls : CreateTimeout(c)) \/ (\E c \in Calls : CreatePanics(c))
  BY <1>4 DEF CreateTimeout, CreatePanics, GiveUp, Go
<1>5. ASSUME NEW w \in Workers, WorkerPanics(w) PROVE \A d \in Calls : CallRoute(d)'
  BY <1>5 DEF WorkerPanics, Go
<1>6. CASE (\E p \in Profiles : HealthPause(p)) \/ LockExpires
  BY <1>6 DEF HealthPause, StopRunning, LockExpires
<1>7. CASE Restart
  BY <1>7 DEF Restart
<1> QED BY <1>1, <1>2, <1>3, <1>4, <1>5, <1>6, <1>7 DEF Next, Environment

\* The registry is emptied before a worker is spawned, and only for goroutines that leave their loop.
LEMMA StoppableStep ==
  ASSUME TypeOK, Shape, RegisteredIsLive, OneHandler, \A c \in Calls : CallRoute(c), StoppableInv, Next
  PROVE  StoppableInv'
<1> USE ConstantsOK DEF ConstantsOK, TypeOK, Actors, rowVars, actorVars, callVars, Shape,
     NoTaskPCs, CallShape, WorkerShape, HeldShape, RegisteredIsLive, Live, StoppableInv,
     Stoppable, KeyAsLeft, CallRoute, OneHandler, WorkerLoopPCs, AttemptPCs, WorkerExitPCs
<1>1. ASSUME NEW c \in Calls, HandlerStep(c) PROVE StoppableInv'
  <2>1. CASE CancelLoad(c)
    BY <2>1 DEF CancelLoad, Go, AfterCancel
  <2>2. CASE CancelFire(c)
    <3> USE <2>2 DEF CancelFire, Go, AfterCancel
    <3>1. held[c] \in Workers /\ registry'[on[c]] = None OBVIOUS
    <3>2. ASSUME NEW v \in Workers, NEW t \in Tasks, (on[v] = t /\ pc[v] \in WorkerLoopPCs /\ ~gone[v])'
          PROVE  registry'[t] = v
      <4>1. on[v] = t /\ pc[v] = pc'[v] /\ pc[v] \in WorkerLoopPCs BY <3>2
      <4>2. v # held[c] /\ ~gone[v] BY <3>1, <3>2, <4>1
      <4>3. registry[t] = v BY <4>1, <4>2
      <4> QED BY <4>2, <4>3
    <3>3. KeyAsLeft(c)' BY <3>1
    <3> QED BY <3>2, <3>3
  <2>3. CASE BeginRun(c) \/ BeginRunFails(c)
    BY <2>3 DEF BeginRun, Go, SetStatus, BeginRunFails, ReleaseAccountLock, Reply
  <2>4. ASSUME NEW w \in Workers, Spawn(c, w) PROVE StoppableInv'
    BY <2>4 DEF Spawn, FreeSlot
  <2>5. CASE MarkStopped(c) \/ EraseRow(c)
    BY <2>5 DEF MarkStopped, StopRow, Go, Reply, EraseRow, SetStatus
  <2>6. ASSUME NEW t \in Tasks, DeleteProfileNext(c, t) PROVE StoppableInv'
    BY <2>6 DEF DeleteProfileNext, Go
  <2>7. CASE DeleteProfileRow(c)
    BY <2>7 DEF DeleteProfileRow, Reply
  <2>8. ASSUME NEW t \in Tasks, LockdownVisit(c, t) PROVE StoppableInv'
    BY <2>8 DEF LockdownVisit, Go
  <2>9. CASE LockdownDelete(c)
    BY <2>9 DEF LockdownDelete, DeleteKey, Go
  <2>10. CASE LockdownMark(c)
    BY <2>10 DEF LockdownMark, StopRunning, Reply
  <2>11. CASE ActiveCheck(c) \/ HandlerLock(c) \/ HandlerLockRefused(c) \/ Validate(c) \/
       ValidateRejects(c)
    BY <2>11 DEF ActiveCheck, Go, Reply, HandlerLock, AcquireAccountLock, HandlerLockRefused,
         Validate, ValidateRejects, ReleaseAccountLock
  <2>12. CASE InsertRow(c) \/ CreateResolve(c) \/ CreateCapacity(c)
    BY <2>12 DEF InsertRow, Go, CreateResolve, GiveUp, CreateCapacity
  <2>13. CASE Attempt(c)
    BY <2>13 DEF Attempt, FindExisting, MayMiss, AttemptEnds, Go, LaunchCreates, LaunchRefused,
         Retryable, ConfirmLaunched
  <2>14. CASE CreateJudge(c) \/ CreateUnlock(c) \/ CreateRelease(c)
    BY <2>14 DEF CreateJudge, Verdict, Retryable, NextDomain, Go, GiveUp, CreateUnlock,
         ReleaseAccountLock, Reply, CreateRelease
  <2>15. CASE CreateSuccess(c) \/ CreateFinal(c)
    BY <2>15 DEF CreateSuccess, SetStatus, Go, CreateFinal, Reply
  <2> QED BY <1>1, <2>1, <2>2, <2>3, <2>4, <2>5, <2>6, <2>7, <2>8, <2>9, <2>10, <2>11, <2>12,
       <2>13, <2>14, <2>15 DEF HandlerStep
<1>2. ASSUME NEW w \in Workers, WorkerStep(w) PROVE StoppableInv'
  <2>1. CASE Boot(w) \/ BootFail(w)
    BY <2>1 DEF Boot, Go, Decide, BootFail, SetStatus
  <2>2. CASE LoopTop(w) \/ WorkerLock(w)
    BY <2>2 DEF LoopTop, MustLeave, Decide, Go, WorkerLock, AcquireAccountLock, Probe
  <2>3. CASE Attempt(w)
    BY <2>3 DEF Attempt, FindExisting, MayMiss, AttemptEnds, Go, LaunchCreates, LaunchRefused,
         Retryable, ConfirmLaunched
  <2>4. CASE WorkerJudge(w) \/ WorkerWrite(w)
    BY <2>4 DEF WorkerJudge, Verdict, Retryable, Decide, Go, WorkerWrite, SetStatus
  <2>5. CASE CountOthers(w) \/ WorkerUnlock(w)
    BY <2>5 DEF CountOthers, Go, WorkerUnlock, ReleaseAccountLock
  <2>6. CASE WorkerExit(w) \/ Recover(w)
    BY <2>6 DEF WorkerExit, Deregister, Vacate, Go, Recover, SetStatusIf
  <2> QED BY <1>2, <2>1, <2>2, <2>3, <2>4, <2>5, <2>6 DEF WorkerStep
<1>3. ASSUME NEW c \in Calls, Request(c) PROVE StoppableInv'
  <2>1. ASSUME NEW t \in Tasks, StopRequest(c, t) PROVE StoppableInv'
    BY <2>1 DEF StopRequest, Serve
  <2>2. ASSUME NEW t \in Tasks, StartRequest(c, t) PROVE StoppableInv'
    BY <2>2 DEF StartRequest, Serve
  <2>3. ASSUME NEW t \in Tasks, CreateRequest(c, t) PROVE StoppableInv'
    BY <2>3 DEF CreateRequest, Serve
  <2>4. ASSUME NEW p \in Profiles, DeleteProfileRequest(c, p) PROVE StoppableInv'
    BY <2>4 DEF DeleteProfileRequest, Serve, TasksOf
  <2>5. CASE LockdownRequest(c)
    BY <2>5 DEF LockdownRequest, Serve
  <2> QED BY <1>3, <2>1, <2>2, <2>3, <2>4, <2>5 DEF Request
<1>4. CASE (\E c \in Calls : CreateTimeout(c)) \/ (\E c \in Calls : CreatePanics(c))
  BY <1>4 DEF CreateTimeout, CreatePanics, GiveUp, Go
<1>5. ASSUME NEW w \in Workers, WorkerPanics(w) PROVE StoppableInv'
  BY <1>5 DEF WorkerPanics, Go
<1>6. CASE (\E p \in Profiles : HealthPause(p)) \/ LockExpires
  BY <1>6 DEF HealthPause, StopRunning, LockExpires
<1>7. CASE Restart
  BY <1>7 DEF Restart
<1> QED BY <1>1, <1>2, <1>3, <1>4, <1>5, <1>6, <1>7 DEF Next, Environment

\* A worker enters its loop where no other is in it.
LEMMA OneLoopStep ==
  ASSUME TypeOK, Shape, RegisteredIsLive, Unstopped, \A c \in Calls : CallRoute(c), OnceInv, Next
  PROVE  OneLoop'
<1> USE ConstantsOK DEF ConstantsOK, TypeOK, Actors, rowVars, actorVars, callVars, Shape,
     NoTaskPCs, CallShape, WorkerShape, HeldShape, RegisteredIsLive, Live, OnceInv, Unstopped,
     OneHandler, CallRoute, Looping, NoLoop, NoPanic, WorkerLoopPCs, AttemptPCs, WorkerExitPCs,
     OneLoop, CallKnows
<1>1. ASSUME NEW c \in Calls, HandlerStep(c) PROVE OneLoop'
  <2>1. CASE CancelLoad(c)
    BY <2>1 DEF CancelLoad, Go, AfterCancel
  <2>2. CASE CancelFire(c)
    BY <2>2 DEF CancelFire, Go, AfterCancel
  <2>3. CASE BeginRun(c)
    BY <2>3 DEF BeginRun, Go, SetStatus
  <2>4. CASE BeginRunFails(c)
    BY <2>4 DEF BeginRunFails, ReleaseAccountLock, Reply
  <2>5. ASSUME NEW w \in Workers, Spawn(c, w) PROVE OneLoop'
    BY <2>5 DEF Spawn, FreeSlot
  <2>6. CASE MarkStopped(c)
    <3>1. \A v \in Workers : pc'[v] = pc[v] /\ on'[v] = on[v]
      BY <2>6 DEF MarkStopped, StopRow, Go, Reply
    <3> QED BY <3>1
  <2>7. CASE EraseRow(c)
    BY <2>7 DEF EraseRow, SetStatus, Reply
  <2>8. ASSUME NEW t \in Tasks, DeleteProfileNext(c, t) PROVE OneLoop'
    BY <2>8 DEF DeleteProfileNext, Go
  <2>9. CASE DeleteProfileRow(c)
    BY <2>9 DEF DeleteProfileRow, Reply
  <2>10. ASSUME NEW t \in Tasks, LockdownVisit(c, t) PROVE OneLoop'
    BY <2>10 DEF LockdownVisit, Go
  <2>11. CASE LockdownDelete(c)
    BY <2>11 DEF LockdownDelete, DeleteKey, Go
  <2>12. CASE LockdownMark(c)
    BY <2>12 DEF LockdownMark, StopRunning, Reply
  <2>13. CASE ActiveCheck(c)
    <3>1. \A v \in Workers : pc'[v] = pc[v] /\ on'[v] = on[v]
      BY <2>13 DEF ActiveCheck, Reply, Go
    <3> QED BY <3>1
  <2>14. CASE HandlerLock(c)
    BY <2>14 DEF HandlerLock, AcquireAccountLock, Go
  <2>15. CASE HandlerLockRefused(c)
    BY <2>15 DEF HandlerLockRefused, Reply
  <2>16. CASE Validate(c)
    BY <2>16 DEF Validate, Go
  <2>17. CASE ValidateRejects(c)
    BY <2>17 DEF ValidateRejects, ReleaseAccountLock, Reply
  <2>18. CASE InsertRow(c)
    BY <2>18 DEF InsertRow, Go
  <2>19. CASE CreateResolve(c)
    BY <2>19 DEF CreateResolve, GiveUp, Go
  <2>20. CASE CreateCapacity(c)
    BY <2>20 DEF CreateCapacity, GiveUp, Go
  <2>21. CASE Attempt(c)
    <3>1. \A v \in Workers : pc'[v] = pc[v] /\ on'[v] = on[v]
      BY <2>21 DEF Attempt, FindExisting, AttemptEnds, LaunchCreates, LaunchRefused, ConfirmLaunched, Go
    <3> QED BY <3>1
  <2>22. CASE CreateJudge(c)
    BY <2>22 DEF CreateJudge, Verdict, Retryable, NextDomain, Go, GiveUp
  <2>23. CASE CreateUnlock(c)
    BY <2>23 DEF CreateUnlock, ReleaseAccountLock, Reply
  <2>24. CASE CreateRelease(c)
    BY <2>24 DEF CreateRelease, ReleaseAccountLock, Go
  <2>25. CASE CreateSuccess(c)
    BY <2>25 DEF CreateSuccess, SetStatus, Go
  <2>26. CASE CreateFinal(c)
    BY <2>26 DEF CreateFinal, SetStatus, Reply
  <2> QED BY <1>1, <2>1, <2>2, <2>3, <2>4, <2>5, <2>6, <2>7, <2>8, <2>9, <2>10, <2>11, <2>12,
       <2>13, <2>14, <2>15, <2>16, <2>17, <2>18, <2>19, <2>20, <2>21, <2>22, <2>23, <2>24,
       <2>25, <2>26 DEF HandlerStep
<1>2. ASSUME NEW w \in Workers, WorkerStep(w) PROVE OneLoop'
  <2>1. CASE Boot(w)
    BY <2>1 DEF Boot, Go, Decide
  <2>2. CASE BootFail(w)
    BY <2>2 DEF BootFail, SetStatus, Go
  <2>3. CASE LoopTop(w)
    BY <2>3 DEF LoopTop, MustLeave, Decide, Go
  <2>4. CASE WorkerLock(w)
    <3>1. \A v \in Workers : on'[v] = on[v] /\ (pc'[v] \in WorkerLoopPCs => pc[v] \in WorkerLoopPCs)
      BY <2>4 DEF WorkerLock, AcquireAccountLock, Probe, Go
    <3> QED BY <3>1, SMTT(30)
  <2>5. CASE Attempt(w)
    <3>1. CASE FindExisting(w) BY <3>1 DEF FindExisting, MayMiss, AttemptEnds, Go
    <3>2. CASE LaunchCreates(w) BY <3>2 DEF LaunchCreates, Go
    <3>3. CASE LaunchRefused(w) BY <3>3 DEF LaunchRefused, Retryable, Go
    <3>4. CASE ConfirmLaunched(w) BY <3>4 DEF ConfirmLaunched, MayMiss, Go
    <3> QED BY <2>5, <3>1, <3>2, <3>3, <3>4 DEF Attempt
  <2>6. CASE WorkerJudge(w)
    BY <2>6 DEF WorkerJudge, Verdict, Retryable, Decide, Go
  <2>7. CASE WorkerWrite(w)
    BY <2>7 DEF WorkerWrite, SetStatus, Go
  <2>8. CASE CountOthers(w)
    BY <2>8 DEF CountOthers, Go
  <2>9. CASE WorkerUnlock(w)
    BY <2>9 DEF WorkerUnlock, ReleaseAccountLock, Go
  <2>10. CASE WorkerExit(w)
    BY <2>10 DEF WorkerExit, Deregister, Vacate, Go
  <2>11. CASE Recover(w)
    BY <2>11 DEF Recover, SetStatusIf, Vacate
  <2> QED BY <1>2, <2>1, <2>2, <2>3, <2>4, <2>5, <2>6, <2>7, <2>8, <2>9, <2>10, <2>11 DEF
       WorkerStep
<1>3. ASSUME NEW c \in Calls, Request(c) PROVE OneLoop'
  <2>1. ASSUME NEW t \in Tasks, StopRequest(c, t) PROVE OneLoop'
    BY <2>1 DEF StopRequest, Serve
  <2>2. ASSUME NEW t \in Tasks, StartRequest(c, t) PROVE OneLoop'
    BY <2>2 DEF StartRequest, Serve
  <2>3. ASSUME NEW t \in Tasks, CreateRequest(c, t) PROVE OneLoop'
    BY <2>3 DEF CreateRequest, Serve
  <2>4. ASSUME NEW p \in Profiles, DeleteProfileRequest(c, p) PROVE OneLoop'
    BY <2>4 DEF DeleteProfileRequest, Serve, TasksOf
  <2>5. CASE LockdownRequest(c)
    BY <2>5 DEF LockdownRequest, Serve
  <2> QED BY <1>3, <2>1, <2>2, <2>3, <2>4, <2>5 DEF Request
<1>4. CASE (\E c \in Calls : CreateTimeout(c)) \/ (\E c \in Calls : CreatePanics(c))
  BY <1>4 DEF CreateTimeout, CreatePanics, GiveUp, Go
<1>5. ASSUME NEW w \in Workers, WorkerPanics(w) PROVE OneLoop'
  BY <1>5 DEF WorkerPanics, Go
<1>6. CASE (\E p \in Profiles : HealthPause(p)) \/ LockExpires
  BY <1>6 DEF HealthPause, StopRunning, LockExpires
<1>7. CASE Restart
  BY <1>7 DEF Restart
<1> QED BY <1>1, <1>2, <1>3, <1>4, <1>5, <1>6, <1>7 DEF Next, Environment

\* A worker in its loop stays known.
LEMMA LoopKnownStep ==
  ASSUME TypeOK, Shape, RegisteredIsLive, Unstopped, \A c \in Calls : CallRoute(c), OnceInv, Next
  PROVE  LoopKnown'
<1> USE ConstantsOK DEF ConstantsOK, TypeOK, Actors, rowVars, actorVars, callVars, Shape,
     NoTaskPCs, CallShape, WorkerShape, HeldShape, RegisteredIsLive, Live, OnceInv, Unstopped,
     OneHandler, CallRoute, Looping, NoLoop, NoPanic, WorkerLoopPCs, AttemptPCs, WorkerExitPCs,
     OneLoop, LoopKnown, Known, CallKnows, Removing, NewHasNoWorker, Missing, CreateFlowPCs
<1>1. ASSUME NEW c \in Calls, HandlerStep(c) PROVE LoopKnown'
  <2>1. CASE CancelLoad(c)
    BY <2>1 DEF CancelLoad, Go, AfterCancel
  <2>2. CASE CancelFire(c)
    <3> USE <2>2 DEF CancelFire, Go, AfterCancel
    <3>1. SUFFICES ASSUME NEW t \in Tasks, NEW v \in Workers, Looping(v, t)'
                   PROVE  Known(v, t)'
      BY DEF LoopKnown
    <3>2. Looping(v, t) /\ Known(v, t) BY <3>1 DEF LoopKnown
    <3>3. CASE t # on[c] BY <3>2, <3>3 DEF Known
    <3>4. CASE t = on[c] BY <3>1, <3>2, <3>4 DEF Known
    <3> QED BY <3>3, <3>4
  <2>3. CASE BeginRun(c)
    BY <2>3 DEF BeginRun, Go, SetStatus
  <2>4. CASE BeginRunFails(c)
    BY <2>4 DEF BeginRunFails, ReleaseAccountLock, Reply
  <2>5. ASSUME NEW w \in Workers, Spawn(c, w) PROVE LoopKnown'
    <3> USE <2>5 DEF Spawn, FreeSlot
    <3>1. ASSUME NEW t \in Tasks, NEW v \in Workers, Looping(v, t)', v # w PROVE Known(v, t)'
      <4>1. Looping(v, t) /\ t # on[c] /\ Known(v, t) BY <3>1 DEF LoopKnown
      <4> QED BY <3>1, <4>1 DEF Known
    <3>2. ASSUME NEW t \in Tasks, Looping(w, t)' PROVE Known(w, t)'
      <4>1. t = on[c] BY <3>2
      <4> QED BY <3>2, <4>1 DEF Known
    <3> QED BY <3>1, <3>2 DEF LoopKnown
  <2>6. CASE MarkStopped(c)
    BY <2>6 DEF MarkStopped, StopRow, Go, Reply
  <2>7. CASE EraseRow(c)
    BY <2>7 DEF EraseRow, SetStatus, Reply
  <2>8. ASSUME NEW t \in Tasks, DeleteProfileNext(c, t) PROVE LoopKnown'
    BY <2>8 DEF DeleteProfileNext, Go
  <2>9. CASE DeleteProfileRow(c)
    BY <2>9 DEF DeleteProfileRow, Reply
  <2>10. ASSUME NEW t \in Tasks, LockdownVisit(c, t) PROVE LoopKnown'
    BY <2>10 DEF LockdownVisit, Go
  <2>11. CASE LockdownDelete(c)
    BY <2>11 DEF LockdownDelete, DeleteKey, Go
  <2>12. CASE LockdownMark(c)
    <3>1. op[c] = "panic" /\ op[c] \in Ops BY <2>12 DEF LockdownMark
    <3> QED BY <3>1
  <2>13. CASE ActiveCheck(c)
    <3>1. CASE registry[on[c]] # None BY <2>13, <3>1 DEF ActiveCheck, Reply
    <3>2. CASE registry[on[c]] = None BY <2>13, <3>2 DEF ActiveCheck, Go
    <3> QED BY <3>1, <3>2
  <2>14. CASE HandlerLock(c)
    BY <2>14 DEF HandlerLock, AcquireAccountLock, Go
  <2>15. CASE HandlerLockRefused(c)
    BY <2>15 DEF HandlerLockRefused, Reply
  <2>16. CASE Validate(c)
    BY <2>16 DEF Validate, Go
  <2>17. CASE ValidateRejects(c)
    BY <2>17 DEF ValidateRejects, ReleaseAccountLock, Reply
  <2>18. CASE InsertRow(c)
    BY <2>18 DEF InsertRow, Go
  <2>19. CASE CreateResolve(c)
    BY <2>19 DEF CreateResolve, GiveUp, Go
  <2>20. CASE CreateCapacity(c)
    BY <2>20 DEF CreateCapacity, GiveUp, Go
  <2>21. CASE Attempt(c)
    <3>1. CASE FindExisting(c) BY <3>1 DEF FindExisting, MayMiss, AttemptEnds, Go
    <3>2. CASE LaunchCreates(c) BY <3>2 DEF LaunchCreates, Go
    <3>3. CASE LaunchRefused(c) BY <3>3 DEF LaunchRefused, Retryable, Go
    <3>4. CASE ConfirmLaunched(c) BY <3>4 DEF ConfirmLaunched, MayMiss, Go
    <3> QED BY <2>21, <3>1, <3>2, <3>3, <3>4 DEF Attempt
  <2>22. CASE CreateJudge(c)
    BY <2>22 DEF CreateJudge, Verdict, Retryable, NextDomain, Go, GiveUp
  <2>23. CASE CreateUnlock(c)
    BY <2>23 DEF CreateUnlock, ReleaseAccountLock, Reply
  <2>24. CASE CreateRelease(c)
    BY <2>24 DEF CreateRelease, ReleaseAccountLock, Go
  <2>25. CASE CreateSuccess(c)
    <3> USE <2>25 DEF CreateSuccess, SetStatus, Go
    <3>1. SUFFICES ASSUME NEW t \in Tasks, NEW v \in Workers, Looping(v, t)'
                   PROVE  Known(v, t)'
      BY DEF LoopKnown
    <3>2. Looping(v, t) /\ Known(v, t) BY <3>1 DEF LoopKnown
    <3>3. CASE t # on[c] BY <3>2, <3>3 DEF Known
    <3>4. CASE t = on[c] BY <3>1, <3>2, <3>4 DEF Known
    <3> QED BY <3>3, <3>4
  <2>26. CASE CreateFinal(c)
    <3> USE <2>26 DEF CreateFinal, SetStatus, Reply
    <3>1. SUFFICES ASSUME NEW t \in Tasks, NEW v \in Workers, Looping(v, t)'
                   PROVE  Known(v, t)'
      BY DEF LoopKnown
    <3>2. Looping(v, t) /\ Known(v, t) BY <3>1 DEF LoopKnown
    <3>3. CASE t # on[c] BY <3>2, <3>3 DEF Known
    <3>4. CASE t = on[c] BY <3>1, <3>2, <3>4 DEF Known
    <3> QED BY <3>3, <3>4
  <2> QED BY <1>1, <2>1, <2>2, <2>3, <2>4, <2>5, <2>6, <2>7, <2>8, <2>9, <2>10, <2>11, <2>12,
       <2>13, <2>14, <2>15, <2>16, <2>17, <2>18, <2>19, <2>20, <2>21, <2>22, <2>23, <2>24,
       <2>25, <2>26 DEF HandlerStep
<1>2. ASSUME NEW w \in Workers, WorkerStep(w) PROVE LoopKnown'
  <2>1. CASE Boot(w)
    BY <2>1 DEF Boot, Go, Decide
  <2>2. CASE BootFail(w)
    BY <2>2 DEF BootFail, SetStatus, Go
  <2>3. CASE LoopTop(w)
    BY <2>3 DEF LoopTop, MustLeave, Decide, Go
  <2>4. CASE WorkerLock(w)
    BY <2>4 DEF WorkerLock, AcquireAccountLock, Probe, Go
  <2>5. CASE Attempt(w)
    <3>1. CASE FindExisting(w) BY <3>1 DEF FindExisting, MayMiss, AttemptEnds, Go
    <3>2. CASE LaunchCreates(w) BY <3>2 DEF LaunchCreates, Go
    <3>3. CASE LaunchRefused(w) BY <3>3 DEF LaunchRefused, Retryable, Go
    <3>4. CASE ConfirmLaunched(w) BY <3>4 DEF ConfirmLaunched, MayMiss, Go
    <3> QED BY <2>5, <3>1, <3>2, <3>3, <3>4 DEF Attempt
  <2>6. CASE WorkerJudge(w)
    BY <2>6 DEF WorkerJudge, Verdict, Retryable, Decide, Go
  <2>7. CASE WorkerWrite(w)
    BY <2>7 DEF WorkerWrite, SetStatus, Go
  <2>8. CASE CountOthers(w)
    BY <2>8 DEF CountOthers, Go
  <2>9. CASE WorkerUnlock(w)
    BY <2>9 DEF WorkerUnlock, ReleaseAccountLock, Go
  <2>10. CASE WorkerExit(w)
    <3> USE <2>10 DEF WorkerExit, Deregister, Vacate
    <3>1. pc'[w] = "idle" /\ (\A v \in Workers \ {w} : pc'[v] = pc[v] /\ on'[v] = on[v]) OBVIOUS
    <3>2. UNCHANGED <<status, profiles, op, prof, todo, cloud>> OBVIOUS
    <3>3. \A c \in Calls : pc'[c] = pc[c] /\ on'[c] = on[c] OBVIOUS
    <3>4. \A t \in Tasks : registry[t] # w => registry'[t] = registry[t] OBVIOUS
    <3> HIDE <2>10 DEF WorkerExit, Deregister, Vacate
    <3>5. SUFFICES ASSUME NEW t \in Tasks, NEW v \in Workers, Looping(v, t)'
                   PROVE  Known(v, t)'
      BY DEF LoopKnown
    <3>6. v # w /\ Looping(v, t) /\ Known(v, t) BY <3>1, <3>5
    <3>7. registry[t] = v => registry'[t] = v BY <3>4, <3>6
    <3> QED BY <3>2, <3>3, <3>6, <3>7 DEF Known
  <2>11. CASE Recover(w)
    BY <2>11 DEF Recover, SetStatusIf, Vacate
  <2> QED BY <1>2, <2>1, <2>2, <2>3, <2>4, <2>5, <2>6, <2>7, <2>8, <2>9, <2>10, <2>11 DEF
       WorkerStep
<1>3. ASSUME NEW c \in Calls, Request(c) PROVE LoopKnown'
  <2>1. ASSUME NEW t \in Tasks, StopRequest(c, t) PROVE LoopKnown'
    BY <2>1 DEF StopRequest, Serve
  <2>2. ASSUME NEW t \in Tasks, StartRequest(c, t) PROVE LoopKnown'
    BY <2>2 DEF StartRequest, Serve
  <2>3. ASSUME NEW t \in Tasks, CreateRequest(c, t) PROVE LoopKnown'
    BY <2>3 DEF CreateRequest, Serve
  <2>4. ASSUME NEW p \in Profiles, DeleteProfileRequest(c, p) PROVE LoopKnown'
    BY <2>4 DEF DeleteProfileRequest, Serve, TasksOf
  <2>5. CASE LockdownRequest(c)
    BY <2>5 DEF LockdownRequest, Serve
  <2> QED BY <1>3, <2>1, <2>2, <2>3, <2>4, <2>5 DEF Request
<1>4. CASE (\E c \in Calls : CreateTimeout(c)) \/ (\E c \in Calls : CreatePanics(c))
  BY <1>4 DEF CreateTimeout, CreatePanics, GiveUp, Go
<1>5. ASSUME NEW w \in Workers, WorkerPanics(w) PROVE LoopKnown'
  BY <1>5 DEF WorkerPanics, Go
<1>6. CASE (\E p \in Profiles : HealthPause(p)) \/ LockExpires
  BY <1>6 DEF HealthPause, StopRunning, LockExpires
<1>7. CASE Restart
  BY <1>7 DEF Restart
<1> QED BY <1>1, <1>2, <1>3, <1>4, <1>5, <1>6, <1>7 DEF Next, Environment

\* A task gets its first worker after it was created.
LEMMA NewStep ==
  ASSUME TypeOK, Shape, RegisteredIsLive, Unstopped, \A c \in Calls : CallRoute(c), OnceInv, Next
  PROVE  NewHasNoWorker'
<1> USE ConstantsOK DEF ConstantsOK, TypeOK, Actors, rowVars, actorVars, callVars, Shape,
     NoTaskPCs, CallShape, WorkerShape, HeldShape, RegisteredIsLive, Live, OnceInv, Unstopped,
     OneHandler, CallRoute, Looping, NoLoop, NoPanic, WorkerLoopPCs, AttemptPCs, WorkerExitPCs,
     CallKnows, NewHasNoWorker, Missing, CreateFlowPCs
<1>1. ASSUME NEW c \in Calls, HandlerStep(c) PROVE NewHasNoWorker'
  <2>1. CASE CancelLoad(c)
    BY <2>1 DEF CancelLoad, Go, AfterCancel
  <2>2. CASE CancelFire(c)
    BY <2>2 DEF CancelFire, Go, AfterCancel
  <2>3. CASE BeginRun(c)
    BY <2>3 DEF BeginRun, Go, SetStatus
  <2>4. CASE BeginRunFails(c)
    BY <2>4 DEF BeginRunFails, ReleaseAccountLock, Reply
  <2>5. ASSUME NEW w \in Workers, Spawn(c, w) PROVE NewHasNoWorker'
    <3> USE <2>5 DEF Spawn, FreeSlot
    <3>1. status[on[c]] = "running" /\ on'[w] = on[c] /\ status' = status OBVIOUS
    <3>2. \A v \in Workers \ {w} : pc'[v] = pc[v] /\ on'[v] = on[v] OBVIOUS
    <3> QED BY <3>1, <3>2
  <2>6. CASE MarkStopped(c)
    BY <2>6 DEF MarkStopped, StopRow, Go, Reply
  <2>7. CASE EraseRow(c)
    BY <2>7 DEF EraseRow, SetStatus, Reply
  <2>8. ASSUME NEW t \in Tasks, DeleteProfileNext(c, t) PROVE NewHasNoWorker'
    BY <2>8 DEF DeleteProfileNext, Go
  <2>9. CASE DeleteProfileRow(c)
    BY <2>9 DEF DeleteProfileRow, Reply
  <2>10. ASSUME NEW t \in Tasks, LockdownVisit(c, t) PROVE NewHasNoWorker'
    BY <2>10 DEF LockdownVisit, Go
  <2>11. CASE LockdownDelete(c)
    BY <2>11 DEF LockdownDelete, DeleteKey, Go
  <2>12. CASE LockdownMark(c)
    BY <2>12 DEF LockdownMark, StopRunning, Reply
  <2>13. CASE ActiveCheck(c)
    <3>1. CASE registry[on[c]] # None BY <2>13, <3>1 DEF ActiveCheck, Reply
    <3>2. CASE registry[on[c]] = None BY <2>13, <3>2 DEF ActiveCheck, Go
    <3> QED BY <3>1, <3>2
  <2>14. CASE HandlerLock(c)
    BY <2>14 DEF HandlerLock, AcquireAccountLock, Go
  <2>15. CASE HandlerLockRefused(c)
    BY <2>15 DEF HandlerLockRefused, Reply
  <2>16. CASE Validate(c)
    BY <2>16 DEF Validate, Go
  <2>17. CASE ValidateRejects(c)
    BY <2>17 DEF ValidateRejects, ReleaseAccountLock, Reply
  <2>18. CASE InsertRow(c)
    BY <2>18 DEF InsertRow, Go
  <2>19. CASE CreateResolve(c)
    BY <2>19 DEF CreateResolve, GiveUp, Go
  <2>20. CASE CreateCapacity(c)
    BY <2>20 DEF CreateCapacity, GiveUp, Go
  <2>21. CASE Attempt(c)
    <3>1. CASE FindExisting(c) BY <3>1 DEF FindExisting, MayMiss, AttemptEnds, Go
    <3>2. CASE LaunchCreates(c) BY <3>2 DEF LaunchCreates, Go
    <3>3. CASE LaunchRefused(c) BY <3>3 DEF LaunchRefused, Retryable, Go
    <3>4. CASE ConfirmLaunched(c) BY <3>4 DEF ConfirmLaunched, MayMiss, Go
    <3> QED BY <2>21, <3>1, <3>2, <3>3, <3>4 DEF Attempt
  <2>22. CASE CreateJudge(c)
    BY <2>22 DEF CreateJudge, Verdict, Retryable, NextDomain, Go, GiveUp
  <2>23. CASE CreateUnlock(c)
    BY <2>23 DEF CreateUnlock, ReleaseAccountLock, Reply
  <2>24. CASE CreateRelease(c)
    BY <2>24 DEF CreateRelease, ReleaseAccountLock, Go
  <2>25. CASE CreateSuccess(c)
    BY <2>25 DEF CreateSuccess, SetStatus, Go
  <2>26. CASE CreateFinal(c)
    BY <2>26 DEF CreateFinal, SetStatus, Reply
  <2> QED BY <1>1, <2>1, <2>2, <2>3, <2>4, <2>5, <2>6, <2>7, <2>8, <2>9, <2>10, <2>11, <2>12,
       <2>13, <2>14, <2>15, <2>16, <2>17, <2>18, <2>19, <2>20, <2>21, <2>22, <2>23, <2>24,
       <2>25, <2>26 DEF HandlerStep
<1>2. ASSUME NEW w \in Workers, WorkerStep(w) PROVE NewHasNoWorker'
  <2>1. CASE Boot(w)
    BY <2>1 DEF Boot, Go, Decide
  <2>2. CASE BootFail(w)
    BY <2>2 DEF BootFail, SetStatus, Go
  <2>3. CASE LoopTop(w)
    BY <2>3 DEF LoopTop, MustLeave, Decide, Go
  <2>4. CASE WorkerLock(w)
    BY <2>4 DEF WorkerLock, AcquireAccountLock, Probe, Go
  <2>5. CASE Attempt(w)
    <3>1. CASE FindExisting(w) BY <3>1 DEF FindExisting, MayMiss, AttemptEnds, Go
    <3>2. CASE LaunchCreates(w) BY <3>2 DEF LaunchCreates, Go
    <3>3. CASE LaunchRefused(w) BY <3>3 DEF LaunchRefused, Retryable, Go
    <3>4. CASE ConfirmLaunched(w) BY <3>4 DEF ConfirmLaunched, MayMiss, Go
    <3> QED BY <2>5, <3>1, <3>2, <3>3, <3>4 DEF Attempt
  <2>6. CASE WorkerJudge(w)
    BY <2>6 DEF WorkerJudge, Verdict, Retryable, Decide, Go
  <2>7. CASE WorkerWrite(w)
    BY <2>7 DEF WorkerWrite, SetStatus, Go
  <2>8. CASE CountOthers(w)
    BY <2>8 DEF CountOthers, Go
  <2>9. CASE WorkerUnlock(w)
    BY <2>9 DEF WorkerUnlock, ReleaseAccountLock, Go
  <2>10. CASE WorkerExit(w)
    BY <2>10 DEF WorkerExit, Deregister, Vacate, Go
  <2>11. CASE Recover(w)
    BY <2>11 DEF Recover, SetStatusIf, Vacate
  <2> QED BY <1>2, <2>1, <2>2, <2>3, <2>4, <2>5, <2>6, <2>7, <2>8, <2>9, <2>10, <2>11 DEF
       WorkerStep
<1>3. ASSUME NEW c \in Calls, Request(c) PROVE NewHasNoWorker'
  <2>1. ASSUME NEW t \in Tasks, StopRequest(c, t) PROVE NewHasNoWorker'
    BY <2>1 DEF StopRequest, Serve
  <2>2. ASSUME NEW t \in Tasks, StartRequest(c, t) PROVE NewHasNoWorker'
    BY <2>2 DEF StartRequest, Serve
  <2>3. ASSUME NEW t \in Tasks, CreateRequest(c, t) PROVE NewHasNoWorker'
    BY <2>3 DEF CreateRequest, Serve
  <2>4. ASSUME NEW p \in Profiles, DeleteProfileRequest(c, p) PROVE NewHasNoWorker'
    BY <2>4 DEF DeleteProfileRequest, Serve, TasksOf
  <2>5. CASE LockdownRequest(c)
    BY <2>5 DEF LockdownRequest, Serve
  <2> QED BY <1>3, <2>1, <2>2, <2>3, <2>4, <2>5 DEF Request
<1>4. CASE (\E c \in Calls : CreateTimeout(c)) \/ (\E c \in Calls : CreatePanics(c))
  BY <1>4 DEF CreateTimeout, CreatePanics, GiveUp, Go
<1>5. ASSUME NEW w \in Workers, WorkerPanics(w) PROVE NewHasNoWorker'
  BY <1>5 DEF WorkerPanics, Go
<1>6. CASE (\E p \in Profiles : HealthPause(p)) \/ LockExpires
  BY <1>6 DEF HealthPause, StopRunning, LockExpires
<1>7. CASE Restart
  BY <1>7 DEF Restart
<1> QED BY <1>1, <1>2, <1>3, <1>4, <1>5, <1>6, <1>7 DEF Next, Environment

\* What a handler knows stays true: nobody else serves a request.
LEMMA KnowsStep ==
  ASSUME TypeOK, Shape, RegisteredIsLive, Unstopped, \A c \in Calls : CallRoute(c), OnceInv, Next
  PROVE  \A d \in Calls : CallKnows(d)'
<1> USE ConstantsOK DEF ConstantsOK, TypeOK, Actors, rowVars, actorVars, callVars, Shape,
     NoTaskPCs, CallShape, WorkerShape, HeldShape, RegisteredIsLive, Live, OnceInv, Unstopped,
     OneHandler, CallRoute, Looping, NoLoop, NoPanic, WorkerLoopPCs, AttemptPCs, WorkerExitPCs,
     LoopKnown, Known, CallKnows, NewHasNoWorker, Missing, CreateFlowPCs, Removing
<1>1. ASSUME NEW c \in Calls, HandlerStep(c) PROVE \A d \in Calls : CallKnows(d)'
  <2>1. CASE CancelLoad(c)
    BY <2>1 DEF CancelLoad, Go, AfterCancel
  <2>2. CASE CancelFire(c)
    BY <2>2 DEF CancelFire, Go, AfterCancel
  <2>3. CASE BeginRun(c)
    BY <2>3 DEF BeginRun, Go, SetStatus
  <2>4. CASE BeginRunFails(c)
    BY <2>4 DEF BeginRunFails, ReleaseAccountLock, Reply
  <2>5. ASSUME NEW w \in Workers, Spawn(c, w) PROVE \A d \in Calls : CallKnows(d)'
    BY <2>5 DEF Spawn, FreeSlot
  <2>6. CASE MarkStopped(c)
    BY <2>6 DEF MarkStopped, StopRow, Go, Reply
  <2>7. CASE EraseRow(c)
    BY <2>7 DEF EraseRow, SetStatus, Reply
  <2>8. ASSUME NEW t \in Tasks, DeleteProfileNext(c, t) PROVE \A d \in Calls : CallKnows(d)'
    BY <2>8 DEF DeleteProfileNext, Go
  <2>9. CASE DeleteProfileRow(c)
    BY <2>9 DEF DeleteProfileRow, Reply
  <2>10. ASSUME NEW t \in Tasks, LockdownVisit(c, t) PROVE \A d \in Calls : CallKnows(d)'
    BY <2>10 DEF LockdownVisit, Go
  <2>11. CASE LockdownDelete(c)
    BY <2>11 DEF LockdownDelete, DeleteKey, Go
  <2>12. CASE LockdownMark(c)
    BY <2>12 DEF LockdownMark, StopRunning, Reply
  <2>13. CASE ActiveCheck(c)
    <3>1. CASE registry[on[c]] # None BY <2>13, <3>1 DEF ActiveCheck, Reply
    <3>2. CASE registry[on[c]] = None BY <2>13, <3>2 DEF ActiveCheck, Go
    <3> QED BY <3>1, <3>2
  <2>14. CASE HandlerLock(c)
    BY <2>14 DEF HandlerLock, AcquireAccountLock, Go
  <2>15. CASE HandlerLockRefused(c)
    BY <2>15 DEF HandlerLockRefused, Reply
  <2>16. CASE Validate(c)
    BY <2>16 DEF Validate, Go
  <2>17. CASE ValidateRejects(c)
    BY <2>17 DEF ValidateRejects, ReleaseAccountLock, Reply
  <2>18. CASE InsertRow(c)
    BY <2>18 DEF InsertRow, Go
  <2>19. CASE CreateResolve(c)
    BY <2>19 DEF CreateResolve, GiveUp, Go
  <2>20. CASE CreateCapacity(c)
    BY <2>20 DEF CreateCapacity, GiveUp, Go
  <2>21. CASE Attempt(c)
    <3>1. CASE FindExisting(c) BY <3>1 DEF FindExisting, MayMiss, AttemptEnds, Go
    <3>2. CASE LaunchCreates(c) BY <3>2 DEF LaunchCreates, Go
    <3>3. CASE LaunchRefused(c) BY <3>3 DEF LaunchRefused, Retryable, Go
    <3>4. CASE ConfirmLaunched(c) BY <3>4 DEF ConfirmLaunched, MayMiss, Go
    <3> QED BY <2>21, <3>1, <3>2, <3>3, <3>4 DEF Attempt
  <2>22. CASE CreateJudge(c)
    BY <2>22 DEF CreateJudge, Verdict, Retryable, NextDomain, Go, GiveUp
  <2>23. CASE CreateUnlock(c)
    BY <2>23 DEF CreateUnlock, ReleaseAccountLock, Reply
  <2>24. CASE CreateRelease(c)
    BY <2>24 DEF CreateRelease, ReleaseAccountLock, Go
  <2>25. CASE CreateSuccess(c)
    BY <2>25 DEF CreateSuccess, SetStatus, Go
  <2>26. CASE CreateFinal(c)
    BY <2>26 DEF CreateFinal, SetStatus, Reply
  <2> QED BY <1>1, <2>1, <2>2, <2>3, <2>4, <2>5, <2>6, <2>7, <2>8, <2>9, <2>10, <2>11, <2>12,
       <2>13, <2>14, <2>15, <2>16, <2>17, <2>18, <2>19, <2>20, <2>21, <2>22, <2>23, <2>24,
       <2>25, <2>26 DEF HandlerStep
<1>2. ASSUME NEW w \in Workers, WorkerStep(w) PROVE \A d \in Calls : CallKnows(d)'
  <2>1. CASE Boot(w)
    BY <2>1 DEF Boot, Go, Decide
  <2>2. CASE BootFail(w)
    BY <2>2 DEF BootFail, SetStatus, Go
  <2>3. CASE LoopTop(w)
    BY <2>3 DEF LoopTop, MustLeave, Decide, Go
  <2>4. CASE WorkerLock(w)
    BY <2>4 DEF WorkerLock, AcquireAccountLock, Probe, Go
  <2>5. CASE Attempt(w)
    <3>1. CASE FindExisting(w) BY <3>1 DEF FindExisting, MayMiss, AttemptEnds, Go
    <3>2. CASE LaunchCreates(w) BY <3>2 DEF LaunchCreates, Go
    <3>3. CASE LaunchRefused(w) BY <3>3 DEF LaunchRefused, Retryable, Go
    <3>4. CASE ConfirmLaunched(w) BY <3>4 DEF ConfirmLaunched, MayMiss, Go
    <3> QED BY <2>5, <3>1, <3>2, <3>3, <3>4 DEF Attempt
  <2>6. CASE WorkerJudge(w)
    BY <2>6 DEF WorkerJudge, Verdict, Retryable, Decide, Go
  <2>7. CASE WorkerWrite(w)
    BY <2>7, SMTT(30) DEF WorkerWrite, SetStatus, Go
  <2>8. CASE CountOthers(w)
    BY <2>8 DEF CountOthers, Go
  <2>9. CASE WorkerUnlock(w)
    BY <2>9 DEF WorkerUnlock, ReleaseAccountLock, Go
  <2>10. CASE WorkerExit(w)
    <3> USE <2>10 DEF WorkerExit, Deregister, Vacate
    <3>1. pc'[w] = "idle" /\ (\A v \in Workers \ {w} : pc'[v] = pc[v] /\ on'[v] = on[v]) OBVIOUS
    <3>2. UNCHANGED <<status, profiles, op, prof, todo, cloud>> OBVIOUS
    <3>3. \A c \in Calls : pc'[c] = pc[c] /\ on'[c] = on[c] OBVIOUS
    <3>4. \A t \in Tasks : registry[t] # w => registry'[t] = registry[t] OBVIOUS
    <3> HIDE <2>10 DEF WorkerExit, Deregister, Vacate
    <3> QED BY <3>1, <3>2, <3>3, <3>4
  <2>11. CASE Recover(w)
    BY <2>11 DEF Recover, SetStatusIf, Vacate
  <2> QED BY <1>2, <2>1, <2>2, <2>3, <2>4, <2>5, <2>6, <2>7, <2>8, <2>9, <2>10, <2>11 DEF
       WorkerStep
<1>3. ASSUME NEW c \in Calls, Request(c) PROVE \A d \in Calls : CallKnows(d)'
  <2>1. ASSUME NEW t \in Tasks, StopRequest(c, t) PROVE \A d \in Calls : CallKnows(d)'
    BY <2>1 DEF StopRequest, Serve
  <2>2. ASSUME NEW t \in Tasks, StartRequest(c, t) PROVE \A d \in Calls : CallKnows(d)'
    BY <2>2 DEF StartRequest, Serve
  <2>3. ASSUME NEW t \in Tasks, CreateRequest(c, t) PROVE \A d \in Calls : CallKnows(d)'
    BY <2>3 DEF CreateRequest, Serve
  <2>4. ASSUME NEW p \in Profiles, DeleteProfileRequest(c, p) PROVE \A d \in Calls : CallKnows(d)'
    BY <2>4 DEF DeleteProfileRequest, Serve, TasksOf
  <2>5. CASE LockdownRequest(c)
    BY <2>5 DEF LockdownRequest, Serve
  <2> QED BY <1>3, <2>1, <2>2, <2>3, <2>4, <2>5 DEF Request
<1>4. CASE (\E c \in Calls : CreateTimeout(c)) \/ (\E c \in Calls : CreatePanics(c))
  BY <1>4 DEF CreateTimeout, CreatePanics, GiveUp, Go
<1>5. ASSUME NEW w \in Workers, WorkerPanics(w) PROVE \A d \in Calls : CallKnows(d)'
  BY <1>5 DEF WorkerPanics, Go
<1>6. CASE (\E p \in Profiles : HealthPause(p)) \/ LockExpires
  BY <1>6 DEF HealthPause, StopRunning, LockExpires
<1>7. CASE Restart
  BY <1>7 DEF Restart
<1> QED BY <1>1, <1>2, <1>3, <1>4, <1>5, <1>6, <1>7, SMTT(30) DEF Next, Environment

\* Nobody else launches between the lookup and the launch.
LEMMA LaunchStep ==
  ASSUME TypeOK, Shape, RegisteredIsLive, Unstopped, \A c \in Calls : CallRoute(c), OnceInv, Next
  PROVE  LaunchesFirst' /\ AtMostOneInstance'
<1> USE ConstantsOK DEF ConstantsOK, TypeOK, Actors, rowVars, actorVars, callVars, Shape,
     NoTaskPCs, CallShape, WorkerShape, HeldShape, RegisteredIsLive, Live, OnceInv, Unstopped,
     OneHandler, CallRoute, Looping, NoLoop, NoPanic, WorkerLoopPCs, AttemptPCs, WorkerExitPCs,
     OneLoop, LaunchesFirst, AtMostOneInstance, CallKnows, NewHasNoWorker, CreateFlowPCs
<1>1. ASSUME NEW c \in Calls, HandlerStep(c) PROVE LaunchesFirst' /\ AtMostOneInstance'
  <2>1. CASE CancelLoad(c)
    BY <2>1 DEF CancelLoad, Go, AfterCancel
  <2>2. CASE CancelFire(c)
    BY <2>2 DEF CancelFire, Go, AfterCancel
  <2>3. CASE BeginRun(c)
    BY <2>3 DEF BeginRun, Go, SetStatus
  <2>4. CASE BeginRunFails(c)
    BY <2>4 DEF BeginRunFails, ReleaseAccountLock, Reply
  <2>5. ASSUME NEW w \in Workers, Spawn(c, w) PROVE LaunchesFirst' /\ AtMostOneInstance'
    BY <2>5 DEF Spawn, FreeSlot
  <2>6. CASE MarkStopped(c)
    BY <2>6 DEF MarkStopped, StopRow, Go, Reply
  <2>7. CASE EraseRow(c)
    BY <2>7 DEF EraseRow, SetStatus, Reply
  <2>8. ASSUME NEW t \in Tasks, DeleteProfileNext(c, t) PROVE LaunchesFirst' /\ AtMostOneInstance'
    BY <2>8 DEF DeleteProfileNext, Go
  <2>9. CASE DeleteProfileRow(c)
    BY <2>9 DEF DeleteProfileRow, Reply
  <2>10. ASSUME NEW t \in Tasks, LockdownVisit(c, t) PROVE LaunchesFirst' /\ AtMostOneInstance'
    BY <2>10 DEF LockdownVisit, Go
  <2>11. CASE LockdownDelete(c)
    BY <2>11 DEF LockdownDelete, DeleteKey, Go
  <2>12. CASE LockdownMark(c)
    BY <2>12 DEF LockdownMark, StopRunning, Reply
  <2>13. CASE ActiveCheck(c)
    <3>1. cloud' = cloud /\ \A a \in Actors : pc'[a] = "launch" => pc[a] = "launch" /\ on'[a] = on[a]
      BY <2>13 DEF ActiveCheck, Reply, Go
    <3> QED BY <3>1 DEF LaunchesFirst, AtMostOneInstance
  <2>14. CASE HandlerLock(c)
    BY <2>14 DEF HandlerLock, AcquireAccountLock, Go
  <2>15. CASE HandlerLockRefused(c)
    BY <2>15 DEF HandlerLockRefused, Reply
  <2>16. CASE Validate(c)
    BY <2>16 DEF Validate, Go
  <2>17. CASE ValidateRejects(c)
    BY <2>17 DEF ValidateRejects, ReleaseAccountLock, Reply
  <2>18. CASE InsertRow(c)
    BY <2>18 DEF InsertRow, Go
  <2>19. CASE CreateResolve(c)
    BY <2>19 DEF CreateResolve, GiveUp, Go
  <2>20. CASE CreateCapacity(c)
    BY <2>20 DEF CreateCapacity, GiveUp, Go
  <2>21. CASE Attempt(c)
    <3>1. CASE FindExisting(c) BY <3>1 DEF FindExisting, MayMiss, AttemptEnds, Go
    <3>2. CASE LaunchCreates(c) BY <3>2 DEF LaunchCreates, Go
    <3>3. CASE LaunchRefused(c) BY <3>3 DEF LaunchRefused, Retryable, Go
    <3>4. CASE ConfirmLaunched(c) BY <3>4 DEF ConfirmLaunched, MayMiss, Go
    <3> QED BY <2>21, <3>1, <3>2, <3>3, <3>4 DEF Attempt
  <2>22. CASE CreateJudge(c)
    BY <2>22 DEF CreateJudge, Verdict, Retryable, NextDomain, Go, GiveUp
  <2>23. CASE CreateUnlock(c)
    BY <2>23 DEF CreateUnlock, ReleaseAccountLock, Reply
  <2>24. CASE CreateRelease(c)
    BY <2>24 DEF CreateRelease, ReleaseAccountLock, Go
  <2>25. CASE CreateSuccess(c)
    BY <2>25 DEF CreateSuccess, SetStatus, Go
  <2>26. CASE CreateFinal(c)
    BY <2>26 DEF CreateFinal, SetStatus, Reply
  <2> QED BY <1>1, <2>1, <2>2, <2>3, <2>4, <2>5, <2>6, <2>7, <2>8, <2>9, <2>10, <2>11, <2>12,
       <2>13, <2>14, <2>15, <2>16, <2>17, <2>18, <2>19, <2>20, <2>21, <2>22, <2>23, <2>24,
       <2>25, <2>26 DEF HandlerStep
<1>2. ASSUME NEW w \in Workers, WorkerStep(w) PROVE LaunchesFirst' /\ AtMostOneInstance'
  <2>1. CASE Boot(w)
    BY <2>1 DEF Boot, Go, Decide
  <2>2. CASE BootFail(w)
    BY <2>2 DEF BootFail, SetStatus, Go
  <2>3. CASE LoopTop(w)
    BY <2>3 DEF LoopTop, MustLeave, Decide, Go
  <2>4. CASE WorkerLock(w)
    BY <2>4 DEF WorkerLock, AcquireAccountLock, Probe, Go
  <2>5. CASE Attempt(w)
    <3>1. CASE FindExisting(w) BY <3>1 DEF FindExisting, MayMiss, AttemptEnds, Go
    <3>2. CASE LaunchCreates(w) BY <3>2 DEF LaunchCreates, Go
    <3>3. CASE LaunchRefused(w) BY <3>3 DEF LaunchRefused, Retryable, Go
    <3>4. CASE ConfirmLaunched(w) BY <3>4 DEF ConfirmLaunched, MayMiss, Go
    <3> QED BY <2>5, <3>1, <3>2, <3>3, <3>4 DEF Attempt
  <2>6. CASE WorkerJudge(w)
    BY <2>6 DEF WorkerJudge, Verdict, Retryable, Decide, Go
  <2>7. CASE WorkerWrite(w)
    BY <2>7 DEF WorkerWrite, SetStatus, Go
  <2>8. CASE CountOthers(w)
    BY <2>8 DEF CountOthers, Go
  <2>9. CASE WorkerUnlock(w)
    BY <2>9 DEF WorkerUnlock, ReleaseAccountLock, Go
  <2>10. CASE WorkerExit(w)
    <3> USE <2>10 DEF WorkerExit, Deregister, Vacate
    <3>1. pc'[w] = "idle" /\ (\A v \in Workers \ {w} : pc'[v] = pc[v] /\ on'[v] = on[v]) OBVIOUS
    <3>2. UNCHANGED <<status, profiles, op, prof, todo, cloud>> OBVIOUS
    <3>3. \A c \in Calls : pc'[c] = pc[c] /\ on'[c] = on[c] OBVIOUS
    <3>4. \A t \in Tasks : registry[t] # w => registry'[t] = registry[t] OBVIOUS
    <3> HIDE <2>10 DEF WorkerExit, Deregister, Vacate
    <3> QED BY <3>1, <3>2, <3>3, <3>4
  <2>11. CASE Recover(w)
    BY <2>11 DEF Recover, SetStatusIf, Vacate
  <2> QED BY <1>2, <2>1, <2>2, <2>3, <2>4, <2>5, <2>6, <2>7, <2>8, <2>9, <2>10, <2>11 DEF
       WorkerStep
<1>3. ASSUME NEW c \in Calls, Request(c) PROVE LaunchesFirst' /\ AtMostOneInstance'
  <2>1. ASSUME NEW t \in Tasks, StopRequest(c, t) PROVE LaunchesFirst' /\ AtMostOneInstance'
    BY <2>1 DEF StopRequest, Serve
  <2>2. ASSUME NEW t \in Tasks, StartRequest(c, t) PROVE LaunchesFirst' /\ AtMostOneInstance'
    BY <2>2 DEF StartRequest, Serve
  <2>3. ASSUME NEW t \in Tasks, CreateRequest(c, t) PROVE LaunchesFirst' /\ AtMostOneInstance'
    BY <2>3 DEF CreateRequest, Serve
  <2>4. ASSUME NEW p \in Profiles, DeleteProfileRequest(c, p) PROVE LaunchesFirst' /\ AtMostOneInstance'
    BY <2>4 DEF DeleteProfileRequest, Serve, TasksOf
  <2>5. CASE LockdownRequest(c)
    BY <2>5 DEF LockdownRequest, Serve
  <2> QED BY <1>3, <2>1, <2>2, <2>3, <2>4, <2>5 DEF Request
<1>4. CASE (\E c \in Calls : CreateTimeout(c)) \/ (\E c \in Calls : CreatePanics(c))
  BY <1>4 DEF CreateTimeout, CreatePanics, GiveUp, Go
<1>5. ASSUME NEW w \in Workers, WorkerPanics(w) PROVE LaunchesFirst' /\ AtMostOneInstance'
  BY <1>5 DEF WorkerPanics, Go
<1>6. CASE (\E p \in Profiles : HealthPause(p)) \/ LockExpires
  BY <1>6 DEF HealthPause, StopRunning, LockExpires
<1>7. CASE Restart
  BY <1>7 DEF Restart
<1> QED BY <1>1, <1>2, <1>3, <1>4, <1>5, <1>6, <1>7 DEF Next, Environment

\* No goroutine panics.
LEMMA NoPanicStep ==
  ASSUME TypeOK, Shape, RegisteredIsLive, Unstopped, \A c \in Calls : CallRoute(c), OnceInv, Next
  PROVE  NoPanic'
<1> USE ConstantsOK DEF ConstantsOK, TypeOK, Actors, rowVars, actorVars, callVars, Shape,
     NoTaskPCs, CallShape, WorkerShape, HeldShape, RegisteredIsLive, Live, OnceInv, Unstopped,
     OneHandler, CallRoute, Looping, NoLoop, NoPanic, WorkerLoopPCs, AttemptPCs, WorkerExitPCs,
     Results
<1>1. ASSUME NEW c \in Calls, HandlerStep(c) PROVE NoPanic'
  <2>1. CASE CancelLoad(c)
    BY <2>1 DEF CancelLoad, Go, AfterCancel
  <2>2. CASE CancelFire(c)
    BY <2>2 DEF CancelFire, Go, AfterCancel
  <2>3. CASE BeginRun(c) \/ BeginRunFails(c)
    BY <2>3 DEF BeginRun, Go, SetStatus, BeginRunFails, ReleaseAccountLock, Reply
  <2>4. ASSUME NEW w \in Workers, Spawn(c, w) PROVE NoPanic'
    BY <2>4 DEF Spawn, FreeSlot
  <2>5. CASE MarkStopped(c) \/ EraseRow(c)
    BY <2>5 DEF MarkStopped, StopRow, Go, Reply, EraseRow, SetStatus
  <2>6. ASSUME NEW t \in Tasks, DeleteProfileNext(c, t) PROVE NoPanic'
    BY <2>6 DEF DeleteProfileNext, Go
  <2>7. CASE DeleteProfileRow(c)
    BY <2>7 DEF DeleteProfileRow, Reply
  <2>8. ASSUME NEW t \in Tasks, LockdownVisit(c, t) PROVE NoPanic'
    BY <2>8 DEF LockdownVisit, Go
  <2>9. CASE LockdownDelete(c) \/ LockdownMark(c)
    BY <2>9 DEF LockdownDelete, DeleteKey, Go, LockdownMark, StopRunning, Reply
  <2>10. CASE ActiveCheck(c) \/ HandlerLock(c) \/ HandlerLockRefused(c) \/ Validate(c) \/
       ValidateRejects(c)
    BY <2>10 DEF ActiveCheck, Go, Reply, HandlerLock, AcquireAccountLock, HandlerLockRefused,
         Validate, ValidateRejects, ReleaseAccountLock
  <2>11. CASE InsertRow(c) \/ CreateResolve(c) \/ CreateCapacity(c)
    BY <2>11 DEF InsertRow, Go, CreateResolve, GiveUp, CreateCapacity
  <2>12. CASE Attempt(c)
    BY <2>12 DEF Attempt, FindExisting, MayMiss, AttemptEnds, Go, LaunchCreates, LaunchRefused,
         Retryable, ConfirmLaunched
  <2>13. CASE CreateJudge(c) \/ CreateUnlock(c) \/ CreateRelease(c)
    BY <2>13 DEF CreateJudge, Verdict, Retryable, NextDomain, Go, GiveUp, CreateUnlock,
         ReleaseAccountLock, Reply, CreateRelease
  <2>14. CASE CreateSuccess(c) \/ CreateFinal(c)
    BY <2>14 DEF CreateSuccess, SetStatus, Go, CreateFinal, Reply
  <2> QED BY <1>1, <2>1, <2>2, <2>3, <2>4, <2>5, <2>6, <2>7, <2>8, <2>9, <2>10, <2>11, <2>12,
       <2>13, <2>14 DEF HandlerStep
<1>2. ASSUME NEW w \in Workers, WorkerStep(w) PROVE NoPanic'
  <2>1. CASE Boot(w) \/ BootFail(w)
    BY <2>1 DEF Boot, Go, Decide, BootFail, SetStatus
  <2>2. CASE LoopTop(w) \/ WorkerLock(w)
    BY <2>2 DEF LoopTop, MustLeave, Decide, Go, WorkerLock, AcquireAccountLock, Probe
  <2>3. CASE Attempt(w)
    BY <2>3 DEF Attempt, FindExisting, MayMiss, AttemptEnds, Go, LaunchCreates, LaunchRefused,
         Retryable, ConfirmLaunched
  <2>4. CASE WorkerJudge(w) \/ WorkerWrite(w)
    BY <2>4 DEF WorkerJudge, Verdict, Retryable, Decide, Go, WorkerWrite, SetStatus
  <2>5. CASE CountOthers(w) \/ WorkerUnlock(w)
    BY <2>5 DEF CountOthers, Go, WorkerUnlock, ReleaseAccountLock
  <2>6. CASE WorkerExit(w) \/ Recover(w)
    BY <2>6 DEF WorkerExit, Deregister, Vacate, Go, Recover, SetStatusIf
  <2> QED BY <1>2, <2>1, <2>2, <2>3, <2>4, <2>5, <2>6 DEF WorkerStep
<1>3. ASSUME NEW c \in Calls, Request(c) PROVE NoPanic'
  <2>1. ASSUME NEW t \in Tasks, StopRequest(c, t) PROVE NoPanic'
    BY <2>1 DEF StopRequest, Serve
  <2>2. ASSUME NEW t \in Tasks, StartRequest(c, t) PROVE NoPanic'
    BY <2>2 DEF StartRequest, Serve
  <2>3. ASSUME NEW t \in Tasks, CreateRequest(c, t) PROVE NoPanic'
    BY <2>3 DEF CreateRequest, Serve
  <2>4. ASSUME NEW p \in Profiles, DeleteProfileRequest(c, p) PROVE NoPanic'
    BY <2>4 DEF DeleteProfileRequest, Serve, TasksOf
  <2>5. CASE LockdownRequest(c)
    BY <2>5 DEF LockdownRequest, Serve
  <2> QED BY <1>3, <2>1, <2>2, <2>3, <2>4, <2>5 DEF Request
<1>4. CASE (\E c \in Calls : CreateTimeout(c)) \/ (\E c \in Calls : CreatePanics(c))
  BY <1>4 DEF CreateTimeout, CreatePanics, GiveUp, Go
<1>5. ASSUME NEW w \in Workers, WorkerPanics(w) PROVE NoPanic'
  BY <1>5 DEF WorkerPanics, Go
<1>6. CASE (\E p \in Profiles : HealthPause(p)) \/ LockExpires
  BY <1>6 DEF HealthPause, StopRunning, LockExpires
<1>7. CASE Restart
  BY <1>7 DEF Restart
<1> QED BY <1>1, <1>2, <1>3, <1>4, <1>5, <1>6, <1>7 DEF Next, Environment

-----------------------------------------------------------------------------
(* The theorems. *)

Routes == \A c \in Calls : CallRoute(c)

SerialInv ==
  /\ Inv
  /\ Routes
  /\ OneHandler => StoppableInv
  /\ Unstopped => OnceInv

\* Nothing runs at first.
LEMMA SerialInit == Init => SerialInv
<1> SUFFICES ASSUME Init PROVE SerialInv OBVIOUS
<1> USE ConstantsOK DEF ConstantsOK, Init, Actors
<1>1. Inv BY InitInv
<1>2. Routes BY DEF Routes, CallRoute
<1>3. StoppableInv BY DEF StoppableInv, Stoppable, KeyAsLeft, WorkerLoopPCs, AttemptPCs
<1>4. OnceInv
  BY DEF OnceInv, OneLoop, LoopKnown, Looping, NewHasNoWorker, CallKnows, LaunchesFirst, NoPanic,
     AtMostOneInstance, WorkerLoopPCs, AttemptPCs
<1> QED BY <1>1, <1>2, <1>3, <1>4 DEF SerialInv

\* The invariant is inductive.
LEMMA SerialNext == SerialInv /\ [Next]_vars => SerialInv'
<1> SUFFICES ASSUME SerialInv, [Next]_vars PROVE SerialInv' OBVIOUS
<1>1. Inv' BY NextInv DEF SerialInv
<1>2. TypeOK /\ Shape /\ RegisteredIsLive BY DEF SerialInv, Inv
<1>3. CASE Next
  <2>1. Routes' BY <1>2, <1>3, RouteStep DEF SerialInv, Routes
  <2>2. OneHandler => StoppableInv' BY <1>2, <1>3, StoppableStep DEF SerialInv, Routes
  <2>3. ASSUME Unstopped PROVE OnceInv'
    <3>1. OnceInv /\ \A c \in Calls : CallRoute(c) BY <2>3 DEF SerialInv, Routes
    <3>2. OneLoop' BY <1>2, <1>3, <2>3, <3>1, OneLoopStep
    <3>3. LoopKnown' BY <1>2, <1>3, <2>3, <3>1, LoopKnownStep
    <3>4. NewHasNoWorker' BY <1>2, <1>3, <2>3, <3>1, NewStep
    <3>5. \A d \in Calls : CallKnows(d)' BY <1>2, <1>3, <2>3, <3>1, KnowsStep
    <3>6. LaunchesFirst' /\ AtMostOneInstance' BY <1>2, <1>3, <2>3, <3>1, LaunchStep
    <3>7. NoPanic' BY <1>2, <1>3, <2>3, <3>1, NoPanicStep
    <3> QED BY <3>2, <3>3, <3>4, <3>5, <3>6, <3>7 DEF OnceInv
  <2> QED BY <1>1, <2>1, <2>2, <2>3 DEF SerialInv
<1>4. CASE UNCHANGED vars
  <2>1. Routes' BY <1>4 DEF SerialInv, Routes, CallRoute, vars
  <2>2. OneHandler => StoppableInv'
    BY <1>4 DEF SerialInv, StoppableInv, Stoppable, KeyAsLeft, vars
  <2>3. Unstopped => OnceInv'
    BY <1>4 DEF SerialInv, OnceInv, OneLoop, LoopKnown, Looping, Known, Removing, NewHasNoWorker,
       CallKnows, NoLoop, LaunchesFirst, NoPanic, AtMostOneInstance, vars
  <2> QED BY <1>1, <2>1, <2>2, <2>3 DEF SerialInv
<1> QED BY <1>3, <1>4

\* The inductive invariant holds in every reachable state.
THEOREM SerialInvariance == Spec => []SerialInv
BY SerialInit, SerialNext, PTL DEF Spec

\* While handlers do not overlap, a goroutine that is not cancelled is registered, so StopTask
\* cancels it, whatever the operations and the failures, lockdown, health check and restarts
\* included.  With two handlers at once it is wrong: the second start of a task stores its
\* handle over the first one's (the run viol_stop).
THEOREM SerialHandlersCanStop ==
  ASSUME OneHandler
  PROVE  Spec => []Stoppable
<1>1. SerialInv => Stoppable BY OneHandler DEF SerialInv, StoppableInv
<1> QED BY <1>1, SerialInvariance, PTL

\* A task never gets a second instance, across any number of creations, starts, deletions,
\* restarts of the process, lost responses, expiries of the lock and failures of the database,
\* while requests do not overlap, lookups answer, and nothing takes the task from a worker in
\* mid-launch and lets it start again.  A stop, a lockdown or a pause does: it does not wait
\* for the launch in flight.  A panic does, too: its recover may mark a newer worker's row
\* "failed".
THEOREM OneInstancePerTask ==
  ASSUME Unstopped
  PROVE  Spec => []AtMostOneInstance
<1>1. SerialInv => AtMostOneInstance BY Unstopped DEF SerialInv, OnceInv
<1> QED BY <1>1, SerialInvariance, PTL

=============================================================================
