-------------------------- MODULE SchedulerProofs --------------------------
(***************************************************************************)
(* Proofs about Scheduler, for every number of tasks, profiles, workers    *)
(* and concurrent handlers and every choice of operations and failures.    *)
(*                                                                         *)
(* None of the properties is inductive.  Inv adds what they rest on: the   *)
(* value an actor is about to write (its pc decides which), which handler  *)
(* may be at which access, and that a handler about to cancel a handle     *)
(* holds one that belongs to its own task or to a goroutine that is gone.  *)
(***************************************************************************)
EXTENDS Scheduler, TLAPS

\* A worker that runs has a task, and one that is about to write knows what.
WorkerShape(w) ==
  /\ pc[w] = "idle" => on[w] = None /\ ~gone[w]
  /\ pc[w] # "idle" => on[w] \in Tasks
  /\ pc[w] = "write" => res[w] \in {"success", "failed", "stopped"}
  /\ pc[w] = "judge" /\ res[w] = "cancelled" => gone[w]

\* The accesses of a handler that have a task, and the operation they belong to.
NoTaskPCs == {"idle", "next", "range"}

CallShape(c) ==
  /\ pc[c] \notin NoTaskPCs => on[c] \in Tasks
  /\ pc[c] \in CreateFlowPCs \cup {"insert", "cUnlock"} => op[c] = "create"
  /\ pc[c] \in {"range", "rangeDelete"} <=> op[c] = "panic"
  /\ pc[c] \in {"cRelease", "cFinal"} => res[c] \in {"failed", "stopped"}

\* A loaded handle is held until it is cancelled, and is never that of another task.
HeldShape(c) ==
  /\ pc[c] = "fire" => held[c] \in Workers /\ (pc[held[c]] = "idle" \/ on[held[c]] = on[c])
  /\ pc[c] # "fire" => held[c] = None

\* The shape of every actor.
Shape ==
  /\ \A w \in Workers : WorkerShape(w)
  /\ \A c \in Calls : CallShape(c) /\ HeldShape(c)

\* The actor whose request created an instance never launches again.
Made(a) ==
  made[a] =>
    /\ cloud[on[a]] > 0
    /\ pc[a] \in {"confirm", "judge", "write", "cSuccess", "cUnlock", "cRelease", "cFinal"}
                  \cup WorkerExitPCs
    /\ pc[a] = "judge" => res[a] = "success"

\* As long as a lookup that misses means that there is no instance.
MadeInv == {"list", "refused"} \cap Faults = {} => \A a \in Actors : Made(a)

\* The inductive invariant.
Inv ==
  /\ TypeOK
  /\ Shape
  /\ CreatingHasFlow
  /\ RegisteredIsLive
  /\ NoAbandonedTask
  /\ MadeInv

-----------------------------------------------------------------------------
(* Types. *)

\* The conjuncts of TypeOK about actors and handlers.
ActorTypes ==
  /\ pc \in [Actors -> PCs]
  /\ on \in [Actors -> Tasks \cup {None}]
  /\ gone \in [Actors -> BOOLEAN]
  /\ res \in [Actors -> Results]
  /\ made \in [Actors -> BOOLEAN]

CallTypes ==
  /\ op \in [Calls -> AllOps \cup {"none"}]
  /\ prof \in [Calls -> Profiles \cup {None}]
  /\ todo \in [Calls -> SUBSET Tasks]
  /\ held \in [Calls -> Workers \cup {None}]
  /\ ads \in [Calls -> 0 .. NumADs]

\* What Reply leaves in the variables of the actors.
LEMMA ReplyType ==
  ASSUME TypeOK, NEW c \in Calls, Reply(c)
  PROVE  ActorTypes' /\ CallTypes'
BY ConstantsOK DEF ConstantsOK, ActorTypes, CallTypes, TypeOK, Actors, Reply, PCs, Results

\* AttemptLaunch keeps the types, whoever runs it.
LEMMA AttemptType ==
  ASSUME TypeOK, NEW a \in Actors, Attempt(a)
  PROVE  TypeOK'
<1> USE DEF TypeOK, rowVars, callVars, Go, PCs, WorkerLoopPCs, CreateFlowPCs, AttemptPCs, Results
<1>1. CASE FindExisting(a) BY <1>1 DEF FindExisting, AttemptEnds
<1>2. CASE LaunchCreates(a)
  <2> DEFINE count == IF cloud[on[a]] = 0 THEN 1 ELSE 2
  <2>0. count \in 0 .. 2 /\ cloud' = [cloud EXCEPT ![on[a]] = count] BY <1>2 DEF LaunchCreates
  <2>1. cloud' \in [Tasks -> 0 .. 2]
    <3> HIDE DEF count
    <3> QED BY <2>0
  <2>2. pc' \in [Actors -> PCs] /\ res' \in [Actors -> Results] /\ made' \in [Actors -> BOOLEAN]
    BY <1>2 DEF LaunchCreates, Retryable
  <2> QED BY <1>2, <2>1, <2>2 DEF LaunchCreates
<1>3. CASE LaunchRefused(a) BY <1>3 DEF LaunchRefused, Retryable
<1>4. CASE ConfirmLaunched(a) BY <1>4 DEF ConfirmLaunched
<1> QED BY <1>1, <1>2, <1>3, <1>4 DEF Attempt

\* Every step keeps the types.
LEMMA TypeStep ==
  ASSUME TypeOK, Shape, Next
  PROVE  TypeOK'
<1> USE DEF TypeOK, Actors, rowVars, actorVars, callVars
<1>1. ASSUME NEW c \in Calls, HandlerStep(c) PROVE TypeOK'
  <2>1. CASE CancelLoad(c)
    BY <2>1 DEF CancelLoad, Go, AfterCancel, PCs, HandlerPCs, Shape, CallShape, NoTaskPCs
  <2>2. CASE CancelFire(c)
    BY <2>2 DEF CancelFire, Go, AfterCancel, PCs, HandlerPCs, Shape, CallShape, NoTaskPCs
  <2>3. CASE BeginRun(c)
    BY <2>3 DEF BeginRun, Go, SetStatus, PCs, HandlerPCs, Statuses, Missing
  <2>4. CASE BeginRunFails(c)
    BY <2>4, ReplyType DEF BeginRunFails, ReleaseAccountLock, ActorTypes, CallTypes
  <2>5. ASSUME NEW w \in Workers, Spawn(c, w) PROVE TypeOK'
    BY <2>5 DEF Spawn, FreeSlot, PCs, HandlerPCs, WorkerLoopPCs, Shape, CallShape, NoTaskPCs
  <2>6. CASE MarkStopped(c)
    BY <2>6, ReplyType DEF MarkStopped, StopRow, Go, PCs, HandlerPCs, Statuses, Missing,
         ActorTypes, CallTypes
  <2>7. CASE EraseRow(c)
    BY <2>7, ReplyType DEF EraseRow, SetStatus, Statuses, Missing, ActorTypes, CallTypes
  <2>8. ASSUME NEW t \in Tasks, DeleteProfileNext(c, t) PROVE TypeOK'
    BY <2>8 DEF DeleteProfileNext, Go, PCs, HandlerPCs
  <2>9. CASE DeleteProfileRow(c)
    BY <2>9, ReplyType DEF DeleteProfileRow, ActorTypes, CallTypes
  <2>10. ASSUME NEW t \in Tasks, LockdownVisit(c, t) PROVE TypeOK'
    <3> USE <2>10 DEF LockdownVisit, Go
    <3>1. pc' \in [Actors -> PCs] BY DEF PCs, HandlerPCs
    <3>2. on' \in [Actors -> Tasks \cup {None}] OBVIOUS
    <3>3. gone' \in [Actors -> BOOLEAN] /\ todo' \in [Calls -> SUBSET Tasks] OBVIOUS
    <3> QED BY <3>1, <3>2, <3>3
  <2>11. CASE LockdownDelete(c)
    BY <2>11 DEF LockdownDelete, DeleteKey, Go, PCs, HandlerPCs
  <2>12. CASE LockdownMark(c)
    BY <2>12, ReplyType DEF LockdownMark, StopRunning, Statuses, Missing, ActorTypes, CallTypes
  <2>13. CASE ActiveCheck(c)
    BY <2>13, ReplyType DEF ActiveCheck, Go, PCs, HandlerPCs, ActorTypes, CallTypes
  <2>14. CASE HandlerLock(c) \/ Validate(c)
    BY <2>14 DEF HandlerLock, AcquireAccountLock, Go, PCs, HandlerPCs, Shape, CallShape,
         NoTaskPCs, Validate
  <2>15. CASE HandlerLockRefused(c) \/ ValidateRejects(c)
    BY <2>15, ReplyType DEF HandlerLockRefused, ActorTypes, CallTypes, ValidateRejects,
         ReleaseAccountLock
  <2>16. CASE InsertRow(c)
    <3> USE <2>16 DEF InsertRow, Go
    <3>1. status' \in [Tasks -> Statuses] BY DEF Statuses
    <3>2. pc' \in [Actors -> PCs] BY DEF PCs, CreateFlowPCs
    <3>3. ads' \in [Calls -> 0 .. NumADs] BY ConstantsOK DEF ConstantsOK
    <3> QED BY <3>1, <3>2, <3>3
  <2>17. CASE CreateResolve(c)
    BY <2>17 DEF CreateResolve, Go, GiveUp, PCs, CreateFlowPCs, HandlerPCs, Results
  <2>18. CASE CreateCapacity(c)
    BY <2>18 DEF CreateCapacity, Go, GiveUp, PCs, CreateFlowPCs, HandlerPCs, AttemptPCs, Results
  <2>19. CASE Attempt(c)
    BY <2>19, AttemptType
  <2>20. CASE CreateJudge(c)
    <3> USE <2>20 DEF CreateJudge, Go, GiveUp
    <3>1. pc' \in [Actors -> PCs] BY DEF PCs, CreateFlowPCs, AttemptPCs
    <3>2. res' \in [Actors -> Results] BY DEF Results
    <3>3. ads' \in [Calls -> 0 .. NumADs] BY ConstantsOK DEF ConstantsOK, NextDomain
    <3> QED BY <3>1, <3>2, <3>3
  <2>21. CASE CreateSuccess(c) \/ CreateRelease(c)
    BY <2>21 DEF CreateSuccess, SetStatus, Go, PCs, HandlerPCs, Statuses, Missing,
         CreateRelease, ReleaseAccountLock, CreateFlowPCs
  <2>22. CASE CreateUnlock(c)
    BY <2>22, ReplyType DEF CreateUnlock, ReleaseAccountLock, ActorTypes, CallTypes
  <2>23. CASE CreateFinal(c)
    BY <2>23, ReplyType DEF CreateFinal, SetStatus, Statuses, Missing, ActorTypes, CallTypes,
         Shape, CallShape, NoTaskPCs
  <2> QED BY <1>1, <2>1, <2>2, <2>3, <2>4, <2>5, <2>6, <2>7, <2>8, <2>9, <2>10, <2>11, <2>12,
       <2>13, <2>14, <2>15, <2>16, <2>17, <2>18, <2>19, <2>20, <2>21, <2>22, <2>23 DEF
       HandlerStep
<1>2. ASSUME NEW w \in Workers, WorkerStep(w) PROVE TypeOK'
  <2>1. CASE Boot(w)
    BY <2>1 DEF Boot, Go, Decide, PCs, WorkerLoopPCs, WorkerExitPCs, AttemptPCs, Results
  <2>2. CASE BootFail(w)
    BY <2>2 DEF BootFail, SetStatus, Go, PCs, WorkerLoopPCs, WorkerExitPCs, AttemptPCs,
         Statuses, Missing
  <2>3. CASE LoopTop(w)
    BY <2>3 DEF LoopTop, MustLeave, Decide, Go, PCs, WorkerLoopPCs, WorkerExitPCs, AttemptPCs,
         Results
  <2>4. CASE WorkerLock(w)
    <3> USE <2>4 DEF WorkerLock, Probe, Go
    <3>1. lock' \in Profiles \cup {None}
      BY ConstantsOK DEF ConstantsOK, AcquireAccountLock, Shape, WorkerShape
    <3>2. pc' \in [Actors -> PCs] BY DEF PCs, WorkerLoopPCs, AttemptPCs, WorkerExitPCs
    <3> QED BY <3>1, <3>2
  <2>5. CASE Attempt(w)
    BY <2>5, AttemptType
  <2>6. CASE WorkerJudge(w)
    BY <2>6 DEF WorkerJudge, Verdict, Retryable, Decide, Go, PCs, WorkerLoopPCs, WorkerExitPCs,
         AttemptPCs, Results
  <2>7. CASE WorkerWrite(w)
    BY <2>7 DEF WorkerWrite, SetStatus, Go, PCs, WorkerLoopPCs, WorkerExitPCs, AttemptPCs,
         Statuses, Missing, Results, Shape, WorkerShape
  <2>8. CASE CountOthers(w) \/ WorkerUnlock(w)
    BY <2>8 DEF CountOthers, Go, PCs, WorkerLoopPCs, WorkerExitPCs, AttemptPCs, WorkerUnlock,
         ReleaseAccountLock
  <2>9. CASE WorkerExit(w)
    <3> USE <2>9 DEF WorkerExit, Vacate, Go
    <3>1. registry' \in [Tasks -> Workers \cup {None}] BY DEF Deregister
    <3>2. pc' \in [Actors -> PCs] BY DEF PCs, WorkerExitPCs
    <3>3. on' \in [Actors -> Tasks \cup {None}] /\ gone' \in [Actors -> BOOLEAN] OBVIOUS
    <3>4. res' \in [Actors -> Results] /\ made' \in [Actors -> BOOLEAN] BY DEF Results
    <3> QED BY <3>1, <3>2, <3>3, <3>4
  <2>10. CASE Recover(w)
    BY <2>10 DEF Recover, SetStatusIf, Vacate, PCs, Statuses, Missing, Results
  <2> QED BY <1>2, <2>1, <2>2, <2>3, <2>4, <2>5, <2>6, <2>7, <2>8, <2>9, <2>10 DEF WorkerStep
<1>3. ASSUME NEW c \in Calls, Request(c) PROVE TypeOK'
  <2>1. CASE (\E t \in Tasks : StopRequest(c, t)) \/ (\E t \in Tasks : StartRequest(c, t)) \/
       (\E t \in Tasks : CreateRequest(c, t))
    BY <2>1 DEF StopRequest, Serve, PCs, HandlerPCs, AllOps, StartRequest, CreateRequest
  <2>2. ASSUME NEW p \in Profiles, DeleteProfileRequest(c, p) PROVE TypeOK'
    BY <2>2 DEF DeleteProfileRequest, Serve, PCs, HandlerPCs, AllOps, TasksOf
  <2>3. CASE LockdownRequest(c)
    BY <2>3 DEF LockdownRequest, Serve, PCs, HandlerPCs, AllOps
  <2> QED BY <1>3, <2>1, <2>2, <2>3 DEF Request
<1>4. ASSUME NEW c \in Calls, CreateTimeout(c) PROVE TypeOK'
  BY <1>4 DEF CreateTimeout
<1>5. ASSUME NEW c \in Calls, CreatePanics(c) PROVE TypeOK'
  BY <1>5 DEF CreatePanics, GiveUp, Go, PCs, CreateFlowPCs, HandlerPCs, Results
<1>6. ASSUME NEW w \in Workers, WorkerPanics(w) PROVE TypeOK'
  BY <1>6 DEF WorkerPanics, Go, PCs, WorkerLoopPCs, WorkerExitPCs, AttemptPCs, Results
<1>7. ASSUME NEW p \in Profiles, HealthPause(p) PROVE TypeOK'
  BY <1>7 DEF HealthPause, StopRunning, Statuses, Missing
<1>8. CASE LockExpires
  BY <1>8 DEF LockExpires
<1>9. CASE Restart
  <2> USE <1>9 DEF Restart
  <2>1. status' \in [Tasks -> Statuses] BY DEF Statuses
  <2>2. registry' \in [Tasks -> Workers \cup {None}] OBVIOUS
  <2>3. pc' \in [Actors -> PCs] BY DEF PCs, WorkerLoopPCs
  <2>4. on' \in [Actors -> Tasks \cup {None}] OBVIOUS
  <2>5. res' \in [Actors -> Results] BY DEF Results
  <2>6. ads' \in [Calls -> 0 .. NumADs] /\ crashes' \in 0 .. MaxCrashes
    BY ConstantsOK DEF ConstantsOK
  <2> QED BY <2>1, <2>2, <2>3, <2>4, <2>5, <2>6
<1> QED BY <1>1, <1>2, <1>3, <1>4, <1>5, <1>6, <1>7, <1>8, <1>9 DEF Next, Environment

-----------------------------------------------------------------------------
(* The shape of workers and handlers, and of the handles handlers hold. *)

\* A worker keeps its shape.  Only a handler that cancels or spawns reaches another actor.
LEMMA WorkerShapeStep ==
  ASSUME TypeOK, Shape, RegisteredIsLive, Next
  PROVE  \A v \in Workers : WorkerShape(v)'
<1> USE ConstantsOK DEF ConstantsOK, TypeOK, Actors, rowVars, actorVars, callVars, Shape,
     NoTaskPCs, WorkerShape, CallShape
<1>1. ASSUME NEW c \in Calls, HandlerStep(c) PROVE \A v \in Workers : WorkerShape(v)'
  <2>1. CASE CancelLoad(c)
    BY <2>1 DEF CancelLoad, Go, AfterCancel
  <2>2. CASE CancelFire(c)
    BY <2>2 DEF CancelFire, Go, AfterCancel
  <2>3. CASE BeginRun(c) \/ BeginRunFails(c)
    BY <2>3 DEF BeginRun, Go, SetStatus, BeginRunFails, ReleaseAccountLock, Reply
  <2>4. ASSUME NEW w \in Workers, Spawn(c, w) PROVE \A v \in Workers : WorkerShape(v)'
    BY <2>4 DEF Spawn, FreeSlot
  <2>5. CASE MarkStopped(c) \/ EraseRow(c)
    BY <2>5 DEF MarkStopped, StopRow, Go, Reply, EraseRow, SetStatus
  <2>6. CASE (\E t \in Tasks : DeleteProfileNext(c, t)) \/ DeleteProfileRow(c)
    BY <2>6 DEF DeleteProfileNext, Go, DeleteProfileRow, Reply
  <2>7. ASSUME NEW t \in Tasks, LockdownVisit(c, t) PROVE \A v \in Workers : WorkerShape(v)'
    BY <2>7, SMTT(30) DEF LockdownVisit, Go, RegisteredIsLive, Live
  <2>8. CASE LockdownDelete(c) \/ LockdownMark(c)
    BY <2>8 DEF LockdownDelete, DeleteKey, Go, LockdownMark, StopRunning, Reply
  <2>9. CASE ActiveCheck(c) \/ HandlerLock(c) \/ HandlerLockRefused(c) \/ Validate(c) \/
       ValidateRejects(c)
    BY <2>9 DEF ActiveCheck, Go, Reply, HandlerLock, AcquireAccountLock, HandlerLockRefused,
         Validate, ValidateRejects, ReleaseAccountLock
  <2>10. CASE InsertRow(c) \/ CreateResolve(c) \/ CreateCapacity(c)
    BY <2>10 DEF InsertRow, Go, CreateResolve, GiveUp, CreateCapacity
  <2>11. CASE Attempt(c)
    BY <2>11 DEF Attempt, FindExisting, MayMiss, AttemptEnds, Go, LaunchCreates, LaunchRefused,
         Retryable, ConfirmLaunched
  <2>12. CASE CreateJudge(c) \/ CreateUnlock(c) \/ CreateRelease(c)
    BY <2>12 DEF CreateJudge, Verdict, Retryable, NextDomain, Go, GiveUp, CreateUnlock,
         ReleaseAccountLock, Reply, CreateRelease
  <2>13. CASE CreateSuccess(c) \/ CreateFinal(c)
    BY <2>13 DEF CreateSuccess, SetStatus, Go, CreateFinal, Reply
  <2> QED BY <1>1, <2>1, <2>2, <2>3, <2>4, <2>5, <2>6, <2>7, <2>8, <2>9, <2>10, <2>11, <2>12,
       <2>13 DEF HandlerStep
<1>2. ASSUME NEW w \in Workers, WorkerStep(w) PROVE \A v \in Workers : WorkerShape(v)'
  <2>1. CASE Boot(w) \/ BootFail(w)
    BY <2>1 DEF Boot, Go, Decide, BootFail, SetStatus
  <2>2. CASE LoopTop(w) \/ WorkerLock(w)
    BY <2>2 DEF LoopTop, MustLeave, Decide, Go, WorkerLock, AcquireAccountLock, Probe
  <2>3. CASE Attempt(w)
    BY <2>3 DEF Attempt, FindExisting, MayMiss, AttemptEnds, Go, LaunchCreates, LaunchRefused,
         Retryable, ConfirmLaunched
  <2>4. CASE WorkerJudge(w) \/ WorkerWrite(w)
    BY <2>4 DEF WorkerJudge, Verdict, Retryable, Decide, Go, WorkerWrite, SetStatus
  <2>5. CASE CountOthers(w) \/ WorkerUnlock(w)
    BY <2>5 DEF CountOthers, Go, WorkerUnlock, ReleaseAccountLock
  <2>6. CASE WorkerExit(w) \/ Recover(w)
    BY <2>6 DEF WorkerExit, Deregister, Vacate, Go, Recover, SetStatusIf
  <2> QED BY <1>2, <2>1, <2>2, <2>3, <2>4, <2>5, <2>6 DEF WorkerStep
<1>3. ASSUME NEW c \in Calls, Request(c) PROVE \A v \in Workers : WorkerShape(v)'
  <2>1. CASE (\E t \in Tasks : StopRequest(c, t)) \/ (\E t \in Tasks : StartRequest(c, t)) \/
       (\E t \in Tasks : CreateRequest(c, t)) \/ (\E p \in Profiles : DeleteProfileRequest(c,
       p)) \/ LockdownRequest(c)
    BY <2>1 DEF StopRequest, Serve, StartRequest, CreateRequest, DeleteProfileRequest,
         LockdownRequest
  <2> QED BY <1>3, <2>1 DEF Request
<1>4. CASE (\E c \in Calls : CreateTimeout(c)) \/ (\E c \in Calls : CreatePanics(c))
  BY <1>4 DEF CreateTimeout, CreatePanics, GiveUp, Go
<1>5. ASSUME NEW w \in Workers, WorkerPanics(w) PROVE \A v \in Workers : WorkerShape(v)'
  BY <1>5 DEF WorkerPanics, Go
<1>6. CASE (\E p \in Profiles : HealthPause(p)) \/ LockExpires
  BY <1>6 DEF HealthPause, StopRunning, LockExpires
<1>7. CASE Restart
  BY <1>7 DEF Restart
<1> QED BY <1>1, <1>2, <1>3, <1>4, <1>5, <1>6, <1>7 DEF Next, Environment

\* A handler keeps its shape.
LEMMA CallShapeStep ==
  ASSUME TypeOK, Shape, Next
  PROVE  \A d \in Calls : CallShape(d)'
<1> USE ConstantsOK DEF ConstantsOK, TypeOK, Actors, rowVars, actorVars, callVars, Shape,
     NoTaskPCs, CallShape, CreateFlowPCs, AttemptPCs
<1>1. ASSUME NEW c \in Calls, HandlerStep(c) PROVE \A d \in Calls : CallShape(d)'
  <2>1. CASE CancelLoad(c)
    BY <2>1 DEF CancelLoad, Go, AfterCancel
  <2>2. CASE CancelFire(c)
    BY <2>2 DEF CancelFire, Go, AfterCancel
  <2>3. CASE BeginRun(c) \/ BeginRunFails(c)
    BY <2>3 DEF BeginRun, Go, SetStatus, BeginRunFails, ReleaseAccountLock, Reply
  <2>4. ASSUME NEW w \in Workers, Spawn(c, w) PROVE \A d \in Calls : CallShape(d)'
    BY <2>4 DEF Spawn, FreeSlot
  <2>5. CASE MarkStopped(c) \/ EraseRow(c)
    BY <2>5 DEF MarkStopped, StopRow, Go, Reply, EraseRow, SetStatus
  <2>6. CASE (\E t \in Tasks : DeleteProfileNext(c, t)) \/ DeleteProfileRow(c)
    BY <2>6 DEF DeleteProfileNext, Go, DeleteProfileRow, Reply
  <2>7. ASSUME NEW t \in Tasks, LockdownVisit(c, t) PROVE \A d \in Calls : CallShape(d)'
    BY <2>7 DEF LockdownVisit, Go
  <2>8. CASE LockdownDelete(c) \/ LockdownMark(c)
    BY <2>8 DEF LockdownDelete, DeleteKey, Go, LockdownMark, StopRunning, Reply
  <2>9. CASE ActiveCheck(c) \/ HandlerLock(c) \/ HandlerLockRefused(c) \/ Validate(c) \/
       ValidateRejects(c)
    BY <2>9 DEF ActiveCheck, Go, Reply, HandlerLock, AcquireAccountLock, HandlerLockRefused,
         Validate, ValidateRejects, ReleaseAccountLock
  <2>10. CASE InsertRow(c) \/ CreateResolve(c) \/ CreateCapacity(c)
    BY <2>10 DEF InsertRow, Go, CreateResolve, GiveUp, CreateCapacity
  <2>11. CASE Attempt(c)
    BY <2>11 DEF Attempt, FindExisting, MayMiss, AttemptEnds, Go, LaunchCreates, LaunchRefused,
         Retryable, ConfirmLaunched
  <2>12. CASE CreateJudge(c) \/ CreateUnlock(c) \/ CreateRelease(c)
    BY <2>12 DEF CreateJudge, Verdict, Retryable, NextDomain, Go, GiveUp, CreateUnlock,
         ReleaseAccountLock, Reply, CreateRelease
  <2>13. CASE CreateSuccess(c) \/ CreateFinal(c)
    BY <2>13 DEF CreateSuccess, SetStatus, Go, CreateFinal, Reply
  <2> QED BY <1>1, <2>1, <2>2, <2>3, <2>4, <2>5, <2>6, <2>7, <2>8, <2>9, <2>10, <2>11, <2>12,
       <2>13 DEF HandlerStep
<1>2. ASSUME NEW w \in Workers, WorkerStep(w) PROVE \A d \in Calls : CallShape(d)'
  <2>1. CASE Boot(w) \/ BootFail(w)
    BY <2>1 DEF Boot, Go, Decide, BootFail, SetStatus
  <2>2. CASE LoopTop(w) \/ WorkerLock(w)
    BY <2>2 DEF LoopTop, MustLeave, Decide, Go, WorkerLock, AcquireAccountLock, Probe
  <2>3. CASE Attempt(w)
    BY <2>3 DEF Attempt, FindExisting, MayMiss, AttemptEnds, Go, LaunchCreates, LaunchRefused,
         Retryable, ConfirmLaunched
  <2>4. CASE WorkerJudge(w) \/ WorkerWrite(w)
    BY <2>4 DEF WorkerJudge, Verdict, Retryable, Decide, Go, WorkerWrite, SetStatus
  <2>5. CASE CountOthers(w) \/ WorkerUnlock(w)
    BY <2>5 DEF CountOthers, Go, WorkerUnlock, ReleaseAccountLock
  <2>6. CASE WorkerExit(w) \/ Recover(w)
    BY <2>6 DEF WorkerExit, Deregister, Vacate, Go, Recover, SetStatusIf
  <2> QED BY <1>2, <2>1, <2>2, <2>3, <2>4, <2>5, <2>6 DEF WorkerStep
<1>3. ASSUME NEW c \in Calls, Request(c) PROVE \A d \in Calls : CallShape(d)'
  <2>1. CASE (\E t \in Tasks : StopRequest(c, t)) \/ (\E t \in Tasks : StartRequest(c, t)) \/
       (\E t \in Tasks : CreateRequest(c, t)) \/ (\E p \in Profiles : DeleteProfileRequest(c,
       p)) \/ LockdownRequest(c)
    BY <2>1 DEF StopRequest, Serve, StartRequest, CreateRequest, DeleteProfileRequest,
         LockdownRequest
  <2> QED BY <1>3, <2>1 DEF Request
<1>4. CASE (\E c \in Calls : CreateTimeout(c)) \/ (\E c \in Calls : CreatePanics(c))
  BY <1>4 DEF CreateTimeout, CreatePanics, GiveUp, Go
<1>5. ASSUME NEW w \in Workers, WorkerPanics(w) PROVE \A d \in Calls : CallShape(d)'
  BY <1>5 DEF WorkerPanics, Go
<1>6. CASE (\E p \in Profiles : HealthPause(p)) \/ LockExpires
  BY <1>6 DEF HealthPause, StopRunning, LockExpires
<1>7. CASE Restart
  BY <1>7 DEF Restart
<1> QED BY <1>1, <1>2, <1>3, <1>4, <1>5, <1>6, <1>7 DEF Next, Environment

\* A held handle belongs to the handler's task: it was registered when it was loaded, and a
\* slot is not reused while a handler still holds its handle.
LEMMA HeldShapeStep ==
  ASSUME TypeOK, Shape, RegisteredIsLive, Next
  PROVE  \A d \in Calls : HeldShape(d)'
<1> USE ConstantsOK DEF ConstantsOK, TypeOK, Actors, rowVars, actorVars, callVars, Shape,
     NoTaskPCs, CallShape, WorkerShape, HeldShape, RegisteredIsLive, Live
<1>1. ASSUME NEW c \in Calls, HandlerStep(c) PROVE \A d \in Calls : HeldShape(d)'
  <2>1. CASE CancelLoad(c)
    BY <2>1 DEF CancelLoad, Go, AfterCancel
  <2>2. CASE CancelFire(c)
    BY <2>2 DEF CancelFire, Go, AfterCancel
  <2>3. CASE BeginRun(c) \/ BeginRunFails(c)
    BY <2>3 DEF BeginRun, Go, SetStatus, BeginRunFails, ReleaseAccountLock, Reply
  <2>4. ASSUME NEW w \in Workers, Spawn(c, w) PROVE \A d \in Calls : HeldShape(d)'
    BY <2>4 DEF Spawn, FreeSlot
  <2>5. CASE MarkStopped(c) \/ EraseRow(c)
    BY <2>5 DEF MarkStopped, StopRow, Go, Reply, EraseRow, SetStatus
  <2>6. CASE (\E t \in Tasks : DeleteProfileNext(c, t)) \/ DeleteProfileRow(c)
    BY <2>6 DEF DeleteProfileNext, Go, DeleteProfileRow, Reply
  <2>7. ASSUME NEW t \in Tasks, LockdownVisit(c, t) PROVE \A d \in Calls : HeldShape(d)'
    BY <2>7 DEF LockdownVisit, Go
  <2>8. CASE LockdownDelete(c) \/ LockdownMark(c)
    BY <2>8 DEF LockdownDelete, DeleteKey, Go, LockdownMark, StopRunning, Reply
  <2>9. CASE ActiveCheck(c) \/ HandlerLock(c) \/ HandlerLockRefused(c) \/ Validate(c) \/
       ValidateRejects(c)
    BY <2>9 DEF ActiveCheck, Go, Reply, HandlerLock, AcquireAccountLock, HandlerLockRefused,
         Validate, ValidateRejects, ReleaseAccountLock
  <2>10. CASE InsertRow(c) \/ CreateResolve(c) \/ CreateCapacity(c)
    BY <2>10 DEF InsertRow, Go, CreateResolve, GiveUp, CreateCapacity
  <2>11. CASE Attempt(c)
    BY <2>11 DEF Attempt, FindExisting, MayMiss, AttemptEnds, Go, LaunchCreates, LaunchRefused,
         Retryable, ConfirmLaunched
  <2>12. CASE CreateJudge(c) \/ CreateUnlock(c) \/ CreateRelease(c)
    BY <2>12 DEF CreateJudge, Verdict, Retryable, NextDomain, Go, GiveUp, CreateUnlock,
         ReleaseAccountLock, Reply, CreateRelease
  <2>13. CASE CreateSuccess(c) \/ CreateFinal(c)
    BY <2>13 DEF CreateSuccess, SetStatus, Go, CreateFinal, Reply
  <2> QED BY <1>1, <2>1, <2>2, <2>3, <2>4, <2>5, <2>6, <2>7, <2>8, <2>9, <2>10, <2>11, <2>12,
       <2>13 DEF HandlerStep
<1>2. ASSUME NEW w \in Workers, WorkerStep(w) PROVE \A d \in Calls : HeldShape(d)'
  <2>1. CASE Boot(w) \/ BootFail(w)
    BY <2>1 DEF Boot, Go, Decide, BootFail, SetStatus
  <2>2. CASE LoopTop(w) \/ WorkerLock(w)
    BY <2>2 DEF LoopTop, MustLeave, Decide, Go, WorkerLock, AcquireAccountLock, Probe
  <2>3. CASE Attempt(w)
    BY <2>3 DEF Attempt, FindExisting, MayMiss, AttemptEnds, Go, LaunchCreates, LaunchRefused,
         Retryable, ConfirmLaunched
  <2>4. CASE WorkerJudge(w) \/ WorkerWrite(w)
    BY <2>4 DEF WorkerJudge, Verdict, Retryable, Decide, Go, WorkerWrite, SetStatus
  <2>5. CASE CountOthers(w) \/ WorkerUnlock(w)
    BY <2>5 DEF CountOthers, Go, WorkerUnlock, ReleaseAccountLock
  <2>6. CASE WorkerExit(w) \/ Recover(w)
    BY <2>6 DEF WorkerExit, Deregister, Vacate, Go, Recover, SetStatusIf
  <2> QED BY <1>2, <2>1, <2>2, <2>3, <2>4, <2>5, <2>6 DEF WorkerStep
<1>3. ASSUME NEW c \in Calls, Request(c) PROVE \A d \in Calls : HeldShape(d)'
  <2>1. CASE (\E t \in Tasks : StopRequest(c, t)) \/ (\E t \in Tasks : StartRequest(c, t)) \/
       (\E t \in Tasks : CreateRequest(c, t)) \/ (\E p \in Profiles : DeleteProfileRequest(c,
       p)) \/ LockdownRequest(c)
    BY <2>1 DEF StopRequest, Serve, StartRequest, CreateRequest, DeleteProfileRequest,
         LockdownRequest
  <2> QED BY <1>3, <2>1 DEF Request
<1>4. CASE (\E c \in Calls : CreateTimeout(c)) \/ (\E c \in Calls : CreatePanics(c))
  BY <1>4 DEF CreateTimeout, CreatePanics, GiveUp, Go
<1>5. ASSUME NEW w \in Workers, WorkerPanics(w) PROVE \A d \in Calls : HeldShape(d)'
  BY <1>5 DEF WorkerPanics, Go
<1>6. CASE (\E p \in Profiles : HealthPause(p)) \/ LockExpires
  BY <1>6 DEF HealthPause, StopRunning, LockExpires
<1>7. CASE Restart
  BY <1>7 DEF Restart
<1> QED BY <1>1, <1>2, <1>3, <1>4, <1>5, <1>6, <1>7 DEF Next, Environment

-----------------------------------------------------------------------------
(* The properties. *)

\* A creating row keeps its flow: the flow's last write moves the row on.
LEMMA CreatingStep ==
  ASSUME TypeOK, Shape, CreatingHasFlow, Next
  PROVE  CreatingHasFlow'
<1> USE ConstantsOK DEF ConstantsOK, TypeOK, Actors, rowVars, actorVars, callVars, Shape,
     NoTaskPCs, CallShape, WorkerShape, CreatingHasFlow, CreateFlowPCs, AttemptPCs
<1>1. ASSUME NEW c \in Calls, HandlerStep(c) PROVE CreatingHasFlow'
  <2>1. CASE CancelLoad(c)
    BY <2>1 DEF CancelLoad, Go, AfterCancel
  <2>2. CASE CancelFire(c)
    BY <2>2 DEF CancelFire, Go, AfterCancel
  <2>3. CASE BeginRun(c) \/ BeginRunFails(c)
    BY <2>3, SMTT(30) DEF BeginRun, Go, SetStatus, BeginRunFails, ReleaseAccountLock, Reply
  <2>4. ASSUME NEW w \in Workers, Spawn(c, w) PROVE CreatingHasFlow'
    BY <2>4 DEF Spawn, FreeSlot
  <2>5. CASE MarkStopped(c) \/ EraseRow(c)
    BY <2>5, SMTT(30) DEF MarkStopped, StopRow, Go, Reply, EraseRow, SetStatus
  <2>6. CASE (\E t \in Tasks : DeleteProfileNext(c, t)) \/ DeleteProfileRow(c)
    BY <2>6 DEF DeleteProfileNext, Go, DeleteProfileRow, Reply
  <2>7. ASSUME NEW t \in Tasks, LockdownVisit(c, t) PROVE CreatingHasFlow'
    BY <2>7 DEF LockdownVisit, Go
  <2>8. CASE LockdownDelete(c) \/ LockdownMark(c)
    BY <2>8 DEF LockdownDelete, DeleteKey, Go, LockdownMark, StopRunning, Reply
  <2>9. CASE ActiveCheck(c) \/ HandlerLock(c) \/ HandlerLockRefused(c) \/ Validate(c) \/
       ValidateRejects(c)
    BY <2>9 DEF ActiveCheck, Go, Reply, HandlerLock, AcquireAccountLock, HandlerLockRefused,
         Validate, ValidateRejects, ReleaseAccountLock
  <2>10. CASE InsertRow(c) \/ CreateResolve(c) \/ CreateCapacity(c)
    BY <2>10 DEF InsertRow, Go, CreateResolve, GiveUp, CreateCapacity
  <2>11. CASE Attempt(c)
    BY <2>11 DEF Attempt, FindExisting, MayMiss, AttemptEnds, Go, LaunchCreates, LaunchRefused,
         Retryable, ConfirmLaunched
  <2>12. CASE CreateJudge(c) \/ CreateUnlock(c) \/ CreateRelease(c)
    BY <2>12, SMTT(30) DEF CreateJudge, Verdict, Retryable, NextDomain, Go, GiveUp, CreateUnlock,
         ReleaseAccountLock, Reply, CreateRelease
  <2>13. CASE CreateSuccess(c)
    <3>1. status'[on[c]] # "creating" BY <2>13 DEF SetStatus, Missing, CreateSuccess
    <3>2. ASSUME NEW t \in Tasks, status'[t] = "creating" PROVE t # on[c] /\ status[t] = "creating"
      BY <2>13, <3>1, <3>2 DEF SetStatus, CreateSuccess
    <3>3. \A d \in Calls : pc[d] \in CreateFlowPCs /\ on[d] # on[c]
                          => pc'[d] = pc[d] /\ on'[d] = on[d] /\ op'[d] = op[d]
      BY <2>13 DEF CreateSuccess, Go
    <3> QED BY <3>2, <3>3
  <2>14. CASE CreateFinal(c)
    <3>1. status'[on[c]] # "creating" BY <2>14 DEF SetStatus, Missing, CreateFinal
    <3>2. ASSUME NEW t \in Tasks, status'[t] = "creating" PROVE t # on[c] /\ status[t] = "creating"
      BY <2>14, <3>1, <3>2 DEF SetStatus, CreateFinal
    <3>3. \A d \in Calls : pc[d] \in CreateFlowPCs /\ on[d] # on[c]
                          => pc'[d] = pc[d] /\ on'[d] = on[d] /\ op'[d] = op[d]
      BY <2>14 DEF CreateFinal, Reply
    <3> QED BY <3>2, <3>3
  <2> QED BY <1>1, <2>1, <2>2, <2>3, <2>4, <2>5, <2>6, <2>7, <2>8, <2>9, <2>10, <2>11, <2>12,
       <2>13, <2>14 DEF HandlerStep
<1>2. ASSUME NEW w \in Workers, WorkerStep(w) PROVE CreatingHasFlow'
  <2>1. CASE Boot(w) \/ BootFail(w)
    BY <2>1 DEF Boot, Go, Decide, BootFail, SetStatus
  <2>2. CASE LoopTop(w) \/ WorkerLock(w)
    BY <2>2 DEF LoopTop, MustLeave, Decide, Go, WorkerLock, AcquireAccountLock, Probe
  <2>3. CASE Attempt(w)
    BY <2>3 DEF Attempt, FindExisting, MayMiss, AttemptEnds, Go, LaunchCreates, LaunchRefused,
         Retryable, ConfirmLaunched
  <2>4. CASE WorkerJudge(w) \/ WorkerWrite(w)
    BY <2>4 DEF WorkerJudge, Verdict, Retryable, Decide, Go, WorkerWrite, SetStatus
  <2>5. CASE CountOthers(w) \/ WorkerUnlock(w)
    BY <2>5 DEF CountOthers, Go, WorkerUnlock, ReleaseAccountLock
  <2>6. CASE WorkerExit(w) \/ Recover(w)
    BY <2>6 DEF WorkerExit, Deregister, Vacate, Go, Recover, SetStatusIf
  <2> QED BY <1>2, <2>1, <2>2, <2>3, <2>4, <2>5, <2>6 DEF WorkerStep
<1>3. ASSUME NEW c \in Calls, Request(c) PROVE CreatingHasFlow'
  <2>1. CASE (\E t \in Tasks : StopRequest(c, t)) \/ (\E t \in Tasks : StartRequest(c, t)) \/
       (\E t \in Tasks : CreateRequest(c, t)) \/ (\E p \in Profiles : DeleteProfileRequest(c,
       p)) \/ LockdownRequest(c)
    BY <2>1 DEF StopRequest, Serve, StartRequest, CreateRequest, DeleteProfileRequest,
         LockdownRequest
  <2> QED BY <1>3, <2>1 DEF Request
<1>4. CASE (\E c \in Calls : CreateTimeout(c)) \/ (\E c \in Calls : CreatePanics(c))
  BY <1>4 DEF CreateTimeout, CreatePanics, GiveUp, Go
<1>5. ASSUME NEW w \in Workers, WorkerPanics(w) PROVE CreatingHasFlow'
  BY <1>5 DEF WorkerPanics, Go
<1>6. CASE (\E p \in Profiles : HealthPause(p)) \/ LockExpires
  BY <1>6 DEF HealthPause, StopRunning, LockExpires
<1>7. CASE Restart
  BY <1>7 DEF Restart
<1> QED BY <1>1, <1>2, <1>3, <1>4, <1>5, <1>6, <1>7 DEF Next, Environment

\* The registry keeps naming live goroutines.
LEMMA RegisteredStep ==
  ASSUME TypeOK, Shape, RegisteredIsLive, Next
  PROVE  RegisteredIsLive'
<1> USE ConstantsOK DEF ConstantsOK, TypeOK, Actors, rowVars, actorVars, callVars, Shape,
     NoTaskPCs, CallShape, WorkerShape, HeldShape, RegisteredIsLive, Live
<1>1. ASSUME NEW c \in Calls, HandlerStep(c) PROVE RegisteredIsLive'
  <2>1. CASE CancelLoad(c)
    BY <2>1 DEF CancelLoad, Go, AfterCancel
  <2>2. CASE CancelFire(c)
    BY <2>2 DEF CancelFire, Go, AfterCancel
  <2>3. CASE BeginRun(c)
    BY <2>3 DEF BeginRun, Go, SetStatus
  <2>4. CASE BeginRunFails(c)
    BY <2>4 DEF BeginRunFails, ReleaseAccountLock, Reply
  <2>5. ASSUME NEW w \in Workers, Spawn(c, w) PROVE RegisteredIsLive'
    <3>1. pc[w] = "idle" /\ pc'[w] = "boot" /\ on'[w] = on[c] /\ ~gone'[w]
      BY <2>5 DEF Spawn, FreeSlot
    <3>2. \A v \in Workers : v # w => pc'[v] = pc[v] /\ on'[v] = on[v] /\ gone'[v] = gone[v]
      BY <2>5 DEF Spawn
    <3>3. \A d \in Calls : pc[d] = "rangeDelete" => pc'[d] = pc[d] /\ on'[d] = on[d]
      BY <2>5 DEF Spawn
    <3>4. registry'[on[c]] = w /\ \A t \in Tasks : t # on[c] => registry'[t] = registry[t]
      BY <2>5 DEF Spawn
    <3> QED BY <3>1, <3>2, <3>3, <3>4
  <2>6. CASE MarkStopped(c)
    <3>1. CASE op[c] = "stop" BY <2>6, <3>1 DEF MarkStopped, StopRow, Reply
    <3>2. CASE op[c] # "stop" BY <2>6, <3>2 DEF MarkStopped, StopRow, Go
    <3> QED BY <3>1, <3>2
  <2>7. CASE EraseRow(c) \/ (\E t \in Tasks : DeleteProfileNext(c, t)) \/ DeleteProfileRow(c)
    BY <2>7 DEF EraseRow, SetStatus, Reply, DeleteProfileNext, Go, DeleteProfileRow
  <2>8. ASSUME NEW t \in Tasks, LockdownVisit(c, t) PROVE RegisteredIsLive'
    BY <2>8, SMTT(30) DEF LockdownVisit, Go
  <2>9. CASE LockdownDelete(c) \/ LockdownMark(c)
    BY <2>9 DEF LockdownDelete, DeleteKey, Go, LockdownMark, StopRunning, Reply
  <2>10. CASE ActiveCheck(c)
    <3>1. CASE registry[on[c]] # None BY <2>10, <3>1 DEF ActiveCheck, Reply
    <3>2. CASE registry[on[c]] = None BY <2>10, <3>2 DEF ActiveCheck, Go
    <3> QED BY <3>1, <3>2
  <2>11. CASE HandlerLock(c)
    BY <2>11 DEF HandlerLock, AcquireAccountLock, Go
  <2>12. CASE HandlerLockRefused(c)
    BY <2>12 DEF HandlerLockRefused, Reply
  <2>13. CASE Validate(c)
    BY <2>13 DEF Validate, Go
  <2>14. CASE ValidateRejects(c)
    BY <2>14 DEF ValidateRejects, ReleaseAccountLock, Reply
  <2>15. CASE InsertRow(c) \/ CreateResolve(c) \/ CreateCapacity(c)
    BY <2>15 DEF InsertRow, Go, CreateResolve, GiveUp, CreateCapacity
  <2>16. CASE Attempt(c)
    BY <2>16, SMTT(30) DEF Attempt, FindExisting, MayMiss, AttemptEnds, Go, LaunchCreates, LaunchRefused,
         Retryable, ConfirmLaunched
  <2>17. CASE CreateJudge(c)
    BY <2>17 DEF CreateJudge, Verdict, Retryable, NextDomain, Go, GiveUp
  <2>18. CASE CreateUnlock(c)
    BY <2>18 DEF CreateUnlock, ReleaseAccountLock, Reply
  <2>19. CASE CreateRelease(c)
    BY <2>19 DEF CreateRelease, ReleaseAccountLock, Go
  <2>20. CASE CreateSuccess(c) \/ CreateFinal(c)
    BY <2>20 DEF CreateSuccess, SetStatus, Go, CreateFinal, Reply
  <2> QED BY <1>1, <2>1, <2>2, <2>3, <2>4, <2>5, <2>6, <2>7, <2>8, <2>9, <2>10, <2>11, <2>12,
       <2>13, <2>14, <2>15, <2>16, <2>17, <2>18, <2>19, <2>20 DEF HandlerStep
<1>2. ASSUME NEW w \in Workers, WorkerStep(w) PROVE RegisteredIsLive'
  <2>1. CASE Boot(w) \/ BootFail(w)
    BY <2>1 DEF Boot, Go, Decide, BootFail, SetStatus
  <2>2. CASE LoopTop(w) \/ WorkerLock(w)
    BY <2>2 DEF LoopTop, MustLeave, Decide, Go, WorkerLock, AcquireAccountLock, Probe
  <2>3. CASE Attempt(w)
    BY <2>3 DEF Attempt, FindExisting, MayMiss, AttemptEnds, Go, LaunchCreates, LaunchRefused,
         Retryable, ConfirmLaunched
  <2>4. CASE WorkerJudge(w) \/ WorkerWrite(w)
    BY <2>4 DEF WorkerJudge, Verdict, Retryable, Decide, Go, WorkerWrite, SetStatus
  <2>5. CASE CountOthers(w) \/ WorkerUnlock(w)
    BY <2>5 DEF CountOthers, Go, WorkerUnlock, ReleaseAccountLock
  <2>6. CASE WorkerExit(w) \/ Recover(w)
    BY <2>6 DEF WorkerExit, Deregister, Vacate, Go, Recover, SetStatusIf
  <2> QED BY <1>2, <2>1, <2>2, <2>3, <2>4, <2>5, <2>6 DEF WorkerStep
<1>3. ASSUME NEW c \in Calls, Request(c) PROVE RegisteredIsLive'
  <2>1. CASE (\E t \in Tasks : StopRequest(c, t)) \/ (\E t \in Tasks : StartRequest(c, t)) \/
       (\E t \in Tasks : CreateRequest(c, t)) \/ (\E p \in Profiles : DeleteProfileRequest(c,
       p)) \/ LockdownRequest(c)
    BY <2>1 DEF StopRequest, Serve, StartRequest, CreateRequest, DeleteProfileRequest,
         LockdownRequest
  <2> QED BY <1>3, <2>1 DEF Request
<1>4. CASE (\E c \in Calls : CreateTimeout(c)) \/ (\E c \in Calls : CreatePanics(c))
  BY <1>4 DEF CreateTimeout, CreatePanics, GiveUp, Go
<1>5. ASSUME NEW w \in Workers, WorkerPanics(w) PROVE RegisteredIsLive'
  BY <1>5 DEF WorkerPanics, Go
<1>6. CASE (\E p \in Profiles : HealthPause(p)) \/ LockExpires
  BY <1>6 DEF HealthPause, StopRunning, LockExpires
<1>7. CASE Restart
  BY <1>7 DEF Restart
<1> QED BY <1>1, <1>2, <1>3, <1>4, <1>5, <1>6, <1>7 DEF Next, Environment

\* What NoAbandonedTask asks for a running task.
Served(t) == (\E w \in Workers : Serving(w, t)) \/ (\E c \in Calls : Settling(c, t))

\* A step that takes nobody away from the task.  Only the cancellation, the steps of StartTask,
\* the lockdown's visit and a restart do, and each of them puts somebody in the place.
Keeps(t) ==
  /\ status[t] = "running"
  /\ \A w \in Workers : Serving(w, t) => Serving(w, t)'
  /\ \A c \in Calls : Settling(c, t) => Settling(c, t)'

\* A running row keeps its worker or gets a handler that replaces or stops it.
LEMMA NoAbandonedStep ==
  ASSUME TypeOK, Shape, NoAbandonedTask, "dberr" \notin Faults,
         NEW x \in Tasks, status'[x] = "running", Next
  PROVE  Keeps(x) \/ Served(x)'
<1> USE ConstantsOK DEF ConstantsOK, TypeOK, Actors, rowVars, actorVars, callVars, Shape,
     NoTaskPCs, CallShape, WorkerShape, Keeps, Serving, Settling, Missing, AttemptPCs,
     WorkerLoopPCs, WorkerExitPCs
<1>1. ASSUME NEW c \in Calls, HandlerStep(c) PROVE Keeps(x) \/ Served(x)'
  <2>1. CASE CancelLoad(c)
    BY <2>1 DEF CancelLoad, Go, AfterCancel
  <2>2. CASE CancelFire(c)
    BY <2>2 DEF CancelFire, Go, AfterCancel, HeldShape, NoAbandonedTask, Served
  <2>3. CASE BeginRun(c) \/ BeginRunFails(c)
    BY <2>3 DEF BeginRun, Go, SetStatus, HeldShape, NoAbandonedTask, Served, BeginRunFails,
         ReleaseAccountLock, Reply
  <2>4. ASSUME NEW w \in Workers, Spawn(c, w) PROVE Keeps(x) \/ Served(x)'
    BY <2>4 DEF Spawn, FreeSlot, HeldShape, NoAbandonedTask, Served
  <2>5. CASE MarkStopped(c)
    <3>1. CASE op[c] = "stop" BY <2>5, <3>1 DEF MarkStopped, StopRow, Reply
    <3>2. CASE op[c] # "stop" BY <2>5, <3>2 DEF MarkStopped, StopRow, Go
    <3> QED BY <3>1, <3>2
  <2>6. CASE EraseRow(c) \/ (\E t \in Tasks : DeleteProfileNext(c, t)) \/ DeleteProfileRow(c)
    BY <2>6 DEF EraseRow, SetStatus, Reply, DeleteProfileNext, Go, DeleteProfileRow
  <2>7. ASSUME NEW t \in Tasks, LockdownVisit(c, t) PROVE Keeps(x) \/ Served(x)'
    BY <2>7 DEF LockdownVisit, Go, HeldShape, NoAbandonedTask, Served
  <2>8. CASE LockdownDelete(c) \/ LockdownMark(c)
    BY <2>8 DEF LockdownDelete, DeleteKey, Go, LockdownMark, StopRunning, Reply
  <2>9. CASE ActiveCheck(c)
    <3>1. CASE registry[on[c]] # None BY <2>9, <3>1 DEF ActiveCheck, Reply
    <3>2. CASE registry[on[c]] = None BY <2>9, <3>2 DEF ActiveCheck, Go
    <3> QED BY <3>1, <3>2
  <2>10. CASE HandlerLock(c) \/ HandlerLockRefused(c) \/ Validate(c) \/ ValidateRejects(c)
    BY <2>10 DEF HandlerLock, AcquireAccountLock, Go, HandlerLockRefused, Reply, Validate,
         ValidateRejects, ReleaseAccountLock
  <2>11. CASE InsertRow(c) \/ CreateResolve(c) \/ CreateCapacity(c)
    BY <2>11 DEF InsertRow, Go, CreateResolve, GiveUp, CreateCapacity
  <2>12. CASE Attempt(c)
    <3>1. CASE FindExisting(c) BY <3>1 DEF FindExisting, MayMiss, AttemptEnds, Go
    <3>2. CASE LaunchCreates(c) BY <3>2 DEF LaunchCreates, Go
    <3>3. CASE LaunchRefused(c) BY <3>3 DEF LaunchRefused, Retryable, Go
    <3>4. CASE ConfirmLaunched(c) BY <3>4 DEF ConfirmLaunched, MayMiss, Go
    <3> QED BY <2>12, <3>1, <3>2, <3>3, <3>4 DEF Attempt
  <2>13. CASE CreateJudge(c) \/ CreateUnlock(c) \/ CreateRelease(c)
    BY <2>13 DEF CreateJudge, Verdict, Retryable, NextDomain, Go, GiveUp, CreateUnlock,
         ReleaseAccountLock, Reply, CreateRelease
  <2>14. CASE CreateSuccess(c) \/ CreateFinal(c)
    BY <2>14 DEF CreateSuccess, SetStatus, Go, CreateFinal, Reply
  <2> QED BY <1>1, <2>1, <2>2, <2>3, <2>4, <2>5, <2>6, <2>7, <2>8, <2>9, <2>10, <2>11, <2>12,
       <2>13, <2>14 DEF HandlerStep
<1>2. ASSUME NEW w \in Workers, WorkerStep(w) PROVE Keeps(x) \/ Served(x)'
  <2>1. CASE Boot(w) \/ BootFail(w)
    BY <2>1 DEF Boot, Go, Decide, BootFail, SetStatus
  <2>2. CASE LoopTop(w) \/ WorkerLock(w)
    BY <2>2 DEF LoopTop, MustLeave, Decide, Go, WorkerLock, AcquireAccountLock, Probe
  <2>3. CASE Attempt(w)
    <3>1. CASE FindExisting(w) BY <3>1 DEF FindExisting, MayMiss, AttemptEnds, Go
    <3>2. CASE LaunchCreates(w) BY <3>2 DEF LaunchCreates, Go
    <3>3. CASE LaunchRefused(w) BY <3>3 DEF LaunchRefused, Retryable, Go
    <3>4. CASE ConfirmLaunched(w) BY <3>4 DEF ConfirmLaunched, MayMiss, Go
    <3> QED BY <2>3, <3>1, <3>2, <3>3, <3>4 DEF Attempt
  <2>4. CASE WorkerJudge(w) \/ WorkerWrite(w)
    BY <2>4 DEF WorkerJudge, Verdict, Retryable, Decide, Go, WorkerWrite, SetStatus
  <2>5. CASE CountOthers(w) \/ WorkerUnlock(w)
    BY <2>5 DEF CountOthers, Go, WorkerUnlock, ReleaseAccountLock
  <2>6. CASE WorkerExit(w) \/ Recover(w)
    BY <2>6 DEF WorkerExit, Deregister, Vacate, Go, Recover, SetStatusIf
  <2> QED BY <1>2, <2>1, <2>2, <2>3, <2>4, <2>5, <2>6 DEF WorkerStep
<1>3. ASSUME NEW c \in Calls, Request(c) PROVE Keeps(x) \/ Served(x)'
  <2>1. CASE (\E t \in Tasks : StopRequest(c, t)) \/ (\E t \in Tasks : StartRequest(c, t)) \/
       (\E t \in Tasks : CreateRequest(c, t)) \/ (\E p \in Profiles : DeleteProfileRequest(c,
       p)) \/ LockdownRequest(c)
    BY <2>1 DEF StopRequest, Serve, StartRequest, CreateRequest, DeleteProfileRequest,
         LockdownRequest
  <2> QED BY <1>3, <2>1 DEF Request
<1>4. CASE (\E c \in Calls : CreateTimeout(c)) \/ (\E c \in Calls : CreatePanics(c))
  BY <1>4 DEF CreateTimeout, CreatePanics, GiveUp, Go
<1>5. ASSUME NEW w \in Workers, WorkerPanics(w) PROVE Keeps(x) \/ Served(x)'
  BY <1>5 DEF WorkerPanics, Go
<1>6. CASE (\E p \in Profiles : HealthPause(p)) \/ LockExpires
  BY <1>6 DEF HealthPause, StopRunning, LockExpires
<1>7. CASE Restart
  BY <1>7 DEF Restart, HeldShape, NoAbandonedTask, Served
<1> QED BY <1>1, <1>2, <1>3, <1>4, <1>5, <1>6, <1>7 DEF Next, Environment

\* The actor that created an instance keeps knowing it.
LEMMA MadeStep ==
  ASSUME TypeOK, Shape, MadeInv, {"list", "refused"} \cap Faults = {}, NEW b \in Actors, Next
  PROVE  Made(b)'
<1> USE ConstantsOK DEF ConstantsOK, TypeOK, Actors, rowVars, actorVars, callVars, Shape,
     NoTaskPCs, CallShape, WorkerShape, MadeInv, Made, WorkerExitPCs
<1>1. ASSUME NEW c \in Calls, HandlerStep(c) PROVE Made(b)'
  <2>1. CASE CancelLoad(c)
    BY <2>1 DEF CancelLoad, Go, AfterCancel
  <2>2. CASE CancelFire(c)
    BY <2>2 DEF CancelFire, Go, AfterCancel
  <2>3. CASE BeginRun(c) \/ BeginRunFails(c)
    BY <2>3 DEF BeginRun, Go, SetStatus, BeginRunFails, ReleaseAccountLock, Reply
  <2>4. ASSUME NEW w \in Workers, Spawn(c, w) PROVE Made(b)'
    BY <2>4 DEF Spawn, FreeSlot
  <2>5. CASE MarkStopped(c)
    BY <2>5 DEF MarkStopped, StopRow, Go, Reply
  <2>6. CASE EraseRow(c)
    BY <2>6 DEF EraseRow, SetStatus, Reply
  <2>7. ASSUME NEW t \in Tasks, DeleteProfileNext(c, t) PROVE Made(b)'
    BY <2>7 DEF DeleteProfileNext, Go
  <2>8. CASE DeleteProfileRow(c)
    BY <2>8 DEF DeleteProfileRow, Reply
  <2>9. ASSUME NEW t \in Tasks, LockdownVisit(c, t) PROVE Made(b)'
    BY <2>9 DEF LockdownVisit, Go
  <2>10. CASE LockdownDelete(c) \/ LockdownMark(c)
    BY <2>10 DEF LockdownDelete, DeleteKey, Go, LockdownMark, StopRunning, Reply
  <2>11. CASE ActiveCheck(c)
    <3>1. CASE registry[on[c]] # None BY <2>11, <3>1 DEF ActiveCheck, Reply
    <3>2. CASE registry[on[c]] = None BY <2>11, <3>2 DEF ActiveCheck, Go
    <3> QED BY <3>1, <3>2
  <2>12. CASE HandlerLock(c) \/ HandlerLockRefused(c) \/ Validate(c) \/ ValidateRejects(c)
    BY <2>12 DEF HandlerLock, AcquireAccountLock, Go, HandlerLockRefused, Reply, Validate,
         ValidateRejects, ReleaseAccountLock
  <2>13. CASE InsertRow(c) \/ CreateResolve(c) \/ CreateCapacity(c)
    BY <2>13 DEF InsertRow, Go, CreateResolve, GiveUp, CreateCapacity
  <2>14. CASE Attempt(c)
    <3>1. CASE FindExisting(c) BY <3>1 DEF FindExisting, MayMiss, AttemptEnds, Go
    <3>2. CASE LaunchCreates(c) BY <3>2 DEF LaunchCreates, Go
    <3>3. CASE LaunchRefused(c) BY <3>3 DEF LaunchRefused, Retryable, Go
    <3>4. CASE ConfirmLaunched(c) BY <3>4 DEF ConfirmLaunched, MayMiss, Go
    <3> QED BY <2>14, <3>1, <3>2, <3>3, <3>4 DEF Attempt
  <2>15. CASE CreateJudge(c) \/ CreateUnlock(c) \/ CreateRelease(c)
    BY <2>15 DEF CreateJudge, Verdict, Retryable, NextDomain, Go, GiveUp, CreateUnlock,
         ReleaseAccountLock, Reply, CreateRelease
  <2>16. CASE CreateSuccess(c) \/ CreateFinal(c)
    BY <2>16 DEF CreateSuccess, SetStatus, Go, CreateFinal, Reply
  <2> QED BY <1>1, <2>1, <2>2, <2>3, <2>4, <2>5, <2>6, <2>7, <2>8, <2>9, <2>10, <2>11, <2>12,
       <2>13, <2>14, <2>15, <2>16 DEF HandlerStep
<1>2. ASSUME NEW w \in Workers, WorkerStep(w) PROVE Made(b)'
  <2>1. CASE Boot(w) \/ BootFail(w)
    BY <2>1 DEF Boot, Go, Decide, BootFail, SetStatus
  <2>2. CASE LoopTop(w) \/ WorkerLock(w)
    BY <2>2 DEF LoopTop, MustLeave, Decide, Go, WorkerLock, AcquireAccountLock, Probe
  <2>3. CASE Attempt(w)
    <3>1. CASE FindExisting(w) BY <3>1 DEF FindExisting, MayMiss, AttemptEnds, Go
    <3>2. CASE LaunchCreates(w) BY <3>2 DEF LaunchCreates, Go
    <3>3. CASE LaunchRefused(w) BY <3>3 DEF LaunchRefused, Retryable, Go
    <3>4. CASE ConfirmLaunched(w) BY <3>4 DEF ConfirmLaunched, MayMiss, Go
    <3> QED BY <2>3, <3>1, <3>2, <3>3, <3>4 DEF Attempt
  <2>4. CASE WorkerJudge(w) \/ WorkerWrite(w)
    BY <2>4 DEF WorkerJudge, Verdict, Retryable, Decide, Go, WorkerWrite, SetStatus
  <2>5. CASE CountOthers(w) \/ WorkerUnlock(w)
    BY <2>5 DEF CountOthers, Go, WorkerUnlock, ReleaseAccountLock
  <2>6. CASE WorkerExit(w) \/ Recover(w)
    BY <2>6 DEF WorkerExit, Deregister, Vacate, Go, Recover, SetStatusIf
  <2> QED BY <1>2, <2>1, <2>2, <2>3, <2>4, <2>5, <2>6 DEF WorkerStep
<1>3. ASSUME NEW c \in Calls, Request(c) PROVE Made(b)'
  <2>1. CASE (\E t \in Tasks : StopRequest(c, t)) \/ (\E t \in Tasks : StartRequest(c, t)) \/
       (\E t \in Tasks : CreateRequest(c, t)) \/ (\E p \in Profiles : DeleteProfileRequest(c,
       p)) \/ LockdownRequest(c)
    BY <2>1 DEF StopRequest, Serve, StartRequest, CreateRequest, DeleteProfileRequest,
         LockdownRequest
  <2> QED BY <1>3, <2>1 DEF Request
<1>4. CASE (\E c \in Calls : CreateTimeout(c)) \/ (\E c \in Calls : CreatePanics(c))
  BY <1>4 DEF CreateTimeout, CreatePanics, GiveUp, Go
<1>5. ASSUME NEW w \in Workers, WorkerPanics(w) PROVE Made(b)'
  BY <1>5 DEF WorkerPanics, Go
<1>6. CASE (\E p \in Profiles : HealthPause(p)) \/ LockExpires
  BY <1>6 DEF HealthPause, StopRunning, LockExpires
<1>7. CASE Restart
  BY <1>7 DEF Restart
<1> QED BY <1>1, <1>2, <1>3, <1>4, <1>5, <1>6, <1>7 DEF Next, Environment

-----------------------------------------------------------------------------
(* The theorems. *)

\* Nothing runs at first.
LEMMA InitInv == Init => Inv
<1> SUFFICES ASSUME Init PROVE Inv OBVIOUS
<1> USE ConstantsOK DEF ConstantsOK, Init, Actors
<1>1. TypeOK BY DEF TypeOK, Statuses, Missing, PCs, Results
<1>2. Shape
  BY DEF Shape, WorkerShape, CallShape, HeldShape, NoTaskPCs, CreateFlowPCs, AttemptPCs
<1>3. CreatingHasFlow /\ RegisteredIsLive /\ NoAbandonedTask
  BY DEF CreatingHasFlow, RegisteredIsLive, NoAbandonedTask
<1>4. MadeInv BY DEF MadeInv, Made
<1> QED BY <1>1, <1>2, <1>3, <1>4 DEF Inv

\* The invariant is inductive.
LEMMA NextInv == Inv /\ [Next]_vars => Inv'
<1> SUFFICES ASSUME Inv, [Next]_vars PROVE Inv' OBVIOUS
<1>1. CASE Next
  <2> USE <1>1 DEF Inv
  <2>1. TypeOK' BY TypeStep
  <2>2. Shape' BY WorkerShapeStep, CallShapeStep, HeldShapeStep DEF Shape
  <2>3. CreatingHasFlow' BY CreatingStep
  <2>4. RegisteredIsLive' BY RegisteredStep
  <2>5. NoAbandonedTask'
    <3>1. ASSUME NEW x \in Tasks, "dberr" \notin Faults, status'[x] = "running"
          PROVE  Served(x)'
      <4>1. Keeps(x) => Served(x)' BY <3>1 DEF Keeps, Served, NoAbandonedTask
      <4> QED BY <3>1, <4>1, NoAbandonedStep
    <3> QED BY <3>1 DEF NoAbandonedTask, Served
  <2>6. MadeInv' BY MadeStep DEF MadeInv
  <2> QED BY <2>1, <2>2, <2>3, <2>4, <2>5, <2>6
<1>2. CASE UNCHANGED vars
  BY <1>2 DEF vars, Inv, TypeOK, Shape, WorkerShape, CallShape, HeldShape, CreatingHasFlow,
     RegisteredIsLive, Live, NoAbandonedTask, Serving, Settling, MadeInv, Made
<1> QED BY <1>1, <1>2

\* The inductive invariant holds in every reachable state.
THEOREM Invariance == Spec => []Inv
BY InitInv, NextInv, PTL DEF Spec

\* Every variable keeps its type.
THEOREM TypeCorrect == Spec => []TypeOK
<1>1. Inv => TypeOK BY DEF Inv
<1> QED BY <1>1, Invariance, PTL

\* Only a create flow in flight leaves its row "creating", panics and timeouts included.
THEOREM CreatingRowHasFlow == Spec => []CreatingHasFlow
<1>1. Inv => CreatingHasFlow BY DEF Inv
<1> QED BY <1>1, Invariance, PTL

\* activeTasks never names a goroutine that has exited or works on another task.
THEOREM RegistryNamesLiveWorkers == Spec => []RegisteredIsLive
<1>1. Inv => RegisteredIsLive BY DEF Inv
<1> QED BY <1>1, Invariance, PTL

\* A running row always has a goroutine that serves it, or a handler that replaces or stops
\* it, for any number of concurrent handlers, tasks and restarts.
THEOREM NoTaskAbandoned == Spec => []NoAbandonedTask
<1>1. Inv => NoAbandonedTask BY DEF Inv
<1> QED BY <1>1, Invariance, PTL

\* An attempt whose request created an instance is judged a success.
THEOREM LostResponsesConfirmed == Spec => []NoLostInstance
<1>1. Inv => NoLostInstance BY DEF Inv, MadeInv, Made, NoLostInstance
<1> QED BY <1>1, Invariance, PTL

=============================================================================
