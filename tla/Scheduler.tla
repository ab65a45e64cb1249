----------------------------- MODULE Scheduler -----------------------------
(***************************************************************************)
(* The launch-task engine of the panel: the rows of the launch_tasks table *)
(* (storage), the registry activeTasks with its worker goroutines          *)
(* (engine/scheduler.go, engine/worker.go), the HTTP handlers that create, *)
(* start, stop and delete tasks (api/handlers_task.go), profile deletion,  *)
(* the panic lockdown, the health check's automatic pause, the Redis       *)
(* account lock (cache/redis.go) and the instances that exist in OCI.      *)
(*                                                                         *)
(* One action is one access to shared state: a database statement, a       *)
(* sync.Map operation, a Redis script or a call to OCI.  Between two of    *)
(* them any other goroutine may run and the process may crash.             *)
(*                                                                         *)
(* An actor is a goroutine: a worker (w) or an HTTP handler (c).  The pc   *)
(* of an actor names the next access it makes.                             *)
(***************************************************************************)
EXTENDS Naturals

CONSTANTS
  Tasks,       \* task ids that exist or can be created
  Profiles,    \* OCI accounts
  ProfileOf,   \* the account of each task
  Workers,     \* slots for worker goroutines; a slot is also its handle
  Calls,       \* slots for concurrent HTTP handlers
  Ops,         \* the operations the environment calls
  Faults,      \* the failures that can happen
  NumADs,      \* bound: availability domains of the region
  MaxCrashes,  \* bound: restarts of the process
  None         \* no task, worker or profile

AllOps == {"create", "start", "stop", "delete", "panic", "pause", "deleteProfile"}
AllFaults == {"lost",     \* the response of LaunchInstance is lost
              "refused",  \* the retry inside the call, after a lost response, is refused
              "list",     \* a lookup by name fails or lags behind the launch
              "timeout",  \* the 70 s budget of CreateTask runs out
              "redis",    \* Redis does not answer
              "expiry",   \* the TTL of the account lock runs out
              "dberr",    \* the status update of StartTask fails
              "panic"}    \* a goroutine panics in a call to OCI

ASSUME ConstantsOK ==
  /\ ProfileOf \in [Tasks -> Profiles]
  /\ Workers \cap Calls = {}
  /\ None \notin Tasks \cup Profiles \cup Workers \cup Calls
  /\ Ops \subseteq AllOps
  /\ Faults \subseteq AllFaults
  /\ NumADs \in Nat \ {0}
  /\ MaxCrashes \in Nat

VARIABLES
  status,    \* launch_tasks.status of each task
  profiles,  \* the profiles whose row exists
  lock,      \* the profile named by the Redis account lock
  cloud,     \* OCI instances created under each task's display name: 0, 1, or 2 for "more"
  registry,  \* activeTasks: task id -> handle
  pc,        \* next access of each actor
  on,        \* task each actor works on
  gone,      \* the actor's context is cancelled
  res,       \* result of the last attempt, later the status to write
  made,      \* a launch request of this actor created an instance
  op,        \* operation a handler serves
  prof,      \* profile DeleteProfile removes
  todo,      \* tasks a handler's loop has not visited yet
  held,      \* handle a handler loaded in cancelWorker
  ads,       \* availability domains CreateTask has left
  crashes    \* restarts so far

rowVars == <<status, profiles>>
actorVars == <<pc, on, gone, res, made>>
callVars == <<op, prof, todo, held, ads>>
vars == <<status, profiles, lock, cloud, registry, pc, on, gone, res, made,
          op, prof, todo, held, ads, crashes>>

Actors == Workers \cup Calls
Missing == {"absent", "deleted"}
Statuses == Missing \cup {"creating", "running", "success", "failed", "stopped"}
Results == {"none", "success", "capacity", "rateLimited", "transient", "fatal",
            "cancelled", "failed", "stopped", "panic"}

AttemptPCs == {"find", "launch", "confirm", "judge"}
WorkerLoopPCs == AttemptPCs \cup {"boot", "bootFail", "top", "gate", "write"}
WorkerExitPCs == {"count", "unlock", "exit", "recover"}
CreateFlowPCs == AttemptPCs \cup {"cResolve", "capacity", "cSuccess", "cRelease", "cFinal"}
HandlerPCs == {"active", "acquire", "validate", "insert", "cUnlock", "load", "fire",
               "begin", "spawn", "mark", "erase", "next", "range", "rangeDelete"}
PCs == {"idle"} \cup WorkerLoopPCs \cup WorkerExitPCs \cup CreateFlowPCs \cup HandlerPCs

Init ==
  /\ status \in [Tasks -> {"stopped"} \cup IF "create" \in Ops THEN {"absent"} ELSE {}]
  /\ profiles = Profiles
  /\ lock = None
  /\ cloud = [t \in Tasks |-> 0]
  /\ registry = [t \in Tasks |-> None]
  /\ pc = [a \in Actors |-> "idle"]
  /\ on = [a \in Actors |-> None]
  /\ gone = [a \in Actors |-> FALSE]
  /\ res = [a \in Actors |-> "none"]
  /\ made = [a \in Actors |-> FALSE]
  /\ op = [c \in Calls |-> "none"]
  /\ prof = [c \in Calls |-> None]
  /\ todo = [c \in Calls |-> {}]
  /\ held = [c \in Calls |-> None]
  /\ ads = [c \in Calls |-> 0]
  /\ crashes = 0

-----------------------------------------------------------------------------
(* Shared helpers. *)

Go(a, label) == pc' = [pc EXCEPT ![a] = label]

\* UPDATE ... WHERE id = ?: touches no row when the task is missing or soft-deleted.
SetStatus(t, s) ==
  status' = [status EXCEPT ![t] = IF @ \in Missing THEN @ ELSE s]

\* UPDATE ... WHERE id = ? AND status = ?
SetStatusIf(t, from, s) ==
  status' = [status EXCEPT ![t] = IF @ = from THEN s ELSE @]

\* The two Lua scripts: take or refresh the lock, and compare-and-delete it.
AcquireAccountLock(p) == lock \in {None, p} /\ lock' = p
ReleaseAccountLock(p) == lock' = IF lock = p THEN None ELSE lock

\* A handler answers its request; the slot serves another one later.
Reply(c) ==
  /\ pc' = [pc EXCEPT ![c] = "idle"]
  /\ on' = [on EXCEPT ![c] = None]
  /\ gone' = [gone EXCEPT ![c] = FALSE]
  /\ res' = [res EXCEPT ![c] = "none"]
  /\ made' = [made EXCEPT ![c] = FALSE]
  /\ op' = [op EXCEPT ![c] = "none"]
  /\ prof' = [prof EXCEPT ![c] = None]
  /\ todo' = [todo EXCEPT ![c] = {}]
  /\ held' = [held EXCEPT ![c] = None]
  /\ ads' = [ads EXCEPT ![c] = 0]

\* A handler begins to serve operation o on task t (or None).
Serve(c, o, t, label) ==
  /\ pc[c] = "idle"
  /\ o \in Ops
  /\ pc' = [pc EXCEPT ![c] = label]
  /\ on' = [on EXCEPT ![c] = t]
  /\ op' = [op EXCEPT ![c] = o]
  /\ UNCHANGED <<gone, res, made, held, ads>>

-----------------------------------------------------------------------------
(* cancelWorker: Load the handle, then cancel its context and              *)
(* CompareAndDelete it.  Start goes on to StartTask, the others to the     *)
(* status updates of StopTask.                                             *)

AfterCancel(c) == IF op[c] = "start" THEN "begin" ELSE "mark"

CancelLoad(c) ==
  /\ pc[c] = "load"
  /\ held' = [held EXCEPT ![c] = registry[on[c]]]
  /\ Go(c, IF registry[on[c]] = None THEN AfterCancel(c) ELSE "fire")
  /\ UNCHANGED <<rowVars, lock, cloud, registry, on, gone, res, made, op, prof, todo, ads, crashes>>

\* Cancelling the context of a goroutine that has exited changes nothing.
CancelFire(c) ==
  /\ pc[c] = "fire"
  /\ gone' = [gone EXCEPT ![held[c]] = pc[held[c]] # "idle"]
  /\ registry' = [registry EXCEPT ![on[c]] = IF @ = held[c] THEN None ELSE @]
  /\ held' = [held EXCEPT ![c] = None]
  /\ Go(c, AfterCancel(c))
  /\ UNCHANGED <<rowVars, lock, cloud, on, res, made, op, prof, todo, ads, crashes>>

(* StartTask after cancelWorker: mark the row running, then Store a fresh  *)
(* handle and start its goroutine.  A failed update hands the lock back.   *)

BeginRun(c) ==
  /\ pc[c] = "begin"
  /\ SetStatus(on[c], "running")
  /\ Go(c, "spawn")
  /\ UNCHANGED <<profiles, lock, cloud, registry, on, gone, res, made, callVars, crashes>>

BeginRunFails(c) ==
  /\ pc[c] = "begin"
  /\ "dberr" \in Faults
  /\ ReleaseAccountLock(ProfileOf[on[c]])
  /\ Reply(c)
  /\ UNCHANGED <<rowVars, cloud, registry, crashes>>

\* A handle is a fresh pointer: no handler still holds it from an earlier life of the slot.
FreeSlot(w) == pc[w] = "idle" /\ \A c \in Calls : held[c] # w

Spawn(c, w) ==
  /\ pc[c] = "spawn"
  /\ FreeSlot(w)
  /\ registry' = [registry EXCEPT ![on[c]] = w]
  /\ pc' = [pc EXCEPT ![c] = "idle", ![w] = "boot"]
  /\ on' = [on EXCEPT ![c] = None, ![w] = on[c]]
  /\ op' = [op EXCEPT ![c] = "none"]
  /\ UNCHANGED <<rowVars, lock, cloud, gone, res, made, prof, todo, held, ads, crashes>>

(* StopTask after cancelWorker.  DeleteExistingTask then soft-deletes the  *)
(* row; DeleteProfile goes on with its next running task.                  *)

\* Mutant: the update of the running row is forgotten.
StopCreatingRow(t) == SetStatusIf(t, "creating", "stopped")

\* Two updates, "running" first.  A row can enter "running" but not "creating" in between, so
\* making both at the time of the first loses no behaviour.
StopRow(t) ==
  status' = [status EXCEPT ![t] = IF @ \in {"running", "creating"} THEN "stopped" ELSE @]

MarkStopped(c) ==
  /\ pc[c] = "mark"
  /\ StopRow(on[c])
  /\ \/ op[c] = "stop" /\ Reply(c)
     \/ /\ op[c] \in {"delete", "deleteProfile"}
        /\ Go(c, IF op[c] = "delete" THEN "erase" ELSE "next")
        /\ UNCHANGED <<on, gone, res, made, callVars>>
  /\ UNCHANGED <<profiles, lock, cloud, registry, crashes>>

EraseRow(c) ==
  /\ pc[c] = "erase"
  /\ SetStatus(on[c], "deleted")
  /\ Reply(c)
  /\ UNCHANGED <<profiles, lock, cloud, registry, crashes>>

StopRequest(c, t) ==
  /\ status[t] # "absent"
  /\ \E o \in {"stop", "delete"} : Serve(c, o, t, "load")
  /\ UNCHANGED <<rowVars, lock, cloud, registry, prof, todo, crashes>>

(* DeleteProfile: the running tasks of the profile, one StopTask each, then *)
(* the row of the profile.                                                  *)

TasksOf(p, s) == {t \in Tasks : ProfileOf[t] = p /\ status[t] = s}

DeleteProfileRequest(c, p) ==
  /\ p \in profiles
  /\ Serve(c, "deleteProfile", None, "next")
  /\ prof' = [prof EXCEPT ![c] = p]
  /\ todo' = [todo EXCEPT ![c] = TasksOf(p, "running")]
  /\ UNCHANGED <<rowVars, lock, cloud, registry, crashes>>

DeleteProfileNext(c, t) ==
  /\ pc[c] = "next"
  /\ t \in todo[c]
  /\ todo' = [todo EXCEPT ![c] = @ \ {t}]
  /\ on' = [on EXCEPT ![c] = t]
  /\ Go(c, "load")
  /\ UNCHANGED <<rowVars, lock, cloud, registry, gone, res, made, op, prof, held, ads, crashes>>

DeleteProfileRow(c) ==
  /\ pc[c] = "next"
  /\ todo[c] = {}
  /\ profiles' = profiles \ {prof[c]}
  /\ Reply(c)
  /\ UNCHANGED <<status, lock, cloud, registry, crashes>>

(* PanicLockdown: Range over the registry, cancelling each handle it is     *)
(* given and deleting the key (whatever handle it holds by then); one       *)
(* update stops every running row.                                          *)

LockdownRequest(c) ==
  /\ Serve(c, "panic", None, "range")
  /\ todo' = [todo EXCEPT ![c] = Tasks]
  /\ UNCHANGED <<rowVars, lock, cloud, registry, prof, crashes>>

LockdownVisit(c, t) ==
  /\ pc[c] = "range"
  /\ t \in todo[c]
  /\ todo' = [todo EXCEPT ![c] = @ \ {t}]
  /\ \/ /\ registry[t] = None
        /\ UNCHANGED <<pc, on, gone>>
     \/ /\ registry[t] # None
        /\ gone' = [gone EXCEPT ![registry[t]] = TRUE]
        /\ on' = [on EXCEPT ![c] = t]
        /\ Go(c, "rangeDelete")
  /\ UNCHANGED <<rowVars, lock, cloud, registry, res, made, op, prof, held, ads, crashes>>

\* Mutant: the key stays in the registry.
KeepKey(t) == UNCHANGED registry

DeleteKey(t) == registry' = [registry EXCEPT ![t] = None]

LockdownDelete(c) ==
  /\ pc[c] = "rangeDelete"
  /\ DeleteKey(on[c])
  /\ on' = [on EXCEPT ![c] = None]
  /\ Go(c, "range")
  /\ UNCHANGED <<rowVars, lock, cloud, gone, res, made, callVars, crashes>>

\* UPDATE ... WHERE status = 'running', over the rows of S.
StopRunning(S) ==
  status' = [t \in Tasks |-> IF t \in S /\ status[t] = "running" THEN "stopped" ELSE status[t]]

LockdownMark(c) ==
  /\ pc[c] = "range"
  /\ todo[c] = {}
  /\ StopRunning(Tasks)
  /\ Reply(c)
  /\ UNCHANGED <<profiles, lock, cloud, registry, crashes>>

\* The health check of an account pauses its tasks without touching the workers.
HealthPause(p) ==
  /\ "pause" \in Ops
  /\ p \in profiles
  /\ TasksOf(p, "running") # {}
  /\ StopRunning(TasksOf(p, "running"))
  /\ UNCHANGED <<profiles, lock, cloud, registry, actorVars, callVars, crashes>>

-----------------------------------------------------------------------------
(* StartExistingTask and CreateTask up to the zero-cost validation.         *)

StartRequest(c, t) ==
  /\ status[t] \in {"stopped", "failed", "running"}
  /\ Serve(c, "start", t, IF status[t] = "running" THEN "active" ELSE "acquire")
  /\ UNCHANGED <<rowVars, lock, cloud, registry, prof, todo, crashes>>

\* A running row is only started again when no worker is registered for it.
ActiveCheck(c) ==
  /\ pc[c] = "active"
  /\ \/ registry[on[c]] # None /\ Reply(c)
     \/ /\ registry[on[c]] = None
        /\ Go(c, "acquire")
        /\ UNCHANGED <<on, gone, res, made, callVars>>
  /\ UNCHANGED <<rowVars, lock, cloud, registry, crashes>>

\* A new task gets a fresh id: no other handler is creating it.
CreateRequest(c, t) ==
  /\ status[t] = "absent"
  /\ \A d \in Calls : on[d] # t
  /\ Serve(c, "create", t, "acquire")
  /\ UNCHANGED <<rowVars, lock, cloud, registry, prof, todo, crashes>>

\* The row of the profile, then the account lock with the handler's TTL.
HandlerLock(c) ==
  /\ pc[c] = "acquire"
  /\ ProfileOf[on[c]] \in profiles
  /\ AcquireAccountLock(ProfileOf[on[c]])
  /\ Go(c, "validate")
  /\ UNCHANGED <<rowVars, cloud, registry, on, gone, res, made, callVars, crashes>>

\* 404 without the profile, 409 when another profile holds the lock, 500 without Redis.
HandlerLockRefused(c) ==
  /\ pc[c] = "acquire"
  /\ \/ ProfileOf[on[c]] \notin profiles
     \/ lock \notin {None, ProfileOf[on[c]]}
     \/ "redis" \in Faults
  /\ Reply(c)
  /\ UNCHANGED <<rowVars, lock, cloud, registry, crashes>>

Validate(c) ==
  /\ pc[c] = "validate"
  /\ Go(c, IF op[c] = "create" THEN "insert" ELSE "load")
  /\ UNCHANGED <<rowVars, lock, cloud, registry, on, gone, res, made, callVars, crashes>>

\* ValidateFreeTierConstraint refuses the request, or cannot reach OCI (it fails closed).
ValidateRejects(c) ==
  /\ pc[c] = "validate"
  /\ ReleaseAccountLock(ProfileOf[on[c]])
  /\ Reply(c)
  /\ UNCHANGED <<rowVars, cloud, registry, crashes>>

(* The verdict on an attempt: an error seen on a cancelled context is a     *)
(* cancellation, and only some failures are worth another attempt.          *)

Verdict(a) == IF res[a] # "success" /\ gone[a] THEN "cancelled" ELSE res[a]

Retryable == {"capacity", "rateLimited", "transient"}

(* CreateTask: the row, the availability domains, the capacity report, one  *)
(* attempt per domain.                                                      *)

InsertRow(c) ==
  /\ pc[c] = "insert"
  /\ status' = [status EXCEPT ![on[c]] = "creating"]
  /\ ads' = [ads EXCEPT ![c] = NumADs]
  /\ Go(c, "cResolve")
  /\ UNCHANGED <<profiles, lock, cloud, registry, on, gone, res, made, op, prof, todo, held, crashes>>

\* Give up: the lock is released before the final status is written.
GiveUp(c, s) ==
  /\ res' = [res EXCEPT ![c] = s]
  /\ Go(c, "cRelease")

CreateResolve(c) ==
  /\ pc[c] = "cResolve"
  /\ \/ Go(c, "capacity") /\ UNCHANGED res
     \/ GiveUp(c, "failed")
  /\ UNCHANGED <<rowVars, lock, cloud, registry, on, gone, made, callVars, crashes>>

\* The report narrows the domains, finds none, or fails and is ignored.
CreateCapacity(c) ==
  /\ pc[c] = "capacity"
  /\ \/ /\ \E n \in 1 .. NumADs : ads' = [ads EXCEPT ![c] = n]
        /\ Go(c, "find")
        /\ UNCHANGED res
     \/ GiveUp(c, "stopped") /\ UNCHANGED ads
  /\ UNCHANGED <<rowVars, lock, cloud, registry, on, gone, made, op, prof, todo, held, crashes>>

\* Mutant: one domain too many.
DomainOffByOne(c) == ads[c] >= 0 /\ ads' = [ads EXCEPT ![c] = @ - 1]

\* Mutant: the loop stays on the same domain.
SameDomain(c) == ads[c] > 1 /\ UNCHANGED ads

NextDomain(c) == ads[c] > 1 /\ ads' = [ads EXCEPT ![c] = @ - 1]

CreateJudge(c) ==
  /\ pc[c] = "judge"
  /\ \/ Verdict(c) = "success" /\ Go(c, "cSuccess") /\ UNCHANGED <<res, ads>>
     \/ Verdict(c) = "fatal" /\ GiveUp(c, "failed") /\ UNCHANGED ads
     \/ /\ Verdict(c) \in Retryable
        /\ NextDomain(c)
        /\ res' = [res EXCEPT ![c] = "none"]
        /\ Go(c, "find")
     \/ /\ Verdict(c) = "cancelled" \/ (Verdict(c) \in Retryable /\ ads[c] <= 1)
        /\ GiveUp(c, "stopped")
        /\ UNCHANGED ads
  /\ UNCHANGED <<rowVars, lock, cloud, registry, on, gone, made, op, prof, todo, held, crashes>>

CreateSuccess(c) ==
  /\ pc[c] = "cSuccess"
  /\ SetStatus(on[c], "success")
  /\ Go(c, "cUnlock")
  /\ UNCHANGED <<profiles, lock, cloud, registry, on, gone, res, made, callVars, crashes>>

CreateUnlock(c) ==
  /\ pc[c] = "cUnlock"
  /\ ReleaseAccountLock(ProfileOf[on[c]])
  /\ Reply(c)
  /\ UNCHANGED <<rowVars, cloud, registry, crashes>>

CreateRelease(c) ==
  /\ pc[c] = "cRelease"
  /\ ReleaseAccountLock(ProfileOf[on[c]])
  /\ Go(c, "cFinal")
  /\ UNCHANGED <<rowVars, cloud, registry, on, gone, res, made, callVars, crashes>>

\* Mutant: an early return forgets the final write.
CreateNoFinal(c) ==
  /\ pc[c] = "cFinal"
  /\ Reply(c)
  /\ UNCHANGED <<rowVars, lock, cloud, registry, crashes>>

CreateFinal(c) ==
  /\ pc[c] = "cFinal"
  /\ SetStatus(on[c], res[c])
  /\ Reply(c)
  /\ UNCHANGED <<profiles, lock, cloud, registry, crashes>>

CreateTimeout(c) ==
  /\ "timeout" \in Faults
  /\ pc[c] \in AttemptPCs \cup {"cResolve", "capacity"}
  /\ gone' = [gone EXCEPT ![c] = TRUE]
  /\ UNCHANGED <<rowVars, lock, cloud, registry, pc, on, res, made, callVars, crashes>>

\* The deferred recover of CreateTask: release the lock, then write "stopped".
CreatePanics(c) ==
  /\ "panic" \in Faults
  /\ pc[c] \in {"cResolve", "capacity", "find", "launch", "confirm"}
  /\ GiveUp(c, "stopped")
  /\ UNCHANGED <<rowVars, lock, cloud, registry, on, gone, made, callVars, crashes>>

-----------------------------------------------------------------------------
(* AttemptLaunch, run by a worker or by CreateTask.                         *)

AttemptEnds(a, r) ==
  /\ res' = [res EXCEPT ![a] = r]
  /\ Go(a, "judge")

\* Mutant: no lookup by name.
AlwaysMisses(t) == TRUE

\* The lookup by name finds nothing.  A listing that fails counts as "no such instance".
MayMiss(t) == cloud[t] = 0 \/ "list" \in Faults

\* The lookup before the launch.
FindExisting(a) ==
  /\ pc[a] = "find"
  /\ \/ /\ ~gone[a] /\ cloud[on[a]] > 0
        /\ AttemptEnds(a, "success")
     \/ /\ gone[a]
        /\ AttemptEnds(a, "cancelled")
     \/ /\ ~gone[a] /\ MayMiss(on[a])
        /\ Go(a, "launch")
        /\ UNCHANGED res
  /\ UNCHANGED <<rowVars, lock, cloud, registry, on, gone, made, callVars, crashes>>

\* LaunchInstance creates the instance.  The response arrives (of the first request or of a
\* retry with its token), every response is lost, or the first is lost and the retry gets a
\* definite answer (429, out of capacity, 4xx), which outcomeUnknown takes for the whole call.
LaunchCreates(a) ==
  /\ pc[a] = "launch"
  /\ cloud' = [cloud EXCEPT ![on[a]] = IF @ = 0 THEN 1 ELSE 2]
  /\ made' = [made EXCEPT ![a] = TRUE]
  /\ \/ /\ Go(a, "judge")
        /\ res' = [res EXCEPT ![a] = "success"]
     \/ /\ "refused" \in Faults
        /\ \E r \in Retryable \cup {"fatal"} : res' = [res EXCEPT ![a] = r]
        /\ Go(a, "judge")
     \/ /\ gone[a] \/ "lost" \in Faults
        /\ Go(a, "confirm")
        /\ UNCHANGED res
  /\ UNCHANGED <<rowVars, lock, registry, on, gone, callVars, crashes>>

\* A definite refusal, or an error that leaves the outcome unknown (no instance, though).
LaunchRefused(a) ==
  /\ pc[a] = "launch"
  /\ \/ /\ \E r \in Retryable \cup {"fatal"} : res' = [res EXCEPT ![a] = r]
        /\ Go(a, "judge")
     \/ /\ gone[a] \/ "lost" \in Faults
        /\ Go(a, "confirm")
        /\ UNCHANGED res
  /\ UNCHANGED <<rowVars, lock, cloud, registry, on, gone, made, callVars, crashes>>

\* Mutant: the lookup runs on the attempt's own context, so a cancellation makes it fail.
ConfirmOnOwnContext(a) ==
  /\ pc[a] = "confirm"
  /\ Go(a, "judge")
  /\ \/ /\ cloud[on[a]] > 0 /\ ~gone[a]
        /\ res' = [res EXCEPT ![a] = "success"]
     \/ /\ cloud[on[a]] = 0 \/ gone[a]
        /\ res' = [res EXCEPT ![a] = "transient"]
  /\ UNCHANGED <<rowVars, lock, cloud, registry, on, gone, made, callVars, crashes>>

\* After an unknown outcome the instance is looked up by name on a context of its own.
ConfirmLaunched(a) ==
  /\ pc[a] = "confirm"
  /\ Go(a, "judge")
  /\ \/ /\ cloud[on[a]] > 0
        /\ res' = [res EXCEPT ![a] = "success"]
     \/ /\ MayMiss(on[a])
        /\ \E r \in {"transient", "fatal"} : res' = [res EXCEPT ![a] = r]
  /\ UNCHANGED <<rowVars, lock, cloud, registry, on, gone, made, callVars, crashes>>

-----------------------------------------------------------------------------
(* RunTaskWorker and the goroutine StartTask wraps around it.               *)

\* setTaskStatus is one later access: what it will write is kept in res.
Decide(w, s) ==
  /\ res' = [res EXCEPT ![w] = s]
  /\ Go(w, "write")

\* The row, the profile, and the availability domains from OCI.
Boot(w) ==
  /\ pc[w] = "boot"
  /\ IF status[on[w]] \in Missing THEN Go(w, "exit") /\ UNCHANGED res
     ELSE IF ProfileOf[on[w]] \notin profiles THEN Go(w, "bootFail") /\ UNCHANGED res
     ELSE \/ Go(w, "top") /\ UNCHANGED res
          \/ gone[w] /\ Go(w, "count") /\ UNCHANGED res
          \/ ~gone[w] /\ Decide(w, "failed")
  /\ UNCHANGED <<rowVars, lock, cloud, registry, on, gone, made, callVars, crashes>>

\* The deferred release is not registered yet: the worker exits without it.
BootFail(w) ==
  /\ pc[w] = "bootFail"
  /\ SetStatus(on[w], "failed")
  /\ Go(w, "exit")
  /\ UNCHANGED <<profiles, lock, cloud, registry, on, gone, res, made, callVars, crashes>>

\* Mutant: the row is not read again, only the context ends the loop.
LeaveOnContext(w) == gone[w]

\* Cancelled, or the row no longer says "running".
MustLeave(w) == gone[w] \/ status[on[w]] # "running"

\* Head of the loop: context, row, profile, deadline (which passes at some point).
LoopTop(w) ==
  /\ pc[w] = "top"
  /\ \/ /\ MustLeave(w)
        /\ Go(w, "count")
        /\ UNCHANGED res
     \/ /\ ~MustLeave(w)
        /\ \/ ProfileOf[on[w]] \notin profiles /\ Decide(w, "failed")
           \/ ProfileOf[on[w]] \in profiles /\ Decide(w, "stopped")
           \/ ProfileOf[on[w]] \in profiles /\ Go(w, "gate") /\ UNCHANGED res
  /\ UNCHANGED <<rowVars, lock, cloud, registry, on, gone, made, callVars, crashes>>

\* The capacity report and the daily cap: attempt now, or sleep and come back.
Probe(w) ==
  \/ Go(w, "find")
  \/ Go(w, "top")
  \/ gone[w] /\ Go(w, "count")

\* Take or refresh the lock; wait when another profile has it; go on without it on an error.
WorkerLock(w) ==
  /\ pc[w] = "gate"
  /\ \/ AcquireAccountLock(ProfileOf[on[w]]) /\ Probe(w)
     \/ /\ lock \notin {None, ProfileOf[on[w]]}
        /\ Go(w, "top")
        /\ UNCHANGED lock
     \/ /\ gone[w] \/ "redis" \in Faults
        /\ Probe(w)
        /\ UNCHANGED lock
  /\ UNCHANGED <<rowVars, cloud, registry, on, gone, res, made, callVars, crashes>>

\* Success and fatal errors end the task, and so does the task's own budget of attempts.
WorkerJudge(w) ==
  /\ pc[w] = "judge"
  /\ \/ Verdict(w) = "success" /\ Decide(w, "success")
     \/ Verdict(w) = "fatal" /\ Decide(w, "failed")
     \/ Verdict(w) \in Retryable /\ Decide(w, "stopped")
     \/ /\ Verdict(w) \in Retryable \cup {"cancelled"}
        /\ Go(w, IF Verdict(w) = "cancelled" THEN "count" ELSE "top")
        /\ res' = [res EXCEPT ![w] = "none"]
  /\ UNCHANGED <<rowVars, lock, cloud, registry, on, gone, made, callVars, crashes>>

WorkerWrite(w) ==
  /\ pc[w] = "write"
  /\ SetStatus(on[w], res[w])
  /\ Go(w, "count")
  /\ res' = [res EXCEPT ![w] = "none"]
  /\ UNCHANGED <<profiles, lock, cloud, registry, on, gone, made, callVars, crashes>>

\* Deferred: the last running task of the profile hands the lock back.
CountOthers(w) ==
  /\ pc[w] = "count"
  /\ Go(w, IF TasksOf(ProfileOf[on[w]], "running") \subseteq {on[w]} THEN "unlock" ELSE "exit")
  /\ UNCHANGED <<rowVars, lock, cloud, registry, on, gone, res, made, callVars, crashes>>

WorkerUnlock(w) ==
  /\ pc[w] = "unlock"
  /\ ReleaseAccountLock(ProfileOf[on[w]])
  /\ Go(w, "exit")
  /\ UNCHANGED <<rowVars, cloud, registry, on, gone, res, made, callVars, crashes>>

\* The goroutine is gone; its slot is as good as new.
Vacate(w) ==
  /\ pc' = [pc EXCEPT ![w] = "idle"]
  /\ on' = [on EXCEPT ![w] = None]
  /\ gone' = [gone EXCEPT ![w] = FALSE]
  /\ res' = [res EXCEPT ![w] = "none"]
  /\ made' = [made EXCEPT ![w] = FALSE]

\* Mutant: the goroutine leaves its handle in the registry.
KeepHandle(w) == UNCHANGED registry

\* Mutant: Delete in place of CompareAndDelete.
DeleteAnyHandle(w) == registry' = [registry EXCEPT ![on[w]] = None]

\* CompareAndDelete of the goroutine's own handle.
Deregister(w) == registry' = [registry EXCEPT ![on[w]] = IF @ = w THEN None ELSE @]

\* Deferred, before the recover: a goroutine that panicked still has its row to write.
WorkerExit(w) ==
  /\ pc[w] = "exit"
  /\ Deregister(w)
  /\ \/ res[w] = "panic" /\ Go(w, "recover") /\ UNCHANGED <<on, gone, res, made>>
     \/ res[w] # "panic" /\ Vacate(w)
  /\ UNCHANGED <<rowVars, lock, cloud, callVars, crashes>>

Recover(w) ==
  /\ pc[w] = "recover"
  /\ SetStatusIf(on[w], "running", "failed")
  /\ Vacate(w)
  /\ UNCHANGED <<profiles, lock, cloud, registry, callVars, crashes>>

\* A panic runs the deferred calls on its way to the recover above.
WorkerPanics(w) ==
  /\ "panic" \in Faults
  /\ pc[w] \in {"gate", "find", "launch", "confirm"}
  /\ res' = [res EXCEPT ![w] = "panic"]
  /\ Go(w, "count")
  /\ UNCHANGED <<rowVars, lock, cloud, registry, on, gone, made, callVars, crashes>>

-----------------------------------------------------------------------------
(* The process and its environment.                                         *)

\* A crash kills every goroutine; the next start of the process resumes the running rows
\* before it serves requests.  The lock stays in Redis.
Restart ==
  LET running == {t \in Tasks : status[t] = "running"}
  IN /\ crashes < MaxCrashes
     /\ crashes' = crashes + 1
     /\ status' = [t \in Tasks |-> IF status[t] = "creating" THEN "stopped" ELSE status[t]]
     /\ \E f \in [running -> Workers] :
          /\ \A s, t \in running : f[s] = f[t] => s = t
          /\ registry' = [t \in Tasks |-> IF t \in running THEN f[t] ELSE None]
          /\ pc' = [a \in Actors |-> IF \E t \in running : f[t] = a THEN "boot" ELSE "idle"]
          /\ on' = [a \in Actors |-> IF \E t \in running : f[t] = a
                                     THEN CHOOSE t \in running : f[t] = a ELSE None]
     /\ gone' = [a \in Actors |-> FALSE]
     /\ res' = [a \in Actors |-> "none"]
     /\ made' = [a \in Actors |-> FALSE]
     /\ op' = [c \in Calls |-> "none"]
     /\ prof' = [c \in Calls |-> None]
     /\ todo' = [c \in Calls |-> {}]
     /\ held' = [c \in Calls |-> None]
     /\ ads' = [c \in Calls |-> 0]
     /\ UNCHANGED <<profiles, lock, cloud>>

\* The key's PX time runs out.  The model has no clock: with "expiry" this may happen any time.
LockExpires ==
  /\ "expiry" \in Faults
  /\ lock # None
  /\ lock' = None
  /\ UNCHANGED <<rowVars, cloud, registry, actorVars, callVars, crashes>>

Attempt(a) ==
  FindExisting(a) \/ LaunchCreates(a) \/ LaunchRefused(a) \/ ConfirmLaunched(a)

HandlerStep(c) ==
  \/ CancelLoad(c) \/ CancelFire(c)
  \/ BeginRun(c) \/ BeginRunFails(c) \/ \E w \in Workers : Spawn(c, w)
  \/ MarkStopped(c) \/ EraseRow(c)
  \/ \E t \in Tasks : DeleteProfileNext(c, t)
  \/ DeleteProfileRow(c)
  \/ \E t \in Tasks : LockdownVisit(c, t)
  \/ LockdownDelete(c) \/ LockdownMark(c)
  \/ ActiveCheck(c) \/ HandlerLock(c) \/ HandlerLockRefused(c) \/ Validate(c) \/ ValidateRejects(c)
  \/ InsertRow(c) \/ CreateResolve(c) \/ CreateCapacity(c) \/ Attempt(c) \/ CreateJudge(c)
  \/ CreateSuccess(c) \/ CreateUnlock(c) \/ CreateRelease(c) \/ CreateFinal(c)

WorkerStep(w) ==
  \/ Boot(w) \/ BootFail(w) \/ LoopTop(w) \/ WorkerLock(w)
  \/ Attempt(w) \/ WorkerJudge(w) \/ WorkerWrite(w)
  \/ CountOthers(w) \/ WorkerUnlock(w) \/ WorkerExit(w) \/ Recover(w)

Request(c) ==
  \/ \E t \in Tasks : StopRequest(c, t) \/ StartRequest(c, t) \/ CreateRequest(c, t)
  \/ \E p \in Profiles : DeleteProfileRequest(c, p)
  \/ LockdownRequest(c)

Environment ==
  \/ \E c \in Calls : Request(c) \/ CreateTimeout(c) \/ CreatePanics(c)
  \/ \E w \in Workers : WorkerPanics(w)
  \/ \E p \in Profiles : HealthPause(p)
  \/ Restart
  \/ LockExpires

Next ==
  \/ \E c \in Calls : HandlerStep(c)
  \/ \E w \in Workers : WorkerStep(w)
  \/ Environment

Spec == Init /\ [][Next]_vars

\* The Go scheduler runs every goroutine that can run; nobody has to send a request.
Fairness ==
  /\ \A c \in Calls : WF_vars(HandlerStep(c))
  /\ \A w \in Workers : WF_vars(WorkerStep(w))

FairSpec == Spec /\ Fairness

-----------------------------------------------------------------------------
(* Correctness.                                                             *)

Live(w, t) == on[w] = t /\ pc[w] # "idle"

\* Every variable keeps its type.
TypeOK ==
  /\ status \in [Tasks -> Statuses]
  /\ profiles \subseteq Profiles
  /\ lock \in Profiles \cup {None}
  /\ cloud \in [Tasks -> 0 .. 2]
  /\ registry \in [Tasks -> Workers \cup {None}]
  /\ pc \in [Actors -> PCs]
  /\ on \in [Actors -> Tasks \cup {None}]
  /\ gone \in [Actors -> BOOLEAN]
  /\ res \in [Actors -> Results]
  /\ made \in [Actors -> BOOLEAN]
  /\ op \in [Calls -> AllOps \cup {"none"}]
  /\ prof \in [Calls -> Profiles \cup {None}]
  /\ todo \in [Calls -> SUBSET Tasks]
  /\ held \in [Calls -> Workers \cup {None}]
  /\ ads \in [Calls -> 0 .. NumADs]
  /\ crashes \in 0 .. MaxCrashes

\* The worker will look at the row again or write it: it can still serve a running task.
Serving(w, t) ==
  /\ on[w] = t
  /\ \/ ~gone[w] /\ pc[w] \in WorkerLoopPCs
     \/ res[w] = "panic" /\ pc[w] \in WorkerExitPCs

\* The handler is about to give the task a worker, or to take it out of "running".
Settling(c, t) ==
  \/ on[c] = t /\ pc[c] \in {"begin", "spawn", "mark"}
  \/ op[c] = "panic" /\ pc[c] \in {"range", "rangeDelete"}

\* A queued task is never abandoned: while its row says "running" some goroutine works on it
\* or a handler is in the middle of replacing or stopping that goroutine, whatever the order
\* in which start, stop, delete, lockdown, health check and restart interleave with the
\* workers' own exits (scheduler.go, StartTask/StopTask/PanicLockdown).  It is conditional on
\* the status update of StartTask, which cancels the old worker before it can fail.
NoAbandonedTask ==
  "dberr" \notin Faults =>
    \A t \in Tasks : status[t] = "running" =>
      (\E w \in Workers : Serving(w, t)) \/ (\E c \in Calls : Settling(c, t))

\* "Whatever happens below (panic included), the record must not stay creating"
\* (CreateTask): only a create flow that is still in flight leaves its row there.
CreatingHasFlow ==
  \A t \in Tasks : status[t] = "creating" =>
    \E c \in Calls : op[c] = "create" /\ on[c] = t /\ pc[c] \in CreateFlowPCs

\* The registry names a goroutine of that task that has not exited, and its context is not
\* cancelled unless the lockdown is about to delete the entry: a task never looks "already
\* queued" to StartExistingTask because of a dead or dying worker.
RegisteredIsLive ==
  \A t \in Tasks : registry[t] # None =>
    /\ Live(registry[t], t) /\ pc[registry[t]] # "recover"
    /\ gone[registry[t]] => \E c \in Calls : pc[c] = "rangeDelete" /\ on[c] = t

\* "A lost response never turns a created instance into a failure" (confirmLaunchedInstance):
\* the attempt whose own request created the instance is judged a success, also when the
\* context was cancelled or timed out during the call.  Needs lookups that answer, and no
\* refusal of the retry inside the call, which LaunchCall looks into.
NoLostInstance ==
  {"list", "refused"} \cap Faults = {} =>
    \A a \in Actors : made[a] /\ pc[a] = "judge" => res[a] = "success"

\* No task creates a second instance, across crashes and lost responses.
AtMostOneInstance == \A t \in Tasks : cloud[t] <= 1

\* A goroutine that is not cancelled can be reached through the registry, so a stop or a
\* restart of the task cancels it.
Stoppable ==
  \A w \in Workers, t \in Tasks :
    on[w] = t /\ pc[w] \in WorkerLoopPCs /\ ~gone[w] => registry[t] = w

\* A worker whose task is no longer running exits (unless the task is started again),
\* also when nothing can cancel it any more.
StoppedWorkerExits ==
  \A w \in Workers, t \in Tasks :
    (Live(w, t) /\ status[t] # "running") ~> (~Live(w, t) \/ status[t] = "running")

\* CreateTask always ends: the row leaves "creating".
CreateSettles ==
  \A t \in Tasks : status[t] = "creating" ~> status[t] # "creating"

\* "That is the success criterion, nothing after it changes the status" (SuccessFields): a task
\* recorded as created is not turned into a failed or stopped one.
SuccessIsFinal ==
  [][\A t \in Tasks : status[t] = "success" => status'[t] \notin {"failed", "stopped"}]_vars

\* "StopTask cancels the worker": once every request has been answered, a goroutine that could
\* still launch is registered, so that the next StopTask finds it.
StopReachesWorkers == (\A c \in Calls : pc[c] = "idle") => Stoppable

\* AcquireAccountLock "enforces the one OCI account operated at a time rule": launches for two
\* profiles never overlap.
OneAccountAtATime ==
  \A a, b \in Actors :
    pc[a] \in {"find", "launch", "confirm"} /\ pc[b] \in {"find", "launch", "confirm"}
      => ProfileOf[on[a]] = ProfileOf[on[b]]

\* "All tasks have been stopped" (answer of the lockdown): nothing is left running or creating
\* when PanicLockdown returns.
LockdownStopsAll ==
  [][\A c \in Calls : op[c] = "panic" /\ op'[c] = "none" =>
       \A t \in Tasks : status'[t] \notin {"running", "creating"}]_vars

=============================================================================
