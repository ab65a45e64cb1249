# Verification of the OCI launch panel

This directory holds TLA+ models of the panel's backend (`src/backend`), the TLC
configurations that check them and proofs that TLAPS checks. Paths below are relative to
`src/backend/internal/` unless they start with `src/`.

- [1. The system](#1-the-system): inventory of components, state, interactions
- [2. Modules](#2-modules): what each one models and how it corresponds to the code
- [3. Runs](#3-runs): what TLC checks, the bounds, the fairness
- [4. Proofs](#4-proofs): what is proved, from what, along which argument
- [5. Disagreements with the documentation](#5-disagreements-with-the-documentation)
- [6. Not modelled](#6-not-modelled)
- [7. Plan](#7-plan)

## 1. The system

The panel manages Oracle Cloud (OCI) accounts ("profiles"). Its core is the queue of launch
tasks: a task asks for an instance that the account may not get for days, and a goroutine per
task keeps trying without ever leaving the free tier.

| component | state it keeps | operations | interacts with |
|---|---|---|---|
| scheduler `engine/scheduler.go` | `activeTasks`: task id -> handle (a cancel function) | StartTask, StopTask, PanicLockdown, ResumeAllRunningTasks, IsTaskActive | launch_tasks rows, worker goroutines |
| worker `engine/worker.go` | locals: deadline, launches, launchesToday, dayKey, backoff, domain index | RunTaskWorker, AttemptLaunch, FinalizeSuccess | rows, Redis lock, OCI |
| task handlers `api/handlers_task.go` | none | create, start, stop, delete, list | rows, lock, free-tier guard, scheduler, AttemptLaunch |
| account lock `cache/redis.go` | one Redis key: profile id with a TTL | acquire-or-refresh, compare-and-delete | handlers, workers |
| launch call `oci/instance.go`, `engine/classifier.go` | none | LaunchInstance with retries under one token, ClassifyError | OCI |
| free-tier guard `oci/quota.go`, `oci/capacity.go` | detected account type of the profile | ValidateFreeTierConstraint, quota summary, capacity report | OCI listings, handlers |
| health check `oci/health.go` | profile health columns | pauses the tasks of a failing account | rows |
| profiles `api/handlers_profile.go`, `oci/client.go` | profile rows, cache of decrypted keys | import, update, delete | scheduler (delete stops tasks) |
| sessions `auth/auth.go`, `api/handlers_auth.go` | users.token_version; Redis: used codes, failures, blacklists | login in two steps, renewal, logout, lockdown | scheduler (lockdown) |
| security rules `oci/network.go`, `oci/nsg.go`, `oci/nsg_bulk.go` | in OCI: rule lists, NSGs | read-modify-write of rules, create and attach NSGs | OCI |
| public address `oci/instance.go` | in OCI | RotatePublicIP, AttachIPv6 | OCI |
| SSH keys `api/handlers_sshkeys.go` | ssh_keys rows, profile default | create, delete, set default | rows |
| live logs `api/ws_logger.go` | counter of open sockets | open, close | Redis pub/sub |
| storage `storage/` | launch_tasks(status, soft delete), oci_profiles, users, ssh_keys | | everything |
| reports, notification, encryption, frontend, deployment | no control state of interest | | |

A row's `status` goes `absent -> creating -> success | failed | stopped` in CreateTask and
`stopped | failed -> running -> success | failed | stopped` in the queue. Nothing guards these
writes: most updates are by id alone, so the correctness of the whole rests on who is still
running. What is hard:

- **Interleaving.** Handlers and workers share the rows, the registry and the lock; every
  access is atomic and no sequence of them is. StartTask is cancel, update, store, spawn; a
  worker's exit is count, release, compare-and-delete; the lockdown is a Range with a Delete
  per entry and one bulk update.
- **Failure.** The process restarts (rows survive, goroutines and counters do not), goroutines
  panic, Redis or OCI do not answer, a launch response is lost after the instance was created,
  the 70 s budget of CreateTask ends at any point.
- **Ordering.** A worker that has been replaced still writes its verdict; a lookup by name may
  lag behind the launch.
- **Time.** The lock has a TTL, the cap is per calendar day, the deadline counts from the
  creation of the row.

`PROJECT.json` lists each hazard at its line with the properties aimed at it.

What makes each component correct:

- scheduler and worker: a running row is being served; a stopped one is left alone, and soon;
  nobody launches twice; nothing is created and then reported as a failure;
- CreateTask: always ends, and the row never stays `creating`;
- lock: one account at a time; released only when its profile is done;
- budgets: cap per day, MaxRetries, deadline;
- launch call: success with an instance, failure without one, never a second one in sight;
- free-tier guard: what has been validated, together with what runs, fits the allowance;
- network set-up: complete, or with a warning for what is missing;
- rules and groups: no lost edit, no rule twice, no group left behind;
- addresses: none is lost behind a success;
- accounts and keys: a name, a key and a default that still belong together after imports and
  deletions that overlap;
- sessions: what is revoked stays out, what is used stays in; counters and bans hold;
- log sockets: every place is given back.

## 2. Modules

### Scheduler

`Scheduler.tla` models the engine with every goroutine that touches it. An *actor* is a worker
goroutine (a slot `w \in Workers`, which is also its handle in the registry) or an HTTP handler
(a slot `c \in Calls`). One action is one access to shared state; `pc[a]` names the next access
of actor `a`.

| variables | code |
|---|---|
| `status`, `profiles` | launch_tasks.status (plus `absent` and `deleted`), existing profile rows |
| `registry` | `activeTasks` (`None`: no key) |
| `lock` | the Redis account lock |
| `cloud` | OCI instances under the task's display name, saturated at 2 |
| `pc`, `on`, `gone`, `res`, `made` | where an actor is, its task, its context's cancellation, the outcome of its attempt (later the status it is going to write), whether its own request created an instance |
| `op`, `prof`, `todo`, `held`, `ads` | the handler's operation, DeleteProfile's profile, the loop's remaining tasks, the handle loaded by cancelWorker, CreateTask's remaining domains |

| actions | code |
|---|---|
| CancelLoad, CancelFire | cancelWorker |
| BeginRun, BeginRunFails, Spawn | StartTask |
| MarkStopped, EraseRow, StopRequest | StopTask, StopExistingTask, DeleteExistingTask |
| DeleteProfile* | DeleteProfile: StopTask for each running task, then the row |
| Lockdown* | PanicLockdown: Range, Delete per entry, bulk update |
| HealthPause | the health check's pause, which cancels nothing |
| StartRequest ... ValidateRejects | StartExistingTask and CreateTask up to the free-tier validation |
| InsertRow ... CreateFinal, CreateTimeout, CreatePanics | CreateTask: domains, attempts, success, deferred final update |
| FindExisting, LaunchCreates, LaunchRefused, ConfirmLaunched | AttemptLaunch, for workers and handlers alike |
| Boot ... WorkerUnlock | RunTaskWorker |
| WorkerExit, Recover, WorkerPanics | the goroutine around it: CompareAndDelete, recover |
| Restart, LockExpires | resume at start-up; the lock's TTL |

`Ops` and `Faults` say which requests and which failures an instance explores; the theorems hold
for every choice of them.

Abstractions. What is merged into one step commutes with everything else or is argued here:

- the cancel of a context and the CompareAndDelete that follows it are one step: between them
  other actors can only observe a registered, cancelled worker, which `PanicLockdown` makes
  observable anyway;
- StopTask updates `running` and then `creating` rows; a row can enter `running`, not
  `creating`, in between, so both at the time of the first loses no behaviour;
- the reads at the start of a worker (row, profile, domains) are one step;
- attempt rows, log lines, messages, retry counters and FinalizeSuccess (which looks up
  addresses and never writes the status) are left out;
- the TTL of the lock has no clock: with the fault `expiry` it may end at any time;
- LaunchInstance with its in-call retries is one step: the instance is created or not, and the
  answer is a success, a definite failure or unknown. With the fault `refused` the retry that
  follows a lost response may be refused although the first request created the instance.
  `LaunchCall` takes this step apart;
- users deleting instances in the console, and database errors other than StartTask's, are not
  modelled; neither is the sweep of stale `creating` rows in ListTasks
  (`api/handlers_task.go:93-101`): a flow is over long before the three minutes it waits, so it
  acts only on a row whose last write failed.

### WorkerLoop

`WorkerLoop.tla` is RunTaskWorker again with what `Scheduler` abstracts: the calendar, the
counters, the deadline. A task is served by one run (`r \in Runs`) after another; a run begins
with StartExistingTask (`Queue`) or with the resume after a restart (`Resume`), and starts from
zeroed counters, like the local variables it models. `day` and `part` are the clock. `calls`,
`real` and `late` tally the LaunchInstance calls of a run: those of the current day, all of
them, and those since the row left `running`. Requests are single steps here, since `Scheduler` has their interleavings; the choice
of the domain, the reports' text and the length of the waits (and with it the back-off after
429, which only changes that length) are abstracted: a wait may end at any time.

### LaunchPromise and LaunchCall

`LaunchPromise.tla` is the abstract specification of what the panel says about launching a task:
at most one instance, `success` only with one, `failed` only without. `LaunchCall.tla` is the
code that keeps it: workers of one task, each attempt a lookup by name, up to three requests
under one retry token (`launchRetryPolicy`), the confirmation of an unknown outcome and the
recorded status, with a cloud that creates the instance before, after or without its answer.
Answers are classes: `ShouldRetry`, `OutcomeUnknown` and `Category` are the code's three tables
over them. `Scheduler` has one attempt as a single step with these outcomes; here the attempt is
taken apart, and so is what the loop does with the row. The row is read at the top of a round; the
context is looked at once after the call (`CheckContext`, `engine/worker.go:263`); then the row is
written by its id, whatever has become of it (`RecordSuccess`, `RecordFailure`). A worker that is
stopped and replaced in between writes over its successor, which is what `viol_success` shows in
`Scheduler`. A start is two steps, the look at the row and the queueing; starts come one at a time
here and overlap in `Scheduler`. A panic of the goroutine is in `Scheduler` only.

`excuse` records what the code cannot see through, so that the properties say exactly when the
promise may be broken. *NoSecondInstance* gives way to *blind* only: a lookup missed an instance,
OCI created it after the call had returned, or two workers called at once. *KeepsPromise* gives way
to three more, which spoil the report and never make a second instance:

- *masked*: a refusal of a retry hid that an earlier request got through;
- *unlooked*: the worker ends the task without a lookup (`GiveUp`: the domains cannot be listed, the
  account is gone, the deadline is past) while an instance exists or another worker may be making
  one;
- *stale*: a start queued a row that had become `success` since the start read it, or replaced a
  worker that had looked at context and row for the last time and was about to write its failure.

| action | code |
|---|---|
| AskStart, Begin | a start's check of the row; StartTask and resume |
| StopTask, CrashEngine | StopTask, the end of the process |
| ResolveADs, ReadRow, NotQueued, GiveUp | the domains, once; the top of a round and its ends without an attempt |
| FindExisting | findExistingInstance before a call |
| Send, SendFails, Receive | LaunchInstance, launchRetryPolicy, ClassifyError |
| Confirm | confirmLaunchedInstance |
| Quit, CheckContext | the returns on a cancelled context; the look at it after the call |
| RecordSuccess, RecordFailure | the loop's switch; `EndsTask` says which verdicts write the row |
| Create, Vanish | OCI (external): a token is served once |

### VcnSetup, PublicIp, FreeTier

One action per OCI call; each call is done, refused, or done with its answer lost.

- `VcnSetup`: CreateRecommendedVCN with its retreat to IPv4 for the VCN, the route and the subnet,
  and the warnings of the handler.
- `PublicIp`: RotatePublicIP and AttachIPv6ToInstance on an instance with two VNICs; both go through
  `primaryVnic`, whose fallback picks the secondary VNIC when GetVnic fails for the primary one. OCI
  gives an IPv4 address up some time after it was told to. IPv6 addresses are counted per VNIC (`v6`);
  `v6Overlap` notes two requests about to allocate on one VNIC, `v6Astray` one that took the fallback.
- `FreeTier`: ValidateFreeTierConstraint from the home region to the verdict, with the account's
  type by subscription, limit and override, the cached list of compartments and the two
  goroutines that sum up usage; against launches, resizes, terminations and a compartment
  somebody adds. `blind` is set where usage passes the guard by, and says in which cases.

### Sessions and LoginGuard

`Sessions` has every token that was issued, the blacklist, the token version and one browser that
holds a cookie. A request is `Arrive` (JWT and blacklist), `Load` (user row, version, renewal) and
its handler: `Use`, `Logout`, `BumpVersion` (password change or lockdown, which write a version
computed from the row they loaded), `LoginIssue`. `bumpLost` marks a bump that was overwritten by
an overlapping one.

`LoginGuard` is what one address may try: counters, bans, temporary tokens and one-time codes,
each a Redis key with its own expiry; every Redis command is one step, requests overlap, and an
administrator may lift the ban. Its unit of time is the failure window (30 min); a request is over
before the clock moves.

Both have the failures of Redis, for which a stopped Redis is not needed: the commands run on the
context of the request, and a client that hangs up cancels them. A failed command took effect or
did not. What the code makes of it:

| call | failed | in the model |
|---|---|---|
| IsJTIBlacklisted, IsIPBlacklisted | counts as "no" (`cache/redis.go:118,235`) | `Arrive`, `SendCode` let a revoked or consumed token in; `LetIn` a banned address, noted in `slips` |
| BlacklistJTI of a logout | discarded (`api/handlers_auth.go:238`) | `Logout` may leave the blacklist as it is |
| BlacklistJTI of a temporary token | discarded (`api/handlers_auth.go:191,206`) | `Consume` may leave the token, noted in `passedOver` |
| BlacklistIP | discarded (`cache/redis.go:174,177,206`) | `MissBan`, noted in `open` until the counter ends or a later ban is written |
| RecordLoginFailure, RecordTOTPFailure | the handler answers "wrong" | `CountNothing`, or counted and no more done |
| CheckAndSetTOTPUsed | counts as used | `SpendCode` refuses, whether the key was written or not |
| ResetLoginFailures | discarded | `ResetFailures` may do nothing |
| token version (a database update) | discarded | `BumpVersion` may write nothing, and then revokes nothing |

`GuardCrash` ends the process between any two commands: a count may have been taken and its ban or
its consumed token never written. `good` and `unseen` of a request in `Sessions` say how its token
stood when it came in. A revoked token that was let in unseen may be renewed, and the renewed token
is on no blacklist.

### SecurityList and InstanceFirewall

`SecurityList`: an edit reads the list (`ReadList`) and later writes a whole direction
(`UpdateSecurityList`), with no ETag. `ledger` is what the edits add up to; an edit that was
overlapped (`stale`) resets it to what it wrote, so that `NoLostEdit` says an edit is lost only to
one that read the list before. A rule is its `ruleKey` and a variant the key does not see.

`InstanceFirewall`: EnsureInstanceNSG, the batched rules of nsg_bulk.go, the rule-wise edits and
RemoveInstanceNSG, for requests of the page and the worker that opens the ports of a new instance.
`slipped` and `crossed` note that a call failed unseen and that two requests overlapped. A batch
holds one rule, so that every failure between batches occurs. The groups of the VNIC are a set:
attaching appends to an empty list only, so there is never more than one.

### Accounts and LogSockets

`Accounts`: the rows of imported accounts, the SSH keys, the cache of decrypted keys and the
clients that sign with them. An import is the key check (`ImportProfile`), the choice of a name
(`uniqueProfileName`), the look-up, the write and the invalidation of the cache, each a step of its
own; deletion is cache first, row second; deleting an SSH key is the key first, the defaults
second. `founder`, `contested` and `haunted` remember who a row was made for and which overlaps
befell it.

`LogSockets`: the atomic counter of open log connections with every way out of the handler.

### MC modules and proofs

`MCScheduler` and `MCWorkerLoop` give TLC the function-valued constants and the symmetry sets.
`MCCloudCalls`, `MCSessions` and `MCSharedEdits` check several components in one run: these share
no state, so a behaviour of all of them is a shuffle of one of each, and `subject` picks the one
that moves. The theorems are in `SchedulerProofs`, `SchedulerSerialProofs`, `WorkerLoopProofs` and
`LaunchCallProofs`; in `CloudCallsProofs` (`VcnSetup`, `PublicIp`, `FreeTier`), `LoginProofs`
(`Sessions`, `LoginGuard`) and `SharedEditsProofs` (`SecurityList`, `InstanceFirewall`,
`LogSockets`), which also prove that a composed run is one of each component; and in
`AccountsProofs`.
A definition whose comment starts with "Mutant" is a plausible wrong version of the definition
that follows it. The specification does not use it; `PROJECT.json` names the property that notices
the exchange.

## 3. Runs

| run | bounds | properties |
|---|---|---|
| `sched_races` | 1 task, 2 requests at a time, 2 workers; create, start, stop; lost responses | NoAbandonedTask, CreatingHasFlow, RegisteredIsLive, NoLostInstance, TypeOK |
| `sched_serial` | 1 task, 1 request at a time, every operation, every fault, 2 domains, 1 restart | Stoppable |
| `sched_idempotent` | 1 task, 1 request at a time; create and start; all launch, lock and budget faults but `list`, 2 domains, 2 restarts | AtMostOneInstance |
| `sched_live` | fair; create, start, stop, pause; lost responses, creation time-out, 2 domains, 1 restart | StoppedWorkerExits, CreateSettles |
| `loop_budgets` | fair; 2 runs, 3 days, cap 1, budget 2, deadline 1 day | DailyCapPerRun, BudgetPerRun, PausedLaunchesOnce, QueueEnds, TypeOK |
| `cloud_calls` | 2 workers, 2 attempts, 3 requests and 2 lookups per call; the network set-up; 2 rotations and 2 IPv6 requests on 2 VNICs; 2 tasks on 3 kinds of account, 2 compartments | NoSecondInstance, KeepsPromise, NoSilentDegradation, SubnetReachable, NoSilentLoss, OneIpv6, AllowanceKept, CloudStateOK |
| `sessions` | 3 tokens, 2 requests, 2 bumps, idle 3, absolute 4, renewal after 1, 4 units of time; 2 attempts at once, 1 temporary token per unit of time, 1 code, limits 2/3 (password) and 2/3 (code), bans 1/2/3, 3 units of time; any Redis command may fail | AbsoluteCap, ActiveStaysIn, BumpRevokes, NoRevival, OverLimitBanned, LongBanStands, CodeOnce, WornOutTokenEnds, LoginStateOK |
| `shared_edits` | 2 edits, 4 rule keys, a list of 4; 3 requests on the groups; 2 requests, 2 rows, 3 names, 2 owners, 2 keys, 1 client; 3 sockets, 2 places | NoLostEdit, MinimalAgrees, NoOrphanGroup, NoDuplicateRule, KeyMatchesFingerprint, NameOwnerStable, DefaultKeyExists, NoSlotLeak, SharedStateOK |
| `viol_*` | small | section 5 |

Why the bounds are enough.

- *Scheduler.* Races on the registry are between an old worker, its replacement and two requests
  for the same task, so two worker slots (each reused when its goroutine has exited) and two
  handlers meet all pairs; a second task adds only the bulk operations, which treat rows
  independently, and the lock, which `viol_lock` explores with three tasks and two profiles. Two
  domains are one more than the first.
- *WorkerLoop.* A second run adds what a restart or a new start resets; three days put two
  midnights inside a run; the cap (1) and the budget (2) differ so that either can be the first
  reached.
- *LaunchCall.* The limit of requests is the code's own (3); of the three lookups that confirm a call
  two are a first and a last one; a second attempt and a second worker bring a token of another
  attempt and of another worker.
- *VcnSetup* has no bounds: the model is finite as the code is.
- *PublicIp.* A second request of each kind is the one that overlaps; the second VNIC is the one
  the fallback takes by mistake.
- *FreeTier.* Two tasks of one core exceed an allowance of one; the paid account's tasks come
  one after the other, which `MCCloudCalls` says.
- *Sessions.* Three tokens are a session, its renewal and the next; two requests overlap in every
  way; the clock goes as far as the end of a token that is not renewed.
- *LoginGuard.* Limits differ by one, bans are ordered as in the code, counters reach 4, one above
  the largest limit, and three units of time are two windows that end. A second token or code would
  share nothing with the first but the counter of the address, which the requests of one already
  raise together.
- *SecurityList.* Two edits overlap; the list is full at four rules, so that the limit is met.
- *InstanceFirewall.* Three requests: one fails, one repeats it, one comes between. *Accounts*
  splits into rows (two owners, one key) and signing (one owner, two keys), the two questions
  asked of it. *LogSockets* has one more connection than places.

Every safety property is moreover proved without bounds (section 4).

`sched_races` has no lockdown and no deletion: with them its instance is too large, and what it
checks rests on the theorems there, which hold for every set of operations.

*Stoppable* is checked with requests one after the other, since with two overlapping starts it is
false (`viol_stop`). *AtMostOneInstance* is checked without the fault `list`, with which the code
does launch twice (findExistingInstance takes an error for "not found"), and without stop and
pause: stopped and started again while a LaunchInstance request is under way, a task gets a
second worker that looks the name up too early and launches again. `LaunchCall` has both and
states what remains true with them: *NoSecondInstance*, *KeepsPromise*.

Several properties have such a premise (`~slipped`, `~crossed`, `~bumpLost`, `contested`, `blind`,
`v6Overlap`, `v6Astray`, `open`, `slips`, `unseen`, `passedOver`): the code really loses the edit, doubles the rule or exceeds the allowance when
requests overlap, or Redis, OCI or the client fails it, and the property pins down that it happens
in no other case. Each premise is set by the step that causes it and by nothing else. Where the
repository says otherwise, section 5 quotes it.

Deadlock is checked in the safety runs of `Scheduler` except where the system may stop: in
`sched_idempotent` (the one task succeeds, and no request is left to make), in the `WorkerLoop` run
(the task ends, and no run is left) and in the three composed runs (all requests were made, tokens
used up or the clock at its bound).

Fairness is weak fairness of each handler's and each worker's step, which the Go scheduler gives
every runnable goroutine, and of the clock. Waits end because their timers fire. Requests,
faults and restarts are never fair. There is no fairness between workers waiting for the lock:
the code has none.

## 4. Proofs

Every theorem holds for all values of the constants that satisfy the named ASSUME of its module:
any number of tasks, workers, requests, tokens, rules or sockets, and any limits and lengths of
time. Each follows from one inductive invariant per component.

`SchedulerProofs` proves `Spec => []Inv` for

    Inv == TypeOK /\ Shape /\ CreatingHasFlow /\ RegisteredIsLive /\ NoAbandonedTask /\ MadeInv

under `ConstantsOK` only: any operations, faults and number of restarts.

- *Shape* ties each actor's `pc` to its other variables: an idle slot is clean, only some
  locations have no task, a handler's location fits its operation, and a loaded handle (`held`)
  belongs to a worker of that task or a slot not reused yet. Without it the registry invariant
  is not inductive: CancelFire would cancel a stranger.
- *RegisteredIsLive* survives a worker's exit because the exit compares before it deletes, and a
  start because the fresh handle's worker exists from the Store on.
- *NoAbandonedTask* is preserved because whoever cancels or replaces the worker of a running row
  is himself `Settling` it until the row is rewritten or the next worker is stored. Its proof
  goes through a lemma saying which steps keep a given worker or handler serving a task.
- *MadeInv* (`made` actors are still to be judged or have been told "success") gives
  *NoLostInstance*.

`WorkerLoopProofs` proves `Spec => []Inv` for `Shape`, `CapInv`, `BudgetInv` and `LateInv` under
`BudgetsOK`. The cap needs the distinction by the date the run has read: while it is today's,
calls are booked in `launchesToday` but for one from before midnight; once it is not, the run
makes at most one more call before it reads the date again.

`LaunchCallProofs` proves *NoSecondInstance* and the refinement *KeepsPromise*. `CallInv` adds to
the types the counters of a call (`CounterFacts`), that of two live workers of a row one is
cancelled (`OneLive`), and, as long as nothing was missed, that one worker is in its call at a time
and the instance that exists is that call's (`SightFacts`); `VerdictFacts` say what a verdict knows
of the cloud. Between the look at the context and the write of the row anything may happen to
another worker, so the refinement needs `WriteFacts`: without an excuse, a worker about to end the
task finds no instance, no call that could make one, and no other worker that is not cancelled;
a start that would break this is the one that sets *stale*. The refinement maps instances to
`Cardinality(cloud)`; the initial state maps to the initial state, and under `CallInv` each action
is `Create`, `Succeed`, `Fail`, `Requeue`, `Excuse` or a stutter of `LaunchPromise`.

`SchedulerSerialProofs` adds what is true only while handlers do not overlap, again for any number
of tasks, workers, requests in turn and restarts. *Stoppable* has the hypothesis `OneHandler` (at
most one request at a time), *AtMostOneInstance* the hypothesis `Unstopped`: one request at a time,
none of them a stop, lockdown or pause, and no `list` or `panic` fault. The hypotheses speak of the
constants `Calls`, `Ops` and `Faults`, and each is needed: `viol_stop` has two overlapping starts; a
task stopped in the middle of a launch and started again is looked up before its instance exists;
a lookup that fails is taken for "not found"; and the recover of a goroutine that panics may mark
the row of a newer worker "failed", which can then be started again. `SerialInv` is `Inv` with

- *CallRoute*: the operation each access of a handler belongs to;
- *KeyAsLeft*: the handler that takes a worker off a task still finds the registry as it left it,
  so that the Store of a start overwrites nothing but a handle that is already cancelled;
- *OneLoop* and *LoopKnown*: one worker of a task at most is in its loop, and its row says
  `running` and the registry names it, or the task is being or has been removed;
- *NewHasNoWorker*, *CallKnows*: what a handler may rely on at each access;
- *LaunchesFirst*: who is about to launch has seen that there is no instance, and it is still so.

`CloudCallsProofs`:

- `VcnSetup`: *SubnetReachable* and *NoSilentDegradation*; what is made has been made in order
  (`BuiltInOrder`), and without a warning every step so far was dual-stack (`DualSoFar`).
- `PublicIp`: *NoSilentLoss*, for any number of rotations on any VNICs. `IpInv` says that a private
  IP holds one public IP (`OneEach`), that a rotation's own address is not made before its last call
  (`MadeLast`), that the address it looks at was on its VNIC and is gone when it answers `ok`
  (`OldIsGone`), and that an address is given up only for a rotation (`ReleasedFor`). *OneIpv6*
  needs `V6Inv`: without overlap one request at a time is about to create on a VNIC, and it has seen
  none there; and the secondary VNIC gets one only from a request that was astray.
- `FreeTier`: *AllowanceKept*, for any number of tasks, any sizes and any service limit. `FreeInv`
  is the loop invariant of the usage walk: unless `blind`, what a walk has summed up (`seen`) and
  what is in the compartments it has yet to read (`Rest`) are together at least what the account
  uses, so a verdict "fits" was given on no less than the truth; and the line it was measured
  against (`line`) is never above what is free.

`LoginProofs`:

- `Sessions`: *AbsoluteCap*, *ActiveStaysIn*, *BumpRevokes* and the action property *NoRevival*.
  `SessionsInv` says of each token when it was issued, that its expiry is the earlier of idle and
  absolute cap, and that only a version loaded after the last bump is the present one
  (`TokenFacts`); that a blacklist entry outlasts its token (`BlackFacts`); and that a request under
  way carries a token that was young enough when it was let in, and accepted unless it went unseen
  (`RequestFacts`).
- `LoginGuard`: *OverLimitBanned*, *LongBanStands*, *CodeOnce* and *WornOutTokenEnds*, for any
  number of attempts at once and whatever commands fail. `PasswordHeld` and `CodeHeld` say of each
  counter that over its limit somebody is about to ban, the ban outlasts the counter, or the ban was
  missed (`open`). How far a counter goes is not bounded once a ban was missed or went unseen: the
  address is let in and counted on. While that has not happened (`~slips`), `CounterOK` says that it
  passes its limit by less than the number of requests, since those that were let in together all
  count. `LongCounter` says of the long ban what `PasswordHeld` says of any, while no two bans
  crossed; `CodeSpent` and `TokenEnds` are the links between a request under way and the code or
  token it holds.

`SharedEditsProofs`:

- `SecurityList`: *NoLostEdit*, the limit of the list and *MinimalAgrees*: what an edit is about to
  write fits, and as long as it is not stale has the keys its operation makes of the present list
  (`Sound`).
- `InstanceFirewall`: *NoOrphanGroup* and *NoDuplicateRule*. `FwInv` says that a request attaches or
  undoes only its own group (`RequestSound`), that while requests did not cross what each has read
  is still so (`Alone`) and a rule is in a group once (`Once`), and that while moreover no call
  failed unseen a group is attached or in the hands of a request (`Handled`).
- `LogSockets`: *NoSlotLeak*, by the cardinality of the set of handlers under way.

`AccountsProofs` proves *KeyMatchesFingerprint*, *NameOwnerStable* and *DefaultKeyExists*.
`AccountsInv` says of each row that it is whole, of an account that was created, alone with its
name and with its founder (`ProfileFacts`), and of each request what it may rely on at its step
(`RequestFacts`: after the name was chosen no row of another owner has it, short of a contested
one); two requests about to save one row agree on its name (`SameRowSameName`).

*CloudComponents*, *LoginComponents* and *SharedComponents* say that the specification of a
composed run implies that of each component: `MCNext` lets one component step and leaves the
variables of the others. What is proved of a component is therefore a fact of the very instance TLC
explores, and *CloudTypeCorrect*, *LoginTypeCorrect* and *SharedTypeCorrect* conclude the type
invariants of the runs.

With that every safety property of the passing runs has a theorem. Only model-checked are the
liveness properties (`StoppedWorkerExits`, `CreateSettles`, `QueueEnds`), since TLAPS does not
handle fairness.

## 5. Disagreements with the documentation

Each `viol_*` run checks one sentence of the repository's own documentation and TLC finds
a behaviour of the code against it.

| run | sentence | what happens |
|---|---|---|
| `viol_success` | "that is the success criterion, nothing after it changes the status" (`engine/worker.go:314`) | a worker that was stopped while about to write its verdict, and replaced, writes `failed` or `stopped` over the `success` of its successor |
| `viol_stop` | "StopTask cancels the worker" (`engine/scheduler.go:76`) | two overlapping starts: the second Store overwrites the first handle, and that worker is out of reach. It ends only when it next reads a row that is not `running` (`StoppedWorkerExits`) |
| `viol_lockdown` | "all tasks have been stopped" (`api/handlers_auth.go:292`) | a CreateTask in flight is `creating`, unregistered, and goes on |
| `viol_lock` | "enforces the one OCI account operated at a time rule" (`cache/redis.go:87`) | a rejected request releases the lock by profile id under another flow of the same profile |

Met while modelling, and without a run of their own; the models follow the code:

- the daily cap is "per task and day" (`config/config.go`), but the count is a local variable of
  the worker: a restart or a new start begins again (`engine/worker.go:461`);
- the deadline counts from the creation of the row, so a task that is queued again after it stops
  at once (`engine/worker.go:457`);
- "a lost response never turns a created instance into a failure" (`engine/worker.go:215`), but
  outcomeUnknown looks at the last error of a call: a refused in-call retry hides the lost response
  (the *masked* excuse of `LaunchCall`);
- the category of retried errors lists 5xx, but 501 and those above 504 are fatal
  (`engine/classifier.go`);
- a paid subscription is said to decide the account's type, but the loop goes on past it and a
  later free subscription overwrites the verdict (`oci/account.go:81`; the guard is then stricter
  than necessary);
- the quota summary is said to fail closed (`oci/quota.go:450`), but unreadable sub-compartments
  are skipped and a failed listing of compartments falls back to the root;
- ValidateFreeTierConstraint is said to guard tasks "created or resumed"; the resume at start-up
  does not call it;
- an identical rule of an instance's group is recognised without its statelessness (`oci/nsg.go:176`),
  and `ruleKey` ignores source ports, so a deletion takes every variant;
- RemoveInstanceNSG answers success when the deletion failed for any reason, not only "in use";
- uniqueProfileName returns its last candidate without looking it up;
- "AttachIPv6ToInstance allocates an IPv6 address on the instance's primary VNIC"
  (`oci/instance.go:549`): when GetVnic fails for the primary one, the address is looked for and
  allocated on the secondary one (`v6Astray`);
- "Logout revokes the session token" (`api/handlers_auth.go:234`): the error of BlacklistJTI is
  discarded, so a logout that Redis did not take clears the cookie, answers a success and leaves the
  token valid; and after the hour a logout answer may hand out a renewed, valid token
  (`auth/auth.go:104`);
- "A temp token is single-use: consumed on success or after too many wrong codes"
  (`api/handlers_auth.go:158`): not when the ban of the address is answered first (line 186), the
  answer of the count is lost, or the entry is not written, its error discarded (lines 184, 191,
  206; `passedOver`);
- "6 failures -> 30 min ban, 12 -> 24 h" (`cache/redis.go:160`) holds if Redis takes the ban, whose
  error is discarded (`open`).

## 6. Not modelled

- Reports (billing, metrics, telemetry, images, storage): calls that read and reshape, or one call
  that changes a volume or bucket, with no state kept but Redis copies that expire.
- Notifications (fire and forget), encryption (sequential library calls), the web frontend (a
  client of the API) and the deployment scripts.
- The length of waits and back-off, the addresses FinalizeSuccess looks up, attempt rows and
  messages; ListTasks' repair of `creating` rows (section 2).
- The text by which the health check tells a banned account from a network error, and the parsing
  of configuration files, keys, CIDRs and port ranges: sequential functions over strings.
- InitAdmin's count before the insert of the first user and CreateSSHKey's count before the insert
  of a key, whose overlap may store two of them.
- Redis losing what it holds, and a pipeline of which only a part is executed.
- Panics in `LaunchCall`, and overlapping starts there (`Scheduler` has both).
- The lock's TTL has no clock; as a fault it may strike at any time, which includes whatever a
  clock would allow.

## 7. Plan

All components whose control is worth exploring have a module, and every safety property a
theorem. What is left is to prove that `Scheduler` refines `LaunchPromise`, which would join the
two views of an attempt: the one of the row and its workers, and the one of a LaunchInstance call.
