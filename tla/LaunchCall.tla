------------------------------ MODULE LaunchCall ------------------------------
(***************************************************************************)
(* One task and the LaunchInstance requests made for it: what the answers  *)
(* of OCI mean (oci/instance.go launchRetryPolicy, engine/classifier.go,   *)
(* worker.go outcomeUnknown), the retries inside a call, the lookups by    *)
(* name before and after it, and a cloud that may create the instance      *)
(* before, after or without its answer.                                    *)
(*                                                                         *)
(* Scheduler has one attempt as a single step with the outcomes derived    *)
(* here, and every access to shared state around it.  Here the attempt is  *)
(* taken apart, and so is what the loop does with the row: it is read at   *)
(* the top of a round, the context is looked at after the call, and the    *)
(* row is written later, by its id, whatever has happened since.  A start  *)
(* is two steps, one start at a time: Scheduler lets starts overlap.       *)
(***************************************************************************)
EXTENDS Integers, FiniteSets

CONSTANTS
  Workers,      \* goroutines serving the task one after the other
  MaxAttempts,  \* LaunchTask.MaxRetries, > 0
  MaxCalls,     \* requests of one call: 3
  MaxLookups    \* lookups that confirm one call: 3

ASSUME AttemptsOK ==
  /\ MaxAttempts \in Nat \ {0}
  /\ MaxCalls \in Nat \ {0}
  /\ MaxLookups \in Nat \ {0}

VARIABLES
  taskRow,   \* launch_tasks.status
  asked,     \* a start has read the row and let it pass
  stage,     \* where each worker is
  ended,     \* its context is cancelled
  attempt,   \* its attempts
  tries,     \* requests it sent in this call
  lookups,   \* lookups it made to confirm this call
  verdict,   \* what the engine made of the answer
  net,       \* tokens with a request that OCI has not dealt with
  cloud,     \* tokens an instance was created for
  excuse     \* what happened that the engine cannot see through: see Excused

workerVars == <<stage, ended, attempt, tries, lookups, verdict>>
callVars == <<taskRow, asked, workerVars, net, cloud, excuse>>

(***************************************************************************)
(* Answers.  A service error is named by its status; "state" is            *)
(* 409 IncorrectState, "capacity" 500 "out of host capacity", "5xx" 500,   *)
(* 502, 503 and 504, "505" any other status above 501; "transport" is an   *)
(* error IsTransientError knows, "broken" one it does not; "noid" is a     *)
(* success without an OCID, "client" a client that could not be built.     *)
(***************************************************************************)
Refusals == {"capacity", "429", "409", "state", "4xx", "501"}
Lost == {"5xx", "505", "transport", "broken", "deadline"}
Answers == Refusals \union Lost \union {"ok", "noid", "cancelled", "client"}

ShouldRetry == {"5xx", "505", "state", "transport", "broken"}
\* Mutant: only an error is looked up, not an answer without an OCID.
OutcomeUnknownOfErrors == Lost \union {"cancelled", "client"}

OutcomeUnknown == Lost \union {"noid", "cancelled", "client"}

\* "again" is CategoryCapacityFull, RateLimited or Transient: they differ in
\* how long the loop waits.
Category(a) ==
  CASE a \in {"capacity", "429", "5xx", "409", "state", "transport", "deadline"} -> "again"
    [] a \in {"ok", "cancelled"} -> a
    [] OTHER -> "fatal"

\* The retry token is stamped once per call, so it stands for the attempt.
Token(w) == <<w, attempt[w]>>
Alive(w) == stage[w] \notin {"fresh", "done"}

\* Another worker of the row is between its lookup and its answer.
Busy(w) == \E v \in Workers \ {w} :
  \/ stage[v] \in {"send", "wait"}
  \/ \E t \in net : t[1] = v

\* "blind": a lookup missed the instance, a request outlived its call, or two
\* workers called at once.  Three more spoil the report only: "masked", see
\* Receive; "unlooked", see GiveUp; "stale", see Begin.
Excused(cond, why) == excuse' = IF cond /\ excuse # "blind" THEN why ELSE excuse

\* Recorded for a task that was created and is not queued yet.
CallInit ==
  /\ taskRow = "stopped"
  /\ asked = FALSE
  /\ stage = [w \in Workers |-> "fresh"]
  /\ ended = [w \in Workers |-> FALSE]
  /\ attempt = [w \in Workers |-> 0]
  /\ tries = [w \in Workers |-> 0]
  /\ lookups = [w \in Workers |-> 0]
  /\ verdict = [w \in Workers |-> "none"]
  /\ net = {}
  /\ cloud = {}
  /\ excuse = "none"

(***************************************************************************)
(* The user and the process.                                               *)
(***************************************************************************)

\* A start reads the row: it did not succeed, and is not queued already.
AskStart ==
  /\ ~asked
  /\ taskRow # "success"
  /\ taskRow = "running" => \A w \in Workers : Alive(w) => ended[w]
  /\ asked' = TRUE
  /\ UNCHANGED <<taskRow, workerVars, net, cloud, excuse>>

\* A worker that has looked at its context, or at the row, for the last time
\* and will end the task.
EndsTask(v) ==
  /\ stage[v] = "write"
  /\ \/ verdict[v] \in {"fatal", "expired"}
     \/ verdict[v] = "again" /\ attempt[v] >= MaxAttempts

\* The start, or the resume after a restart: the worker of before is cancelled
\* and the row is queued, whatever it says by now.  "stale": the row was a
\* success by now, or the old worker is about to write its failure over what
\* the new one makes of the row.
Begin(w) ==
  /\ asked
  /\ stage[w] = "fresh"
  /\ asked' = FALSE
  /\ taskRow' = "running"
  /\ stage' = [stage EXCEPT ![w] = "resolve"]
  /\ attempt' = [attempt EXCEPT ![w] = 1]
  /\ ended' = [v \in Workers |-> ended[v] \/ Alive(v)]
  /\ Excused(taskRow = "success" \/ \E v \in Workers : EndsTask(v), "stale")
  /\ UNCHANGED <<tries, lookups, verdict, net, cloud>>

StopTask ==
  /\ ended' = [w \in Workers |-> ended[w] \/ Alive(w)]
  /\ taskRow' = IF taskRow = "running" THEN "stopped" ELSE taskRow
  /\ UNCHANGED <<asked, stage, attempt, tries, lookups, verdict, net, cloud, excuse>>

CrashEngine ==
  /\ \E w \in Workers : Alive(w)
  /\ stage' = [w \in Workers |-> IF Alive(w) THEN "done" ELSE stage[w]]
  /\ tries' = [w \in Workers |-> 0]
  /\ lookups' = [w \in Workers |-> 0]
  /\ verdict' = [w \in Workers |-> "none"]
  /\ ended' = [w \in Workers |-> FALSE]
  /\ attempt' = [w \in Workers |-> 0]
  /\ asked' = FALSE
  /\ UNCHANGED <<taskRow, net, cloud, excuse>>

(***************************************************************************)
(* The top of a round.                                                     *)
(***************************************************************************)

\* Before the first round the availability domains are listed.
ResolveADs(w) ==
  /\ stage[w] = "resolve"
  /\ stage' = [stage EXCEPT ![w] = "top"]
  /\ UNCHANGED <<taskRow, asked, ended, attempt, tries, lookups, verdict, net, cloud, excuse>>

\* The row still says it is queued.
ReadRow(w) ==
  /\ stage[w] = "top"
  /\ ~ended[w]
  /\ taskRow = "running"
  /\ stage' = [stage EXCEPT ![w] = "lookup"]
  /\ UNCHANGED <<taskRow, asked, ended, attempt, tries, lookups, verdict, net, cloud, excuse>>

\* The domains cannot be listed, the account is gone, or the deadline of the
\* queue is past: the worker will write that without a lookup.
GiveUp(w) ==
  /\ ~ended[w]
  /\ \/ stage[w] = "resolve" /\ verdict' = [verdict EXCEPT ![w] = "fatal"]
     \/ /\ stage[w] = "top" /\ taskRow = "running"
        /\ \E why \in {"fatal", "expired"} : verdict' = [verdict EXCEPT ![w] = why]
  /\ stage' = [stage EXCEPT ![w] = "write"]
  /\ Excused(Busy(w) \/ cloud # {}, "unlooked")
  /\ UNCHANGED <<taskRow, asked, ended, attempt, tries, lookups, net, cloud>>

(***************************************************************************)
(* The attempt.                                                            *)
(***************************************************************************)

\* A lookup that fails, or comes before OCI lists the instance, finds none.
\* Mutant: the lookup is made before the first attempt only.
FindExistingOnce(w) ==
  /\ stage[w] = "lookup"
  /\ ~ended[w]
  /\ \E found \in BOOLEAN :
       /\ found => cloud # {} /\ attempt[w] = 1
       /\ Excused(Busy(w) \/ (cloud # {} /\ ~found /\ attempt[w] = 1), "blind")
       /\ stage' = [stage EXCEPT ![w] = IF found THEN "write" ELSE "send"]
       /\ verdict' = [verdict EXCEPT ![w] = IF found THEN "ok" ELSE "none"]
  /\ UNCHANGED <<taskRow, asked, ended, attempt, tries, lookups, net, cloud>>

FindExisting(w) ==
  /\ stage[w] = "lookup"
  /\ ~ended[w]
  /\ \E found \in BOOLEAN :
       /\ found => cloud # {}
       /\ Excused(Busy(w) \/ (cloud # {} /\ ~found), "blind")
       /\ stage' = [stage EXCEPT ![w] = IF found THEN "write" ELSE "send"]
       /\ verdict' = [verdict EXCEPT ![w] = IF found THEN "ok" ELSE "none"]
  /\ UNCHANGED <<taskRow, asked, ended, attempt, tries, lookups, net, cloud>>

Send(w) ==
  /\ stage[w] = "send"
  /\ ~ended[w]
  /\ tries' = [tries EXCEPT ![w] = @ + 1]
  /\ net' = net \union {Token(w)}
  /\ stage' = [stage EXCEPT ![w] = "wait"]
  /\ Excused(Busy(w), "blind")
  /\ UNCHANGED <<taskRow, asked, ended, attempt, lookups, verdict, cloud>>

\* Nothing is sent: the context is over, or the client could not be built.
SendFails(w) ==
  /\ stage[w] = "send"
  /\ ended[w] \/ tries[w] = 0
  /\ tries' = [tries EXCEPT ![w] = 0]
  /\ verdict' = [verdict EXCEPT ![w] =
       Category(IF ended[w] THEN "cancelled" ELSE "client")]
  /\ stage' = [stage EXCEPT ![w] = "confirm"]
  /\ UNCHANGED <<taskRow, asked, ended, attempt, lookups, net, cloud, excuse>>

\* OCI creates the instance, once per token.  It is late when the call has
\* returned: the engine may have looked for it already.
Create(t) ==
  /\ t \in net
  /\ net' = net \ {t}
  /\ cloud' = cloud \union {t}
  /\ Excused(t \notin cloud /\ ~(stage[t[1]] \in {"send", "wait"} /\ Token(t[1]) = t), "blind")
  /\ UNCHANGED <<taskRow, asked, workerVars>>

Vanish(t) ==
  /\ t \in net
  /\ net' = net \ {t}
  /\ UNCHANGED <<taskRow, asked, workerVars, cloud, excuse>>

\* What OCI and the network may answer to the request under way.
Possible(w, a) ==
  CASE a \in {"ok", "noid"} -> Token(w) \in cloud
    [] a \in Refusals -> Token(w) \in net
    [] a \in Lost -> TRUE
    [] a = "cancelled" -> ended[w]
    [] OTHER -> FALSE

\* A refused request is dealt with; an earlier one of the call may not be.
AfterAnswer(w, a) ==
  IF a \notin Refusals THEN {net}
  ELSE {net \ {Token(w)}} \union (IF tries[w] > 1 THEN {net} ELSE {})

\* Mutant: retried for as long as the answer is retryable.
RetryForever(w, a) == a \in ShouldRetry

MayRetry(w, a) == a \in ShouldRetry /\ tries[w] < MaxCalls

AfterCall(w, a) ==
  IF MayRetry(w, a) THEN "send" ELSE IF a \in OutcomeUnknown THEN "confirm" ELSE "check"

\* "masked": a refusal of a retry hides that an earlier request got through.
Receive(w) ==
  /\ stage[w] = "wait"
  /\ \E a \in Answers :
       /\ Possible(w, a)
       /\ net' \in AfterAnswer(w, a)
       /\ stage' = [stage EXCEPT ![w] = AfterCall(w, a)]
       /\ IF MayRetry(w, a)
          THEN UNCHANGED <<tries, verdict>>
          ELSE /\ tries' = [tries EXCEPT ![w] = 0]
               /\ verdict' = [verdict EXCEPT ![w] = Category(a)]
       /\ Excused(a \in Refusals /\ Token(w) \in cloud \union net', "masked")
  /\ UNCHANGED <<taskRow, asked, ended, attempt, lookups, cloud>>

\* On a fresh context, which may run out between two lookups.
Confirm(w) ==
  /\ stage[w] = "confirm"
  /\ lookups' = [lookups EXCEPT ![w] = @ + 1]
  /\ \E found \in BOOLEAN :
       /\ found => cloud # {}
       /\ Excused(cloud # {} /\ ~found, "blind")
       /\ verdict' = [verdict EXCEPT ![w] = IF found THEN "ok" ELSE @]
       /\ \/ stage' = [stage EXCEPT ![w] = "check"]
          \/ /\ ~found /\ lookups[w] + 1 < MaxLookups
             /\ UNCHANGED stage
  /\ UNCHANGED <<taskRow, asked, ended, attempt, tries, net, cloud>>

(***************************************************************************)
(* What the loop makes of the answer.                                      *)
(***************************************************************************)

\* The counters are local, the last two to the call.
Leaves(w, next, n) ==
  /\ stage' = [stage EXCEPT ![w] = next]
  /\ ended' = [ended EXCEPT ![w] = @ /\ next # "done"]
  /\ attempt' = [attempt EXCEPT ![w] = n]
  /\ lookups' = [lookups EXCEPT ![w] = 0]
  /\ verdict' = [verdict EXCEPT ![w] = "none"]

\* Cancelled before, between or after the lookup and the call, which failed:
\* the row is left as it is.
Quit(w) ==
  /\ ended[w]
  /\ \/ stage[w] \in {"resolve", "top", "lookup"}
     \/ stage[w] = "send" /\ tries[w] = 0
     \/ stage[w] = "check" /\ verdict[w] # "ok"
  /\ Leaves(w, "done", 0)
  /\ UNCHANGED <<taskRow, asked, tries, net, cloud, excuse>>

\* The row was stopped, or another worker wrote its outcome.
NotQueued(w) ==
  /\ stage[w] = "top"
  /\ taskRow # "running"
  /\ Leaves(w, "done", 0)
  /\ UNCHANGED <<taskRow, asked, tries, net, cloud, excuse>>

\* The context is looked at once, after a call that failed.  Nothing looks at
\* it, or at the row, between here and the write.
CheckContext(w) ==
  /\ stage[w] = "check"
  /\ verdict[w] = "ok" \/ ~ended[w]
  /\ stage' = [stage EXCEPT ![w] = "write"]
  /\ UNCHANGED <<taskRow, asked, ended, attempt, tries, lookups, verdict, net, cloud, excuse>>

RecordSuccess(w) ==
  /\ stage[w] = "write"
  /\ verdict[w] = "ok"
  /\ taskRow' = "success"
  /\ Leaves(w, "done", 0)
  /\ UNCHANGED <<asked, tries, net, cloud, excuse>>

\* A failure that ends the task is written over whatever the row says.
RecordFailure(w) ==
  /\ \/ /\ EndsTask(w)
        /\ taskRow' = IF verdict[w] = "fatal" THEN "failed" ELSE "stopped"
        /\ Leaves(w, "done", 0)
     \/ /\ stage[w] = "write"
        /\ verdict[w] = "again"
        /\ attempt[w] < MaxAttempts
        /\ Leaves(w, "top", attempt[w] + 1)
        /\ UNCHANGED taskRow
  /\ UNCHANGED <<asked, tries, net, cloud, excuse>>

AttemptStep(w) ==
  \/ ResolveADs(w)
  \/ ReadRow(w)
  \/ GiveUp(w)
  \/ FindExisting(w)
  \/ Quit(w)
  \/ NotQueued(w)
  \/ Send(w)
  \/ SendFails(w)
  \/ Receive(w)
  \/ Confirm(w)
  \/ CheckContext(w)
  \/ RecordSuccess(w)
  \/ RecordFailure(w)

CallNext ==
  \/ AskStart
  \/ \E w \in Workers : Begin(w)
  \/ StopTask
  \/ CrashEngine
  \/ \E w \in Workers : AttemptStep(w)
  \/ \E t \in net : Create(t)
  \/ \E t \in net : Vanish(t)

CallSpec == CallInit /\ [][CallNext]_callVars

(***************************************************************************)
(* Properties.                                                             *)
(***************************************************************************)
Tokens == Workers \X (1 .. MaxAttempts)
Stages ==
  {"fresh", "resolve", "top", "lookup", "send", "wait", "confirm", "check", "write", "done"}

\* Every variable has its type: a call makes at most three requests and three
\* lookups, a task at most MaxRetries attempts per worker.
CallTypeOK ==
  /\ taskRow \in {"running", "success", "failed", "stopped"}
  /\ asked \in BOOLEAN
  /\ stage \in [Workers -> Stages]
  /\ ended \in [Workers -> BOOLEAN]
  /\ attempt \in [Workers -> 0 .. MaxAttempts]
  /\ tries \in [Workers -> 0 .. MaxCalls]
  /\ lookups \in [Workers -> 0 .. MaxLookups]
  /\ verdict \in [Workers -> {Category(a) : a \in Answers} \union {"none", "expired"}]
  /\ net \in SUBSET Tokens
  /\ cloud \in SUBSET Tokens
  /\ excuse \in {"none", "masked", "unlooked", "stale", "blind"}

\* However often requests are retried, answers lost, the task stopped and
\* started and the process restarted, the task gets a second instance only
\* after a lookup missed the first, a request arrived after its call was over,
\* or two workers called at once (worker.go:177, 218; instance.go:299-301).
NoSecondInstance == Cardinality(cloud) > 1 => excuse = "blind"

\* The call keeps the abstract promise: "success" is reported with an instance
\* and stays, "failed" is reported without one, no second instance is made
\* (worker.go:233-235, 314).
Promise == INSTANCE LaunchPromise WITH
  made <- Cardinality(cloud), report <- taskRow, excused <- (excuse # "none")
KeepsPromise == Promise!PromiseSpec

===============================================================================
