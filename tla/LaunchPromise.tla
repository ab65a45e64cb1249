---------------------------- MODULE LaunchPromise ----------------------------
(***************************************************************************)
(* What the launching of one task promises, without how: at most one       *)
(* instance, "success" only with an instance and for good, "failed" only   *)
(* without one.                                                            *)
(* The guards give way once something has happened that the engine cannot  *)
(* see through (excused): LaunchCall says what.                            *)
(***************************************************************************)
EXTENDS Naturals

VARIABLES
  made,     \* instances that exist for the task
  report,   \* launch_tasks.status
  excused

Reports == {"running", "success", "failed", "stopped"}

PromiseInit == made = 0 /\ report = "stopped" /\ excused = FALSE

Create ==
  /\ made = 0 \/ excused'
  /\ made' = made + 1
  /\ UNCHANGED report

Succeed ==
  /\ made > 0
  /\ report' = "success"
  /\ UNCHANGED <<made, excused>>

Fail ==
  /\ made = 0 \/ excused
  /\ report' = "failed"
  /\ UNCHANGED <<made, excused>>

\* A start, a stop, a budget that runs out.
Requeue ==
  /\ report # "success" \/ excused'
  /\ report' \in {"running", "stopped"}
  /\ UNCHANGED made

Excuse ==
  /\ excused'
  /\ UNCHANGED <<made, report>>

PromiseNext ==
  /\ \/ Create
     \/ Succeed
     \/ Fail
     \/ Requeue
     \/ Excuse
  /\ excused => excused'

PromiseSpec == PromiseInit /\ [][PromiseNext]_<<made, report, excused>>

==============================================================================
