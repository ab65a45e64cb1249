----------------------------- MODULE MCCloudCalls -----------------------------
(* Instances for TLC of the four components whose every request is a        *)
(* sequence of OCI calls.  They share no state, so a behaviour of all four  *)
(* is an interleaving of one of each: subject says which one this behaviour  *)
(* is about, the others stay in their initial states.                        *)
EXTENDS LaunchCall, VcnSetup, PublicIp, FreeTier, TLC

VARIABLE subject

allVars == <<subject, callVars, vcnVars, publicVars, freeVars>>

\* A free account, a paid one, and a free one its owner says is paid.
SomeAccounts ==
  { [paid |-> FALSE, limit |-> 2, override |-> "auto"],
    [paid |-> TRUE, limit |-> 3, override |-> "auto"],
    [paid |-> FALSE, limit |-> 2, override |-> "payg"] }

MCInit ==
  /\ subject \in {"launch", "vcn", "ip", "free"}
  /\ CallInit
  /\ VcnInit
  /\ IpInit
  /\ FreeInit
  /\ subject # "ip" => life = [i \in Ips |-> "ephemeral"]
  /\ account \in SomeAccounts
  /\ subject # "free" => account.limit = 2 /\ account.override = "auto" /\ subs.exists /\ subs.readable

\* The tasks of the paid account, whose limit is higher, come one after the
\* other; those of the free ones overlap.
FreeTasksNext ==
  /\ FreeNext
  /\ account.paid => \A s, t \in Tasks : {task'[s].step, task'[t].step} \intersect {"fresh"} # {} \/ s = t

MCNext ==
  \/ subject = "launch" /\ CallNext /\ UNCHANGED <<subject, vcnVars, publicVars, freeVars>>
  \/ subject = "vcn" /\ VcnNext /\ UNCHANGED <<subject, callVars, publicVars, freeVars>>
  \/ subject = "ip" /\ IpNext /\ UNCHANGED <<subject, callVars, vcnVars, freeVars>>
  \/ subject = "free" /\ FreeTasksNext /\ UNCHANGED <<subject, callVars, vcnVars, publicVars>>

MCSpec == MCInit /\ [][MCNext]_allVars

\* Every variable of the four modules has its type.
CloudStateOK == CallTypeOK /\ VcnTypeOK /\ IpTypeOK /\ FreeTypeOK

\* The goroutines of a task, the requests for an instance and the tasks of an account differ in
\* nothing but their names, which the three share.
CallSymmetry == Permutations(Workers)

===============================================================================
