------------------------------- MODULE FreeTier -------------------------------
(***************************************************************************)
(* The zero-cost guard of one account (oci/quota.go, oci/compartments.go,  *)
(* oci/account.go).  A task is validated when it is created or started:    *)
(* home region, account type and limits, then the usage of every           *)
(* compartment, gathered by two goroutines, one OCI call after the other.  *)
(* It launches later, or never.                                            *)
(*                                                                         *)
(* One unit of "cores" stands for the OCPUs, memory and Micro instances    *)
(* alike, one of "disk" for the storage; usage is in the home region.      *)
(***************************************************************************)
EXTENDS Naturals, Sequences

CONSTANTS
  Tasks,     \* launch tasks of the account
  Wishes,    \* cores a task may ask for
  FreeLine, PaygLine, \* A1Allowance of cores
  DiskLine,  \* storage allowance
  Limits,    \* service limits an account may have: the cores OCI lets it use
  Hint       \* paygA1CoreLimitHint

ASSUME FreeTierOK ==
  /\ FreeLine \in Nat /\ PaygLine \in Nat /\ DiskLine \in Nat /\ Hint \in Nat
  /\ Wishes \subseteq Nat
  /\ FreeLine <= PaygLine /\ Limits \subseteq Nat \ {0}

VARIABLES
  account,   \* what the account is: paid, its limit, the override of its type
  used,      \* usage of each compartment and resource
  subs,      \* the compartment below the root exists; the key may read it
  known,     \* cached list of compartments; <<>> when there is none
  task,      \* where each task's validation is
  blind      \* usage went past the guard: see Unseen, Crosses, OutsideGuard

freeVars == <<account, used, subs, known, task, blind>>

Comps == {"root", "sub"}
Resources == {"cores", "disk"}
Nothing == [r \in Resources |-> 0]
Total(r) == used["root"][r] + used["sub"][r]

NoTask == [step |-> "fresh", cores |-> 0, line |-> 0,
           todo |-> [r \in Resources |-> <<>>], seen |-> Nothing]

FreeInit ==
  /\ account \in [paid : BOOLEAN, limit : Limits, override : {"auto", "free", "payg"}]
  /\ account.paid \/ account.limit <= Hint
  /\ used = [c \in Comps |-> Nothing]
  /\ subs \in [exists : BOOLEAN, readable : BOOLEAN]
  /\ known = <<>>
  /\ task = [t \in Tasks |-> NoTask]
  /\ blind = FALSE

MovesTo(t, s) == task' = [task EXCEPT ![t].step = s]
Refused(t) == task' = [task EXCEPT ![t] = NoTask]

\* Usage that changes now is not in the figures such a task is judged by.
Judging(t) == task[t].step \in {"listing", "admitted"}
Crosses(tasks) == \E t \in tasks : Judging(t)

(***************************************************************************)
(* GetLiveQuotaSummary.                                                    *)
(***************************************************************************)
BeginTask(t) ==
  /\ task[t].step = "fresh"
  /\ \E w \in Wishes :
       task' = [task EXCEPT ![t] = [NoTask EXCEPT !.step = "type", !.cores = w]]
  /\ UNCHANGED <<account, used, subs, known, blind>>

\* DetectAccountTypeBySubscription: the answer, or none.
Verdicts == {IF account.paid THEN "PAYG" ELSE "FREE_TIER", "UNKNOWN"}

\* The fallback; limit is 0 when it could not be read.
TypeByLimits(limit) == IF limit > Hint THEN "PAYG" ELSE "FREE_TIER"

EffectiveAccountType(detected) ==
  CASE account.override # "auto" -> account.override
    [] detected = "PAYG" -> "payg"
    [] OTHER -> "free"

A1Allowance(effective) == IF effective = "payg" THEN PaygLine ELSE FreeLine

Capped(line, limit) == IF limit > 0 /\ limit < line THEN limit ELSE line

\* An unknown home region, and a task for another one, are refused: what free
\* resources there are is in the home region.  DetectAccountType has no error.
ResolveHomeRegion(t) ==
  /\ task[t].step = "type"
  /\ Refused(t)
  /\ UNCHANGED <<account, used, subs, known, blind>>

DetectAccountType(t) ==
  /\ task[t].step = "type"
  /\ \E verdict \in Verdicts, limit \in {0, account.limit} :
       LET detected == IF verdict # "UNKNOWN" THEN verdict ELSE TypeByLimits(limit) IN
       task' = [task EXCEPT ![t].step = "comps",
                  ![t].line = Capped(A1Allowance(EffectiveAccountType(detected)), limit)]
  /\ UNCHANGED <<account, used, subs, known, blind>>

\* ListCompartments: the cached list, the true one, which is then cached, or the
\* root alone when it cannot be read.
Walk(t, comps) ==
  task' = [task EXCEPT ![t].step = "listing", ![t].todo = [r \in Resources |-> comps]]

ActiveComps == IF subs.exists THEN <<"root", "sub">> ELSE <<"root">>

\* A compartment that holds something is left out.
Unseen(comps) == comps = <<"root">> /\ used["sub"] # Nothing

ListCompartments(t) ==
  /\ task[t].step = "comps"
  /\ \E comps \in {known, ActiveComps, <<"root">>} :
       /\ Walk(t, comps)
       /\ blind' = (blind \/ Unseen(comps))
       /\ \/ known # <<>> /\ comps = known /\ UNCHANGED known
          \/ known = <<>> /\ comps = ActiveComps /\ known' \in {known, comps}
          \/ known = <<>> /\ comps = <<"root">> /\ UNCHANGED known
  /\ UNCHANGED <<account, used, subs>>

\* skipUnreadableCompartment: a compartment below the root, and a status that
\* says it may not be read.
Skippable(c) == c # "root" /\ ~subs.readable

\* One listing of one goroutine.
ListUsage(t, r) == LET todo == task[t].todo[r] IN
  /\ task[t].step = "listing" /\ todo # <<>>
  /\ LET c == Head(todo) IN
       /\ c = "sub" => subs.exists /\ subs.readable
       /\ task' = [task EXCEPT ![t].todo[r] = Tail(todo), ![t].seen[r] = @ + used[c][r]]
  /\ UNCHANGED <<account, used, subs, known, blind>>

SkipUnreadableCompartment(t, r) == LET todo == task[t].todo[r] IN
  /\ task[t].step = "listing" /\ todo # <<>> /\ Skippable(Head(todo))
  /\ task' = [task EXCEPT ![t].todo[r] = Tail(todo)]
  /\ blind' = (blind \/ used["sub"] # Nothing)
  /\ UNCHANGED <<account, used, subs, known>>

\* Mutant: what the goroutine has is taken for all there is.
KeepsPart(t, r) == task' = [task EXCEPT ![t].todo[r] = <<>>]

\* The goroutine reports an error: the summary fails, the task is refused.
FailsClosed(t, r) == Refused(t)

ListingFails(t, r) ==
  /\ task[t].step = "listing" /\ task[t].todo[r] # <<>>
  /\ FailsClosed(t, r)
  /\ UNCHANGED <<account, used, subs, known, blind>>

(***************************************************************************)
(* ValidateFreeTierConstraint, and the launch it allows.                   *)
(***************************************************************************)
Fits(t) == LET d == task[t] IN
  /\ d.seen["disk"] + 1 <= DiskLine
  /\ d.seen["cores"] + d.cores <= d.line

ValidateFreeTierConstraint(t) ==
  /\ task[t].step = "listing"
  /\ \A r \in Resources : task[t].todo[r] = <<>>
  /\ IF Fits(t) THEN MovesTo(t, "admitted") ELSE Refused(t)
  /\ UNCHANGED <<account, used, subs, known, blind>>

\* OCI lets an account use what its limit allows.
Launch(t) == LET d == task[t] IN
  /\ d.step = "admitted"
  /\ Total("cores") + d.cores <= account.limit
  /\ used' = [used EXCEPT !["root"] = [cores |-> @.cores + d.cores, disk |-> @.disk + 1]]
  /\ Refused(t)
  /\ blind' = (blind \/ Crosses(Tasks \ {t}))
  /\ UNCHANGED <<account, subs, known>>

\* Stopped, failed, deleted: it is validated again before it runs again.
DropTask(t) ==
  /\ task[t].step = "admitted"
  /\ Refused(t)
  /\ UNCHANGED <<account, used, subs, known, blind>>

(***************************************************************************)
(* What the guard is not asked about.                                      *)
(***************************************************************************)

\* What is free for the account, as it is or as its owner says it is.
FreeCores == A1Allowance(EffectiveAccountType(IF account.paid THEN "PAYG" ELSE "FREE_TIER"))
Exceeded == Total("cores") > FreeCores \/ Total("disk") > DiskLine

\* ResizeInstance, and instances made in the console.
OutsideGuard ==
  /\ Total("cores") < account.limit
  /\ \E c \in {"root"} \union (IF subs.exists THEN {"sub"} ELSE {}) :
       used' = [used EXCEPT ![c] = [cores |-> @.cores + 1, disk |-> @.disk + 1]]
  /\ UNCHANGED <<account, subs, known, task>>
  /\ blind' = (blind \/ Crosses(Tasks) \/ Exceeded')

TerminateAll ==
  /\ used' = [c \in Comps |-> Nothing]
  /\ blind' = (blind /\ Crosses(Tasks))
  /\ UNCHANGED <<account, subs, known, task>>

\* A compartment is made; the cached list expires after five minutes.
CreateCompartment ==
  /\ ~subs.exists
  /\ subs' = [subs EXCEPT !.exists = TRUE]
  /\ UNCHANGED <<account, used, known, task, blind>>

CompartmentsExpire ==
  /\ known' = <<>>
  /\ UNCHANGED <<account, used, subs, task, blind>>

FreeNext ==
  \/ \E t \in Tasks :
       \/ BeginTask(t) \/ ResolveHomeRegion(t) \/ DetectAccountType(t) \/ ListCompartments(t)
       \/ \E r \in Resources : ListUsage(t, r) \/ SkipUnreadableCompartment(t, r) \/ ListingFails(t, r)
       \/ ValidateFreeTierConstraint(t) \/ Launch(t) \/ DropTask(t)
  \/ OutsideGuard \/ TerminateAll \/ CreateCompartment \/ CompartmentsExpire

FreeSpec == FreeInit /\ [][FreeNext]_freeVars

(***************************************************************************)
(* Properties.                                                             *)
(***************************************************************************)

\* Every variable has its type; usage stays within the service limit.
FreeTypeOK ==
  /\ account \in [paid : BOOLEAN, limit : Limits, override : {"auto", "free", "payg"}]
  /\ Total("cores") <= account.limit
  /\ subs \in [exists : BOOLEAN, readable : BOOLEAN]
  /\ known \in {<<>>, <<"root">>, <<"root", "sub">>}
  /\ \A t \in Tasks : task[t].step \in {"fresh", "type", "comps", "listing", "admitted"}
  /\ blind \in BOOLEAN

\* The account stays within what is free, whatever calls of the guard failed,
\* unless usage went past it: a launch that crossed another task's validation
\* or its wait, a compartment that was skipped or not listed, a resize or the
\* console (quota.go:258-475, compartments.go:28-89).
AllowanceKept == Exceeded => blind

===============================================================================
