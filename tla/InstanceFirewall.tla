--------------------------- MODULE InstanceFirewall ---------------------------
(***************************************************************************)
(* The firewall of one instance (oci/nsg.go, oci/nsg_bulk.go): a network   *)
(* security group that is created, attached to the primary VNIC, filled    *)
(* in batches, emptied, detached and deleted, one OCI call after the       *)
(* other, by requests of the Instances page and by the worker that has     *)
(* just created the instance (worker.go openAllPorts).                     *)
(*                                                                         *)
(* A batch holds one rule here.  A group, and a rule of a group, is named  *)
(* after the request that creates it.                                      *)
(***************************************************************************)
EXTENDS FiniteSets

CONSTANTS
  Asks,     \* requests, each of them sent once
  AllowAll  \* rules that open all ports: IPv4 and IPv6

ASSUME FirewallOK == "none" \notin Asks /\ "v4" \in AllowAll

VARIABLES
  attached,  \* groups of the VNIC: one at most, as the console attaches them
  groups,    \* groups that exist
  rules,     \* rules of each group: <<rule, request that added it>>
  ask,       \* what each request is doing
  slipped,   \* a call failed or its answer was lost, or the process stopped
  crossed    \* two requests overlapped

fwVars == <<attached, groups, rules, ask, slipped, crossed>>

NotYet == [op |-> "none", step |-> "fresh", group |-> "none", seen |-> {}, todo |-> {}]

FwInit ==
  /\ attached = {}
  /\ groups = {}
  /\ rules = [g \in Asks |-> {}]
  /\ ask = [r \in Asks |-> NotYet]
  /\ slipped = FALSE
  /\ crossed = FALSE

Busy(r) == ask[r].step \notin {"fresh", "done"}
Ends(r) == ask' = [ask EXCEPT ![r].step = "done"]
Advance(r, s) == ask' = [ask EXCEPT ![r].step = s]

\* A call that was applied or not; the engine learns which, or not.
Fails(r) == Ends(r) /\ slipped' = TRUE

AskFor(r, op, g) ==
  /\ ask[r].step = "fresh"
  /\ ask' = [ask EXCEPT ![r] = [@ EXCEPT !.op = op, !.group = g,
               !.step = IF op \in {"add", "clear"} THEN "list" ELSE "vnic"]]
  /\ crossed' = (crossed \/ \E q \in Asks \ {r} : Busy(q))
  /\ UNCHANGED <<attached, groups, rules, slipped>>

\* The worker opens all ports of the instance it has created.
OpenAllPorts(r) == AskFor(r, "open", "none")

\* A request of the firewall page, for the group the page shows.
AskPage(r) == \E g \in groups, op \in {"add", "clear", "disable"} : AskFor(r, op, g)

\* DeleteNSGRule: a rule of the page the user looks at, with nothing read.
AskDeleteRule(r, g) ==
  /\ ask[r].step = "fresh"
  /\ \E x \in rules[g] :
       ask' = [ask EXCEPT ![r] = [@ EXCEPT !.op = "clear", !.group = g, !.todo = {x}, !.step = "batch"]]
  /\ crossed' = (crossed \/ \E q \in Asks \ {r} : Busy(q))
  /\ UNCHANGED <<attached, groups, rules, slipped>>

(***************************************************************************)
(* EnsureInstanceNSG, and what RemoveInstanceNSG begins with.              *)
(***************************************************************************)
InstanceVnic(r) ==
  /\ ask[r].step = "vnic"
  /\ \/ /\ ask[r].op = "disable"
        /\ ask' = [ask EXCEPT ![r] = [@ EXCEPT !.seen = attached, !.step = "detach"]]
        /\ UNCHANGED slipped
     \/ /\ ask[r].op # "disable"
        /\ \/ attached = {} /\ Advance(r, "create")
           \/ \E g \in attached : ask' = [ask EXCEPT ![r] = [@ EXCEPT !.group = g, !.step = "list"]]
        /\ UNCHANGED slipped
     \/ Fails(r)
  /\ UNCHANGED <<attached, groups, rules, crossed>>

CreateGroup(r) ==
  /\ ask[r].step = "create"
  /\ \/ /\ groups' = groups \union {r}
        /\ ask' = [ask EXCEPT ![r].group = r, ![r].step = "attach"]
        /\ UNCHANGED slipped
     \/ groups' \in {groups, groups \union {r}} /\ Fails(r)
  /\ UNCHANGED <<attached, rules, crossed>>

\* UpdateVnic replaces the list of the VNIC; a refusal is followed by the
\* deletion of the group.
AttachGroup(r) ==
  /\ ask[r].step = "attach"
  /\ \/ attached' = {r} /\ Advance(r, "list") /\ UNCHANGED slipped
     \/ UNCHANGED <<attached, slipped>> /\ Advance(r, "undo")
     \/ attached' = {r} /\ Advance(r, "undo") /\ slipped' = TRUE
  /\ UNCHANGED <<groups, rules, crossed>>

\* OCI does not delete a group that is in use.
Deleted(g) == IF g \in attached THEN groups ELSE groups \ {g}

\* Mutant: the group is left when it could not be attached.
UndoNothing(r) ==
  /\ ask[r].step = "undo"
  /\ Ends(r)
  /\ UNCHANGED <<attached, groups, rules, slipped, crossed>>

DeleteUnattached(r) ==
  /\ ask[r].step = "undo"
  /\ \/ groups' = Deleted(r) /\ Ends(r) /\ UNCHANGED slipped
     \/ UNCHANGED groups /\ Fails(r)
  /\ UNCHANGED <<attached, rules, crossed>>

(***************************************************************************)
(* The rules: listed, then written batch by batch.                         *)
(***************************************************************************)
RuleNames(g) == {x[1] : x \in rules[g]}

\* Mutant: what the group has is not looked at.
AllWanted(g, wanted) == wanted

\* addNSGRules, AddNSGRule: the wanted rules the group does not have.
Missing(g, wanted) == wanted \ RuleNames(g)

ListRules(r) == LET g == ask[r].group IN
  /\ ask[r].step = "list"
  /\ g \in groups
  /\ CASE ask[r].op = "enable" -> Ends(r)
       [] ask[r].op = "clear" -> ask' = [ask EXCEPT ![r].todo = rules[g], ![r].step = "batch"]
       [] OTHER -> \E wanted \in (IF ask[r].op = "open" THEN {{"v4"}, AllowAll} ELSE SUBSET AllowAll) :
            ask' = [ask EXCEPT ![r].todo = Missing(g, wanted), ![r].step = "batch"]
  /\ UNCHANGED <<attached, groups, rules, slipped, crossed>>

ListFails(r) ==
  /\ ask[r].step = "list"
  /\ Fails(r)
  /\ UNCHANGED <<attached, groups, rules, crossed>>

AfterBatch(r, x) ==
  IF ask[r].op = "clear" THEN rules[ask[r].group] \ {x} ELSE rules[ask[r].group] \union {<<x, r>>}

\* A failing batch ends the request; the earlier ones stay.
Batch(r) == LET g == ask[r].group IN
  /\ ask[r].step = "batch"
  /\ \/ /\ ask[r].todo = {}
        /\ Ends(r)
        /\ UNCHANGED <<rules, slipped>>
     \/ \E x \in ask[r].todo :
          \/ /\ g \in groups
             /\ rules' = [rules EXCEPT ![g] = AfterBatch(r, x)]
             /\ \/ ask' = [ask EXCEPT ![r].todo = @ \ {x}] /\ UNCHANGED slipped
                \/ Fails(r)
          \/ UNCHANGED rules /\ Fails(r)
  /\ UNCHANGED <<attached, groups, crossed>>

(***************************************************************************)
(* RemoveInstanceNSG.                                                      *)
(***************************************************************************)
Remaining(r) == ask[r].seen \ {ask[r].group}

Detach(r) ==
  /\ ask[r].step = "detach"
  /\ \/ attached' = Remaining(r) /\ Advance(r, "delete") /\ UNCHANGED slipped
     \/ attached' \in {attached, Remaining(r)} /\ Fails(r)
  /\ UNCHANGED <<groups, rules, crossed>>

\* A deletion that fails is logged and answered as success.
DeleteGroup(r) ==
  /\ ask[r].step = "delete"
  /\ \/ groups' = Deleted(ask[r].group) /\ Ends(r) /\ UNCHANGED slipped
     \/ UNCHANGED groups /\ Fails(r)
  /\ UNCHANGED <<attached, rules, crossed>>

FwCrash ==
  /\ \E r \in Asks : Busy(r)
  /\ ask' = [r \in Asks |-> IF Busy(r) THEN [ask[r] EXCEPT !.step = "done"] ELSE ask[r]]
  /\ slipped' = TRUE
  /\ UNCHANGED <<attached, groups, rules, crossed>>

FwNext ==
  \/ \E r \in Asks :
       \/ AskFor(r, "enable", "none")
       \/ OpenAllPorts(r)
       \/ AskPage(r)
       \/ \E g \in groups : AskDeleteRule(r, g)
       \/ InstanceVnic(r)
       \/ CreateGroup(r)
       \/ AttachGroup(r)
       \/ DeleteUnattached(r)
       \/ ListRules(r)
       \/ ListFails(r)
       \/ Batch(r)
       \/ Detach(r)
       \/ DeleteGroup(r)
  \/ FwCrash

FwSpec == FwInit /\ [][FwNext]_fwVars

(***************************************************************************)
(* Properties.                                                             *)
(***************************************************************************)

\* Every variable has its type.
FwTypeOK ==
  /\ attached \subseteq Asks
  /\ groups \subseteq Asks
  /\ rules \in [Asks -> SUBSET (AllowAll \X Asks)]
  /\ DOMAIN ask = Asks
  /\ \A r \in Asks :
       /\ ask[r].op \in {"none", "enable", "open", "add", "clear", "disable"}
       /\ ask[r].step \in {"fresh", "vnic", "create", "attach", "undo", "list", "batch",
                           "detach", "delete", "done"}
       /\ ask[r].group \in Asks \union {"none"}
  /\ {slipped, crossed} \subseteq BOOLEAN

\* No group is left in the cloud that is on no VNIC and that no request is about
\* to attach or delete, whatever is refused, unless an answer was lost, the
\* clean-up failed too, or two requests overlapped (nsg.go:116-123, 233-243).
NoOrphanGroup == ~slipped /\ ~crossed =>
  \A g \in groups :
    \/ g \in attached
    \/ \E r \in Asks : Busy(r) /\ ask[r].group = g

\* A rule is in a group once, whatever batch of whatever request failed and was
\* repeated, unless two requests overlapped (nsg_bulk.go:35-65, nsg.go:172-181).
NoDuplicateRule == ~crossed =>
  \A g \in groups : Cardinality(RuleNames(g)) = Cardinality(rules[g])

===============================================================================
