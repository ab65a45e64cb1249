----------------------------- MODULE SecurityList -----------------------------
(***************************************************************************)
(* Edits of one subnet's security list (oci/network.go, oci/nsg_bulk.go):  *)
(* each reads the list, works out a new one and writes that over whatever  *)
(* is there, ingress and egress apart, with no ETag.  Edits overlap; an    *)
(* answer may be lost after its call was applied.                          *)
(*                                                                         *)
(* A rule is its effect as ruleKey sees it, and a variant ruleKey does not *)
(* see (a description, a source port range).  The panel writes "plain"     *)
(* rules; the list may hold a "twin" made in the console.                  *)
(***************************************************************************)
EXTENDS FiniteSets, Naturals

CONSTANTS
  Edits,     \* edits under way at once
  UserKeys,  \* rules a user asks for
  Console,   \* those that are made in the console too
  ListCap    \* maxIngressRulesPerSecurityList

ASSUME ListCapOK ==
  /\ ListCap \in Nat /\ ListCap >= 2
  /\ Console \subseteq UserKeys /\ IsFiniteSet(Console)
  /\ "console" \notin Edits

VARIABLES
  ingress, egress,  \* the list in the cloud
  cidr, v6Vcn,      \* the VCN has an IPv4 block, an IPv6 prefix
  edit,             \* what each edit is doing
  ledger            \* keys the applied edits add up to: see Replace

listVars == <<ingress, egress, cidr, v6Vcn, edit, ledger>>

Keys == UserKeys \union {"pmtud", "internal"}
Rules == (Keys \X {"plain"}) \union (Console \X {"twin"})
ruleKey(r) == r[1]
KeysOf(rules) == {ruleKey(r) : r \in rules}

NoEdit == [step |-> "idle", op |-> "none", key |-> "none", stale |-> FALSE, body |-> {}]

MinimalIngress == {<<"pmtud", "plain">>} \union (IF cidr THEN {<<"internal", "plain">>} ELSE {})
MinimalEgress == {"v4"} \union (IF v6Vcn THEN {"v6"} ELSE {})

\* A list as a VCN has it, or as the console left it.
ListInit ==
  /\ ingress \in {{<<"pmtud", "plain">>} \union (Console \X v) : v \in {{}, {"twin"}}}
  /\ Cardinality(ingress) <= ListCap
  /\ egress = {"v4"}
  /\ cidr \in BOOLEAN /\ v6Vcn \in BOOLEAN
  /\ edit = [e \in Edits |-> NoEdit]
  /\ ledger = KeysOf(ingress)

(***************************************************************************)
(* What an edit writes.                                                    *)
(***************************************************************************)

\* Mutant: the wanted rule in place of the list.
MergeForgetting(rules, k) == {<<k, "plain">>}

mergeIngressRules(rules, k) == IF k \in KeysOf(rules) THEN rules ELSE rules \union {<<k, "plain">>}

\* Every rule of the key goes, whatever its variant.
Kept(rules, k) == {r \in rules : ruleKey(r) # k}

\* The first call.  An edit ends here when there is nothing to do, when the
\* list would be too long, and when the call fails.
EndsAtOnce(e) == edit' = [edit EXCEPT ![e] = NoEdit]

Writes(e, op, k, body) ==
  edit' = [edit EXCEPT ![e] = [step |-> "put", op |-> op, key |-> k, stale |-> FALSE, body |-> body]]

\* Mutant: the rule to be added is not counted.
TooLongBefore(merged) == Cardinality(ingress) > ListCap

TooLong(merged) == Cardinality(merged) > ListCap

AddRule(e, k) ==
  LET merged == mergeIngressRules(ingress, k) IN
  IF merged = ingress \/ TooLong(merged)
  THEN EndsAtOnce(e)
  ELSE Writes(e, "add", k, merged)

DeleteRule(e, k) ==
  IF k \notin KeysOf(ingress)
  THEN EndsAtOnce(e)
  ELSE Writes(e, "delete", k, Kept(ingress, k))

\* ensureIPv6Egress.
AddEgress(e) ==
  IF "v6" \in egress THEN EndsAtOnce(e) ELSE Writes(e, "egress", "none", egress \union {"v6"})

ReadList(e) ==
  /\ edit[e].step = "idle"
  /\ \/ \E k \in Keys : AddRule(e, k) \/ DeleteRule(e, k)
     \/ AddEgress(e)
     \/ Writes(e, "reset", "none", MinimalIngress)
  /\ edit' # edit
  /\ UNCHANGED <<ingress, egress, cidr, v6Vcn, ledger>>

\* Every other edit under way is stale once the rules have changed.
Outdate(e) == [f \in Edits |->
  [edit[f] EXCEPT !.stale = @ \/ (f # e /\ edit[f].step = "put" /\ ingress' # ingress)]]

\* The keys the edit leaves when nothing came between its two calls.
Expected(d) ==
  CASE d.op = "add" -> ledger \union {d.key}
    [] d.op = "delete" -> ledger \ {d.key}
    [] d.op = "reset" -> KeysOf(MinimalIngress)
    [] OTHER -> ledger

\* The second call replaces one direction, or both; nil leaves one alone.  A
\* stale edit may drop others: from there on what it wrote is what counts.
Replace(e) == LET d == edit[e] IN
  /\ ingress' = IF d.op = "egress" THEN ingress ELSE d.body
  /\ egress' = CASE d.op = "egress" -> d.body
                 [] d.op = "reset" -> MinimalEgress
                 [] OTHER -> egress
  /\ ledger' = IF d.stale /\ d.op \in {"add", "delete"} THEN KeysOf(ingress') ELSE Expected(d)

UpdateSecurityList(e) ==
  /\ edit[e].step = "put"
  /\ Replace(e) \/ UNCHANGED <<ingress, egress, ledger>>
  /\ edit' = [Outdate(e) EXCEPT ![e] = NoEdit]
  /\ UNCHANGED <<cidr, v6Vcn>>

\* The console is edited too.
ConsoleEdit ==
  /\ \E k \in Console :
       \/ /\ Cardinality(ingress) < ListCap
          /\ ingress' = ingress \union {<<k, "twin">>}
          /\ ledger' = ledger \union {k}
       \/ /\ ingress' = ingress \ {<<k, "twin">>}
          /\ ledger' = IF <<k, "plain">> \in ingress THEN ledger ELSE ledger \ {k}
  /\ edit' = Outdate("console")
  /\ UNCHANGED <<egress, cidr, v6Vcn>>

(***************************************************************************)
(* What the firewall page says of the list (DescribeSecurityList); known   *)
(* is whether the VCN could be read.                                       *)
(***************************************************************************)

\* Mutant: any ICMP rule will do.
MinimalByProtocol(known) == "pmtud" \in KeysOf(ingress) /\ "v4" \in egress

isMinimalSecurityList(known) ==
  /\ ingress \subseteq {<<"pmtud", "plain">>} \union (IF known /\ cidr THEN {<<"internal", "plain">>} ELSE {})
  /\ <<"pmtud", "plain">> \in ingress
  /\ known /\ cidr => <<"internal", "plain">> \in ingress
  /\ "v4" \in egress

ListNext ==
  \/ \E e \in Edits : ReadList(e) \/ UpdateSecurityList(e)
  \/ ConsoleEdit

ListSpec == ListInit /\ [][ListNext]_listVars

(***************************************************************************)
(* Properties.                                                             *)
(***************************************************************************)

\* Every variable has its type; no edit takes the list past its limit.
ListTypeOK ==
  /\ ingress \subseteq Rules
  /\ Cardinality(ingress) <= ListCap
  /\ egress \subseteq {"v4", "v6"}
  /\ {cidr, v6Vcn} \subseteq BOOLEAN
  /\ edit \in [Edits ->
       [step : {"idle", "put"}, op : {"none", "add", "delete", "egress", "reset"},
        key : Keys \union {"none"}, stale : BOOLEAN,
        body : (SUBSET Rules) \union (SUBSET {"v4", "v6"})]]
  /\ ledger \subseteq Keys

\* The list holds what its edits add up to, whatever calls failed and whatever
\* answers were lost: an edit is lost only to one that read the list before it
\* was applied (network.go:714-765, 184-217).
NoLostEdit == KeysOf(ingress) = ledger

\* A list shown as minimal opens no port, also when the VCN could not be read,
\* and one that was just reset is shown as minimal when it could (network.go:
\* 612-646, nsg_bulk.go:130-183).
MinimalAgrees ==
  /\ \A known \in BOOLEAN : isMinimalSecurityList(known) => KeysOf(ingress) \subseteq {"pmtud", "internal"}
  /\ ingress = MinimalIngress /\ egress = MinimalEgress => isMinimalSecurityList(TRUE)

===============================================================================
