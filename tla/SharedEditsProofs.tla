-------------------------- MODULE SharedEditsProofs ---------------------------
(***************************************************************************)
(* What is proved of the components whose requests read something shared,  *)
(* decide, and write later: security lists, the firewall of an instance, the *)
(* places of the log sockets, and of the four together (AccountsProofs is  *)
(* about the fourth).                                                      *)
(***************************************************************************)
EXTENDS MCSharedEdits, AccountsProofs, FiniteSetTheorems, TLAPS

(***************************************************************************)
(* What is proved of SecurityList, for any number of edits and rules: no   *)
(* edit is lost but to one that overlaps it, and no edit takes the list    *)
(* past its limit.                                                         *)
(***************************************************************************)

EditRecord == [step : {"idle", "put"}, op : {"none", "add", "delete", "egress", "reset"},
               key : Keys \union {"none"}, stale : BOOLEAN,
               body : (SUBSET Rules) \union (SUBSET {"v4", "v6"})]

\* A list of rules that OCI accepts.
Fits(list) == list \subseteq Rules /\ IsFiniteSet(list) /\ Cardinality(list) <= ListCap

ListTyped ==
  /\ Fits(ingress)
  /\ egress \subseteq {"v4", "v6"}
  /\ cidr \in BOOLEAN /\ v6Vcn \in BOOLEAN
  /\ edit \in [Edits -> EditRecord]
  /\ ledger \subseteq Keys

\* What an edit is about to write: a list that fits and, while no other edit
\* came between, the one its operation makes of the list that is there.
Sound(d) == d.step = "put" =>
  /\ d.op = "egress" => d.body \subseteq {"v4", "v6"}
  /\ d.op # "egress" => Fits(d.body)
  /\ d.op \in {"add", "delete"} => d.key \in Keys
  /\ d.op = "reset" => d.body = MinimalIngress
  /\ ~d.stale /\ d.op = "add" => KeysOf(d.body) = KeysOf(ingress) \union {d.key}
  /\ ~d.stale /\ d.op = "delete" => KeysOf(d.body) = KeysOf(ingress) \ {d.key}
  /\ d.op # "none"

EditFacts == \A e \in Edits : Sound(edit[e])

ListInv == ListTyped /\ EditFacts /\ NoLostEdit

LEMMA EditType ==
  ASSUME ListTyped, NEW e \in Edits
  PROVE  /\ edit[e] \in EditRecord /\ edit[e].step \in {"idle", "put"} /\ edit[e].stale \in BOOLEAN
         /\ edit[e].op \in {"none", "add", "delete", "egress", "reset"}
<1>1. edit[e] \in EditRecord BY DEF ListTyped
<1> QED BY <1>1 DEF EditRecord

LEMMA MinimalFits == Fits(MinimalIngress) /\ KeysOf(MinimalIngress) \subseteq Keys
<1>1. PICK p : p = <<"pmtud", "plain">> OBVIOUS
<1>2. PICK i : i = <<"internal", "plain">> OBVIOUS
<1>3. p \in Rules /\ i \in Rules BY <1>1, <1>2 DEF Rules, Keys
<1>4. IsFiniteSet({p}) /\ Cardinality({p}) = 1 BY FS_Singleton
<1>5. IsFiniteSet({p} \union {i}) /\ Cardinality({p} \union {i}) <= 2
  BY <1>4, FS_AddElement
<1>6. MinimalIngress = {p} \/ MinimalIngress = {p} \union {i} BY <1>1, <1>2 DEF MinimalIngress
<1>7. KeysOf(MinimalIngress) \subseteq Keys BY DEF KeysOf, MinimalIngress, ruleKey, Keys
<1>8. Cardinality({p}) <= ListCap /\ Cardinality({p} \union {i}) <= ListCap
  <2>1. Cardinality({p} \union {i}) \in Nat BY <1>5, FS_CardinalityType
  <2> QED BY <2>1, <1>4, <1>5, ListCapOK DEF ListCapOK
<1>9. {p} \subseteq Rules /\ {p} \union {i} \subseteq Rules BY <1>3
<1>10. Fits({p}) /\ Fits({p} \union {i}) BY <1>4, <1>5, <1>8, <1>9 DEF Fits
<1> QED BY <1>6, <1>7, <1>10

LEMMA KeysOfRules == \A list : list \subseteq Rules => KeysOf(list) \subseteq Keys
  BY ListCapOK DEF KeysOf, ruleKey, Rules, Keys, ListCapOK

LEMMA ListInitInv == ListInit => ListInv
<1> SUFFICES ASSUME ListInit PROVE ListInv
  OBVIOUS
<1>1. PICK v \in {{}, {"twin"}} : ingress = {<<"pmtud", "plain">>} \union (Console \X v)
  BY DEF ListInit
<1>2. ingress \subseteq Rules
  <2>1. {<<"pmtud", "plain">>} \subseteq Rules BY DEF Rules, Keys
  <2>2. Console \X v \subseteq Console \X {"twin"} BY <1>1
  <2>3. Console \X {"twin"} \subseteq Rules BY DEF Rules
  <2> DEFINE A == {<<"pmtud", "plain">>}
             C == Console \X v
             D == Console \X {"twin"}
  <2>4. ingress = A \union C /\ A \subseteq Rules /\ C \subseteq D /\ D \subseteq Rules
    BY <1>1, <2>1, <2>2, <2>3
  <2> HIDE DEF A, C, D
  <2> QED BY <2>4
<1>3. IsFiniteSet(ingress)
  <2>a. IsFiniteSet({}) BY FS_EmptySet
  <2>b. IsFiniteSet({"twin"}) BY FS_Singleton
  <2>1. IsFiniteSet(v) BY <2>a, <2>b
  <2>2. IsFiniteSet(Console \X v) BY <2>1, FS_Product, ListCapOK DEF ListCapOK
  <2>3. IsFiniteSet({<<"pmtud", "plain">>}) BY FS_Singleton
  <2> QED BY <1>1, <2>2, <2>3, FS_Union
<1>4. NoEdit \in EditRecord /\ NoEdit.step = "idle" BY DEF NoEdit, EditRecord
<1>5. ListTyped BY <1>2, <1>3, <1>4, KeysOfRules DEF ListTyped, Fits, ListInit
<1>6. EditFacts BY <1>4 DEF EditFacts, Sound, ListInit
<1> QED BY <1>5, <1>6 DEF ListInv, ListInit, NoLostEdit

\* What an edit writes, for one that has just read the list.
LEMMA NewEdit ==
  ASSUME ListInv, NEW e \in Edits,
         NEW op \in {"add", "delete", "egress", "reset"}, NEW k \in Keys \union {"none"},
         NEW body \in (SUBSET Rules) \union (SUBSET {"v4", "v6"}),
         Writes(e, op, k, body),
         Sound([step |-> "put", op |-> op, key |-> k, stale |-> FALSE, body |-> body]),
         UNCHANGED <<ingress, egress, cidr, v6Vcn, ledger>>
  PROVE  ListInv'
<1>1. PICK d : d = [step |-> "put", op |-> op, key |-> k, stale |-> FALSE, body |-> body] OBVIOUS
<1>2. d \in EditRecord BY <1>1 DEF EditRecord
<1>3. edit' = [edit EXCEPT ![e] = d] BY <1>1 DEF Writes
<1>4. ListTyped' BY <1>2, <1>3 DEF ListInv, ListTyped, Fits
<1>5. EditFacts'
  <2> SUFFICES ASSUME NEW f \in Edits PROVE Sound(edit[f])'
    BY DEF EditFacts
  <2>1. edit'[f] = d \/ edit'[f] = edit[f] BY <1>3 DEF ListInv, ListTyped
  <2>2. Sound(edit[f]) /\ Sound(d) BY <1>1 DEF ListInv, EditFacts
  <2> QED BY <2>1, <2>2 DEF Sound, Fits, MinimalIngress
<1> QED BY <1>4, <1>5 DEF ListInv, NoLostEdit

\* An edit that is still at work when another has been applied is stale, or the
\* list is as it was.
LEMMA OthersStaySound ==
  ASSUME ListInv, NEW f \in Edits, UNCHANGED <<cidr, v6Vcn>>,
         edit'[f] = [edit[f] EXCEPT !.stale = @ \/ (edit[f].step = "put" /\ ingress' # ingress)]
  PROVE  edit'[f] \in EditRecord /\ Sound(edit[f])'
<1>1. PICK d : d = edit[f] OBVIOUS
<1>2. PICK n : n = edit'[f] OBVIOUS
<1>3. d \in EditRecord BY <1>1 DEF ListInv, ListTyped
<1>a. PICK b \in BOOLEAN : b = (d.stale \/ (d.step = "put" /\ ingress' # ingress)) OBVIOUS
<1>b. n = [d EXCEPT !.stale = b] BY <1>1, <1>2, <1>a
<1>4. n \in EditRecord /\ n.step = d.step /\ n.op = d.op /\ n.key = d.key /\ n.body = d.body
  BY <1>3, <1>b DEF EditRecord
<1>5. n.stale = (d.stale \/ (d.step = "put" /\ ingress' # ingress))
  <2>1. n.stale = b BY <1>3, <1>b DEF EditRecord
  <2> QED BY <2>1, <1>a
<1>6. Sound(d) BY <1>1 DEF ListInv, EditFacts
<1>7. MinimalIngress' = MinimalIngress BY DEF MinimalIngress
<1>8. CASE n.stale BY <1>2, <1>4, <1>6, <1>7, <1>8 DEF Sound
<1>9. CASE ~n.stale
  <2>1. ~d.stale /\ (d.step = "put" => ingress' = ingress) BY <1>5, <1>9
  <2> QED BY <1>2, <1>4, <1>6, <1>7, <2>1 DEF Sound
<1> QED BY <1>2, <1>4, <1>8, <1>9

LEMMA IdleEditEnds ==
  ASSUME ListInv, NEW e \in Edits, EndsAtOnce(e), edit' # edit,
         UNCHANGED <<ingress, egress, cidr, v6Vcn, ledger>>
  PROVE  ListInv'
<1>1. NoEdit \in EditRecord /\ NoEdit.step = "idle" BY DEF NoEdit, EditRecord
<1>2. edit' = [edit EXCEPT ![e] = NoEdit] BY DEF EndsAtOnce
<1>3. ListTyped' BY <1>1, <1>2 DEF ListInv, ListTyped, Fits
<1>4. EditFacts'
  <2> SUFFICES ASSUME NEW f \in Edits PROVE Sound(edit[f])'
    BY DEF EditFacts
  <2>1. edit'[f] = NoEdit \/ edit'[f] = edit[f] BY <1>2 DEF ListInv, ListTyped
  <2>2. Sound(edit[f]) BY DEF ListInv, EditFacts
  <2> QED BY <1>1, <2>1, <2>2 DEF Sound, Fits, MinimalIngress
<1> QED BY <1>3, <1>4 DEF ListInv, NoLostEdit

LEMMA AddRuleInv ==
  ASSUME ListInv, NEW e \in Edits, NEW k \in Keys, AddRule(e, k), edit' # edit,
         edit[e].step = "idle", UNCHANGED <<ingress, egress, cidr, v6Vcn, ledger>>
  PROVE  ListInv'
<1>1. PICK merged : merged = mergeIngressRules(ingress, k) OBVIOUS
<1>2. CASE merged = ingress \/ TooLong(merged)
  BY <1>1, <1>2, IdleEditEnds DEF AddRule
<1>3. CASE merged # ingress /\ ~TooLong(merged)
  <2>1. Writes(e, "add", k, merged) BY <1>1, <1>3 DEF AddRule
  <2>2. PICK r : r = <<k, "plain">> OBVIOUS
  <2>3. merged = ingress \union {r} BY <1>1, <1>3, <2>2 DEF mergeIngressRules
  <2>4. r \in Rules /\ ruleKey(r) = k BY <2>2 DEF Rules, ruleKey
  <2>5. IsFiniteSet(ingress) /\ ingress \subseteq Rules BY DEF ListInv, ListTyped, Fits
  <2>6. IsFiniteSet(merged) /\ Cardinality(merged) \in Nat
    BY <2>3, <2>5, FS_AddElement, FS_CardinalityType
  <2>7. Cardinality(merged) <= ListCap BY <1>3, <2>6, ListCapOK DEF TooLong, ListCapOK
  <2>8. Fits(merged) BY <2>3, <2>4, <2>5, <2>6, <2>7 DEF Fits
  <2>9. KeysOf(merged) = KeysOf(ingress) \union {k} BY <2>3, <2>4 DEF KeysOf
  <2>10. Sound([step |-> "put", op |-> "add", key |-> k, stale |-> FALSE, body |-> merged])
    BY <2>8, <2>9 DEF Sound
  <2>11. merged \subseteq Rules BY <2>8 DEF Fits
  <2> QED BY <2>1, <2>10, <2>11, NewEdit
<1> QED BY <1>2, <1>3

LEMMA DeleteRuleInv ==
  ASSUME ListInv, NEW e \in Edits, NEW k \in Keys, DeleteRule(e, k), edit' # edit,
         edit[e].step = "idle", UNCHANGED <<ingress, egress, cidr, v6Vcn, ledger>>
  PROVE  ListInv'
<1>1. CASE k \notin KeysOf(ingress) BY <1>1, IdleEditEnds DEF DeleteRule
<1>2. CASE k \in KeysOf(ingress)
  <2>1. PICK kept : kept = Kept(ingress, k) OBVIOUS
  <2>2. Writes(e, "delete", k, kept) BY <1>2, <2>1 DEF DeleteRule
  <2>3. kept \subseteq ingress BY <2>1 DEF Kept
  <2>4. Fits(ingress) /\ Cardinality(ingress) \in Nat BY FS_CardinalityType DEF ListInv, ListTyped, Fits
  <2>5. IsFiniteSet(kept) /\ Cardinality(kept) \in Nat /\ Cardinality(kept) <= Cardinality(ingress)
    BY <2>3, <2>4, FS_Subset, FS_CardinalityType DEF Fits
  <2>6. Fits(kept) BY <2>3, <2>4, <2>5, ListCapOK DEF Fits, ListCapOK
  <2>7. KeysOf(kept) = KeysOf(ingress) \ {k} BY <2>1 DEF KeysOf, Kept
  <2>8. Sound([step |-> "put", op |-> "delete", key |-> k, stale |-> FALSE, body |-> kept])
    BY <2>6, <2>7 DEF Sound
  <2>9. kept \subseteq Rules BY <2>6 DEF Fits
  <2> QED BY <2>2, <2>8, <2>9, NewEdit
<1> QED BY <1>1, <1>2

LEMMA AddEgressInv ==
  ASSUME ListInv, NEW e \in Edits, AddEgress(e), edit' # edit,
         edit[e].step = "idle", UNCHANGED <<ingress, egress, cidr, v6Vcn, ledger>>
  PROVE  ListInv'
<1>1. CASE "v6" \in egress BY <1>1, IdleEditEnds DEF AddEgress
<1>2. CASE "v6" \notin egress
  <2>1. PICK both : both = egress \union {"v6"} OBVIOUS
  <2>2. Writes(e, "egress", "none", both) BY <1>2, <2>1 DEF AddEgress
  <2>3. both \subseteq {"v4", "v6"} BY <2>1 DEF ListInv, ListTyped
  <2>4. Sound([step |-> "put", op |-> "egress", key |-> "none", stale |-> FALSE, body |-> both])
    BY <2>3 DEF Sound
  <2>5. both \in SUBSET {"v4", "v6"} BY <2>3
  <2>6. both \in (SUBSET Rules) \union (SUBSET {"v4", "v6"}) BY <2>5
  <2> QED BY <2>2, <2>4, <2>6, NewEdit
<1> QED BY <1>1, <1>2

LEMMA ResetInv ==
  ASSUME ListInv, NEW e \in Edits, Writes(e, "reset", "none", MinimalIngress),
         UNCHANGED <<ingress, egress, cidr, v6Vcn, ledger>>
  PROVE  ListInv'
<1>1. PICK minimal : minimal = MinimalIngress OBVIOUS
<1>2. Fits(minimal) /\ minimal \subseteq Rules BY <1>1, MinimalFits DEF Fits
<1>3. Sound([step |-> "put", op |-> "reset", key |-> "none", stale |-> FALSE, body |-> minimal])
  BY <1>1, <1>2 DEF Sound
<1>4. Writes(e, "reset", "none", minimal) BY <1>1
<1> QED BY <1>2, <1>3, <1>4, NewEdit

LEMMA ReadListInv == \A e \in Edits : ListInv /\ ReadList(e) => ListInv'
<1> SUFFICES ASSUME NEW e \in Edits, ListInv, ReadList(e) PROVE ListInv'
  OBVIOUS
<1>1. /\ edit[e].step = "idle" /\ edit' # edit
      /\ UNCHANGED <<ingress, egress, cidr, v6Vcn, ledger>>
  BY DEF ReadList
<1>2. ASSUME NEW k \in Keys, AddRule(e, k) PROVE ListInv' BY <1>1, <1>2, AddRuleInv
<1>3. ASSUME NEW k \in Keys, DeleteRule(e, k) PROVE ListInv' BY <1>1, <1>3, DeleteRuleInv
<1>4. CASE AddEgress(e) BY <1>1, <1>4, AddEgressInv
<1>5. CASE Writes(e, "reset", "none", MinimalIngress) BY <1>1, <1>5, ResetInv
<1> QED BY <1>2, <1>3, <1>4, <1>5 DEF ReadList

(***************************************************************************)
(* The second call, and the console.                                       *)
(***************************************************************************)

\* What Replace leaves: a list that fits, and what the edits add up to.
LEMMA ReplaceFits ==
  ASSUME ListInv, NEW e \in Edits, edit[e].step = "put", Replace(e)
  PROVE  /\ Fits(ingress') /\ egress' \subseteq {"v4", "v6"}
         /\ KeysOf(ingress') = ledger' /\ ledger' \subseteq Keys
<1>1. PICK d : d = edit[e] OBVIOUS
<1>2. /\ d.step = "put" /\ Sound(d) /\ d.stale \in BOOLEAN
      /\ d.op \in {"add", "delete", "egress", "reset"}
  BY <1>1, EditType DEF ListInv, EditFacts, Sound
<1>3. /\ ingress' = (IF d.op = "egress" THEN ingress ELSE d.body)
      /\ egress' = CASE d.op = "egress" -> d.body
                     [] d.op = "reset" -> MinimalEgress
                     [] OTHER -> egress
      /\ ledger' = IF d.stale /\ d.op \in {"add", "delete"} THEN KeysOf(ingress') ELSE Expected(d)
  BY <1>1 DEF Replace
<1>4. Fits(ingress) /\ egress \subseteq {"v4", "v6"} /\ KeysOf(ingress) = ledger
  BY DEF ListInv, ListTyped, NoLostEdit
<1>5. MinimalEgress \subseteq {"v4", "v6"} BY DEF MinimalEgress
<1>6. CASE d.op = "egress"
  <2>1. ingress' = ingress /\ egress' = d.body /\ ledger' = ledger
    BY <1>3, <1>6 DEF Expected
  <2> QED BY <1>2, <1>4, <1>6, <2>1, KeysOfRules DEF Sound, Fits
<1>7. CASE d.op = "reset"
  <2>1. ingress' = d.body /\ egress' = MinimalEgress /\ ledger' = KeysOf(MinimalIngress)
    BY <1>3, <1>7 DEF Expected
  <2>2. d.body = MinimalIngress BY <1>2, <1>7 DEF Sound
  <2> QED BY <1>5, <2>1, <2>2, MinimalFits
<1>8. CASE d.op = "add"
  <2>1. ingress' = d.body /\ egress' = egress BY <1>3, <1>8
  <2>2. Fits(d.body) BY <1>2, <1>8 DEF Sound
  <2>3. ledger' = KeysOf(ingress')
    <3>1. CASE d.stale BY <1>3, <1>8, <3>1
    <3>2. CASE ~d.stale BY <1>2, <1>3, <1>4, <1>8, <2>1, <3>2 DEF Expected, Sound
    <3> QED BY <3>1, <3>2
  <2> QED BY <1>4, <2>1, <2>2, <2>3, KeysOfRules DEF Fits
<1>9. CASE d.op = "delete"
  <2>1. ingress' = d.body /\ egress' = egress BY <1>3, <1>9
  <2>2. Fits(d.body) BY <1>2, <1>9 DEF Sound
  <2>3. ledger' = KeysOf(ingress')
    <3>1. CASE d.stale BY <1>3, <1>9, <3>1
    <3>2. CASE ~d.stale BY <1>2, <1>3, <1>4, <1>9, <2>1, <3>2 DEF Expected, Sound
    <3> QED BY <3>1, <3>2
  <2> QED BY <1>4, <2>1, <2>2, <2>3, KeysOfRules DEF Fits
<1> QED BY <1>2, <1>6, <1>7, <1>8, <1>9

LEMMA UpdateInv == \A e \in Edits : ListInv /\ UpdateSecurityList(e) => ListInv'
<1> SUFFICES ASSUME NEW e \in Edits, ListInv, UpdateSecurityList(e) PROVE ListInv'
  OBVIOUS
<1>1. /\ edit[e].step = "put" /\ UNCHANGED <<cidr, v6Vcn>>
      /\ edit' = [Outdate(e) EXCEPT ![e] = NoEdit]
  BY DEF UpdateSecurityList
<1>2. /\ Fits(ingress') /\ egress' \subseteq {"v4", "v6"}
      /\ KeysOf(ingress') = ledger' /\ ledger' \subseteq Keys
  <2>1. CASE Replace(e) BY <1>1, <2>1, ReplaceFits
  <2>2. CASE UNCHANGED <<ingress, egress, ledger>> BY <2>2 DEF ListInv, ListTyped, NoLostEdit
  <2> QED BY <2>1, <2>2 DEF UpdateSecurityList
<1>3. NoEdit \in EditRecord /\ NoEdit.step = "idle" BY DEF NoEdit, EditRecord
<1>4. ASSUME NEW f \in Edits PROVE edit'[f] \in EditRecord /\ Sound(edit[f])'
  <2>1. CASE f = e
    <3>1. edit'[f] = NoEdit BY <1>1, <2>1 DEF Outdate
    <3> QED BY <1>3, <3>1 DEF Sound
  <2>2. CASE f # e
    <3>1. edit'[f] = [edit[f] EXCEPT !.stale = @ \/ (edit[f].step = "put" /\ ingress' # ingress)]
      BY <1>1, <2>2 DEF Outdate
    <3> QED BY <1>1, <3>1, OthersStaySound
  <2> QED BY <2>1, <2>2
<1>5. edit' \in [Edits -> EditRecord]
  <2>1. DOMAIN edit' = Edits /\ edit' = [f \in Edits |-> edit'[f]] BY <1>1 DEF Outdate
  <2> QED BY <1>4, <2>1
<1>6. ListTyped' BY <1>1, <1>2, <1>5 DEF ListInv, ListTyped, Fits, EditRecord
<1>7. EditFacts' BY <1>4 DEF EditFacts
<1> QED BY <1>2, <1>6, <1>7 DEF ListInv, NoLostEdit

LEMMA ConsoleInv == ListInv /\ ConsoleEdit => ListInv'
<1> SUFFICES ASSUME ListInv, ConsoleEdit PROVE ListInv'
  OBVIOUS
<1>1. UNCHANGED <<egress, cidr, v6Vcn>> /\ edit' = Outdate("console") BY DEF ConsoleEdit
<1>2. Fits(ingress) /\ KeysOf(ingress) = ledger /\ Cardinality(ingress) \in Nat
  BY FS_CardinalityType DEF ListInv, ListTyped, NoLostEdit, Fits
<1>3. PICK k \in Console :
       \/ /\ Cardinality(ingress) < ListCap
          /\ ingress' = ingress \union {<<k, "twin">>}
          /\ ledger' = ledger \union {k}
       \/ /\ ingress' = ingress \ {<<k, "twin">>}
          /\ ledger' = IF <<k, "plain">> \in ingress THEN ledger ELSE ledger \ {k}
  BY DEF ConsoleEdit
<1>4. PICK t : t = <<k, "twin">> OBVIOUS
<1>5. t \in Rules /\ ruleKey(t) = k BY <1>4 DEF Rules, ruleKey
<1>6. Fits(ingress') /\ KeysOf(ingress') = ledger'
  <2>1. CASE Cardinality(ingress) < ListCap /\ ingress' = ingress \union {t} /\ ledger' = ledger \union {k}
    <3>1. IsFiniteSet(ingress') /\ Cardinality(ingress') <= Cardinality(ingress) + 1
      BY <1>2, <2>1, FS_AddElement DEF Fits
    <3>2. Cardinality(ingress') \in Nat BY <3>1, FS_CardinalityType
    <3>3. Cardinality(ingress') <= ListCap BY <1>2, <2>1, <3>1, <3>2, ListCapOK DEF ListCapOK
    <3>4. ingress' \subseteq Rules BY <1>2, <1>5, <2>1 DEF Fits
    <3>5. KeysOf(ingress') = KeysOf(ingress) \union {k} BY <1>5, <2>1 DEF KeysOf
    <3> QED BY <1>2, <2>1, <3>1, <3>3, <3>4, <3>5 DEF Fits
  <2>2. CASE /\ ingress' = ingress \ {t}
             /\ ledger' = IF <<k, "plain">> \in ingress THEN ledger ELSE ledger \ {k}
    <3>1. ingress' \subseteq ingress BY <2>2
    <3>2. /\ IsFiniteSet(ingress') /\ Cardinality(ingress') \in Nat
          /\ Cardinality(ingress') <= Cardinality(ingress)
      BY <1>2, <3>1, FS_Subset, FS_CardinalityType DEF Fits
    <3>3. Fits(ingress') BY <1>2, <3>1, <3>2, ListCapOK DEF Fits, ListCapOK
    <3>4. PICK p : p = <<k, "plain">> OBVIOUS
    <3>5. ruleKey(p) = k /\ p # t BY <1>4, <3>4 DEF ruleKey
    <3>6. CASE p \in ingress
      <4>1. ledger' = ledger /\ p \in ingress' BY <2>2, <3>4, <3>5, <3>6
      <4>2. KeysOf(ingress') = KeysOf(ingress) BY <1>5, <2>2, <3>5, <4>1 DEF KeysOf
      <4> QED BY <1>2, <3>3, <4>1, <4>2
    <3>7. CASE p \notin ingress
      <4>1. ledger' = ledger \ {k} BY <2>2, <3>4, <3>7
      <4>2. \A r \in ingress : ruleKey(r) = k => r = t
        <5>1. \A r \in Rules : ruleKey(r) = k => r = p \/ r = t
          BY <1>4, <3>4 DEF Rules, ruleKey
        <5> QED BY <1>2, <3>7, <5>1 DEF Fits
      <4>3. KeysOf(ingress') = KeysOf(ingress) \ {k} BY <1>5, <2>2, <4>2 DEF KeysOf
      <4> QED BY <1>2, <3>3, <4>1, <4>3
    <3> QED BY <3>6, <3>7
  <2> QED BY <1>3, <1>4, <2>1, <2>2
<1>7. ASSUME NEW f \in Edits PROVE edit'[f] \in EditRecord /\ Sound(edit[f])'
  <2>1. f # "console" BY ListCapOK DEF ListCapOK
  <2>2. edit'[f] = [edit[f] EXCEPT !.stale = @ \/ (edit[f].step = "put" /\ ingress' # ingress)]
    BY <1>1, <2>1 DEF Outdate
  <2> QED BY <1>1, <2>2, OthersStaySound
<1>8. edit' \in [Edits -> EditRecord] BY <1>1, <1>7 DEF Outdate
<1>9. ledger' \subseteq Keys BY <1>6, KeysOfRules DEF Fits
<1>10. ListTyped' BY <1>1, <1>6, <1>8, <1>9 DEF ListInv, ListTyped, Fits, EditRecord
<1>11. EditFacts' BY <1>7 DEF EditFacts
<1> QED BY <1>6, <1>10, <1>11 DEF ListInv, NoLostEdit

LEMMA ListStepInv == ListInv /\ [ListNext]_listVars => ListInv'
<1> SUFFICES ASSUME ListInv, [ListNext]_listVars PROVE ListInv'
  OBVIOUS
<1>1. ASSUME NEW e \in Edits, ReadList(e) PROVE ListInv' BY <1>1, ReadListInv
<1>2. ASSUME NEW e \in Edits, UpdateSecurityList(e) PROVE ListInv' BY <1>2, UpdateInv
<1>3. CASE ConsoleEdit BY <1>3, ConsoleInv
<1>4. CASE UNCHANGED listVars
  BY <1>4 DEF listVars, ListInv, ListTyped, Fits, EditRecord, EditFacts, Sound, NoLostEdit, MinimalIngress
<1> QED BY <1>1, <1>2, <1>3, <1>4 DEF ListNext

LEMMA ListInvariance == ListSpec => []ListInv
BY ListInitInv, ListStepInv, PTL DEF ListSpec

\* Every variable of a security list keeps its type, and no edit of the panel
\* takes the list past what OCI accepts (network.go applyIngressRules).
THEOREM ListTypeCorrect == ListSpec => []ListTypeOK
<1>1. ListInv => ListTypeOK BY DEF ListInv, ListTyped, Fits, ListTypeOK, EditRecord
<1> QED BY <1>1, ListInvariance, PTL

\* The list holds what its edits add up to, for any number of edits, rules and
\* lost answers: an edit is lost only to one that read the list before it.
THEOREM EditsKept == ListSpec => []NoLostEdit
<1>1. ListInv => NoLostEdit BY DEF ListInv
<1> QED BY <1>1, ListInvariance, PTL

\* A list shown as minimal opens no port, and one that was just reset is shown
\* as minimal when the VCN could be read.
THEOREM MinimalListsAgree == ListSpec => []MinimalAgrees
<1>1. MinimalAgrees
  <2>1. ASSUME NEW known \in BOOLEAN, isMinimalSecurityList(known), NEW r \in ingress
        PROVE  ruleKey(r) \in {"pmtud", "internal"}
    BY <2>1 DEF isMinimalSecurityList, ruleKey
  <2>2. ingress = MinimalIngress /\ egress = MinimalEgress => isMinimalSecurityList(TRUE)
    BY DEF MinimalIngress, MinimalEgress, isMinimalSecurityList
  <2> QED BY <2>1, <2>2 DEF MinimalAgrees, KeysOf
<1> QED BY <1>1, PTL

(***************************************************************************)
(* The firewall of one instance, for any number of requests and rules.     *)
(* What a request has read is still so while no other one is under way.    *)
(***************************************************************************)

Entries == AllowAll \X Asks

AskState ==
  [op : {"none", "enable", "open", "add", "clear", "disable"},
   step : {"fresh", "vnic", "create", "attach", "undo", "list", "batch", "detach", "delete", "done"},
   group : Asks \union {"none"}, seen : SUBSET Asks, todo : SUBSET (AllowAll \union Entries)]

FwTyped ==
  /\ attached \subseteq Asks
  /\ groups \subseteq Asks
  /\ rules \in [Asks -> SUBSET Entries]
  /\ ask \in [Asks -> AskState]
  /\ {slipped, crossed} \subseteq BOOLEAN

\* What a request knows by itself.
RequestSound(r) ==
  /\ ask[r].step \in {"attach", "undo"} => ask[r].group = r
  /\ ask[r].step = "batch" =>
       /\ ask[r].group \in Asks
       /\ ask[r].op # "clear" => ask[r].todo \subseteq AllowAll

\* One request at a time: what it read is still so.
Alone(r) ==
  /\ \A q \in Asks : Busy(q) /\ Busy(r) => q = r
  /\ ask[r].step \in {"create", "attach"} => attached = {}
  /\ ask[r].step = "detach" => ask[r].seen = attached
  /\ ask[r].step = "batch" /\ ask[r].op # "clear" =>
       \A x \in rules[ask[r].group] : x[1] \notin ask[r].todo

\* A group is attached, or a request is about to attach it or to delete it.
Handled(g) == g \in attached \/
  \E r \in Asks : ask[r].step \in {"attach", "undo", "delete"} /\ ask[r].group = g

\* A rule is in a group once.
Once(g) == \A x, y \in rules[g] : x[1] = y[1] => x = y

FwInv ==
  /\ FwTyped
  /\ \A r \in Asks : RequestSound(r)
  /\ \A g \in Asks : IsFiniteSet(rules[g])
  /\ ~crossed => \A r \in Asks : Alone(r)
  /\ ~crossed => \A g \in Asks : Once(g)
  /\ ~crossed /\ ~slipped => \A g \in groups : Handled(g)

LEMMA NotYetState == NotYet \in AskState
BY DEF NotYet, AskState

\* A request of its own that another one is under way is a crossing.
LEMMA AskedInv ==
  ASSUME FwInv, NEW r \in Asks, ask[r].step = "fresh", NEW x \in AskState,
         x.step \in {"list", "vnic", "batch"},
         x.step = "batch" => x.op = "clear" /\ x.group \in Asks,
         ask' = [ask EXCEPT ![r] = x],
         crossed' = (crossed \/ \E q \in Asks \ {r} : Busy(q)),
         UNCHANGED <<attached, groups, rules, slipped>>
  PROVE  FwInv'
<1>1. FwTyped' BY DEF FwInv, FwTyped
<1>2. ask'[r] = x /\ \A q \in Asks \ {r} : ask'[q] = ask[q] BY DEF FwInv, FwTyped
<1>3. \A q \in Asks : RequestSound(q)' BY <1>2 DEF FwInv, RequestSound
<1>4. \A g \in Asks : IsFiniteSet(rules[g])' BY DEF FwInv
<1>5. ASSUME ~crossed', NEW q \in Asks PROVE Alone(q)'
  <2>1. ~crossed /\ \A p \in Asks \ {r} : ~Busy(p) BY <1>5
  <2>2. \A p \in Asks \ {r} : ~Busy(p)' BY <1>2, <2>1 DEF Busy
  <2>3. CASE q = r BY <1>2, <2>2, <2>3 DEF Alone
  <2>4. CASE q # r BY <1>2, <2>2, <2>4 DEF Alone, Busy
  <2> QED BY <2>3, <2>4
<1>6. ~crossed' => \A g \in Asks : Once(g)' BY DEF FwInv, Once
<1>7. ASSUME ~crossed', ~slipped', NEW g \in groups' PROVE Handled(g)'
  <2>1. Handled(g) BY <1>7 DEF FwInv
  <2>2. CASE g \in attached BY <2>2 DEF Handled
  <2>3. CASE g \notin attached
    <3>1. PICK q \in Asks : ask[q].step \in {"attach", "undo", "delete"} /\ ask[q].group = g
      BY <2>1, <2>3 DEF Handled
    <3>2. ask'[q] = ask[q] BY <1>2, <3>1
    <3> QED BY <3>1, <3>2 DEF Handled
  <2> QED BY <2>2, <2>3
<1> QED BY <1>1, <1>3, <1>4, <1>5, <1>6, <1>7 DEF FwInv

\* A step of one request that touches no rule and is not told of it all.
LEMMA RequestMoves ==
  ASSUME FwInv, NEW r \in Asks, Busy(r), NEW x \in AskState, ask' = [ask EXCEPT ![r] = x],
         UNCHANGED <<rules, crossed>>,
         attached' \subseteq Asks, groups' \subseteq Asks, slipped' \in BOOLEAN,
         x.step \in {"attach", "undo"} => x.group = r,
         x.step = "batch" =>
           /\ x.group \in Asks
           /\ x.op # "clear" => x.todo \subseteq AllowAll,
         ~crossed =>
           /\ x.step \in {"create", "attach"} => attached' = {}
           /\ x.step = "detach" => x.seen = attached'
           /\ x.step = "batch" /\ x.op # "clear" => \A y \in rules[x.group] : y[1] \notin x.todo,
         ~crossed /\ ~slipped' =>
           \A g \in groups' : g \in attached' \/ (x.step \in {"attach", "undo", "delete"} /\ x.group = g)
  PROVE  FwInv'
<1>1. FwTyped' BY DEF FwInv, FwTyped
<1>2. ask'[r] = x /\ \A q \in Asks \ {r} : ask'[q] = ask[q] BY DEF FwInv, FwTyped
<1>3. \A q \in Asks : RequestSound(q)' BY <1>2 DEF FwInv, RequestSound
<1>4. \A g \in Asks : IsFiniteSet(rules[g])' BY DEF FwInv
<1>5. ASSUME ~crossed', NEW q \in Asks PROVE Alone(q)'
  <2>1. \A p \in Asks \ {r} : ~Busy(p) BY <1>5 DEF FwInv, Alone
  <2>2. \A p \in Asks \ {r} : ~Busy(p)' BY <1>2, <2>1 DEF Busy
  <2>3. CASE q = r BY <1>2, <1>5, <2>2, <2>3 DEF Alone
  <2>4. CASE q # r BY <1>2, <2>2, <2>4 DEF Alone, Busy
  <2> QED BY <2>3, <2>4
<1>6. ~crossed' => \A g \in Asks : Once(g)' BY DEF FwInv, Once
<1>7. ~crossed' /\ ~slipped' => \A g \in groups' : Handled(g)'
  BY <1>2 DEF Handled
<1> QED BY <1>1, <1>3, <1>4, <1>5, <1>6, <1>7 DEF FwInv

\* A request that ends, or loses an answer.
LEMMA RequestEnds ==
  ASSUME FwInv, NEW r \in Asks, Busy(r), Ends(r), UNCHANGED <<rules, crossed>>,
         attached' \subseteq Asks, groups' \subseteq Asks, slipped' \in BOOLEAN,
         ~crossed /\ ~slipped' => groups' \subseteq attached'
  PROVE  FwInv'
<1> DEFINE x == [ask[r] EXCEPT !.step = "done"]
<1>1. x \in AskState /\ x.step = "done" BY DEF FwInv, FwTyped, AskState
<1>2. ask' = [ask EXCEPT ![r] = x] BY DEF Ends
<1> HIDE DEF x
<1> QED BY <1>1, <1>2, RequestMoves

\* The answer of a call that changes the VNIC or the groups is lost.
LEMMA AnswerLost ==
  ASSUME FwInv, NEW r \in Asks, Busy(r), Fails(r), UNCHANGED <<rules, crossed>>,
         attached' \subseteq Asks, groups' \subseteq Asks
  PROVE  FwInv'
BY RequestEnds DEF Fails

\* Only the request under way is about to do something with a group.
LEMMA OnlyOne ==
  ASSUME FwInv, NEW r \in Asks, Busy(r), ~crossed, ~slipped, NEW g \in groups
  PROVE  g \in attached \/ (ask[r].step \in {"attach", "undo", "delete"} /\ ask[r].group = g)
<1>1. Handled(g) /\ Alone(r) BY DEF FwInv
<1> QED BY <1>1 DEF Handled, Alone, Busy

LEMMA FwTypes ==
  ASSUME FwInv, NEW r \in Asks
  PROVE  /\ ask[r] \in AskState /\ attached \subseteq Asks /\ groups \subseteq Asks
         /\ slipped \in BOOLEAN /\ crossed \in BOOLEAN
         /\ ask \in [Asks -> AskState] /\ RequestSound(r) /\ (~crossed => Alone(r))
BY DEF FwInv, FwTyped

\* EnsureInstanceNSG and RemoveInstanceNSG.
LEMMA GroupInv ==
  ASSUME FwInv, NEW r \in Asks,
         InstanceVnic(r) \/ CreateGroup(r) \/ AttachGroup(r) \/ DeleteUnattached(r)
         \/ Detach(r) \/ DeleteGroup(r)
  PROVE  FwInv'
<1>0. /\ ask[r] \in AskState /\ attached \subseteq Asks /\ groups \subseteq Asks
      /\ slipped \in BOOLEAN /\ ask \in [Asks -> AskState] /\ RequestSound(r)
      /\ (~crossed => Alone(r))
  BY FwTypes
<1>1. Busy(r) /\ UNCHANGED <<rules, crossed>>
  BY DEF Busy, InstanceVnic, CreateGroup, AttachGroup, DeleteUnattached, Detach, DeleteGroup
<1>2. ASSUME NEW s \in {"create", "list", "undo", "delete"}, Advance(r, s) 
      PROVE  \E x \in AskState : /\ ask' = [ask EXCEPT ![r] = x] /\ x.step = s
                                 /\ x.group = ask[r].group /\ x.op = ask[r].op
  <2> DEFINE x == [ask[r] EXCEPT !.step = s]
  <2>1. x \in AskState /\ x.step = s /\ x.group = ask[r].group /\ x.op = ask[r].op
    BY <1>0 DEF AskState
  <2>2. ask' = [ask EXCEPT ![r] = x] BY <1>2 DEF Advance
  <2> HIDE DEF x
  <2> QED BY <2>1, <2>2
<1>3. CASE InstanceVnic(r)
  <2>1. ask[r].step = "vnic" /\ UNCHANGED <<attached, groups, rules, crossed>>
    BY <1>3 DEF InstanceVnic
  <2>2. ~crossed /\ ~slipped => \A g \in groups : g \in attached BY <1>1, <2>1, OnlyOne
  <2>3. CASE Fails(r) BY <1>0, <1>1, <2>1, <2>3, AnswerLost
  <2>4. CASE ask' = [ask EXCEPT ![r] = [@ EXCEPT !.seen = attached, !.step = "detach"]] /\ UNCHANGED slipped
    <3> DEFINE x == [ask[r] EXCEPT !.seen = attached, !.step = "detach"]
    <3>1. x \in AskState /\ x.step = "detach" /\ x.seen = attached BY <1>0 DEF AskState
    <3>2. ask' = [ask EXCEPT ![r] = x] BY <2>4
    <3> HIDE DEF x
    <3> QED BY <1>0, <1>1, <2>1, <2>2, <2>4, <3>1, <3>2, RequestMoves
  <2>5. CASE attached = {} /\ Advance(r, "create") /\ UNCHANGED slipped
    <3>1. PICK x \in AskState : ask' = [ask EXCEPT ![r] = x] /\ x.step = "create" BY <1>2, <2>5
    <3> QED BY <1>0, <1>1, <2>1, <2>2, <2>5, <3>1, RequestMoves
  <2>6. CASE /\ \E g \in attached : ask' = [ask EXCEPT ![r] = [@ EXCEPT !.group = g, !.step = "list"]]
             /\ UNCHANGED slipped
    <3>1. PICK g \in attached : ask' = [ask EXCEPT ![r] = [@ EXCEPT !.group = g, !.step = "list"]]
      BY <2>6
    <3> DEFINE x == [ask[r] EXCEPT !.group = g, !.step = "list"]
    <3>2. x \in AskState /\ x.step = "list" BY <1>0 DEF AskState
    <3>3. ask' = [ask EXCEPT ![r] = x] BY <3>1
    <3> HIDE DEF x
    <3> QED BY <1>0, <1>1, <2>1, <2>2, <2>6, <3>2, <3>3, RequestMoves
  <2> QED BY <1>3, <2>3, <2>4, <2>5, <2>6 DEF InstanceVnic
<1>4. CASE CreateGroup(r)
  <2>1. ask[r].step = "create" /\ UNCHANGED <<attached, rules, crossed>> BY <1>4 DEF CreateGroup
  <2>2. ~crossed /\ ~slipped => \A g \in groups : g \in attached BY <1>1, <2>1, OnlyOne
  <2>3. CASE groups' \in {groups, groups \union {r}} /\ Fails(r)
    BY <1>0, <1>1, <2>1, <2>3, AnswerLost
  <2>4. CASE /\ groups' = groups \union {r}
             /\ ask' = [ask EXCEPT ![r].group = r, ![r].step = "attach"]
             /\ UNCHANGED slipped
    <3> DEFINE x == [ask[r] EXCEPT !.group = r, !.step = "attach"]
    <3>1. x \in AskState /\ x.step = "attach" /\ x.group = r BY <1>0 DEF AskState
    <3>2. ask' = [ask EXCEPT ![r] = x] BY <1>0, <2>4 DEF AskState
    <3> HIDE DEF x
    <3>3. ~crossed => attached' = {} BY <1>0, <2>1 DEF Alone
    <3>4. groups' \subseteq Asks /\ attached' \subseteq Asks /\ slipped' \in BOOLEAN
      BY <1>0, <2>1, <2>4
    <3>5. ~crossed /\ ~slipped' => \A g \in groups' : g \in attached' \/ (x.step = "attach" /\ x.group = g)
      BY <2>1, <2>2, <2>4, <3>1
    <3> QED BY <1>1, <3>1, <3>2, <3>3, <3>4, <3>5, RequestMoves
  <2> QED BY <1>4, <2>3, <2>4 DEF CreateGroup
<1>5. CASE AttachGroup(r)
  <2>1. /\ ask[r].step = "attach" /\ ask[r].group = r /\ UNCHANGED <<groups, rules, crossed>>
        /\ ~crossed => attached = {}
    BY <1>0, <1>5 DEF AttachGroup, RequestSound, Alone
  <2>2. ~crossed /\ ~slipped => \A g \in groups : g \in attached \/ g = r
    BY <1>1, <2>1, OnlyOne
  <2>3. PICK s \in {"list", "undo"} :
          /\ Advance(r, s)
          /\ attached' \subseteq attached \union {r} /\ slipped' \in BOOLEAN
          /\ ~slipped' => ~slipped /\ (s = "list" => attached' = {r}) /\ (s = "undo" => attached' = attached)
    BY <1>0, <1>5 DEF AttachGroup
  <2>4. PICK x \in AskState : ask' = [ask EXCEPT ![r] = x] /\ x.step = s /\ x.group = r
    BY <1>2, <2>1, <2>3
  <2> QED BY <1>0, <1>1, <2>1, <2>2, <2>3, <2>4, RequestMoves
<1>6. CASE DeleteUnattached(r)
  <2>1. /\ ask[r].step = "undo" /\ ask[r].group = r /\ UNCHANGED <<attached, rules, crossed>>
    BY <1>0, <1>6 DEF DeleteUnattached, RequestSound
  <2>2. ~crossed /\ ~slipped => \A g \in groups : g \in attached \/ g = r
    BY <1>1, <2>1, OnlyOne
  <2>3. CASE UNCHANGED groups /\ Fails(r) BY <1>0, <1>1, <2>1, <2>3, AnswerLost
  <2>4. CASE groups' = Deleted(r) /\ Ends(r) /\ UNCHANGED slipped
    BY <1>0, <1>1, <2>1, <2>2, <2>4, RequestEnds DEF Deleted
  <2> QED BY <1>6, <2>3, <2>4 DEF DeleteUnattached
<1>7. CASE Detach(r)
  <2>1. ask[r].step = "detach" /\ UNCHANGED <<groups, rules, crossed>> BY <1>7 DEF Detach
  <2>2. ~crossed /\ ~slipped => \A g \in groups : g \in attached BY <1>1, <2>1, OnlyOne
  <2>3. Remaining(r) \subseteq Asks /\ (~crossed => Remaining(r) = attached \ {ask[r].group})
    BY <1>0, <2>1 DEF Remaining, Alone, AskState
  <2>4. CASE attached' \in {attached, Remaining(r)} /\ Fails(r)
    BY <1>0, <1>1, <2>1, <2>3, <2>4, AnswerLost
  <2>5. CASE attached' = Remaining(r) /\ Advance(r, "delete") /\ UNCHANGED slipped
    <3>1. PICK x \in AskState : ask' = [ask EXCEPT ![r] = x] /\ x.step = "delete" /\ x.group = ask[r].group
      BY <1>2, <2>5
    <3> QED BY <1>0, <1>1, <2>1, <2>2, <2>3, <2>5, <3>1, RequestMoves
  <2> QED BY <1>7, <2>4, <2>5 DEF Detach
<1>8. CASE DeleteGroup(r)
  <2>1. ask[r].step = "delete" /\ UNCHANGED <<attached, rules, crossed>> BY <1>8 DEF DeleteGroup
  <2>2. ~crossed /\ ~slipped => \A g \in groups : g \in attached \/ g = ask[r].group
    BY <1>1, <2>1, OnlyOne
  <2>3. CASE UNCHANGED groups /\ Fails(r) BY <1>0, <1>1, <2>1, <2>3, AnswerLost
  <2>4. CASE groups' = Deleted(ask[r].group) /\ Ends(r) /\ UNCHANGED slipped
    BY <1>0, <1>1, <2>1, <2>2, <2>4, RequestEnds DEF Deleted
  <2> QED BY <1>8, <2>3, <2>4 DEF DeleteGroup
<1> QED BY <1>3, <1>4, <1>5, <1>6, <1>7, <1>8

\* Listing the rules of a group, before a batch of them is written.
LEMMA ListedInv ==
  ASSUME FwInv, NEW r \in Asks, ListRules(r) \/ ListFails(r)
  PROVE  FwInv'
<1>0. /\ ask[r] \in AskState /\ attached \subseteq Asks /\ groups \subseteq Asks
      /\ slipped \in BOOLEAN /\ ask \in [Asks -> AskState]
  BY FwTypes
<1>1. /\ ask[r].step = "list" /\ Busy(r) /\ UNCHANGED <<attached, groups, rules, crossed>>
  BY DEF ListRules, ListFails, Busy
<1>2. ~crossed /\ ~slipped => groups \subseteq attached BY <1>1, OnlyOne
<1>3. CASE ListFails(r) BY <1>0, <1>1, <1>3, AnswerLost DEF ListFails
<1>4. CASE ListRules(r)
  <2> DEFINE g == ask[r].group
  <2>1. g \in Asks /\ UNCHANGED slipped BY <1>0, <1>4 DEF ListRules
  <2>2. CASE Ends(r) BY <1>0, <1>1, <1>2, <2>1, <2>2, RequestEnds
  <2>3. ASSUME NEW todo, ask' = [ask EXCEPT ![r].todo = todo, ![r].step = "batch"],
               \/ ask[r].op = "clear" /\ todo = rules[g]
               \/ todo \subseteq AllowAll /\ (todo \cap RuleNames(g)) = {}
        PROVE  FwInv'
    <3>1. todo \subseteq AllowAll \union Entries BY <2>1, <2>3 DEF FwInv, FwTyped
    <3> DEFINE x == [ask[r] EXCEPT !.todo = todo, !.step = "batch"]
    <3>2. x \in AskState /\ x.step = "batch" /\ x.group = g /\ x.todo = todo /\ x.op = ask[r].op
      BY <1>0, <3>1 DEF AskState
    <3>3. ask' = [ask EXCEPT ![r] = x] BY <1>0, <2>3 DEF AskState
    <3> HIDE DEF x
    <3>4. x.op # "clear" => todo \subseteq AllowAll /\ \A y \in rules[g] : y[1] \notin todo
      BY <2>3, <3>2 DEF RuleNames
    <3> HIDE DEF g
    <3> QED BY <1>0, <1>1, <1>2, <2>1, <3>2, <3>3, <3>4, RequestMoves
  <2>4. CASE ask[r].op = "clear" /\ ask' = [ask EXCEPT ![r].todo = rules[g], ![r].step = "batch"]
    BY <2>3, <2>4
  <2>5. CASE \E wanted \in (IF ask[r].op = "open" THEN {{"v4"}, AllowAll} ELSE SUBSET AllowAll) :
            ask' = [ask EXCEPT ![r].todo = Missing(g, wanted), ![r].step = "batch"]
    <3>1. PICK wanted \in (IF ask[r].op = "open" THEN {{"v4"}, AllowAll} ELSE SUBSET AllowAll) :
            ask' = [ask EXCEPT ![r].todo = Missing(g, wanted), ![r].step = "batch"]
      BY <2>5
    <3>2. wanted \subseteq AllowAll BY <3>1, FirewallOK DEF FirewallOK
    <3>3. Missing(g, wanted) \subseteq AllowAll /\ (Missing(g, wanted) \cap RuleNames(g)) = {}
      BY <3>2 DEF Missing
    <3> QED BY <2>3, <3>1, <3>3
  <2> QED BY <1>4, <2>2, <2>4, <2>5 DEF ListRules
<1> QED BY <1>3, <1>4

\* One batch: a rule is added that the group does not have, or removed.
LEMMA BatchInv ==
  ASSUME FwInv, NEW r \in Asks, Batch(r)
  PROVE  FwInv'
<1> DEFINE g == ask[r].group
<1>0. /\ ask[r] \in AskState /\ attached \subseteq Asks /\ groups \subseteq Asks
      /\ slipped \in BOOLEAN /\ crossed \in BOOLEAN /\ ask \in [Asks -> AskState]
      /\ RequestSound(r) /\ (~crossed => Alone(r))
  BY FwTypes
<1>1. /\ ask[r].step = "batch" /\ Busy(r) /\ UNCHANGED <<attached, groups, crossed>> /\ g \in Asks
      /\ ask[r].op # "clear" => ask[r].todo \subseteq AllowAll
  BY <1>0 DEF Batch, Busy, RequestSound
<1>2. ~crossed /\ ~slipped => groups \subseteq attached BY <1>1, OnlyOne
<1>3. CASE Ends(r) /\ UNCHANGED <<rules, slipped>> BY <1>0, <1>1, <1>2, <1>3, RequestEnds
<1>4. CASE UNCHANGED rules /\ Fails(r) BY <1>0, <1>1, <1>4, AnswerLost
<1>5. ASSUME NEW x \in ask[r].todo, rules' = [rules EXCEPT ![g] = AfterBatch(r, x)],
             \/ ask' = [ask EXCEPT ![r].todo = @ \ {x}] /\ UNCHANGED slipped
             \/ Fails(r)
      PROVE  FwInv'
  <2>1. PICK y \in AskState :
          /\ ask' = [ask EXCEPT ![r] = y] /\ y.group = g /\ y.op = ask[r].op
          /\ y.todo \subseteq ask[r].todo
          /\ y.step = "batch" => x \notin y.todo
          /\ y.step \in {"batch", "done"}
    <3>1. CASE ask' = [ask EXCEPT ![r].todo = @ \ {x}]
      <4> DEFINE y == [ask[r] EXCEPT !.todo = @ \ {x}]
      <4>1. y \in AskState /\ y.group = g /\ y.op = ask[r].op /\ y.todo = ask[r].todo \ {x} /\ y.step = "batch"
        BY <1>0, <1>1 DEF AskState
      <4>2. ask' = [ask EXCEPT ![r] = y] BY <3>1
      <4> HIDE DEF y
      <4> QED BY <4>1, <4>2
    <3>2. CASE Ends(r)
      <4> DEFINE y == [ask[r] EXCEPT !.step = "done"]
      <4>1. y \in AskState /\ y.group = g /\ y.op = ask[r].op /\ y.todo = ask[r].todo /\ y.step = "done"
        BY <1>0 DEF AskState
      <4>2. ask' = [ask EXCEPT ![r] = y] BY <3>2 DEF Ends
      <4> HIDE DEF y
      <4> QED BY <4>1, <4>2
    <3> QED BY <1>5, <3>1, <3>2 DEF Fails
  <2>2. slipped' \in BOOLEAN /\ (~slipped' => ~slipped) BY <1>0, <1>5 DEF Fails
  <2>3. ask'[r] = y /\ \A q \in Asks \ {r} : ask'[q] = ask[q] BY <1>0, <2>1
  <2>4. /\ rules'[g] = AfterBatch(r, x) /\ \A h \in Asks \ {g} : rules'[h] = rules[h]
        /\ rules \in [Asks -> SUBSET Entries] /\ IsFiniteSet(rules[g])
    BY <1>1, <1>5 DEF FwInv, FwTyped
  <2>5. CASE ask[r].op = "clear"
    <3>1. rules'[g] = rules[g] \ {x} BY <2>4, <2>5 DEF AfterBatch
    <3>2. FwTyped' BY <1>0, <1>1, <1>5, <2>1, <2>2, <2>4, <3>1 DEF FwInv, FwTyped
    <3>3. \A h \in Asks : IsFiniteSet(rules'[h])
      <4>1. IsFiniteSet(rules'[g]) BY <2>4, <3>1, FS_RemoveElement
      <4> QED BY <2>4, <4>1 DEF FwInv
    <3>4. ~crossed' => \A h \in Asks : Once(h)' BY <1>1, <2>4, <3>1 DEF FwInv, Once
    <3>5. ASSUME ~crossed', NEW q \in Asks PROVE Alone(q)'
      <4>1. \A p \in Asks \ {r} : ~Busy(p) BY <1>1, <3>5 DEF FwInv, Alone
      <4>2. \A p \in Asks \ {r} : ~Busy(p)' BY <2>3, <4>1 DEF Busy
      <4>3. CASE q = r BY <2>1, <2>3, <2>5, <4>2, <4>3 DEF Alone
      <4>4. CASE q # r BY <2>3, <4>2, <4>4 DEF Alone, Busy
      <4> QED BY <4>3, <4>4
    <3>6. \A q \in Asks : RequestSound(q)' BY <1>1, <2>1, <2>3 DEF FwInv, RequestSound
    <3>7. ~crossed' /\ ~slipped' => \A h \in groups' : Handled(h)'
      BY <1>1, <1>2, <2>2 DEF Handled
    <3> QED BY <3>2, <3>3, <3>4, <3>5, <3>6, <3>7 DEF FwInv
  <2>6. CASE ask[r].op # "clear"
    <3>1. rules'[g] = rules[g] \union {<<x, r>>} /\ x \in AllowAll /\ <<x, r>> \in Entries
      BY <1>1, <2>4, <2>6 DEF AfterBatch, Entries
    <3>2. FwTyped'
      <4>1. rules' \in [Asks -> SUBSET Entries] BY <1>5, <2>4, <3>1
      <4> QED BY <1>0, <1>1, <2>1, <2>2, <4>1 DEF FwInv, FwTyped
    <3>3. \A h \in Asks : IsFiniteSet(rules'[h])
      <4>0. IsFiniteSet(rules[g] \union {<<x, r>>}) BY <2>4, FS_AddElement
      <4>1. IsFiniteSet(rules'[g]) BY <3>1, <4>0
      <4> QED BY <2>4, <4>1 DEF FwInv
    <3>4. ~crossed => \A z \in rules[g] : z[1] \notin ask[r].todo BY <1>0, <1>1, <2>6 DEF Alone
    <3>5. <<x, r>>[1] = x OBVIOUS
    <3>6. ASSUME ~crossed', NEW h \in Asks PROVE Once(h)'
      <4>1. Once(h) BY <1>1, <3>6 DEF FwInv
      <4>2. CASE h = g BY <1>1, <1>5, <3>1, <3>4, <3>5, <3>6, <4>1, <4>2 DEF Once
      <4>3. CASE h # g BY <2>4, <4>1, <4>3 DEF Once
      <4> QED BY <4>2, <4>3
    <3>7. ASSUME ~crossed', NEW q \in Asks PROVE Alone(q)'
      <4>1. \A p \in Asks \ {r} : ~Busy(p) BY <1>1, <3>7 DEF FwInv, Alone
      <4>2. \A p \in Asks \ {r} : ~Busy(p)' BY <2>3, <4>1 DEF Busy
      <4>3. y.step = "batch" => \A z \in rules'[g] : z[1] \notin y.todo
        BY <1>1, <2>1, <3>1, <3>4, <3>5, <3>7
      <4>4. CASE q = r BY <2>1, <2>3, <4>2, <4>3, <4>4 DEF Alone
      <4>5. CASE q # r BY <2>3, <4>2, <4>5 DEF Alone, Busy
      <4> QED BY <4>4, <4>5
    <3>8. \A q \in Asks : RequestSound(q)' BY <1>1, <2>1, <2>3 DEF FwInv, RequestSound
    <3>9. ~crossed' /\ ~slipped' => \A h \in groups' : Handled(h)'
      BY <1>1, <1>2, <2>2 DEF Handled
    <3> QED BY <3>2, <3>3, <3>6, <3>7, <3>8, <3>9 DEF FwInv
  <2> QED BY <2>5, <2>6
<1> QED BY <1>3, <1>4, <1>5 DEF Batch

\* A restart.
LEMMA FwCrashInv == ASSUME FwInv, FwCrash PROVE FwInv'
<1>1. /\ ask' = [r \in Asks |-> IF Busy(r) THEN [ask[r] EXCEPT !.step = "done"] ELSE ask[r]]
      /\ slipped' = TRUE /\ UNCHANGED <<attached, groups, rules, crossed>>
  BY DEF FwCrash
<1>2. ASSUME NEW r \in Asks
      PROVE ask'[r] \in AskState /\ ask'[r].step \in {"fresh", "done"}
  <2>1. ask[r] \in AskState BY FwTypes
  <2>2. CASE Busy(r)
    <3>1. ask'[r] = [ask[r] EXCEPT !.step = "done"] BY <1>1, <2>2
    <3> QED BY <2>1, <3>1 DEF AskState
  <2>3. CASE ~Busy(r) BY <1>1, <2>1, <2>3 DEF Busy
  <2> QED BY <2>2, <2>3
<1>3. FwTyped' BY <1>1, <1>2 DEF FwInv, FwTyped
<1>4. \A r \in Asks : RequestSound(r)' /\ Alone(r)' BY <1>2 DEF RequestSound, Alone, Busy
<1>5. \A g \in Asks : IsFiniteSet(rules[g])' /\ (~crossed' => Once(g)') BY <1>1 DEF FwInv, Once
<1> QED BY <1>1, <1>3, <1>4, <1>5 DEF FwInv

(* The theorems. *)

\* There is no group at first.
LEMMA FwInitInv == FwInit => FwInv
<1> SUFFICES ASSUME FwInit PROVE FwInv OBVIOUS
<1>1. \A r \in Asks : ask[r] = NotYet /\ rules[r] = {} BY DEF FwInit
<1>2. NotYet.step = "fresh" BY DEF NotYet
<1>3. FwTyped BY NotYetState DEF FwInit, FwTyped
<1>4. \A r \in Asks : RequestSound(r) /\ Alone(r) /\ Once(r) BY <1>1, <1>2 DEF RequestSound, Alone, Once, Busy
<1>5. \A g \in Asks : IsFiniteSet(rules[g]) BY <1>1, FS_EmptySet
<1> QED BY <1>3, <1>4, <1>5 DEF FwInit, FwInv

\* The invariant is inductive.
LEMMA FwStepInv == FwInv /\ [FwNext]_fwVars => FwInv'
<1> SUFFICES ASSUME FwInv, [FwNext]_fwVars PROVE FwInv' OBVIOUS
<1>1. ASSUME NEW r \in Asks, NEW g \in Asks \union {"none"},
             NEW op \in {"enable", "open", "add", "clear", "disable"}, AskFor(r, op, g)
      PROVE  FwInv'
  <2>1. ask[r] \in AskState BY FwTypes
  <2> DEFINE s == IF op \in {"add", "clear"} THEN "list" ELSE "vnic"
             x == [ask[r] EXCEPT !.op = op, !.group = g, !.step = s]
  <2>2. x \in AskState /\ x.step = s BY <2>1 DEF AskState
  <2>3. ask' = [ask EXCEPT ![r] = x] BY <1>1 DEF AskFor
  <2> HIDE DEF x
  <2> QED BY <1>1, <2>2, <2>3, AskedInv DEF AskFor
<1>2. ASSUME NEW r \in Asks, NEW g \in groups, AskDeleteRule(r, g) PROVE FwInv'
  <2>1. ask[r] \in AskState /\ g \in Asks BY FwTypes
  <2>2. PICK z \in rules[g] :
          ask' = [ask EXCEPT ![r] = [@ EXCEPT !.op = "clear", !.group = g, !.todo = {z}, !.step = "batch"]]
    BY <1>2 DEF AskDeleteRule
  <2>3. {z} \subseteq AllowAll \union Entries BY <2>1, <2>2 DEF FwInv, FwTyped
  <2> DEFINE x == [ask[r] EXCEPT !.op = "clear", !.group = g, !.todo = {z}, !.step = "batch"]
  <2>4. x \in AskState /\ x.step = "batch" /\ x.op = "clear" /\ x.group = g BY <2>1, <2>3 DEF AskState
  <2>5. ask' = [ask EXCEPT ![r] = x] BY <2>2
  <2> HIDE DEF x
  <2> QED BY <1>2, <2>1, <2>4, <2>5, AskedInv DEF AskDeleteRule
<1>3. ASSUME NEW r \in Asks, AskPage(r) PROVE FwInv'
  <2>1. groups \subseteq Asks BY FwTypes
  <2> QED BY <1>1, <1>3, <2>1 DEF AskPage
<1>4. ASSUME NEW r \in Asks, AskFor(r, "enable", "none") \/ OpenAllPorts(r) PROVE FwInv'
  BY <1>1, <1>4 DEF OpenAllPorts
<1>5. CASE UNCHANGED fwVars
  BY <1>5 DEF fwVars, FwInv, FwTyped, RequestSound, Alone, Busy, Once, Handled
<1> QED BY <1>2, <1>3, <1>4, <1>5, GroupInv, ListedInv, BatchInv, FwCrashInv DEF FwNext

\* The inductive invariant holds in every reachable state.
THEOREM FwInvariance == FwSpec => []FwInv
BY FwInitInv, FwStepInv, PTL DEF FwSpec

\* Every variable keeps its type.
THEOREM FwTypeCorrect == FwSpec => []FwTypeOK
<1>1. FwInv => FwTypeOK BY DEF FwInv, FwTyped, AskState, Entries, FwTypeOK
<1> QED BY <1>1, FwInvariance, PTL

\* No group is left that is on no VNIC and that no request is about to handle.
THEOREM NoGroupIsOrphan == FwSpec => []NoOrphanGroup
<1>1. FwInv => NoOrphanGroup BY DEF FwInv, Handled, NoOrphanGroup, Busy
<1> QED BY <1>1, FwInvariance, PTL

\* A rule is in a group once.
THEOREM NoRuleIsDuplicate == FwSpec => []NoDuplicateRule
<1>1. ASSUME FwInv, ~crossed, NEW g \in groups
      PROVE  Cardinality(RuleNames(g)) = Cardinality(rules[g])
  <2> DEFINE name == [x \in rules[g] |-> x[1]]
  <2>1. g \in Asks /\ Once(g) /\ IsFiniteSet(rules[g]) BY <1>1 DEF FwInv, FwTyped
  <2>2. name \in Bijection(rules[g], RuleNames(g))
    <3>1. \A x \in rules[g] : name[x] = x[1] OBVIOUS
    <3>2. name \in [rules[g] -> RuleNames(g)] BY DEF RuleNames
    <3>3. \A n \in RuleNames(g) : \E x \in rules[g] : name[x] = n BY DEF RuleNames
    <3>4. \A x, y \in rules[g] : name[x] = name[y] => x = y BY <2>1, <3>1 DEF Once
    <3> HIDE DEF name
    <3>5. name \in Surjection(rules[g], RuleNames(g)) BY <3>2, <3>3 DEF Surjection
    <3>6. name \in Injection(rules[g], RuleNames(g)) BY <3>2, <3>4 DEF Injection, IsInjective
    <3> QED BY <3>5, <3>6 DEF Bijection
  <2> HIDE DEF name
  <2>3. ExistsBijection(rules[g], RuleNames(g)) BY <2>2 DEF ExistsBijection
  <2> QED BY <2>1, <2>3, FS_Bijection
<1>2. FwInv => NoDuplicateRule BY <1>1 DEF NoDuplicateRule
<1> QED BY <1>2, FwInvariance, PTL

(***************************************************************************)
(* What is proved of LogSockets, for every finite number of connections    *)
(* and every limit.  NoSlotLeak is inductive with the type invariant.      *)
(***************************************************************************)

SocketsInv == SocketsTypeOK /\ NoSlotLeak

\* Both sets of handlers are finite, and a handler that streams is counted.
LEMMA HandlersFinite ==
  ASSUME SocketsTypeOK
  PROVE  /\ IsFiniteSet(Counted) /\ IsFiniteSet(Admitted)
         /\ Cardinality(Counted) \in Nat /\ Cardinality(Admitted) \in Nat
         /\ Cardinality(Admitted) <= Cardinality(Counted)
<1>1. Counted \subseteq Sockets /\ Admitted \subseteq Counted BY DEF Counted, Admitted
<1>2. IsFiniteSet(Counted) BY <1>1, LogSocketsOK, FS_Subset DEF LogSocketsOK
<1> QED BY <1>1, <1>2, FS_Subset, FS_CardinalityType

LEMMA SocketsInitInv == SocketsInit => SocketsInv
<1> SUFFICES ASSUME SocketsInit PROVE SocketsInv
  OBVIOUS
<1>1. SocketsTypeOK BY DEF SocketsInit, SocketsTypeOK
<1>2. Counted = {} /\ Admitted = {} BY DEF SocketsInit, Counted, Admitted
<1> QED BY <1>1, <1>2, FS_EmptySet, LogSocketsOK DEF LogSocketsOK, SocketsInv, NoSlotLeak, SocketsInit

LEMMA SocketsStepInv == SocketsInv /\ [SocketsNext]_socketVars => SocketsInv'
<1> SUFFICES ASSUME SocketsInv, [SocketsNext]_socketVars PROVE SocketsInv'
  OBVIOUS
<1> USE DEF SocketsInv
<1>0. MaxLogSockets \in Nat BY LogSocketsOK DEF LogSocketsOK
<1>1. ASSUME NEW s \in Sockets, AddSocket(s) PROVE SocketsInv'
  <2>1. SocketsTypeOK' BY <1>1 DEF AddSocket, SocketsTypeOK
  <2>2. Counted' = Counted \union {s} /\ s \notin Counted
    BY <1>1 DEF AddSocket, SocketsTypeOK, Counted
  <2>3. Cardinality(Counted') = openLogSockets'
    BY <1>1, <2>2, HandlersFinite, FS_AddElement DEF AddSocket, NoSlotLeak
  <2>4. CASE openLogSockets' > MaxLogSockets
    <3>1. Admitted' = Admitted BY <1>1, <2>4 DEF AddSocket, SocketsTypeOK, Admitted
    <3> QED BY <2>1, <2>3, <3>1 DEF NoSlotLeak
  <2>5. CASE openLogSockets' <= MaxLogSockets
    <3>1. Cardinality(Admitted') \in Nat /\ Cardinality(Admitted') <= Cardinality(Counted')
      <4>1. Admitted' \subseteq Counted' BY DEF Admitted, Counted
      <4>2. IsFiniteSet(Counted') BY <2>2, HandlersFinite, FS_AddElement
      <4> QED BY <4>1, <4>2, FS_Subset, FS_CardinalityType
    <3> QED BY <1>0, <2>1, <2>3, <2>5, <3>1 DEF NoSlotLeak, SocketsTypeOK
  <2> QED BY <1>0, <2>1, <2>4, <2>5 DEF SocketsTypeOK
<1>2. ASSUME NEW s \in Sockets, Subscribe(s) \/ SeesClose(s) PROVE SocketsInv'
  <2>1. SocketsTypeOK' BY <1>2 DEF Subscribe, SeesClose, SocketsTypeOK
  <2>2. Counted' = Counted /\ Admitted' = Admitted
    BY <1>2 DEF Subscribe, SeesClose, SocketsTypeOK, Counted, Admitted
  <2>3. UNCHANGED openLogSockets BY <1>2 DEF Subscribe, SeesClose
  <2> QED BY <2>1, <2>2, <2>3 DEF NoSlotLeak
<1>3. ASSUME NEW s \in Sockets, LeaveSocket(s) PROVE SocketsInv'
  <2>1. SocketsTypeOK' BY <1>3 DEF LeaveSocket, GivesBack, SocketsTypeOK
  <2>2. Counted' = Counted \ {s} /\ s \in Counted /\ Admitted' \subseteq Admitted
    BY <1>3 DEF LeaveSocket, SocketsTypeOK, Counted, Admitted
  <2>3. Cardinality(Counted') = openLogSockets'
    BY <1>3, <2>2, HandlersFinite, FS_RemoveElement DEF LeaveSocket, GivesBack, NoSlotLeak
  <2>4. Cardinality(Admitted') \in Nat /\ Cardinality(Admitted') <= Cardinality(Admitted)
    BY <2>2, HandlersFinite, FS_Subset, FS_CardinalityType
  <2> QED BY <1>0, <2>1, <2>3, <2>4, HandlersFinite DEF NoSlotLeak
<1>4. CASE RestartSockets
  <2>1. SocketsTypeOK' BY <1>4 DEF RestartSockets, SocketsTypeOK
  <2>2. Counted' = {} /\ Admitted' = {} BY <1>4 DEF RestartSockets, Counted, Admitted
  <2> QED BY <1>0, <1>4, <2>1, <2>2, FS_EmptySet DEF NoSlotLeak, RestartSockets
<1>5. CASE UNCHANGED socketVars
  BY <1>5 DEF socketVars, SocketsTypeOK, NoSlotLeak, Counted, Admitted
<1> QED BY <1>1, <1>2, <1>3, <1>4, <1>5 DEF SocketsNext

\* Every variable keeps its type.
THEOREM SocketsTypeCorrect == SocketsSpec => []SocketsTypeOK
<1>1. SocketsInv => SocketsTypeOK BY DEF SocketsInv
<1> QED BY <1>1, SocketsInitInv, SocketsStepInv, PTL DEF SocketsSpec

\* Every way out of HandleTaskLogWS gives back the place it took, and no more
\* sockets stream than the limit allows.
THEOREM PlacesGivenBack == SocketsSpec => []NoSlotLeak
<1>1. SocketsInv => NoSlotLeak BY DEF SocketsInv
<1> QED BY <1>1, SocketsInitInv, SocketsStepInv, PTL DEF SocketsSpec

(***************************************************************************)
(* The four together, as the run shared_edits has them.                    *)
(***************************************************************************)

\* A behaviour of the four is a behaviour of each.
THEOREM SharedComponents == MCSpec => ListSpec /\ FwSpec /\ AccountsSpec /\ SocketsSpec
<1>1. MCInit => ListInit /\ FwInit /\ AccountsInit /\ SocketsInit BY DEF MCInit
<1>2. [MCNext]_allVars =>
        [ListNext]_listVars /\ [FwNext]_fwVars /\ [AccountsNext]_accountVars /\ [SocketsNext]_socketVars
  BY DEF MCNext, allVars, RowsNext, SigningNext
<1> QED BY <1>1, <1>2, PTL DEF MCSpec, ListSpec, FwSpec, AccountsSpec, SocketsSpec

\* Every variable of the four keeps its type.
THEOREM SharedTypeCorrect == MCSpec => []SharedStateOK
<1>1. ListTypeOK /\ FwTypeOK /\ AccountsTypeOK /\ SocketsTypeOK => SharedStateOK BY DEF SharedStateOK
<1> QED BY <1>1, SharedComponents, ListTypeCorrect, FwTypeCorrect, AccountsTypeCorrect, SocketsTypeCorrect, PTL

===============================================================================
