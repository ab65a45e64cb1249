--------------------------- MODULE CloudCallsProofs ---------------------------
(***************************************************************************)
(* What is proved of the components whose requests are sequences of OCI    *)
(* calls: setting up a VCN, the public addresses, the free-tier guard, and *)
(* of the four together (LaunchCallProofs is about the fourth).            *)
(***************************************************************************)
EXTENDS MCCloudCalls, LaunchCallProofs, FiniteSetTheorems, TLAPS

(***************************************************************************)
(* What is proved of VcnSetup: every network that setting up a VCN leaves  *)
(* behind, whatever call failed, and what an answer without warnings means. *)
(***************************************************************************)

Before == {"vcn", "vcn4", "wait", "gateway", "routes", "routes4", "egress"}
WithGateway == {"routes", "routes4", "egress", "subnet", "subnet4"}
WithRoute == {"egress", "subnet", "subnet4"}

\* A subnet is the last thing made, the gateway and the IPv4 route come before it.
BuiltInOrder ==
  /\ vcnStep \in Before => subnets = {}
  /\ vcnStep \in WithGateway => gateway
  /\ vcnStep \in WithRoute => "v4" \in routes
  /\ SubnetReachable

\* While nothing was warned about, every step up to this one was dual-stack.
DualSoFar ==
  /\ vcnStep = "vcn" => vcns = {}
  /\ vcnReply # "none" => vcnStep = "done"
  /\ vcnStep \in {"vcn4", "routes4", "subnet4"} => warned # {}
  /\ warned = {} =>
       /\ vcnStep \in {"wait", "gateway", "routes", "egress", "subnet"} => vcns = {"dual"}
       /\ vcnStep \in {"gateway", "routes", "egress", "subnet"} => prefix
       /\ vcnStep \in {"egress", "subnet"} => routes = Families
       /\ vcnStep = "subnet" => egress = Families
  /\ vcnStep \in Before => egress = {"v4"}
  /\ NoSilentDegradation

VcnInv == VcnTypeOK /\ BuiltInOrder /\ DualSoFar

LEMMA VcnInitInv == VcnInit => VcnInv
  BY DEF VcnInit, VcnInv, VcnTypeOK, BuiltInOrder, DualSoFar, SubnetReachable,
         NoSilentDegradation, Families, Before, WithGateway, WithRoute

\* A call that says it was done was done.
LEMMA OutcomeMeans == \A o \in Outcomes : o[1] \in BOOLEAN /\ o[2] \in BOOLEAN /\ (o[2] => o[1])
<1> TAKE o \in Outcomes
<1>1. CASE o = <<TRUE, TRUE>> BY <1>1
<1>2. CASE o = <<TRUE, FALSE>> BY <1>2
<1>3. CASE o = <<FALSE, FALSE>> BY <1>3
<1> QED BY <1>1, <1>2, <1>3 DEF Outcomes

LEMMA VcnStepInv == VcnInv /\ [VcnNext]_vcnVars => VcnInv'
<1> SUFFICES ASSUME VcnInv, [VcnNext]_vcnVars PROVE VcnInv'
  OBVIOUS
<1> USE DEF VcnInv, Families, Before, WithGateway, WithRoute, Goto, Warn, VcnError
<1>0. prefix \in BOOLEAN /\ gateway \in BOOLEAN BY DEF VcnTypeOK
<1>1. CASE CreateVcn
  <2>1. PICK o \in Outcomes : CreateVcn!(o) BY <1>1 DEF CreateVcn
  <2>2. o[1] \in BOOLEAN /\ o[2] \in BOOLEAN /\ (o[2] => o[1]) BY OutcomeMeans
  <2>3. VcnTypeOK' BY <1>0, <2>1, <2>2 DEF VcnTypeOK
  <2>4. BuiltInOrder' BY <1>0, <2>1, <2>2 DEF VcnTypeOK, BuiltInOrder, SubnetReachable
  <2>5. DualSoFar' BY <1>0, <2>1, <2>2 DEF VcnTypeOK, DualSoFar, NoSilentDegradation
  <2> QED BY <2>3, <2>4, <2>5
<1>2. CASE CreateVcnIPv4
  <2>1. PICK o \in Outcomes : CreateVcnIPv4!(o) BY <1>2 DEF CreateVcnIPv4
  <2>2. o[1] \in BOOLEAN /\ o[2] \in BOOLEAN /\ (o[2] => o[1]) BY OutcomeMeans
  <2>3. VcnTypeOK' BY <1>0, <2>1, <2>2 DEF VcnTypeOK
  <2>4. BuiltInOrder' BY <1>0, <2>1, <2>2 DEF VcnTypeOK, BuiltInOrder, SubnetReachable
  <2>5. DualSoFar' BY <1>0, <2>1, <2>2 DEF VcnTypeOK, DualSoFar, NoSilentDegradation
  <2> QED BY <2>3, <2>4, <2>5
<1>3. CASE WaitForVcn
  <2>3. VcnTypeOK' BY <1>0, <1>3 DEF VcnTypeOK, WaitForVcn, networkVars
  <2>4. BuiltInOrder' BY <1>0, <1>3 DEF VcnTypeOK, BuiltInOrder, SubnetReachable, WaitForVcn, networkVars
  <2>5. DualSoFar' BY <1>0, <1>3 DEF VcnTypeOK, DualSoFar, NoSilentDegradation, WaitForVcn, networkVars
  <2> QED BY <2>3, <2>4, <2>5
<1>4. CASE CreateGateway
  <2>1. PICK o \in Outcomes : CreateGateway!(o) BY <1>4 DEF CreateGateway
  <2>2. o[1] \in BOOLEAN /\ o[2] \in BOOLEAN /\ (o[2] => o[1]) BY OutcomeMeans
  <2>3. VcnTypeOK' BY <1>0, <2>1, <2>2 DEF VcnTypeOK
  <2>4. BuiltInOrder' BY <1>0, <2>1, <2>2 DEF VcnTypeOK, BuiltInOrder, SubnetReachable
  <2>5. DualSoFar' BY <1>0, <2>1, <2>2 DEF VcnTypeOK, DualSoFar, NoSilentDegradation
  <2> QED BY <2>3, <2>4, <2>5
<1>5. CASE UpdateRoutes
  <2>1. PICK o \in Outcomes : UpdateRoutes!(o) BY <1>5 DEF UpdateRoutes
  <2>2. o[1] \in BOOLEAN /\ o[2] \in BOOLEAN /\ (o[2] => o[1]) BY OutcomeMeans
  <2>3. VcnTypeOK' BY <1>0, <2>1, <2>2 DEF VcnTypeOK
  <2>4. BuiltInOrder' BY <1>0, <2>1, <2>2 DEF VcnTypeOK, BuiltInOrder, SubnetReachable
  <2>5. DualSoFar' BY <1>0, <2>1, <2>2 DEF VcnTypeOK, DualSoFar, NoSilentDegradation
  <2> QED BY <2>3, <2>4, <2>5
<1>6. CASE UpdateRoutesIPv4
  <2>1. PICK o \in Outcomes : UpdateRoutesIPv4!(o) BY <1>6 DEF UpdateRoutesIPv4
  <2>2. o[1] \in BOOLEAN /\ o[2] \in BOOLEAN /\ (o[2] => o[1]) BY OutcomeMeans
  <2>3. VcnTypeOK' BY <1>0, <2>1, <2>2 DEF VcnTypeOK
  <2>4. BuiltInOrder' BY <1>0, <2>1, <2>2 DEF VcnTypeOK, BuiltInOrder, SubnetReachable
  <2>5. DualSoFar' BY <1>0, <2>1, <2>2 DEF VcnTypeOK, DualSoFar, NoSilentDegradation
  <2> QED BY <2>3, <2>4, <2>5
<1>7. CASE EnsureIPv6Egress
  <2>1. PICK o \in Outcomes : EnsureIPv6Egress!(o) BY <1>7 DEF EnsureIPv6Egress
  <2>2. o[1] \in BOOLEAN /\ o[2] \in BOOLEAN /\ (o[2] => o[1]) BY OutcomeMeans
  <2>3. VcnTypeOK' BY <1>0, <2>1, <2>2 DEF VcnTypeOK
  <2>4. BuiltInOrder' BY <1>0, <2>1, <2>2 DEF VcnTypeOK, BuiltInOrder, SubnetReachable
  <2>5. DualSoFar' BY <1>0, <2>1, <2>2 DEF VcnTypeOK, DualSoFar, NoSilentDegradation
  <2> QED BY <2>3, <2>4, <2>5
<1>8. CASE CreateSubnet("subnet", IF prefix THEN "dual" ELSE "v4")
  <2>1. PICK o \in Outcomes : CreateSubnet("subnet", IF prefix THEN "dual" ELSE "v4")!(o) BY <1>8 DEF CreateSubnet
  <2>2. o[1] \in BOOLEAN /\ o[2] \in BOOLEAN /\ (o[2] => o[1]) BY OutcomeMeans
  <2>3. VcnTypeOK' BY <1>0, <2>1, <2>2 DEF VcnTypeOK
  <2>4. BuiltInOrder' BY <1>0, <2>1, <2>2 DEF VcnTypeOK, BuiltInOrder, SubnetReachable
  <2>5. DualSoFar' BY <1>0, <2>1, <2>2 DEF VcnTypeOK, DualSoFar, NoSilentDegradation
  <2> QED BY <2>3, <2>4, <2>5
<1>9. CASE CreateSubnet("subnet4", "v4")
  <2>1. PICK o \in Outcomes : CreateSubnet("subnet4", "v4")!(o) BY <1>9 DEF CreateSubnet
  <2>2. o[1] \in BOOLEAN /\ o[2] \in BOOLEAN /\ (o[2] => o[1]) BY OutcomeMeans
  <2>3. VcnTypeOK' BY <1>0, <2>1, <2>2 DEF VcnTypeOK
  <2>4. BuiltInOrder' BY <1>0, <2>1, <2>2 DEF VcnTypeOK, BuiltInOrder, SubnetReachable
  <2>5. DualSoFar' BY <1>0, <2>1, <2>2 DEF VcnTypeOK, DualSoFar, NoSilentDegradation
  <2> QED BY <2>3, <2>4, <2>5
<1>10. CASE VcnCrash
  <2>3. VcnTypeOK' BY <1>0, <1>10 DEF VcnTypeOK, VcnCrash, networkVars
  <2>4. BuiltInOrder' BY <1>0, <1>10 DEF VcnTypeOK, BuiltInOrder, SubnetReachable, VcnCrash, networkVars
  <2>5. DualSoFar' BY <1>0, <1>10 DEF VcnTypeOK, DualSoFar, NoSilentDegradation, VcnCrash, networkVars
  <2> QED BY <2>3, <2>4, <2>5
<1>11. CASE UNCHANGED vcnVars
  BY <1>11 DEF vcnVars, networkVars, VcnTypeOK, BuiltInOrder, SubnetReachable, DualSoFar, NoSilentDegradation
<1> QED
  BY <1>1, <1>2, <1>3, <1>4, <1>5, <1>6, <1>7, <1>8, <1>9, <1>10, <1>11 DEF VcnNext

\* Every variable of a VCN's set-up keeps its type.
THEOREM VcnTypeCorrect == VcnSpec => []VcnTypeOK
<1>1. VcnInv => VcnTypeOK BY DEF VcnInv
<1> QED BY <1>1, VcnInitInv, VcnStepInv, PTL DEF VcnSpec

\* A subnet that exists has its gateway and its IPv4 route, wherever the set-up
\* of the VCN stopped (CreateRecommendedVCN).
THEOREM SubnetsReachable == VcnSpec => []SubnetReachable
<1>1. VcnInv => SubnetReachable BY DEF VcnInv, BuiltInOrder
<1> QED BY <1>1, VcnInitInv, VcnStepInv, PTL DEF VcnSpec

\* An answer without warnings is given for a network that is dual-stack in every
\* part (CreateRecommendedVCN).
THEOREM DegradationWarned == VcnSpec => []NoSilentDegradation
<1>1. VcnInv => NoSilentDegradation BY DEF VcnInv, DualSoFar
<1> QED BY <1>1, VcnInitInv, VcnStepInv, PTL DEF VcnSpec

(***************************************************************************)
(* Public IP rotation and IPv6, for any number of requests of each kind.   *)
(* An address is released only for a rotation that looked it up, and that  *)
(* one answers "ok" only when a new address is on the same private IP.     *)
(***************************************************************************)

IpTyped ==
  /\ life \in [Ips -> {"reserved", "ephemeral"}]
  /\ ipState \in [Ips -> {"none", "assigned", "releasing", "available", "terminated"}]
  /\ ipOn \in [Ips -> Vnics]
  /\ rotStep \in [Rotations -> {"vnic", "look", "release", "wait", "create", "done"}]
  /\ rotVnic \in [Rotations -> Vnics]
  /\ rotOld \in [Rotations -> SUBSET Ips]
  /\ rotReply \in [Rotations -> {"none", "ok", "error"}]

IsHeld(i) == ipState[i] \in {"assigned", "releasing"}

\* A private IP holds one public IP.
OneEach == \A i, j \in Ips : IsHeld(i) /\ IsHeld(j) /\ ipOn[i] = ipOn[j] => i = j

\* An address is made by the last call of a rotation that has not answered.
MadeLast(r) ==
  /\ rotStep[r] # "done" => ipState[r] = "none" /\ rotReply[r] = "none"
  /\ rotStep[r] \in {"vnic", "look"} => rotOld[r] = {}

\* The address a rotation looks at was on its VNIC; it answers "ok" when it is gone.
OldIsGone(r) == \A i \in rotOld[r] :
  /\ ipOn[i] = rotVnic[r] /\ ipState[i] # "none"
  /\ rotReply[r] = "ok" => ~IsHeld(i)

\* An address is released only for a rotation.
ReleasedFor(i) == ipState[i] = "releasing" => \E r \in Rotations : i \in rotOld[r]

IpInv ==
  /\ IpTyped
  /\ OneEach
  /\ \A r \in Rotations : MadeLast(r) /\ OldIsGone(r)
  /\ \A i \in Ips : ReleasedFor(i)
  /\ NoSilentLoss

Asked == {a \in Attaches : v6Step[a] # "done"}
Creating(a) == v6Step[a] = "create"

V6Typed ==
  /\ v6 \in [Vnics -> Nat]
  /\ v6Step \in [Attaches -> {"idle", "create", "done"}]
  /\ v6Vnic \in [Attaches -> Vnics]
  /\ v6Reply \in [Attaches -> {"none", "ok", "error"}]
  /\ v6Overlap \in BOOLEAN
  /\ v6Astray \in BOOLEAN

\* A request allocates once.
V6Bounded == v6["primary"] + v6["secondary"] + Cardinality(Asked) <= Cardinality(Attaches)

\* A VNIC without overlapping requests has no address when one is about to
\* allocate on it, and the secondary VNIC has none before a request went astray.
V6Apart ==
  /\ ~v6Overlap =>
       /\ \A v \in Vnics : v6[v] <= 1
       /\ \A a, b \in Attaches : Creating(a) /\ Creating(b) /\ v6Vnic[a] = v6Vnic[b] => a = b
       /\ \A a \in Attaches : Creating(a) => v6[v6Vnic[a]] = 0
  /\ ~v6Astray =>
       /\ v6["secondary"] = 0
       /\ \A a \in Attaches : Creating(a) => v6Vnic[a] = "primary"

V6Inv == V6Typed /\ V6Bounded /\ V6Apart

\* What a VNIC holds, seen from the addresses.
LEMMA HeldMeans ==
  ASSUME IpTyped, NEW i \in Ips
  PROVE  /\ IsHeld(i) <=> i \in Held(ipOn[i])
         /\ \A v : i \in Held(v) => IsHeld(i) /\ ipOn[i] = v
BY DEF Held, IsHeld

\* A step of one rotation that touches no address.
LEMMA RotationMoves ==
  ASSUME IpInv, NEW r \in Rotations, UNCHANGED ipVars, IpTyped',
         \A q \in Rotations \ {r} :
            /\ rotStep'[q] = rotStep[q] /\ rotVnic'[q] = rotVnic[q]
            /\ rotOld'[q] = rotOld[q] /\ rotReply'[q] = rotReply[q],
         rotReply'[r] # "ok", rotReply[r] # "ok",
         MadeLast(r)', OldIsGone(r)',
         rotOld[r] = {} \/ (rotOld'[r] = rotOld[r] /\ rotVnic'[r] = rotVnic[r])
  PROVE  IpInv'
<1> USE DEF ipVars
<1>1. \A i : IsHeld(i)' = IsHeld(i) BY DEF IsHeld
<1>2. OneEach' BY <1>1 DEF IpInv, OneEach
<1>3. \A q \in Rotations : MadeLast(q)' /\ OldIsGone(q)'
  BY <1>1 DEF IpInv, MadeLast, OldIsGone
<1>4. \A i \in Ips : ReleasedFor(i)' BY DEF IpInv, ReleasedFor
<1>5. NoSilentLoss'
  <2> SUFFICES ASSUME NEW v \in Vnics, Held(v)' = {}
      PROVE \E q \in Rotations : rotVnic'[q] = v /\ rotOld'[q] # {} /\ rotReply'[q] # "ok"
    BY DEF NoSilentLoss
  <2>1. Held(v) = {} BY DEF Held
  <2>2. PICK q \in Rotations : rotVnic[q] = v /\ rotOld[q] # {} /\ rotReply[q] # "ok"
    BY <2>1 DEF IpInv, NoSilentLoss
  <2> QED BY <2>2
<1> QED BY <1>2, <1>3, <1>4, <1>5 DEF IpInv

LEMMA FindVnicInv == ASSUME IpInv, NEW r \in Rotations, FindVnic(r) PROVE IpInv'
<1>1. /\ rotStep[r] = "vnic" /\ UNCHANGED <<ipVars, rotOld>>
      /\ rotOld[r] = {} /\ rotReply[r] = "none" /\ ipState[r] = "none"
  BY DEF FindVnic, IpInv, MadeLast
<1>2. PICK v \in Vnics, s \in {"look", "done"}, reply \in {"none", "error"} :
        /\ rotStep' = [rotStep EXCEPT ![r] = s]
        /\ rotReply' = [rotReply EXCEPT ![r] = reply]
        /\ rotVnic' = [rotVnic EXCEPT ![r] = v]
        /\ s = "look" => reply = "none"
  <2>1. PICK read \in SUBSET Vnics :
       \/ PrimaryVnic(read) = {} /\ RotateFails(r) /\ UNCHANGED rotVnic
       \/ \E v \in PrimaryVnic(read) :
            rotVnic' = [rotVnic EXCEPT ![r] = v] /\ RotateGoto(r, "look")
    BY DEF FindVnic
  <2>2. PrimaryVnic(read) \subseteq Vnics BY DEF PrimaryVnic, Vnics
  <2>3. CASE RotateFails(r) /\ UNCHANGED rotVnic
    <3>1. rotVnic' = [rotVnic EXCEPT ![r] = rotVnic[r]] /\ rotVnic[r] \in Vnics
      BY <2>3 DEF IpInv, IpTyped
    <3> QED BY <2>3, <3>1 DEF RotateFails, RotateEnds
  <2>4. CASE \E v \in PrimaryVnic(read) :
            rotVnic' = [rotVnic EXCEPT ![r] = v] /\ RotateGoto(r, "look")
    <3>1. rotReply' = [rotReply EXCEPT ![r] = "none"]
      BY <1>1, <2>4 DEF RotateGoto, IpInv, IpTyped
    <3> QED BY <2>2, <2>4, <3>1 DEF RotateGoto
  <2> QED BY <2>1, <2>3, <2>4
<1>3. IpTyped' BY <1>1, <1>2 DEF IpInv, IpTyped, ipVars
<1>4. rotStep'[r] = s /\ rotReply'[r] = reply BY <1>2 DEF IpInv, IpTyped
<1>5. MadeLast(r)' /\ OldIsGone(r)' BY <1>1, <1>2, <1>4 DEF MadeLast, OldIsGone, ipVars
<1>6. \A q \in Rotations \ {r} :
        /\ rotStep'[q] = rotStep[q] /\ rotVnic'[q] = rotVnic[q]
        /\ rotOld'[q] = rotOld[q] /\ rotReply'[q] = rotReply[q]
  BY <1>1, <1>2 DEF IpInv, IpTyped
<1> QED BY <1>1, <1>3, <1>4, <1>5, <1>6, RotationMoves

LEMMA LookUpInv == ASSUME IpInv, NEW r \in Rotations, LookUp(r) PROVE IpInv'
<1>1. /\ rotStep[r] = "look" /\ UNCHANGED <<ipVars, rotVnic>>
      /\ rotOld[r] = {} /\ rotReply[r] = "none" /\ ipState[r] = "none" /\ IpTyped
  BY DEF LookUp, IpInv, MadeLast
<1>2. PICK old \in {{}, Held(rotVnic[r])}, s \in {"create", "release", "done"}, reply \in {"none", "error"} :
        /\ rotStep' = [rotStep EXCEPT ![r] = s]
        /\ rotReply' = [rotReply EXCEPT ![r] = reply]
        /\ rotOld' = [rotOld EXCEPT ![r] = old]
        /\ s # "done" => reply = "none"
  <2>1. CASE RotateFails(r) /\ UNCHANGED rotOld
    <3>1. rotOld' = [rotOld EXCEPT ![r] = {}] BY <1>1, <2>1 DEF IpTyped
    <3> QED BY <2>1, <3>1 DEF RotateFails, RotateEnds
  <2>2. CASE /\ rotOld' = [rotOld EXCEPT ![r] = Held(rotVnic[r])]
             /\ RotateGoto(r, IF Held(rotVnic[r]) = {} THEN "create" ELSE "release")
    <3>1. rotReply' = [rotReply EXCEPT ![r] = "none"] BY <1>1, <2>2 DEF RotateGoto, IpTyped
    <3> QED BY <2>2, <3>1 DEF RotateGoto
  <2> QED BY <2>1, <2>2 DEF LookUp
<1>3. Held(rotVnic[r]) \subseteq Ips BY DEF Held
<1>4. IpTyped' BY <1>1, <1>2, <1>3 DEF IpTyped, ipVars
<1>5. rotStep'[r] = s /\ rotReply'[r] = reply /\ rotOld'[r] = old BY <1>1, <1>2 DEF IpTyped
<1>6. MadeLast(r)' BY <1>1, <1>2, <1>5 DEF MadeLast, ipVars
<1>7. OldIsGone(r)' BY <1>1, <1>2, <1>5 DEF OldIsGone, ipVars, Held
<1> QED BY <1>1, <1>2, <1>4, <1>5, <1>6, <1>7, RotationMoves DEF IpTyped

LEMMA WaitGoneInv == ASSUME IpInv, NEW r \in Rotations, WaitGone(r) PROVE IpInv'
<1>1. /\ rotStep[r] = "wait" /\ UNCHANGED <<ipVars, rotVnic, rotOld>>
      /\ rotReply[r] = "none" /\ ipState[r] = "none" /\ IpTyped
  BY DEF WaitGone, IpInv, MadeLast
<1>2. PICK s \in {"create", "done"}, reply \in {"none", "error"} :
        /\ rotStep' = [rotStep EXCEPT ![r] = s]
        /\ rotReply' = [rotReply EXCEPT ![r] = reply]
        /\ s # "done" => reply = "none"
  <2>1. CASE RotateFails(r) BY <2>1 DEF RotateFails, RotateEnds
  <2>2. CASE RotateGoto(r, "create")
    <3>1. rotReply' = [rotReply EXCEPT ![r] = "none"] BY <1>1, <2>2 DEF RotateGoto, IpTyped
    <3> QED BY <2>2, <3>1 DEF RotateGoto
  <2> QED BY <2>1, <2>2 DEF WaitGone
<1>3. IpTyped' BY <1>1, <1>2 DEF IpTyped, ipVars
<1>4. rotStep'[r] = s /\ rotReply'[r] = reply BY <1>1, <1>2 DEF IpTyped
<1>5. MadeLast(r)' BY <1>1, <1>2, <1>4 DEF MadeLast, ipVars
<1>6. OldIsGone(r)' BY <1>1, <1>2, <1>4 DEF IpInv, OldIsGone, ipVars
<1> QED BY <1>1, <1>2, <1>3, <1>4, <1>5, <1>6, RotationMoves DEF IpTyped

LEMMA ReleaseInv == ASSUME IpInv, NEW r \in Rotations, Release(r) PROVE IpInv'
<1>1. /\ rotStep[r] = "release" /\ UNCHANGED <<life, ipOn, rotVnic, rotOld>>
      /\ rotReply[r] = "none" /\ ipState[r] = "none" /\ IpTyped
  BY DEF Release, IpInv, MadeLast
<1>2. PICK s \in {"wait", "done"}, reply \in {"none", "error"} :
        /\ rotStep' = [rotStep EXCEPT ![r] = s]
        /\ rotReply' = [rotReply EXCEPT ![r] = reply]
        /\ s # "done" => reply = "none"
  <2>1. CASE RotateFails(r) BY <2>1 DEF RotateFails, RotateEnds
  <2>2. CASE RotateGoto(r, "wait")
    <3>1. rotReply' = [rotReply EXCEPT ![r] = "none"] BY <1>1, <2>2 DEF RotateGoto, IpTyped
    <3> QED BY <2>2, <3>1 DEF RotateGoto
  <2> QED BY <2>1, <2>2 DEF Release
<1>3. ipState' = Released(r) \/ ipState' = ipState BY DEF Release
<1>4. IpTyped' BY <1>1, <1>2, <1>3 DEF IpTyped, Released
<1>5. rotStep'[r] = s /\ rotReply'[r] = reply BY <1>1, <1>2 DEF IpTyped
<1>6. ASSUME NEW i \in Ips
      PROVE  /\ \/ ipState'[i] = ipState[i]
                \/ ipState[i] = "assigned" /\ ipState'[i] = "releasing" /\ i \in rotOld[r]
             /\ IsHeld(i)' <=> IsHeld(i)
  <2>1. \/ ipState'[i] = ipState[i]
        \/ ipState[i] = "assigned" /\ ipState'[i] = "releasing" /\ i \in rotOld[r]
    BY <1>3 DEF Released
  <2> QED BY <2>1 DEF IsHeld
<1>7. OneEach' BY <1>1, <1>6 DEF IpInv, OneEach
<1>8. Rotations \subseteq Ips /\ \A q \in Rotations : rotOld[q] \subseteq Ips BY <1>1 DEF Ips, IpTyped
<1>9. \A q \in Rotations : MadeLast(q)'
  <2> TAKE q \in Rotations
  <2>1. MadeLast(q) BY DEF IpInv
  <2>2. CASE q = r
    <3>1. ipState'[r] = "none" BY <1>1, <1>6, <1>8
    <3> QED BY <1>1, <1>2, <1>5, <2>2, <3>1 DEF MadeLast
  <2>3. CASE q # r
    <3>1. rotStep'[q] = rotStep[q] /\ rotReply'[q] = rotReply[q] BY <1>1, <1>2, <2>3 DEF IpTyped
    <3>2. ipState[q] = "none" => ipState'[q] = "none" BY <1>6, <1>8
    <3> QED BY <1>1, <2>1, <3>1, <3>2 DEF MadeLast
  <2> QED BY <2>2, <2>3
<1>10. \A q \in Rotations : OldIsGone(q)'
  <2> TAKE q \in Rotations
  <2>1. OldIsGone(q) BY DEF IpInv
  <2>2. rotReply'[q] = "ok" => rotReply[q] = "ok" BY <1>1, <1>2 DEF IpTyped
  <2> QED BY <1>1, <1>6, <1>8, <2>1, <2>2 DEF OldIsGone
<1>11. \A i \in Ips : ReleasedFor(i)' BY <1>1, <1>6 DEF IpInv, ReleasedFor
<1>12. NoSilentLoss'
  <2> SUFFICES ASSUME NEW v \in Vnics, Held(v)' = {}
      PROVE \E q \in Rotations : rotVnic'[q] = v /\ rotOld'[q] # {} /\ rotReply'[q] # "ok"
    BY DEF NoSilentLoss
  <2>1. Held(v) = {} BY <1>1, <1>6 DEF Held, IsHeld
  <2>2. PICK q \in Rotations : rotVnic[q] = v /\ rotOld[q] # {} /\ rotReply[q] # "ok"
    BY <2>1 DEF IpInv, NoSilentLoss
  <2>3. rotReply'[q] # "ok" BY <1>1, <1>2, <2>2 DEF IpTyped
  <2> QED BY <1>1, <2>2, <2>3
<1> QED BY <1>4, <1>7, <1>9, <1>10, <1>11, <1>12 DEF IpInv

LEMMA OciReleasesInv == ASSUME IpInv, NEW i \in Ips, OciReleases(i) PROVE IpInv'
<1>1. /\ ipState[i] = "releasing" /\ IpTyped
      /\ UNCHANGED <<life, ipOn, rotStep, rotVnic, rotOld, rotReply>>
  BY DEF OciReleases, IpInv, rotVars
<1>2. /\ ipState'[i] \in {"available", "terminated"}
      /\ \A j \in Ips \ {i} : ipState'[j] = ipState[j]
      /\ IpTyped'
  BY <1>1 DEF OciReleases, IpTyped, AfterRelease
<1>3. \A j \in Ips : /\ IsHeld(j)' => IsHeld(j)
                     /\ ipState'[j] = "none" <=> ipState[j] = "none"
                     /\ ipState'[j] = "releasing" => ipState[j] = "releasing"
  BY <1>1, <1>2 DEF IsHeld
<1>4. OneEach' BY <1>1, <1>3 DEF IpInv, OneEach
<1>5. Rotations \subseteq Ips /\ \A q \in Rotations : rotOld[q] \subseteq Ips BY <1>1 DEF Ips, IpTyped
<1>6. \A q \in Rotations : MadeLast(q)' BY <1>1, <1>3, <1>5 DEF IpInv, MadeLast
<1>7. \A q \in Rotations : OldIsGone(q)' BY <1>1, <1>3, <1>5 DEF IpInv, OldIsGone
<1>8. \A j \in Ips : ReleasedFor(j)' BY <1>1, <1>3 DEF IpInv, ReleasedFor
<1>9. NoSilentLoss'
  <2> SUFFICES ASSUME NEW v \in Vnics, Held(v)' = {}
      PROVE \E q \in Rotations : rotVnic'[q] = v /\ rotOld'[q] # {} /\ rotReply'[q] # "ok"
    BY DEF NoSilentLoss
  <2>1. CASE v = ipOn[i]
    <3>1. PICK q \in Rotations : i \in rotOld[q] BY <1>1 DEF IpInv, ReleasedFor
    <3>2. OldIsGone(q) /\ IsHeld(i) BY <1>1 DEF IpInv, IsHeld
    <3>3. rotVnic[q] = v /\ rotOld[q] # {} /\ rotReply[q] # "ok" BY <2>1, <3>1, <3>2 DEF OldIsGone
    <3> QED BY <1>1, <3>3
  <2>2. CASE v # ipOn[i]
    <3>1. Held(v) = {} BY <1>1, <1>2, <2>2 DEF Held
    <3> QED BY <1>1, <3>1 DEF IpInv, NoSilentLoss
  <2> QED BY <2>1, <2>2
<1> QED BY <1>2, <1>4, <1>6, <1>7, <1>8, <1>9 DEF IpInv

LEMMA CreateIpInv == ASSUME IpInv, NEW r \in Rotations, CreateIp(r) PROVE IpInv'
<1>1. /\ rotStep[r] = "create" /\ UNCHANGED <<life, rotVnic, rotOld>>
      /\ rotReply[r] = "none" /\ ipState[r] = "none" /\ IpTyped /\ r \in Ips
  BY DEF CreateIp, IpInv, MadeLast, Ips
<1>2. PICK reply \in {"ok", "error"} :
        /\ RotateEnds(r, reply)
        /\ \/ /\ Held(rotVnic[r]) = {}
              /\ ipState' = [ipState EXCEPT ![r] = "assigned"]
              /\ ipOn' = [ipOn EXCEPT ![r] = rotVnic[r]]
           \/ UNCHANGED <<ipState, ipOn>> /\ reply = "error"
  BY DEF CreateIp, RotateFails
<1>3. /\ rotStep'[r] = "done" /\ rotReply'[r] = reply
      /\ \A q \in Rotations \ {r} : rotStep'[q] = rotStep[q] /\ rotReply'[q] = rotReply[q]
      /\ rotStep' \in [Rotations -> {"vnic", "look", "release", "wait", "create", "done"}]
      /\ rotReply' \in [Rotations -> {"none", "ok", "error"}]
  BY <1>1, <1>2 DEF RotateEnds, IpTyped
<1>4. \A q \in Rotations : rotOld[q] \subseteq Ips /\ r \notin rotOld[q] /\ OldIsGone(q) /\ MadeLast(q)
  BY <1>1 DEF IpInv, OldIsGone, IpTyped
<1>5. CASE UNCHANGED <<ipState, ipOn>> /\ reply = "error"
  <2>1. IpTyped' BY <1>1, <1>3, <1>5 DEF IpTyped
  <2>2. MadeLast(r)' BY <1>3 DEF MadeLast
  <2>3. OldIsGone(r)' BY <1>1, <1>3, <1>4, <1>5 DEF OldIsGone
  <2> QED BY <1>1, <1>3, <1>5, <2>1, <2>2, <2>3, RotationMoves DEF ipVars
<1>6. CASE /\ Held(rotVnic[r]) = {}
           /\ ipState' = [ipState EXCEPT ![r] = "assigned"]
           /\ ipOn' = [ipOn EXCEPT ![r] = rotVnic[r]]
  <2>1. /\ ipState'[r] = "assigned" /\ ipOn'[r] = rotVnic[r] /\ rotVnic[r] \in Vnics
        /\ \A j \in Ips \ {r} : ipState'[j] = ipState[j] /\ ipOn'[j] = ipOn[j]
    BY <1>1, <1>6 DEF IpTyped
  <2>2. IpTyped' BY <1>1, <1>3, <1>6 DEF IpTyped
  <2>3. \A j \in Ips \ {r} : IsHeld(j)' = IsHeld(j) BY <2>1 DEF IsHeld
  <2>4. \A j \in Ips : IsHeld(j) => ipOn[j] # rotVnic[r] BY <1>6 DEF Held, IsHeld
  <2>5. OneEach' BY <2>1, <2>3, <2>4 DEF IpInv, OneEach
  <2>6. \A q \in Rotations : MadeLast(q)'
    BY <1>1, <1>3, <1>4, <2>1 DEF MadeLast, Ips
  <2>7. \A q \in Rotations : OldIsGone(q)'
    <3> TAKE q \in Rotations
    <3>1. rotReply'[q] = "ok" => \A j \in rotOld[q] : ~IsHeld(j)
      BY <1>3, <1>4, <2>4 DEF OldIsGone
    <3> QED BY <1>1, <1>4, <2>1, <2>3, <3>1 DEF OldIsGone
  <2>8. \A j \in Ips : ReleasedFor(j)' BY <1>1, <2>1 DEF IpInv, ReleasedFor
  <2>9. NoSilentLoss'
    <3> SUFFICES ASSUME NEW v \in Vnics, Held(v)' = {}
        PROVE \E q \in Rotations : rotVnic'[q] = v /\ rotOld'[q] # {} /\ rotReply'[q] # "ok"
      BY DEF NoSilentLoss
    <3>1. v # rotVnic[r] BY <1>1, <2>1 DEF Held
    <3>2. \A j \in Held(v) : j \in Ips \ {r} \/ j = r BY DEF Held
    <3>3. r \notin Held(v) BY <1>1 DEF Held
    <3>4. Held(v) = {} BY <2>1, <3>3 DEF Held
    <3>5. PICK q \in Rotations : rotVnic[q] = v /\ rotOld[q] # {} /\ rotReply[q] # "ok"
      BY <3>4 DEF IpInv, NoSilentLoss
    <3>6. q # r BY <3>1, <3>5
    <3> QED BY <1>1, <1>3, <3>5, <3>6
  <2> QED BY <2>2, <2>5, <2>6, <2>7, <2>8, <2>9 DEF IpInv
<1> QED BY <1>2, <1>5, <1>6

\* A restart: every rotation stays where it was, for ever.
LEMMA IpCrashInv == ASSUME IpInv, IpCrash PROVE IpInv'
<1>1. /\ rotStep' = [r \in Rotations |-> "done"] /\ UNCHANGED <<life, ipState, ipOn, rotVnic, rotOld, rotReply>>
      /\ IpTyped
  BY DEF IpCrash, ipVars, IpInv
<1>2. IpTyped' BY <1>1 DEF IpTyped
<1>3. OneEach' /\ NoSilentLoss' /\ \A i \in Ips : ReleasedFor(i)'
  BY <1>1 DEF IpInv, OneEach, NoSilentLoss, ReleasedFor, IsHeld, Held
<1>4. \A r \in Rotations : MadeLast(r)' /\ OldIsGone(r)'
  BY <1>1 DEF IpInv, MadeLast, OldIsGone, IsHeld
<1> QED BY <1>2, <1>3, <1>4 DEF IpInv

\* Two requests for an IPv6 address.
LEMMA V6StepInv ==
  ASSUME V6Inv, NEW a \in Attaches, LookV6(a) \/ CreateV6(a)
  PROVE  V6Inv'
<1> USE DEF V6Inv
<1>1. /\ IsFiniteSet(Asked) /\ Cardinality(Asked) \in Nat
      /\ a \in Asked => Cardinality(Asked \ {a}) = Cardinality(Asked) - 1
  BY PublicIpOK, FS_Subset, FS_CardinalityType, FS_RemoveElement DEF PublicIpOK, Asked
<1>2. Cardinality(Attaches) \in Nat BY PublicIpOK, FS_CardinalityType DEF PublicIpOK
<1>v. v6["primary"] \in Nat /\ v6["secondary"] \in Nat BY DEF V6Typed, Vnics
<1>3. ASSUME NEW v \in Vnics, v6Step[a] = "idle", v6[v] = 0, V6Wants(a, v), UNCHANGED v6
      PROVE  V6Inv'
  <2>1. V6Typed' BY <1>3 DEF V6Typed, V6Wants
  <2>2. Asked' = Asked BY <1>3 DEF V6Typed, V6Wants, Asked
  <2>3. V6Bounded' BY <1>3, <2>2 DEF V6Bounded
  <2>4. \A b \in Attaches : Creating(b)' <=> Creating(b) \/ b = a
    BY <1>3 DEF V6Typed, V6Wants, Creating
  <2>5. v6Vnic'[a] = v /\ \A b \in Attaches \ {a} : v6Vnic'[b] = v6Vnic[b]
    BY <1>3 DEF V6Typed, V6Wants
  <2>6. /\ v6Overlap' <=> v6Overlap \/ \E b \in Attaches \ {a} : Creating(b) /\ v6Vnic[b] = v
        /\ v6Astray' <=> v6Astray \/ v # "primary"
    BY <1>3 DEF V6Wants, Creating
  <2>7. V6Apart' BY <1>3, <2>4, <2>5, <2>6 DEF V6Apart
  <2> QED BY <2>1, <2>3, <2>7
<1>4. ASSUME v6Step[a] # "done", NEW reply \in {"ok", "error"}, V6Ends(a, reply),
             UNCHANGED <<v6Vnic, v6Overlap, v6Astray>>,
             \/ UNCHANGED v6
             \/ Creating(a) /\ v6' = [v6 EXCEPT ![v6Vnic[a]] = @ + 1]
      PROVE  V6Inv'
  <2>1. V6Typed' BY <1>4 DEF V6Typed, V6Ends
  <2>2. Asked' = Asked \ {a} /\ a \in Asked BY <1>4 DEF V6Typed, V6Ends, Asked
  <2>3. v6'["primary"] + v6'["secondary"] <= v6["primary"] + v6["secondary"] + 1
    BY <1>4, <1>v DEF V6Typed, Vnics
  <2>4. V6Bounded'
    <3>1. v6'["primary"] \in Nat /\ v6'["secondary"] \in Nat BY <2>1 DEF V6Typed, Vnics
    <3> QED BY <1>1, <1>2, <1>v, <2>2, <2>3, <3>1 DEF V6Bounded
  <2>5. \A b \in Attaches : Creating(b)' <=> Creating(b) /\ b # a
    BY <1>4 DEF V6Typed, V6Ends, Creating
  <2>6. V6Apart'
    <3>1. CASE UNCHANGED v6 BY <1>4, <2>5, <3>1 DEF V6Apart
    <3>2. CASE Creating(a) /\ v6' = [v6 EXCEPT ![v6Vnic[a]] = @ + 1]
      <4>1. v6Vnic[a] \in Vnics BY DEF V6Typed
      <4>2. /\ v6'[v6Vnic[a]] = v6[v6Vnic[a]] + 1
            /\ \A v \in Vnics \ {v6Vnic[a]} : v6'[v] = v6[v]
        BY <3>2, <4>1 DEF V6Typed
      <4>3. \A b \in Attaches : v6Vnic[b] \in Vnics BY DEF V6Typed
      <4> QED BY <1>4, <2>5, <3>2, <4>1, <4>2, <4>3 DEF V6Apart, Vnics
    <3> QED BY <1>4, <3>1, <3>2
  <2> QED BY <2>1, <2>4, <2>6
<1>5. CASE LookV6(a)
  <2>1. \/ V6Ends(a, "error") /\ UNCHANGED <<v6, v6Vnic, v6Overlap, v6Astray>>
        \/ V6Ends(a, "ok") /\ UNCHANGED <<v6, v6Vnic, v6Overlap, v6Astray>>
        \/ \E v \in Vnics : v6[v] = 0 /\ V6Wants(a, v) /\ UNCHANGED v6
    BY <1>5 DEF LookV6, PrimaryVnic, Vnics
  <2>2. v6Step[a] = "idle" BY <1>5 DEF LookV6
  <2> QED BY <1>3, <1>4, <2>1, <2>2
<1>6. CASE CreateV6(a) BY <1>4, <1>6 DEF CreateV6, Creating
<1> QED BY <1>5, <1>6

LEMMA V6CrashInv == ASSUME V6Inv, IpCrash PROVE V6Inv'
<1> USE DEF V6Inv
<1>1. /\ v6Step' = [a \in Attaches |-> IF v6Step[a] = "create" THEN "done" ELSE v6Step[a]]
      /\ UNCHANGED <<v6, v6Vnic, v6Reply, v6Overlap, v6Astray>>
  BY DEF IpCrash
<1>2. /\ V6Typed' /\ \A a \in Attaches : ~Creating(a)'
      /\ Asked' \subseteq Asked
  BY <1>1 DEF V6Typed, Creating, Asked
<1>3. /\ IsFiniteSet(Asked) /\ Cardinality(Asked) \in Nat /\ Cardinality(Attaches) \in Nat
  BY PublicIpOK, FS_Subset, FS_CardinalityType DEF PublicIpOK, Asked
<1>4. Cardinality(Asked') <= Cardinality(Asked) /\ Cardinality(Asked') \in Nat
  BY <1>2, <1>3, FS_Subset, FS_CardinalityType
<1>5. v6["primary"] \in Nat /\ v6["secondary"] \in Nat BY DEF V6Typed, Vnics
<1>6. V6Bounded' BY <1>1, <1>3, <1>4, <1>5 DEF V6Bounded
<1>7. V6Apart' BY <1>1, <1>2 DEF V6Apart
<1> QED BY <1>2, <1>6, <1>7

(* The theorems. *)

\* Every VNIC has its address at first, and there is no request yet.
LEMMA IpInitInv == IpInit => IpInv /\ V6Inv
<1> SUFFICES ASSUME IpInit PROVE IpInv /\ V6Inv OBVIOUS
<1> USE PublicIpOK DEF PublicIpOK, IpInit
<1>1. IpTyped BY DEF IpTyped, Ips, Vnics
<1>2. \A v \in Vnics : ipOn[v] = v /\ ipState[v] = "assigned" BY DEF Ips, Vnics
<1>3. \A r \in Rotations : ipState[r] = "none" BY DEF Ips
<1>4. OneEach BY <1>2, <1>3 DEF OneEach, IsHeld, Ips
<1>5. \A r \in Rotations : MadeLast(r) /\ OldIsGone(r) BY <1>3 DEF MadeLast, OldIsGone
<1>6. \A i \in Ips : ReleasedFor(i) BY DEF ReleasedFor
<1>7. NoSilentLoss BY <1>2 DEF NoSilentLoss, Held, Ips
<1>8. IpInv BY <1>1, <1>4, <1>5, <1>6, <1>7 DEF IpInv
<1>9. Asked = Attaches /\ Cardinality(Attaches) \in Nat BY FS_CardinalityType DEF Asked
<1>10. \A a \in Attaches : ~Creating(a) BY DEF Creating
<1>11. V6Typed BY DEF V6Typed, Vnics
<1>12. \A v \in Vnics : v6[v] = 0 BY DEF Vnics
<1>13. V6Bounded BY <1>9, <1>12 DEF V6Bounded, Vnics
<1>14. V6Apart BY <1>10, <1>12 DEF V6Apart, Vnics
<1>15. V6Inv BY <1>11, <1>13, <1>14 DEF V6Inv
<1> QED BY <1>8, <1>15

\* The invariant is inductive.
LEMMA IpStepInv == IpInv /\ V6Inv /\ [IpNext]_publicVars => IpInv' /\ V6Inv'
<1> SUFFICES ASSUME IpInv, V6Inv, [IpNext]_publicVars PROVE IpInv' /\ V6Inv' OBVIOUS
<1>0. ASSUME UNCHANGED v6Vars PROVE V6Inv'
  BY <1>0 DEF v6Vars, V6Inv, V6Typed, V6Bounded, V6Apart, Asked, Creating
<1>1. ASSUME UNCHANGED <<ipVars, rotVars>> PROVE IpInv'
  BY <1>1 DEF ipVars, rotVars, IpInv, IpTyped, OneEach, MadeLast, OldIsGone, ReleasedFor,
     NoSilentLoss, IsHeld, Held
<1>2. CASE \E r \in Rotations : RotateStep(r)
  <2>1. PICK r \in Rotations : RotateStep(r) BY <1>2
  <2>2. UNCHANGED v6Vars BY <2>1 DEF RotateStep, FindVnic, LookUp, Release, WaitGone, CreateIp
  <2>3. IpInv' BY <2>1, FindVnicInv, LookUpInv, ReleaseInv, WaitGoneInv, CreateIpInv DEF RotateStep
  <2> QED BY <1>0, <2>2, <2>3
<1>3. CASE \E i \in Ips : OciReleases(i) BY <1>0, <1>3, OciReleasesInv DEF OciReleases
<1>4. CASE \E a \in Attaches : LookV6(a) \/ CreateV6(a)
  BY <1>1, <1>4, V6StepInv DEF LookV6, CreateV6
<1>5. CASE IpCrash BY <1>5, IpCrashInv, V6CrashInv
<1>6. CASE UNCHANGED publicVars BY <1>0, <1>1, <1>6 DEF publicVars
<1> QED BY <1>2, <1>3, <1>4, <1>5, <1>6 DEF IpNext

\* The inductive invariant holds in every reachable state.
THEOREM IpInvariance == IpSpec => [](IpInv /\ V6Inv)
BY IpInitInv, IpStepInv, PTL DEF IpSpec

\* Every variable keeps its type, and a private IP holds at most one public IP.
THEOREM IpTypeCorrect == IpSpec => []IpTypeOK
<1>1. ASSUME IpInv, V6Inv PROVE IpTypeOK
  <2>1. /\ Cardinality(Attaches) \in Nat /\ Cardinality(Asked) \in Nat
    BY PublicIpOK, FS_Subset, FS_CardinalityType DEF PublicIpOK, Asked
  <2>2. v6 \in [Vnics -> 0 .. Cardinality(Attaches)]
    <3>1. v6["primary"] \in Nat /\ v6["secondary"] \in Nat BY <1>1 DEF V6Inv, V6Typed, Vnics
    <3>2. v6["primary"] <= Cardinality(Attaches) /\ v6["secondary"] <= Cardinality(Attaches)
      BY <1>1, <2>1, <3>1 DEF V6Inv, V6Bounded
    <3> QED BY <1>1, <2>1, <3>1, <3>2 DEF V6Inv, V6Typed, Vnics
  <2>3. ASSUME NEW v \in Vnics PROVE Cardinality(Held(v)) <= 1
    <3>1. CASE Held(v) = {} BY <3>1, FS_EmptySet
    <3>2. CASE Held(v) # {}
      <4>1. PICK i : i \in Held(v) BY <3>2
      <4>2. Held(v) = {i} BY <1>1, <4>1 DEF Held, IpInv, OneEach, IsHeld
      <4>3. Cardinality({i}) = 1 BY FS_Singleton
      <4> QED BY <4>2, <4>3
    <3> QED BY <3>1, <3>2
  <2> QED BY <1>1, <2>2, <2>3 DEF IpTypeOK, IpInv, IpTyped, V6Inv, V6Typed
<1> QED BY <1>1, IpInvariance, PTL

\* No rotation takes the address that a finished one reported.
THEOREM LossIsNotSilent == IpSpec => []NoSilentLoss
<1>1. IpInv => NoSilentLoss BY DEF IpInv
<1> QED BY <1>1, IpInvariance, PTL

\* Requests that do not overlap leave one IPv6 address on a VNIC, and one on
\* the instance unless one of them took the fallback (AttachIPv6ToInstance,
\* primaryVnic).
THEOREM OneIpv6Each == IpSpec => []OneIpv6
<1>1. V6Inv => OneIpv6
  <2>1. V6Inv => v6["primary"] \in Nat /\ v6["secondary"] \in Nat BY DEF V6Inv, V6Typed, Vnics
  <2> QED BY <2>1 DEF V6Inv, V6Apart, OneIpv6, Vnics
<1> QED BY <1>1, IpInvariance, PTL

(***************************************************************************)
(* The free-tier guard, for any number of tasks, any allowance, limit and  *)
(* request.  While a task is being validated, what it has added up and what *)
(* its walks have yet to find are no less than what is used.               *)
(***************************************************************************)

Walks == {<<>>, <<"root">>, <<"sub">>, <<"root", "sub">>}
Usage == [Resources -> Nat]
TaskState == [step : {"fresh", "type", "comps", "listing", "admitted"}, cores : Nat, line : Nat,
              todo : [Resources -> Walks], seen : Usage]

\* What a walk over these compartments still finds.
Rest(comps, r) ==
  (IF comps \in {<<"root">>, <<"root", "sub">>} THEN used["root"][r] ELSE 0)
  + (IF comps \in {<<"sub">>, <<"root", "sub">>} THEN used["sub"][r] ELSE 0)

FreeTyped ==
  /\ account \in [paid : BOOLEAN, limit : Limits, override : {"auto", "free", "payg"}]
  /\ account.paid \/ account.limit <= Hint
  /\ used \in [Comps -> Usage]
  /\ subs \in [exists : BOOLEAN, readable : BOOLEAN]
  /\ known \in {<<>>, <<"root">>, <<"root", "sub">>}
  /\ task \in [Tasks -> TaskState]
  /\ blind \in BOOLEAN

\* A task is judged by its line and by no less than is used, unless usage went past it.
Judged(t) ==
  /\ task[t].step \in {"comps", "listing", "admitted"} => task[t].line <= FreeCores
  /\ task[t].step = "listing" /\ ~blind =>
       \A r \in Resources : task[t].seen[r] + Rest(task[t].todo[r], r) >= Total(r)
  /\ task[t].step = "admitted" /\ ~blind => \A r \in Resources : task[t].seen[r] >= Total(r)
  /\ task[t].step = "admitted" => Fits(t)

FreeInv ==
  /\ FreeTyped
  /\ Total("cores") <= account.limit
  /\ \A t \in Tasks : Judged(t)
  /\ AllowanceKept

LEMMA WalkTail ==
  /\ <<>> \in Walks /\ <<"root">> \in Walks /\ <<"root", "sub">> \in Walks
  /\ \A w \in Walks : w # <<>> => Tail(w) \in Walks /\ Head(w) \in Comps
<1>1. Tail(<<"root">>) = <<>> /\ Tail(<<"sub">>) = <<>> /\ Tail(<<"root", "sub">>) = <<"sub">>
  OBVIOUS
<1>2. Head(<<"root">>) = "root" /\ Head(<<"sub">>) = "sub" /\ Head(<<"root", "sub">>) = "root"
  OBVIOUS
<1> QED BY <1>1, <1>2 DEF Walks, Comps

\* A walk finds what is in its first compartment, and the rest.
LEMMA RestTail ==
  ASSUME FreeTyped, NEW w \in Walks, w # <<>>, NEW r \in Resources
  PROVE  Rest(w, r) = used[Head(w)][r] + Rest(Tail(w), r)
<1>1. used["root"][r] \in Nat /\ used["sub"][r] \in Nat BY DEF FreeTyped, Usage, Comps
<1>2. /\ <<>> # <<"root">> /\ <<>> # <<"sub">> /\ <<>> # <<"root", "sub">>
      /\ <<"root">> # <<"sub">> /\ <<"root">> # <<"root", "sub">> /\ <<"sub">> # <<"root", "sub">>
  OBVIOUS
<1>3. Tail(<<"root">>) = <<>> /\ Tail(<<"sub">>) = <<>> /\ Tail(<<"root", "sub">>) = <<"sub">>
  OBVIOUS
<1>4. Head(<<"root">>) = "root" /\ Head(<<"sub">>) = "sub" /\ Head(<<"root", "sub">>) = "root"
  OBVIOUS
<1>5. CASE w = <<"root">> BY <1>1, <1>2, <1>3, <1>4, <1>5 DEF Rest
<1>6. CASE w = <<"sub">> BY <1>1, <1>2, <1>3, <1>4, <1>6 DEF Rest
<1>7. CASE w = <<"root", "sub">> BY <1>1, <1>2, <1>3, <1>4, <1>7 DEF Rest
<1> QED BY <1>5, <1>6, <1>7 DEF Walks

\* What a list of compartments holds, when nothing that is used is left out of it.
LEMMA RestWhole ==
  ASSUME FreeTyped, NEW w \in {<<"root">>, <<"root", "sub">>}, ~Unseen(w), NEW r \in Resources
  PROVE  Rest(w, r) = Total(r)
<1>1. used["root"][r] \in Nat /\ used["sub"][r] \in Nat BY DEF FreeTyped, Usage, Comps
<1>2. <<"root">> # <<"sub">> /\ <<"root">> # <<"root", "sub">> /\ <<"sub">> # <<"root", "sub">>
  OBVIOUS
<1>3. w = <<"root">> => used["sub"][r] = 0 BY DEF Unseen, Nothing
<1> QED BY <1>1, <1>2, <1>3 DEF Rest, Total

LEMMA Totals ==
  ASSUME FreeTyped, NEW r \in Resources
  PROVE  /\ Total(r) \in Nat /\ used["root"][r] \in Nat /\ used["sub"][r] \in Nat
         /\ \A w : Rest(w, r) \in Nat /\ Rest(<<>>, r) = 0
<1>1. used["root"][r] \in Nat /\ used["sub"][r] \in Nat BY DEF FreeTyped, Usage, Comps
<1>2. <<>> # <<"root">> /\ <<>> # <<"sub">> /\ <<>> # <<"root", "sub">> OBVIOUS
<1> QED BY <1>1, <1>2 DEF Total, Rest

\* One instance of n cores more.
LEMMA Added ==
  ASSUME FreeTyped, NEW n \in Nat, NEW c \in Comps,
         used' = [used EXCEPT ![c] = [cores |-> @.cores + n, disk |-> @.disk + 1]]
  PROVE  /\ used' \in [Comps -> Usage]
         /\ Total("cores")' = Total("cores") + n /\ Total("disk")' = Total("disk") + 1
BY DEF FreeTyped, Usage, Resources, Comps, Total

\* The line a task is judged by is free for the account, whatever lookup failed.
LEMMA LineIsFree ==
  ASSUME FreeTyped, NEW told \in Verdicts, NEW limit \in {0, account.limit}
  PROVE  LET detected == IF told # "UNKNOWN" THEN told ELSE TypeByLimits(limit)
             line == Capped(A1Allowance(EffectiveAccountType(detected)), limit)
         IN  line \in Nat /\ line <= FreeCores
<1> USE FreeTierOK DEF FreeTierOK
<1> DEFINE detected == IF told # "UNKNOWN" THEN told ELSE TypeByLimits(limit)
<1>1. account.limit \in Nat /\ account.override \in {"auto", "free", "payg"} /\ account.paid \in BOOLEAN
  BY DEF FreeTyped
<1>2. detected = "PAYG" => account.paid
  BY <1>1 DEF Verdicts, TypeByLimits, FreeTyped
<1>3. A1Allowance(EffectiveAccountType(detected)) <= FreeCores
  BY <1>1, <1>2 DEF A1Allowance, EffectiveAccountType, FreeCores
<1>4. A1Allowance(EffectiveAccountType(detected)) \in Nat /\ FreeCores \in Nat
  BY DEF A1Allowance, FreeCores
<1> HIDE DEF detected
<1>5. Capped(A1Allowance(EffectiveAccountType(detected)), limit) \in Nat
      /\ Capped(A1Allowance(EffectiveAccountType(detected)), limit) <= FreeCores
  BY <1>1, <1>3, <1>4 DEF Capped
<1> QED BY <1>5 DEF detected

\* What the other tasks are judged by does not change unless usage does.
LEMMA StillJudged ==
  ASSUME FreeInv, NEW s \in Tasks, task'[s] = task[s], account' = account,
         \/ used' = used /\ (blind => blind')
         \/ ~Judging(s)
         \/ blind'
  PROVE  Judged(s)'
<1>1. Judged(s) BY DEF FreeInv
<1>2. FreeCores' = FreeCores BY DEF FreeCores, EffectiveAccountType
<1>3. Fits(s)' = Fits(s) BY DEF Fits
<1>4. CASE used' = used /\ (blind => blind')
  BY <1>1, <1>2, <1>3, <1>4 DEF Judged, Rest, Total
<1>5. CASE ~Judging(s) BY <1>1, <1>2, <1>5 DEF Judged, Judging
<1>6. CASE blind' BY <1>1, <1>2, <1>3, <1>6 DEF Judged
<1> QED BY <1>4, <1>5, <1>6

\* A step of one task that leaves usage alone.
LEMMA TaskMoves ==
  ASSUME FreeInv, NEW t \in Tasks, NEW x \in TaskState, task' = [task EXCEPT ![t] = x],
         UNCHANGED <<account, used, subs>>, blind => blind', blind' \in BOOLEAN,
         known' \in {<<>>, <<"root">>, <<"root", "sub">>},
         Judged(t)'
  PROVE  FreeInv'
<1>1. FreeTyped' BY DEF FreeInv, FreeTyped
<1>2. (Total("cores") <= account.limit)' BY DEF FreeInv, Total
<1>3. ASSUME NEW s \in Tasks PROVE Judged(s)'
  <2>1. CASE s = t BY <2>1
  <2>2. CASE s # t
    <3>1. task'[s] = task[s] BY <2>2 DEF FreeInv, FreeTyped
    <3> QED BY <3>1, StillJudged
  <2> QED BY <2>1, <2>2
<1>4. AllowanceKept'
  BY DEF FreeInv, AllowanceKept, Exceeded, Total, FreeCores, EffectiveAccountType
<1> QED BY <1>1, <1>2, <1>3, <1>4 DEF FreeInv

LEMMA NoTaskState == NoTask \in TaskState
BY WalkTail DEF NoTask, TaskState, Nothing, Usage

\* A task that is refused is judged no more.
LEMMA RefusedInv ==
  ASSUME FreeInv, NEW t \in Tasks, Refused(t), UNCHANGED <<account, used, subs, known, blind>>
  PROVE  FreeInv'
<1>1. task'[t].step = "fresh" BY DEF Refused, NoTask, FreeInv, FreeTyped
<1>2. Judged(t)' BY <1>1 DEF Judged
<1> QED BY <1>2, NoTaskState, TaskMoves DEF Refused, FreeInv, FreeTyped

\* GetLiveQuotaSummary and ValidateFreeTierConstraint.
LEMMA ValidationInv ==
  ASSUME FreeInv, NEW t \in Tasks
  PROVE  /\ BeginTask(t) \/ ResolveHomeRegion(t) \/ DetectAccountType(t) \/ ListCompartments(t) => FreeInv'
         /\ \A r \in Resources :
              ListUsage(t, r) \/ SkipUnreadableCompartment(t, r) \/ ListingFails(t, r) => FreeInv'
         /\ ValidateFreeTierConstraint(t) \/ DropTask(t) => FreeInv'
<1> USE DEF FreeInv
<1>0. /\ FreeTyped /\ task[t] \in TaskState /\ Judged(t) /\ blind \in BOOLEAN
      /\ known \in {<<>>, <<"root">>, <<"root", "sub">>}
  BY DEF FreeTyped
<1>1. ASSUME BeginTask(t) PROVE FreeInv'
  <2>1. PICK w \in Wishes : task' = [task EXCEPT ![t] = [NoTask EXCEPT !.step = "type", !.cores = w]]
    BY <1>1 DEF BeginTask
  <2> DEFINE x == [NoTask EXCEPT !.step = "type", !.cores = w]
  <2>2. x \in TaskState /\ x.step = "type"
    BY NoTaskState, FreeTierOK DEF FreeTierOK, TaskState, NoTask
  <2>3. task'[t] = x BY <1>0, <2>1 DEF FreeTyped
  <2>4. Judged(t)' BY <2>2, <2>3 DEF Judged
  <2> HIDE DEF x
  <2> QED BY <1>0, <1>1, <2>1, <2>2, <2>4, TaskMoves DEF BeginTask, x
<1>2. ASSUME ResolveHomeRegion(t) PROVE FreeInv'
  BY <1>2, RefusedInv DEF ResolveHomeRegion
<1>3. ASSUME DetectAccountType(t) PROVE FreeInv'
  <2>1. PICK told \in Verdicts, limit \in {0, account.limit} :
          LET detected == IF told # "UNKNOWN" THEN told ELSE TypeByLimits(limit) IN
          task' = [task EXCEPT ![t].step = "comps",
                     ![t].line = Capped(A1Allowance(EffectiveAccountType(detected)), limit)]
    BY <1>3 DEF DetectAccountType
  <2> DEFINE detected == IF told # "UNKNOWN" THEN told ELSE TypeByLimits(limit)
             line == Capped(A1Allowance(EffectiveAccountType(detected)), limit)
  <2>2. line \in Nat /\ line <= FreeCores BY <1>0, LineIsFree
  <2>3. task' = [task EXCEPT ![t].step = "comps", ![t].line = line] BY <2>1
  <2> HIDE DEF line
  <2> DEFINE x == [task[t] EXCEPT !.step = "comps", !.line = line]
  <2>4. x \in TaskState /\ x.step = "comps" /\ x.line = line BY <1>0, <2>2 DEF TaskState
  <2>5. task' = [task EXCEPT ![t] = x] /\ task'[t] = x BY <1>0, <2>3 DEF FreeTyped, TaskState
  <2>6. UNCHANGED <<account, used, subs, known, blind>> BY <1>3 DEF DetectAccountType
  <2>7. FreeCores' = FreeCores BY <2>6 DEF FreeCores, EffectiveAccountType
  <2> HIDE DEF x
  <2>8. Judged(t)' BY <2>2, <2>4, <2>5, <2>7 DEF Judged
  <2> QED BY <1>0, <2>4, <2>5, <2>6, <2>8, TaskMoves
<1>4. ASSUME ListCompartments(t) PROVE FreeInv'
  <2>1. PICK comps \in {known, ActiveComps, <<"root">>} :
          /\ Walk(t, comps)
          /\ blind' = (blind \/ Unseen(comps))
          /\ \/ known # <<>> /\ comps = known /\ UNCHANGED known
             \/ known = <<>> /\ comps = ActiveComps /\ known' \in {known, comps}
             \/ known = <<>> /\ comps = <<"root">> /\ UNCHANGED known
    BY <1>4 DEF ListCompartments
  <2>2. comps \in {<<"root">>, <<"root", "sub">>} BY <1>0, <2>1 DEF ActiveComps
  <2> DEFINE x == [task[t] EXCEPT !.step = "listing", !.todo = [r \in Resources |-> comps]]
  <2>3. [r \in Resources |-> comps] \in [Resources -> Walks] BY <2>2, WalkTail
  <2>4. x \in TaskState /\ x.step = "listing" /\ x.line = task[t].line /\ x.seen = task[t].seen
        /\ x.todo = [r \in Resources |-> comps]
    BY <1>0, <2>3 DEF TaskState
  <2>5. task' = [task EXCEPT ![t] = x] /\ task'[t] = x
    BY <1>0, <2>1 DEF Walk, FreeTyped, TaskState
  <2>6. UNCHANGED <<account, used, subs>> /\ task[t].step = "comps" BY <1>4 DEF ListCompartments
  <2>7. FreeCores' = FreeCores BY <2>6 DEF FreeCores, EffectiveAccountType
  <2> HIDE DEF x
  <2>8. ASSUME ~blind', NEW r \in Resources
        PROVE  (task[t].seen[r] + Rest(task[t].todo[r], r) >= Total(r))'
    <3>1. Rest(comps, r) = Total(r) BY <1>0, <2>1, <2>2, <2>8, RestWhole
    <3>2. Total(r) \in Nat /\ task[t].seen[r] \in Nat BY <1>0, Totals DEF TaskState, Usage
    <3>3. (Rest(comps, r) = Total(r))' BY <2>6, <3>1 DEF Rest, Total
    <3>4. Total(r)' = Total(r) BY <2>6 DEF Total
    <3> QED BY <2>4, <2>5, <3>1, <3>2, <3>3, <3>4
  <2>9. Judged(t)' BY <1>0, <2>4, <2>5, <2>6, <2>7, <2>8 DEF Judged
  <2>10. known' \in {<<>>, <<"root">>, <<"root", "sub">>} /\ blind' \in BOOLEAN /\ (blind => blind')
    BY <1>0, <2>1, <2>2
  <2> QED BY <2>4, <2>5, <2>6, <2>9, <2>10, TaskMoves
<1>5. ASSUME NEW r \in Resources, ListUsage(t, r) \/ SkipUnreadableCompartment(t, r) PROVE FreeInv'
  <2> DEFINE w == task[t].todo[r]
             c == Head(w)
             found == IF ListUsage(t, r) THEN used[c][r] ELSE 0
             todo == [task[t].todo EXCEPT ![r] = Tail(w)]
             seen == [task[t].seen EXCEPT ![r] = @ + found]
             x == [task[t] EXCEPT !.todo = todo, !.seen = seen]
  <2>1. task[t].step = "listing" /\ w # <<>> /\ UNCHANGED <<account, used, subs, known>>
    BY <1>5 DEF ListUsage, SkipUnreadableCompartment
  <2>2. w \in Walks /\ Tail(w) \in Walks /\ c \in Comps BY <1>0, <2>1, WalkTail DEF TaskState
  <2>3. found \in Nat /\ task[t].seen[r] \in Nat /\ task[t].todo \in [Resources -> Walks]
        /\ task[t].seen \in Usage
    BY <1>0, <2>2 DEF FreeTyped, Usage, TaskState
  <2>4. (blind => blind') /\ blind' \in BOOLEAN
    BY <1>0, <1>5 DEF ListUsage, SkipUnreadableCompartment
  <2>5. ~blind' => found = used[c][r]
    <3>1. CASE ListUsage(t, r) BY <3>1
    <3>2. CASE ~ListUsage(t, r)
      <4>1. c # "root" /\ blind' = (blind \/ used["sub"] # Nothing)
        BY <1>5, <3>2 DEF SkipUnreadableCompartment, Skippable
      <4>2. c = "sub" BY <2>2, <4>1 DEF Comps
      <4>3. ~blind' => used["sub"] = Nothing BY <4>1
      <4>4. Nothing[r] = 0 BY DEF Nothing
      <4> QED BY <3>2, <4>2, <4>3, <4>4
    <3> QED BY <3>1, <3>2
  <2>6. task' = [task EXCEPT ![t] = x]
    <3>1. task \in [Tasks -> TaskState] BY <1>0 DEF FreeTyped
    <3>2. CASE ListUsage(t, r)
      <4>1. found = used[c][r] BY <3>2
      <4>2. task' = [task EXCEPT ![t].todo[r] = Tail(w), ![t].seen[r] = @ + found]
        BY <3>2, <4>1 DEF ListUsage
      <4> HIDE DEF found, w
      <4> QED BY <1>0, <3>1, <4>2 DEF TaskState
    <3>3. CASE ~ListUsage(t, r)
      <4>1. found = 0 /\ task' = [task EXCEPT ![t].todo[r] = Tail(w)]
        BY <1>5, <3>3 DEF SkipUnreadableCompartment
      <4> HIDE DEF found, w
      <4>2. seen = task[t].seen
        <5>1. task[t].seen[r] + found = task[t].seen[r] BY <2>3, <4>1
        <5>2. seen = [task[t].seen EXCEPT ![r] = @] BY <5>1
        <5> QED BY <2>3, <5>2 DEF Usage
      <4> HIDE DEF seen
      <4> QED BY <1>0, <3>1, <4>1, <4>2 DEF TaskState
    <3> QED BY <3>2, <3>3
  <2>6a. todo \in [Resources -> Walks] BY <2>2, <2>3
  <2>6b. seen \in Usage
    <3> HIDE DEF found
    <3> QED BY <2>3 DEF Usage
  <2>7. /\ x.step = "listing" /\ x.line = task[t].line
        /\ x.todo = [task[t].todo EXCEPT ![r] = Tail(w)]
        /\ x.seen = [task[t].seen EXCEPT ![r] = @ + found]
        /\ x \in TaskState
    <3> HIDE DEF todo, seen
    <3>1. /\ x.step = "listing" /\ x.line = task[t].line /\ x.todo = todo /\ x.seen = seen
          /\ x \in TaskState
      BY <1>0, <2>1, <2>6a, <2>6b DEF TaskState
    <3> QED BY <3>1 DEF todo, seen
  <2> HIDE DEF todo, seen
  <2>8. task'[t] = x BY <1>0, <2>6 DEF FreeTyped
  <2>9. FreeCores' = FreeCores BY <2>1 DEF FreeCores, EffectiveAccountType
  <2> HIDE DEF x, found
  <2>10. ASSUME ~blind', NEW q \in Resources
         PROVE  (task[t].seen[q] + Rest(task[t].todo[q], q) >= Total(q))'
    <3>1. task[t].seen[q] + Rest(task[t].todo[q], q) >= Total(q)
      BY <1>0, <2>1, <2>4, <2>10 DEF Judged
    <3>2. Total(q)' = Total(q) /\ \A v : Rest(v, q)' = Rest(v, q) BY <2>1 DEF Total, Rest
    <3>3. task[t].seen[q] \in Nat /\ Rest(Tail(w), q) \in Nat /\ Total(q) \in Nat
      BY <1>0, Totals DEF TaskState, Usage
    <3>4. CASE q # r
      <4>1. x.todo[q] = task[t].todo[q] /\ x.seen[q] = task[t].seen[q] BY <2>3, <2>7, <3>4 DEF Usage
      <4> QED BY <2>8, <3>1, <3>2, <4>1
    <3>5. CASE q = r
      <4>1. x.todo[q] = Tail(w) /\ x.seen[q] = task[t].seen[q] + found BY <2>3, <2>7, <3>5 DEF Usage
      <4>2. Rest(w, q) = used[c][q] + Rest(Tail(w), q) BY <1>0, <2>1, <2>2, <3>5, RestTail
      <4>3. used[c][q] \in Nat BY <1>0, <2>2 DEF FreeTyped, Usage
      <4>4. found = used[c][q] BY <2>5, <2>10, <3>5
      <4>5. task[t].seen[q] + found + Rest(Tail(w), q) >= Total(q)
        BY <3>1, <3>3, <3>5, <4>2, <4>3, <4>4
      <4>6. task'[t].seen[q] = task[t].seen[q] + found /\ task'[t].todo[q] = Tail(w)
        BY <2>8, <4>1
      <4> HIDE DEF w
      <4> QED BY <3>2, <4>5, <4>6
    <3> QED BY <3>4, <3>5
  <2>11. Judged(t)' BY <1>0, <2>1, <2>7, <2>8, <2>9, <2>10 DEF Judged
  <2> QED BY <1>0, <2>1, <2>4, <2>6, <2>7, <2>11, TaskMoves
<1>6. ASSUME NEW r \in Resources, ListingFails(t, r) PROVE FreeInv'
  BY <1>6, RefusedInv DEF ListingFails, FailsClosed
<1>7. ASSUME ValidateFreeTierConstraint(t) PROVE FreeInv'
  <2>1. /\ task[t].step = "listing" /\ \A r \in Resources : task[t].todo[r] = <<>>
        /\ UNCHANGED <<account, used, subs, known, blind>>
    BY <1>7 DEF ValidateFreeTierConstraint
  <2>2. CASE ~Fits(t) BY <1>7, <2>1, <2>2, RefusedInv DEF ValidateFreeTierConstraint
  <2>3. CASE Fits(t)
    <3> DEFINE x == [task[t] EXCEPT !.step = "admitted"]
    <3>1. /\ x \in TaskState /\ x.step = "admitted" /\ x.line = task[t].line
          /\ x.seen = task[t].seen /\ x.cores = task[t].cores
      BY <1>0 DEF TaskState
    <3>2. task' = [task EXCEPT ![t] = x] /\ task'[t] = x
      BY <1>0, <1>7, <2>3 DEF ValidateFreeTierConstraint, MovesTo, FreeTyped, TaskState
    <3> HIDE DEF x
    <3>3. FreeCores' = FreeCores BY <2>1 DEF FreeCores, EffectiveAccountType
    <3>4. Fits(t)' BY <2>3, <3>1, <3>2 DEF Fits
    <3>5. ASSUME ~blind', NEW r \in Resources PROVE (task[t].seen[r] >= Total(r))'
      <4>1. task[t].seen[r] + Rest(<<>>, r) >= Total(r) BY <1>0, <2>1, <3>5 DEF Judged
      <4>2. Rest(<<>>, r) = 0 /\ task[t].seen[r] \in Nat /\ Total(r) \in Nat
        BY <1>0, Totals DEF TaskState, Usage
      <4>3. Total(r)' = Total(r) BY <2>1 DEF Total
      <4> QED BY <3>1, <3>2, <4>1, <4>2, <4>3
    <3>6. Judged(t)' BY <1>0, <2>1, <3>1, <3>2, <3>3, <3>4, <3>5 DEF Judged
    <3> QED BY <1>0, <2>1, <3>1, <3>2, <3>6, TaskMoves
  <2> QED BY <2>2, <2>3
<1>8. ASSUME DropTask(t) PROVE FreeInv' BY <1>8, RefusedInv DEF DropTask
<1> QED BY <1>1, <1>2, <1>3, <1>4, <1>5, <1>6, <1>7, <1>8

\* The launch stays within what the task was judged by.
LEMMA LaunchInv ==
  ASSUME FreeInv, NEW t \in Tasks, Launch(t)
  PROVE  FreeInv'
<1> DEFINE n == task[t].cores
<1>0. /\ FreeTyped /\ task[t] \in TaskState /\ Judged(t) /\ n \in Nat /\ blind \in BOOLEAN
      /\ account.limit \in Nat /\ FreeCores \in Nat /\ task[t].line \in Nat
  BY FreeTierOK DEF FreeInv, FreeTyped, TaskState, FreeTierOK, FreeCores, A1Allowance
<1>1. /\ task[t].step = "admitted" /\ Total("cores") + n <= account.limit
      /\ used' = [used EXCEPT !["root"] = [cores |-> @.cores + n, disk |-> @.disk + 1]]
      /\ task' = [task EXCEPT ![t] = NoTask]
      /\ blind' = (blind \/ Crosses(Tasks \ {t}))
      /\ UNCHANGED <<account, subs, known>>
  BY DEF Launch, Refused
<1>2. /\ used' \in [Comps -> Usage]
      /\ Total("cores")' = Total("cores") + n /\ Total("disk")' = Total("disk") + 1
  BY <1>0, <1>1, Added DEF Comps
<1>3. FreeTyped' BY <1>0, <1>1, <1>2, NoTaskState DEF FreeTyped
<1>4. (Total("cores") <= account.limit)' BY <1>1, <1>2
<1>5. ASSUME NEW s \in Tasks PROVE Judged(s)'
  <2>1. CASE s = t
    <3>1. task'[t].step = "fresh" BY <1>0, <1>1 DEF FreeTyped, NoTask
    <3> QED BY <2>1, <3>1 DEF Judged
  <2>2. CASE s # t
    <3>1. task'[s] = task[s] BY <1>0, <1>1, <2>2 DEF FreeTyped
    <3>2. ~Judging(s) \/ blind' BY <1>1, <2>2 DEF Crosses
    <3> QED BY <1>1, <3>1, <3>2, StillJudged
  <2> QED BY <2>1, <2>2
<1>6. AllowanceKept'
  <2>1. SUFFICES ASSUME ~blind' PROVE ~Exceeded' BY DEF AllowanceKept
  <2>2. task[t].seen["cores"] >= Total("cores") /\ task[t].seen["disk"] >= Total("disk")
    BY <1>0, <1>1, <2>1 DEF Judged, Resources
  <2>3. task[t].seen["disk"] + 1 <= DiskLine /\ task[t].seen["cores"] + n <= task[t].line
        /\ task[t].line <= FreeCores
    BY <1>0, <1>1 DEF Judged, Fits
  <2>4. /\ task[t].seen["cores"] \in Nat /\ task[t].seen["disk"] \in Nat
        /\ Total("cores") \in Nat /\ Total("disk") \in Nat /\ DiskLine \in Nat
    BY <1>0, Totals, FreeTierOK DEF TaskState, Usage, Resources, FreeTierOK
  <2>5. FreeCores' = FreeCores BY <1>1 DEF FreeCores, EffectiveAccountType
  <2> HIDE DEF n
  <2> QED BY <1>0, <1>2, <2>2, <2>3, <2>4, <2>5 DEF Exceeded
<1> QED BY <1>3, <1>4, <1>5, <1>6 DEF FreeInv

\* What the guard is not asked about.
LEMMA UnguardedInv ==
  ASSUME FreeInv, OutsideGuard \/ TerminateAll \/ CreateCompartment \/ CompartmentsExpire
  PROVE  FreeInv'
<1>0. /\ FreeTyped /\ account.limit \in Nat /\ blind \in BOOLEAN
  BY FreeTierOK DEF FreeInv, FreeTyped, FreeTierOK
<1>1. CASE OutsideGuard
  <2>1. PICK c \in Comps : used' = [used EXCEPT ![c] = [cores |-> @.cores + 1, disk |-> @.disk + 1]]
    BY <1>1 DEF OutsideGuard, Comps
  <2>2. /\ Total("cores") < account.limit /\ UNCHANGED <<account, subs, known, task>>
        /\ blind' = (blind \/ Crosses(Tasks) \/ Exceeded')
    BY <1>1 DEF OutsideGuard
  <2>3. used' \in [Comps -> Usage] /\ Total("cores")' = Total("cores") + 1
    BY <1>0, <2>1, Added
  <2>4. FreeTyped' BY <1>0, <2>2, <2>3 DEF FreeTyped
  <2>5. Total("cores") \in Nat BY <1>0, Totals DEF Resources
  <2>6. (Total("cores") <= account.limit)' BY <1>0, <2>2, <2>3, <2>5
  <2>7. \A s \in Tasks : Judged(s)'
    <3>1. \A s \in Tasks : ~Judging(s) \/ blind' BY <2>2 DEF Crosses
    <3> QED BY <2>2, <3>1, StillJudged
  <2>8. AllowanceKept' BY <2>2 DEF AllowanceKept
  <2> QED BY <2>4, <2>6, <2>7, <2>8 DEF FreeInv
<1>2. CASE TerminateAll
  <2>1. /\ used' = [c \in Comps |-> Nothing] /\ UNCHANGED <<account, subs, known, task>>
        /\ blind' = (blind /\ Crosses(Tasks))
    BY <1>2 DEF TerminateAll
  <2>2. FreeTyped' BY <1>0, <2>1 DEF FreeTyped, Usage, Nothing
  <2>3. \A r \in Resources : Total(r)' = 0 BY <2>1 DEF Total, Nothing, Comps
  <2>4. (Total("cores") <= account.limit)' BY <1>0, <2>1, <2>3 DEF Resources
  <2>5. ASSUME NEW s \in Tasks PROVE Judged(s)'
    <3>1. Judged(s) /\ task'[s] = task[s] /\ task[s] \in TaskState BY <2>1 DEF FreeInv, FreeTyped
    <3>2. FreeCores' = FreeCores BY <2>1 DEF FreeCores, EffectiveAccountType
    <3>3. Fits(s)' = Fits(s) BY <3>1 DEF Fits
    <3>4. \A r \in Resources : \A w : Rest(w, r)' = 0 BY <2>1 DEF Rest, Nothing, Comps
    <3>5. \A r \in Resources : task[s].seen[r] \in Nat BY <3>1 DEF TaskState, Usage
    <3> QED BY <2>3, <3>1, <3>2, <3>3, <3>4, <3>5 DEF Judged
  <2>6. ~Exceeded'
    <3>1. DiskLine \in Nat /\ FreeCores' \in Nat BY FreeTierOK DEF FreeTierOK, FreeCores, A1Allowance
    <3> QED BY <2>3, <3>1 DEF Exceeded, Resources
  <2> QED BY <2>2, <2>4, <2>5, <2>6 DEF FreeInv, AllowanceKept
<1>3. CASE CreateCompartment \/ CompartmentsExpire
  <2>1. UNCHANGED <<account, used, task, blind>>
    BY <1>3 DEF CreateCompartment, CompartmentsExpire
  <2>2. FreeTyped' BY <1>0, <1>3, <2>1 DEF FreeTyped, CreateCompartment, CompartmentsExpire
  <2>3. \A s \in Tasks : Judged(s)' BY <2>1, StillJudged
  <2>4. (Total("cores") <= account.limit)' /\ AllowanceKept'
    BY <2>1 DEF FreeInv, AllowanceKept, Exceeded, Total, FreeCores, EffectiveAccountType
  <2> QED BY <2>2, <2>3, <2>4 DEF FreeInv
<1> QED BY <1>1, <1>2, <1>3

(* The theorems. *)

\* Nothing is used at first.
LEMMA FreeInitInv == FreeInit => FreeInv
<1> SUFFICES ASSUME FreeInit PROVE FreeInv OBVIOUS
<1> USE FreeTierOK DEF FreeTierOK, FreeInit
<1>1. FreeTyped BY NoTaskState DEF FreeTyped, Usage, Nothing
<1>2. \A r \in Resources : Total(r) = 0 BY DEF Total, Nothing, Comps
<1>3. \A t \in Tasks : Judged(t) BY DEF Judged, NoTask
<1>4. Total("cores") <= account.limit
  <2>1. account.limit \in Nat BY DEF FreeInit
  <2> QED BY <1>2, <2>1 DEF Resources
<1>5. AllowanceKept
  <2>1. DiskLine \in Nat /\ FreeCores \in Nat BY DEF FreeCores, A1Allowance
  <2> QED BY <1>2, <2>1 DEF AllowanceKept, Exceeded, Resources
<1> QED BY <1>1, <1>3, <1>4, <1>5 DEF FreeInv

\* The invariant is inductive.
LEMMA FreeStepInv == FreeInv /\ [FreeNext]_freeVars => FreeInv'
<1> SUFFICES ASSUME FreeInv, [FreeNext]_freeVars PROVE FreeInv' OBVIOUS
<1>1. CASE FreeNext BY <1>1, ValidationInv, LaunchInv, UnguardedInv DEF FreeNext
<1>2. CASE UNCHANGED freeVars
  BY <1>2 DEF freeVars, FreeInv, FreeTyped, Total, Judged, Rest, Fits, FreeCores,
     EffectiveAccountType, AllowanceKept, Exceeded
<1> QED BY <1>1, <1>2

\* The inductive invariant holds in every reachable state.
THEOREM FreeInvariance == FreeSpec => []FreeInv
BY FreeInitInv, FreeStepInv, PTL DEF FreeSpec

\* Every variable keeps its type, and usage stays within the service limit.
THEOREM FreeTypeCorrect == FreeSpec => []FreeTypeOK
<1>1. FreeInv => FreeTypeOK BY DEF FreeInv, FreeTyped, TaskState, FreeTypeOK
<1> QED BY <1>1, FreeInvariance, PTL

\* The account stays within what is free unless usage went past the guard.
THEOREM AllowanceIsKept == FreeSpec => []AllowanceKept
<1>1. FreeInv => AllowanceKept BY DEF FreeInv
<1> QED BY <1>1, FreeInvariance, PTL

(***************************************************************************)
(* The four together, as the run cloud_calls has them.                     *)
(***************************************************************************)

\* A behaviour of the four is a behaviour of each: what is proved of one holds
\* in the instance that is model-checked.
THEOREM CloudComponents == MCSpec => CallSpec /\ VcnSpec /\ IpSpec /\ FreeSpec
<1>1. MCInit => CallInit /\ VcnInit /\ IpInit /\ FreeInit BY DEF MCInit
<1>2. [MCNext]_allVars =>
        [CallNext]_callVars /\ [VcnNext]_vcnVars /\ [IpNext]_publicVars /\ [FreeNext]_freeVars
  BY DEF MCNext, allVars, FreeTasksNext
<1> QED BY <1>1, <1>2, PTL DEF MCSpec, CallSpec, VcnSpec, IpSpec, FreeSpec

\* Every variable of the four keeps its type.
THEOREM CloudTypeCorrect == MCSpec => []CloudStateOK
<1>1. CallTypeOK /\ VcnTypeOK /\ IpTypeOK /\ FreeTypeOK => CloudStateOK BY DEF CloudStateOK
<1> QED BY <1>1, CloudComponents, CallTypeCorrect, VcnTypeCorrect, IpTypeCorrect, FreeTypeCorrect, PTL

===============================================================================
