------------------------------- MODULE PublicIp -------------------------------
(***************************************************************************)
(* RotatePublicIP and AttachIPv6ToInstance (oci/instance.go) for one       *)
(* instance with a primary and a secondary VNIC.  OCI releases an address  *)
(* some time after it is told to, and refuses a second one on the same     *)
(* private IP; requests of the same kind may overlap, and nothing in the   *)
(* panel keeps them apart.                                                 *)
(***************************************************************************)
EXTENDS FiniteSets, Naturals

CONSTANTS
  Rotations,  \* requests to change the public IPv4 address
  Attaches    \* requests for an IPv6 address

\* Address objects: one per VNIC from the start, one a rotation may create.
Vnics == {"primary", "secondary"}
Ips == Vnics \union Rotations

ASSUME PublicIpOK == Rotations \cap Vnics = {} /\ IsFiniteSet(Attaches)

VARIABLES
  life,       \* "reserved" or "ephemeral", per address object
  ipState,    \* its lifecycle state; "none" before it is created
  ipOn,       \* the VNIC whose private IP it is on
  rotStep, rotVnic, rotOld, rotReply,
  v6,         \* IPv6 addresses of each VNIC
  v6Step, v6Vnic, v6Reply,
  v6Overlap,  \* two requests were about to allocate on one VNIC
  v6Astray    \* a request took the secondary VNIC for the primary one

ipVars == <<life, ipState, ipOn>>
rotVars == <<rotStep, rotVnic, rotOld, rotReply>>
v6Vars == <<v6, v6Step, v6Vnic, v6Reply, v6Overlap, v6Astray>>
publicVars == <<ipVars, rotVars, v6Vars>>

Held(v) == {i \in Ips : ipOn[i] = v /\ ipState[i] \in {"assigned", "releasing"}}

IpInit ==
  /\ life \in {f \in [Ips -> {"reserved", "ephemeral"}] :
                 \A r \in Rotations : f[r] = "ephemeral"}
  /\ ipState = [i \in Ips |-> IF i \in Vnics THEN "assigned" ELSE "none"]
  /\ ipOn = [i \in Ips |-> IF i = "secondary" THEN i ELSE "primary"]
  /\ rotStep = [r \in Rotations |-> "vnic"]
  /\ rotVnic = [r \in Rotations |-> "primary"]
  /\ rotOld = [r \in Rotations |-> {}]
  /\ rotReply = [r \in Rotations |-> "none"]
  /\ v6 = [v \in Vnics |-> 0]
  /\ v6Step = [a \in Attaches |-> "idle"]
  /\ v6Vnic = [a \in Attaches |-> "primary"]
  /\ v6Reply = [a \in Attaches |-> "none"]
  /\ v6Overlap = FALSE
  /\ v6Astray = FALSE

(***************************************************************************)
(* primaryVnic.  A VNIC whose GetVnic fails is passed over, and the first  *)
(* other one is the fallback.                                              *)
(***************************************************************************)
PrimaryVnic(read) ==
  IF "primary" \in read THEN {"primary"} ELSE read

RotateEnds(r, reply) ==
  /\ rotStep' = [rotStep EXCEPT ![r] = "done"]
  /\ rotReply' = [rotReply EXCEPT ![r] = reply]

RotateFails(r) == RotateEnds(r, "error")

RotateGoto(r, s) == rotStep' = [rotStep EXCEPT ![r] = s] /\ UNCHANGED rotReply

FindVnic(r) ==
  /\ rotStep[r] = "vnic"
  /\ \E read \in SUBSET Vnics :
       /\ \/ PrimaryVnic(read) = {} /\ RotateFails(r) /\ UNCHANGED rotVnic
          \/ \E v \in PrimaryVnic(read) :
               rotVnic' = [rotVnic EXCEPT ![r] = v] /\ RotateGoto(r, "look")
  /\ UNCHANGED <<ipVars, rotOld, v6Vars>>

\* The current public IP; 404 means none.
LookUp(r) ==
  /\ rotStep[r] = "look"
  /\ \/ RotateFails(r) /\ UNCHANGED rotOld
     \/ /\ rotOld' = [rotOld EXCEPT ![r] = Held(rotVnic[r])]
        /\ RotateGoto(r, IF Held(rotVnic[r]) = {} THEN "create" ELSE "release")
  /\ UNCHANGED <<ipVars, rotVnic, v6Vars>>

\* A reserved address is detached, any other is deleted; a deletion that finds
\* nothing is as good.
Released(r) == [i \in Ips |->
  IF i \in rotOld[r] /\ ipState[i] = "assigned" THEN "releasing" ELSE ipState[i]]

Release(r) ==
  /\ rotStep[r] = "release"
  /\ \/ ipState' = Released(r) /\ RotateGoto(r, "wait")
     \/ ipState' = Released(r) /\ RotateFails(r)
     \/ UNCHANGED ipState /\ RotateFails(r)
  /\ UNCHANGED <<life, ipOn, rotVnic, rotOld, v6Vars>>

\* OCI: the address is gone, or free to be assigned again.
AfterRelease(i) == IF life[i] = "reserved" THEN "available" ELSE "terminated"

OciReleases(i) ==
  /\ ipState[i] = "releasing"
  /\ ipState' = [ipState EXCEPT ![i] = AfterRelease(i)]
  /\ UNCHANGED <<life, ipOn, rotVars, v6Vars>>

\* Until the old address is gone, for 45 seconds at most.
WaitGone(r) ==
  /\ rotStep[r] = "wait"
  /\ RotateGoto(r, "create") \/ RotateFails(r)
  /\ UNCHANGED <<ipVars, rotVnic, rotOld, v6Vars>>

\* Mutant: the error of CreatePublicIp is not returned.
CreateIpIgnored(r) ==
  /\ rotStep[r] = "create"
  /\ \/ /\ Held(rotVnic[r]) = {}
        /\ ipState' = [ipState EXCEPT ![r] = "assigned"]
        /\ ipOn' = [ipOn EXCEPT ![r] = rotVnic[r]]
     \/ UNCHANGED <<ipState, ipOn>>
  /\ RotateEnds(r, "ok")
  /\ UNCHANGED <<life, rotVnic, rotOld, v6Vars>>

CreateIp(r) ==
  /\ rotStep[r] = "create"
  /\ \/ /\ Held(rotVnic[r]) = {}
        /\ ipState' = [ipState EXCEPT ![r] = "assigned"]
        /\ ipOn' = [ipOn EXCEPT ![r] = rotVnic[r]]
        /\ RotateEnds(r, "ok") \/ RotateFails(r)
     \/ UNCHANGED <<ipState, ipOn>> /\ RotateFails(r)
  /\ UNCHANGED <<life, rotVnic, rotOld, v6Vars>>

(***************************************************************************)
(* AttachIPv6ToInstance: the VNIC and its addresses are read at once, the  *)
(* address is created later.                                               *)
(***************************************************************************)
V6Ends(a, reply) ==
  /\ v6Step' = [v6Step EXCEPT ![a] = "done"]
  /\ v6Reply' = [v6Reply EXCEPT ![a] = reply]

\* The request goes on to allocate on VNIC v.
V6Wants(a, v) ==
  /\ v6Step' = [v6Step EXCEPT ![a] = "create"]
  /\ v6Vnic' = [v6Vnic EXCEPT ![a] = v]
  /\ v6Overlap' = (v6Overlap \/ \E b \in Attaches \ {a} : v6Step[b] = "create" /\ v6Vnic[b] = v)
  /\ v6Astray' = (v6Astray \/ v # "primary")
  /\ UNCHANGED v6Reply

\* Mutant: the addresses the VNIC has are not looked at.
LookV6Never(a) ==
  /\ v6Step[a] = "idle"
  /\ \E read \in SUBSET Vnics : \E v \in PrimaryVnic(read) : V6Wants(a, v)
  /\ UNCHANGED <<ipVars, rotVars, v6>>

LookV6(a) ==
  /\ v6Step[a] = "idle"
  /\ \E read \in SUBSET Vnics :
       \/ /\ PrimaryVnic(read) = {}
          /\ V6Ends(a, "error")
          /\ UNCHANGED <<v6Vnic, v6Overlap, v6Astray>>
       \/ \E v \in PrimaryVnic(read) :
            \/ v6[v] = 0 /\ V6Wants(a, v)
            \/ /\ v6[v] > 0
               /\ V6Ends(a, "ok")
               /\ UNCHANGED <<v6Vnic, v6Overlap, v6Astray>>
  /\ UNCHANGED <<ipVars, rotVars, v6>>

CreateV6(a) ==
  /\ v6Step[a] = "create"
  /\ \/ /\ v6' = [v6 EXCEPT ![v6Vnic[a]] = @ + 1]
        /\ V6Ends(a, "ok") \/ V6Ends(a, "error")
     \/ UNCHANGED v6 /\ V6Ends(a, "error")
  /\ UNCHANGED <<ipVars, rotVars, v6Vnic, v6Overlap, v6Astray>>

\* A restart ends every request, with no answer.
IpCrash ==
  /\ \E r \in Rotations : rotStep[r] # "done"
  /\ rotStep' = [r \in Rotations |-> "done"]
  /\ v6Step' = [a \in Attaches |-> IF v6Step[a] = "create" THEN "done" ELSE v6Step[a]]
  /\ UNCHANGED <<ipVars, rotVnic, rotOld, rotReply, v6, v6Vnic, v6Reply, v6Overlap, v6Astray>>

RotateStep(r) == FindVnic(r) \/ LookUp(r) \/ Release(r) \/ WaitGone(r) \/ CreateIp(r)

IpNext ==
  \/ \E r \in Rotations : RotateStep(r)
  \/ \E i \in Ips : OciReleases(i)
  \/ \E a \in Attaches : LookV6(a) \/ CreateV6(a)
  \/ IpCrash

IpSpec == IpInit /\ [][IpNext]_publicVars

(***************************************************************************)
(* Properties.                                                             *)
(***************************************************************************)

\* Every variable has its type; a private IP holds at most one public IP.
IpTypeOK ==
  /\ life \in [Ips -> {"reserved", "ephemeral"}]
  /\ ipState \in [Ips -> {"none", "assigned", "releasing", "available", "terminated"}]
  /\ ipOn \in [Ips -> Vnics]
  /\ rotStep \in [Rotations -> {"vnic", "look", "release", "wait", "create", "done"}]
  /\ rotVnic \in [Rotations -> Vnics]
  /\ rotOld \in [Rotations -> SUBSET Ips]
  /\ rotReply \in [Rotations -> {"none", "ok", "error"}]
  /\ v6 \in [Vnics -> 0 .. Cardinality(Attaches)]
  /\ v6Step \in [Attaches -> {"idle", "create", "done"}]
  /\ v6Reply \in [Attaches -> {"none", "ok", "error"}]
  /\ v6Vnic \in [Attaches -> Vnics]
  /\ v6Overlap \in BOOLEAN
  /\ v6Astray \in BOOLEAN
  /\ \A v \in Vnics : Cardinality(Held(v)) <= 1

\* A VNIC is left without a public address only by a rotation that is still
\* under way or has not answered "ok": no order of two rotations, and no late
\* release, takes the address that a finished one reported (instance.go:452).
NoSilentLoss == \A v \in Vnics : Held(v) = {} =>
  \E r \in Rotations :
    /\ rotVnic[r] = v
    /\ rotOld[r] # {}
    /\ rotReply[r] # "ok"

\* Requests for one VNIC that do not overlap leave one IPv6 address on it: a
\* repeated request, after a lost answer too, finds the first.  The instance
\* gets a second one, on its other VNIC, only when the primary one could not
\* be read (instance.go:57, 74, 565).
OneIpv6 == ~v6Overlap =>
  /\ \A v \in Vnics : v6[v] <= 1
  /\ v6["primary"] + v6["secondary"] > 1 => v6Astray

===============================================================================
