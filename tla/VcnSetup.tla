------------------------------- MODULE VcnSetup -------------------------------
(***************************************************************************)
(* CreateRecommendedVCN (oci/network.go) and its handler: five calls that  *)
(* build a network, two of them with an IPv4-only second choice, none of   *)
(* them undone when a later one fails.  Every call is done, refused, or    *)
(* done with its answer lost; the process may stop between two of them.    *)
(***************************************************************************)
EXTENDS FiniteSets

VARIABLES
  vcnStep,   \* the call that is next
  vcns,      \* VCNs in the cloud: "dual" has asked for IPv6
  prefix,    \* the VCN in use got an IPv6 prefix
  gateway,   \* it has an Internet Gateway
  routes,    \* default routes to it in the route table
  egress,    \* families the security list lets out
  subnets,   \* its subnets
  warned,    \* warnings of the reply
  vcnReply   \* what the handler answered

networkVars == <<vcns, prefix, gateway, routes, egress, subnets>>
vcnVars == <<vcnStep, networkVars, warned, vcnReply>>

VcnInit ==
  /\ vcnStep = "vcn"
  /\ vcns = {}
  /\ prefix = FALSE
  /\ gateway = FALSE
  /\ routes = {}
  /\ egress = {"v4"}
  /\ subnets = {}
  /\ warned = {}
  /\ vcnReply = "none"

\* A call that is applied or not, and says so or not: ok only if applied.
Outcomes == {<<TRUE, TRUE>>, <<TRUE, FALSE>>, <<FALSE, FALSE>>}

Goto(s) == vcnStep' = s /\ UNCHANGED <<warned, vcnReply>>
Warn(w, s) == warned' = warned \union {w} /\ vcnStep' = s /\ UNCHANGED vcnReply
VcnError == vcnReply' = "error" /\ vcnStep' = "done" /\ UNCHANGED warned

\* A region that rejects IPv6, and a lost answer, look the same.
CreateVcn == \E o \in Outcomes :
  /\ vcnStep = "vcn"
  /\ vcns' = IF o[1] THEN vcns \union {"dual"} ELSE vcns
  /\ IF o[2] THEN Goto("wait") ELSE Warn("ipv4 vcn", "vcn4")
  /\ UNCHANGED <<prefix, gateway, routes, egress, subnets>>

CreateVcnIPv4 == \E o \in Outcomes :
  /\ vcnStep = "vcn4"
  /\ vcns' = IF o[1] THEN vcns \union {"ipv4"} ELSE vcns
  /\ IF o[2] THEN Goto("wait") ELSE VcnError
  /\ UNCHANGED <<prefix, gateway, routes, egress, subnets>>

\* waitForVcnAvailable; the prefix is there once the VCN is, or never.
WaitForVcn ==
  /\ vcnStep = "wait"
  /\ \/ prefix' = TRUE /\ "ipv4 vcn" \notin warned /\ Goto("gateway")
     \/ prefix' = FALSE /\ Warn("no prefix", "gateway")
     \/ UNCHANGED prefix /\ VcnError
  /\ UNCHANGED <<vcns, gateway, routes, egress, subnets>>

CreateGateway == \E o \in Outcomes :
  /\ vcnStep = "gateway"
  /\ gateway' = o[1]
  /\ IF o[2] THEN Goto("routes") ELSE VcnError
  /\ UNCHANGED <<vcns, prefix, routes, egress, subnets>>

\* updateRoutes replaces the rules of the table.
UpdateRoutes == \E o \in Outcomes :
  /\ vcnStep = "routes"
  /\ routes' = IF ~o[1] THEN routes ELSE IF prefix THEN {"v4", "v6"} ELSE {"v4"}
  /\ CASE o[2] -> Goto(IF prefix THEN "egress" ELSE "subnet")
       [] ~o[2] /\ prefix -> Warn("no ipv6 route", "routes4")
       [] OTHER -> VcnError
  /\ UNCHANGED <<vcns, prefix, gateway, egress, subnets>>

\* Mutant: the IPv4 route is best effort like the IPv6 one.
RoutesBestEffort == \E o \in Outcomes :
  /\ vcnStep = "routes4"
  /\ routes' = IF o[1] THEN {"v4"} ELSE routes
  /\ Goto("egress")
  /\ UNCHANGED <<vcns, prefix, gateway, egress, subnets>>

UpdateRoutesIPv4 == \E o \in Outcomes :
  /\ vcnStep = "routes4"
  /\ routes' = IF o[1] THEN {"v4"} ELSE routes
  /\ IF o[2] THEN Goto("egress") ELSE VcnError
  /\ UNCHANGED <<vcns, prefix, gateway, egress, subnets>>

\* Mutant: the error is logged only.
EgressUnwarned == \E o \in Outcomes :
  /\ vcnStep = "egress"
  /\ egress' = IF o[1] THEN egress \union {"v6"} ELSE egress
  /\ Goto("subnet")
  /\ UNCHANGED <<vcns, prefix, gateway, routes, subnets>>

EnsureIPv6Egress == \E o \in Outcomes :
  /\ vcnStep = "egress"
  /\ egress' = IF o[1] THEN egress \union {"v6"} ELSE egress
  /\ IF o[2] THEN Goto("subnet") ELSE Warn("no ipv6 egress", "subnet")
  /\ UNCHANGED <<vcns, prefix, gateway, routes, subnets>>

\* OCI refuses a second subnet with the same IPv4 range.
CreateSubnet(s, family) == \E o \in Outcomes :
  /\ vcnStep = s
  /\ o[1] => subnets = {}
  /\ subnets' = IF o[1] THEN {family} ELSE subnets
  /\ CASE o[2] -> vcnReply' = "ok" /\ vcnStep' = "done" /\ UNCHANGED warned
       [] ~o[2] /\ family = "dual" -> Warn("ipv4 subnet", "subnet4")
       [] OTHER -> VcnError
  /\ UNCHANGED <<vcns, prefix, gateway, routes, egress>>

\* The process stops or the browser goes away between two calls.
VcnCrash ==
  /\ vcnStep # "done"
  /\ vcnStep' = "done"
  /\ UNCHANGED <<networkVars, warned, vcnReply>>

VcnNext ==
  \/ CreateVcn
  \/ CreateVcnIPv4
  \/ WaitForVcn
  \/ CreateGateway
  \/ UpdateRoutes
  \/ UpdateRoutesIPv4
  \/ EnsureIPv6Egress
  \/ CreateSubnet("subnet", IF prefix THEN "dual" ELSE "v4")
  \/ CreateSubnet("subnet4", "v4")
  \/ VcnCrash

VcnSpec == VcnInit /\ [][VcnNext]_vcnVars

(***************************************************************************)
(* Properties.                                                             *)
(***************************************************************************)
Families == {"v4", "v6"}

\* Every variable has its type.
VcnTypeOK ==
  /\ vcnStep \in {"vcn", "vcn4", "wait", "gateway", "routes", "routes4", "egress",
                  "subnet", "subnet4", "done"}
  /\ vcns \in SUBSET {"dual", "ipv4"}
  /\ {prefix, gateway} \subseteq BOOLEAN
  /\ routes \in SUBSET Families
  /\ egress \in SUBSET Families
  /\ subnets \in SUBSET {"v4", "dual"}
  /\ warned \in SUBSET {"ipv4 vcn", "no prefix", "no ipv6 route", "no ipv6 egress", "ipv4 subnet"}
  /\ vcnReply \in {"none", "ok", "error"}

\* A network reported without warnings is dual-stack in every part and is the
\* only one that was made: no second choice is silent (network.go:366-369).
NoSilentDegradation == vcnReply = "ok" /\ warned = {} =>
  /\ vcns = {"dual"}
  /\ prefix
  /\ routes = Families
  /\ egress = Families
  /\ subnets = {"dual"}

\* Whatever fails, and wherever it stops, an instance launched into a subnet
\* that exists can be reached over IPv4 (network.go:425-468, "mandatory").
SubnetReachable == subnets # {} => gateway /\ "v4" \in routes

===============================================================================
