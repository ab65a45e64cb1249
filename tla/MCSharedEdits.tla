----------------------------- MODULE MCSharedEdits -----------------------------
(* Instances for TLC of the components whose requests read something shared, *)
(* decide, and write later.  They share no state: as in MCCloudCalls,        *)
(* subject says which one a behaviour is about.  The accounts are looked at  *)
(* twice, once for their rows and once for the keys their clients sign with. *)
EXTENDS SecurityList, InstanceFirewall, Accounts, LogSockets, TLC

CONSTANTS OneKey, AnotherKey, Tenancy, OneUser, AnotherUser

VARIABLE subject

allVars == <<subject, listVars, fwVars, accountVars, socketVars>>

MCPems == {OneKey, AnotherKey}
MCOwners == {<<Tenancy, OneUser>>, <<Tenancy, AnotherUser>>}

MCInit ==
  /\ subject \in {"list", "firewall", "rows", "signing", "sockets"}
  /\ ListInit /\ FwInit /\ AccountsInit /\ SocketsInit
  /\ subject # "list" => Cardinality(ingress) = 1 /\ cidr /\ v6Vcn

\* One key for every import, no clients.
RowsNext ==
  /\ AccountsNext
  /\ client' = client
  /\ \A r \in Requests : req'[r].sect.pem \in {"none", OneKey}

\* One owner, no SSH keys.
SigningNext ==
  /\ AccountsNext
  /\ madeKeys' = madeKeys
  /\ \A r \in Requests : req'[r].sect.owner \in {NoOwner, <<Tenancy, OneUser>>}

MCNext ==
  /\ UNCHANGED subject
  /\ \/ subject = "list" /\ ListNext
     \/ subject # "list" /\ UNCHANGED listVars
  /\ \/ subject = "firewall" /\ FwNext
     \/ subject # "firewall" /\ UNCHANGED fwVars
  /\ \/ subject = "rows" /\ RowsNext
     \/ subject = "signing" /\ SigningNext
     \/ subject \notin {"rows", "signing"} /\ UNCHANGED accountVars
  /\ \/ subject = "sockets" /\ SocketsNext
     \/ subject # "sockets" /\ UNCHANGED socketVars

MCSpec == MCInit /\ [][MCNext]_allVars

\* Every variable of the four modules has its type.
SharedStateOK == ListTypeOK /\ FwTypeOK /\ AccountsTypeOK /\ SocketsTypeOK

\* Edits and requests differ in nothing but their names.
EditSymmetry == Permutations(Edits)

===============================================================================
