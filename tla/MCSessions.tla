------------------------------ MODULE MCSessions ------------------------------
(* Instances for TLC of the sessions and of what one address may try.  The   *)
(* two share no state: subject says which of them a behaviour is about.      *)
EXTENDS Sessions, LoginGuard, TLC

VARIABLE subject

MCInit ==
  /\ subject \in {"sessions", "guard"}
  /\ SessionsInit
  /\ GuardInit

MCNext ==
  \/ subject = "sessions" /\ SessionsNext /\ UNCHANGED <<subject, guardVars>>
  \/ subject = "guard" /\ GuardNext /\ UNCHANGED <<subject, sessionVars>>

MCSpec == MCInit /\ [][MCNext]_<<subject, sessionVars, guardVars>>

\* Every variable of both modules has its type.
LoginStateOK == SessionsTypeOK /\ GuardTypeOK

\* Requests and temporary tokens differ in nothing but their names.
LoginSymmetry ==
  Permutations(Requests) \union Permutations(Tries) \union Permutations(TempTokens)

===============================================================================
