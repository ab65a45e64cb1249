------------------------------ MODULE LogSockets ------------------------------
(***************************************************************************)
(* The bounded number of live log sockets (api/ws_logger.go): a counter    *)
(* that each connection adds one to before it looks at the limit, and      *)
(* takes one from when it is refused and on every way out of its handler.  *)
(***************************************************************************)
EXTENDS FiniteSets, Integers

CONSTANTS
  Sockets,        \* connections
  MaxLogSockets   \* maxLogSockets

ASSUME LogSocketsOK == IsFiniteSet(Sockets) /\ MaxLogSockets \in Nat

VARIABLES
  openLogSockets, \* the counter
  socket          \* where each connection's handler is

socketVars == <<openLogSockets, socket>>

SocketsInit == openLogSockets = 0 /\ socket = [s \in Sockets |-> "closed"]

\* The handlers the counter has counted.
Counted == {s \in Sockets : socket[s] # "closed"}

\* atomic.AddInt64, and the comparison with what it returned.
AddSocket(s) ==
  /\ socket[s] = "closed"
  /\ openLogSockets' = openLogSockets + 1
  /\ socket' = [socket EXCEPT ![s] = IF openLogSockets' > MaxLogSockets THEN "refused" ELSE "upgrade"]

\* The subscription is made; the read pump starts.
Subscribe(s) ==
  /\ socket[s] = "upgrade"
  /\ socket' = [socket EXCEPT ![s] = "streaming"]
  /\ UNCHANGED openLogSockets

\* The client closed or the request was cancelled.
SeesClose(s) ==
  /\ socket[s] = "streaming"
  /\ socket' = [socket EXCEPT ![s] = "leaving"]
  /\ UNCHANGED openLogSockets

\* Mutant: the deferred call is made after the upgrade.
ExitsAfterUpgrade(from) == IF from = "upgrade" THEN 0 ELSE 1

\* What a handler takes from the counter when it returns: from the refusal, a
\* failed upgrade, a failed write, a closed subscription, a cancelled context.
GivesBack(from) == 1

LeaveSocket(s) ==
  /\ socket[s] # "closed"
  /\ openLogSockets' = openLogSockets - GivesBack(socket[s])
  /\ socket' = [socket EXCEPT ![s] = "closed"]

\* The process stops; every connection with it.
RestartSockets ==
  /\ openLogSockets' = 0
  /\ socket' = [s \in Sockets |-> "closed"]

SocketsNext ==
  \/ \E s \in Sockets : AddSocket(s) \/ Subscribe(s) \/ SeesClose(s) \/ LeaveSocket(s)
  \/ RestartSockets

SocketsSpec == SocketsInit /\ [][SocketsNext]_socketVars

(***************************************************************************)
(* Properties.                                                             *)
(***************************************************************************)

\* Every variable has its type.
SocketsTypeOK ==
  /\ openLogSockets \in Int
  /\ socket \in [Sockets -> {"closed", "refused", "upgrade", "streaming", "leaving"}]

\* Connections that stream.
Admitted == {s \in Sockets : socket[s] \in {"upgrade", "streaming", "leaving"}}

\* The counter is the number of handlers under way, so no way out of one uses up
\* a place for good, and no more connections stream than the limit allows
\* (ws_logger.go:54-66, 90-108).
NoSlotLeak ==
  /\ openLogSockets = Cardinality(Counted)
  /\ Cardinality(Admitted) <= MaxLogSockets

===============================================================================
