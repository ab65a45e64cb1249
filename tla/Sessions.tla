------------------------------- MODULE Sessions -------------------------------
(***************************************************************************)
(* The sessions of the one administrator (auth/auth.go RequireAuth,        *)
(* api/handlers_auth.go): tokens that slide with use up to an absolute     *)
(* age, a logout that blacklists one token, a password change and a        *)
(* lockdown that raise the version every token is compared with.  Every    *)
(* request reads the blacklist, then the user row, then acts on what it    *)
(* read; requests overlap.  Any Redis command may fail: a token that is    *)
(* not seen on the blacklist is let in, and a logout that cannot write its *)
(* entry is answered like any other.  What Redis holds, it keeps.          *)
(*                                                                         *)
(* The unit of time is sessionRenewAfter, an hour: a request (30 s at most)*)
(* is over before the clock moves, and the minute that issueSessionToken   *)
(* keeps in hand is less than a unit.                                      *)
(***************************************************************************)
EXTENDS Integers, Sequences

CONSTANTS
  MaxTokens,     \* bound: tokens that are issued
  Requests,      \* requests under way at once
  Idle,          \* SessionTokenLifetime
  AbsoluteMax,   \* sessionAbsoluteMax
  RenewAfter,    \* sessionRenewAfter
  LockdownStep,  \* what a lockdown adds to the version: 10
  LastTime,      \* bound: the clock stops here
  MaxBumps       \* bound: password changes and lockdowns

ASSUME TimesOK ==
  /\ MaxTokens \in Nat /\ LastTime \in Nat \ {0} /\ MaxBumps \in Nat
  /\ Idle \in Nat \ {0} /\ AbsoluteMax \in Nat \ {0}
  /\ RenewAfter \in Nat \ {0} /\ RenewAfter <= Idle
  /\ LockdownStep \in Nat \ {0}

VARIABLES
  now,
  version,     \* users.token_version
  tok,         \* the tokens that were issued, in order
  blackUntil,  \* when the blacklist entry of each expires; 0 = no entry
  req,         \* what each request is doing
  cookie,      \* the token the browser holds; 0 = none
  lastUse,     \* when it last got an answer with it
  bumps,       \* password changes and lockdowns that were written
  bumpLost     \* one of them wrote over another

sessionVars == <<now, version, tok, blackUntil, req, cookie, lastUse, bumps, bumpLost>>

Tokens == 1 .. MaxTokens
Issued == DOMAIN tok
\* good and unseen say how the token stood when the request came in: whether it
\* was accepted, and whether it was on the blacklist and not seen there.
Idling == [kind |-> "none", step |-> "idle", token |-> 0, fresh |-> 0,
           loaded |-> 0, epoch |-> 0, good |-> FALSE, unseen |-> FALSE]

Earlier(a, b) == IF a < b THEN a ELSE b

\* login and epoch are not in the token: when the session began, and the bumps
\* that were written when its version was read.
Claims(born, ver, login, epoch) ==
  [born |-> born, iat |-> now, exp |-> Earlier(now + Idle, born + AbsoluteMax),
   ver |-> ver, login |-> login, epoch |-> epoch]

SessionsInit ==
  /\ now = 1
  /\ version = 1
  /\ tok = <<>>
  /\ blackUntil = [t \in Tokens |-> 0]
  /\ req = [r \in Requests |-> Idling]
  /\ cookie = 0
  /\ lastUse = 1
  /\ bumps = 0
  /\ bumpLost = FALSE

(***************************************************************************)
(* The middleware.                                                         *)
(***************************************************************************)
Unexpired(t) == now < tok[t].exp
Blacklisted(t) == now < blackUntil[t]
Accepted(t) == Unexpired(t) /\ ~Blacklisted(t) /\ tok[t].ver = version

\* IsJTIBlacklisted, with an answer from Redis or without: an error passes for no.
SeenOnBlacklist(t, answered) == answered /\ Blacklisted(t)

\* ValidateJWT and the blacklist; any token that was issued may come back.  Which
\* endpoint the request is for shows when it acts.
Arrive(r, t) ==
  /\ req[r] = Idling
  /\ Unexpired(t)
  /\ \E answered \in BOOLEAN : ~SeenOnBlacklist(t, answered)
  /\ req' = [req EXCEPT ![r] = [@ EXCEPT !.kind = "session", !.step = "load", !.token = t,
               !.good = Accepted(t), !.unseen = Blacklisted(t)]]
  /\ UNCHANGED <<now, version, tok, blackUntil, cookie, lastUse, bumps, bumpLost>>

\* Mutant: renewed when it is about to expire.
RenewNearEnd(t) == tok[t].exp - now < RenewAfter

RenewDue(t) == now - tok[t].iat >= RenewAfter

\* Mutant: the renewed session starts anew.
StartsAnew(t) == now

SessionStartOf(t) == tok[t].born

\* issueSessionToken refuses a token that would expire at once.
MayIssue(born) == now < born + AbsoluteMax

\* Mutant: only a token of an earlier version is refused.
OlderVersion(t) == tok[t].ver < version

Outdated(t) == tok[t].ver # version

\* The user row, the version, and the renewal.
Load(r) ==
  LET t == req[r].token
      renew == RenewDue(t) /\ MayIssue(SessionStartOf(t))
  IN
  /\ req[r].step = "load"
  /\ \/ /\ Outdated(t)
        /\ req' = [req EXCEPT ![r] = Idling]
        /\ UNCHANGED tok
     \/ /\ ~Outdated(t)
        /\ renew => Len(tok) < MaxTokens
        /\ tok' = IF renew
                  THEN Append(tok, Claims(SessionStartOf(t), version, tok[t].login, bumps))
                  ELSE tok
        /\ req' = [req EXCEPT ![r] = [@ EXCEPT !.step = "act", !.loaded = version,
                     !.fresh = IF renew THEN Len(tok) + 1 ELSE 0,
                     !.good = FALSE, !.unseen = FALSE]]
  /\ UNCHANGED <<now, version, blackUntil, cookie, lastUse, bumps, bumpLost>>

(***************************************************************************)
(* The handlers.  The answer reaches the browser or is lost.               *)
(***************************************************************************)
Answer(r, c) ==
  /\ req' = [req EXCEPT ![r] = Idling]
  /\ \/ UNCHANGED <<cookie, lastUse>>
     \/ /\ cookie' = c
        /\ lastUse' = IF c \in {req[r].token, req[r].fresh} THEN now ELSE lastUse

\* The renewed token, or the one the browser has.
Kept(r) == IF req[r].fresh # 0 THEN req[r].fresh ELSE cookie

Acting(r) == req[r].step = "act" /\ req[r].kind = "session"

\* Any other endpoint.
Use(r) ==
  /\ Acting(r)
  /\ Answer(r, Kept(r))
  /\ UNCHANGED <<now, version, tok, blackUntil, bumps, bumpLost>>

\* Mutant: the entry lives as long as a temporary token's.
BriefBlacklist == now + 1

BlacklistedUntil == now + Idle

\* The token of the request is revoked, not the one it was renewed to; or it is
\* not, when the SET fails: the error is discarded.
Logout(r) ==
  /\ Acting(r)
  /\ \/ blackUntil' = [blackUntil EXCEPT ![req[r].token] = BlacklistedUntil]
     \/ UNCHANGED blackUntil
  /\ Answer(r, 0)
  /\ UNCHANGED <<now, version, tok, bumps, bumpLost>>

\* Mutant: a lockdown leaves the version alone.
PasswordOnly(r, by) == IF by = 1 THEN req[r].loaded + 1 ELSE version

\* From the version that was read, not the one that is there.
NewVersion(r, by) == req[r].loaded + by

\* ChangePassword adds one and TriggerPanicLockdown its step; the error of the
\* update is discarded.
BumpVersion(r, by) ==
  /\ Acting(r)
  /\ bumps < MaxBumps
  /\ \/ /\ version' = NewVersion(r, by)
        /\ bumpLost' = (bumpLost \/ req[r].loaded # version)
        /\ bumps' = bumps + 1
     \/ UNCHANGED <<version, bumpLost, bumps>>
  /\ Answer(r, Kept(r))
  /\ UNCHANGED <<now, tok, blackUntil>>

\* Verify2FAStep2: the user row is read, then the token is issued.
LoginLoad(r) ==
  /\ req[r] = Idling
  /\ Len(tok) < MaxTokens
  /\ req' = [req EXCEPT ![r] = [@ EXCEPT !.kind = "login", !.step = "act",
               !.loaded = version, !.epoch = bumps]]
  /\ UNCHANGED <<now, version, tok, blackUntil, cookie, lastUse, bumps, bumpLost>>

LoginIssue(r) ==
  /\ req[r].step = "act" /\ req[r].kind = "login"
  /\ Len(tok) < MaxTokens
  /\ tok' = Append(tok, Claims(now, req[r].loaded, now, req[r].epoch))
  /\ req' = [req EXCEPT ![r] = Idling]
  /\ \/ cookie' = Len(tok) + 1 /\ lastUse' = now
     \/ UNCHANGED <<cookie, lastUse>>
  /\ UNCHANGED <<now, version, blackUntil, bumps, bumpLost>>

SessionTick ==
  /\ \A r \in Requests : req[r] = Idling
  /\ now < LastTime
  /\ now' = now + 1
  /\ UNCHANGED <<version, tok, blackUntil, req, cookie, lastUse, bumps, bumpLost>>

SessionsNext ==
  \/ \E r \in Requests :
       \/ \E t \in Issued : Arrive(r, t)
       \/ Load(r)
       \/ Use(r)
       \/ Logout(r)
       \/ \E by \in {1, LockdownStep} : BumpVersion(r, by)
       \/ LoginLoad(r)
       \/ LoginIssue(r)
  \/ SessionTick

SessionsSpec == SessionsInit /\ [][SessionsNext]_sessionVars

(***************************************************************************)
(* Properties.                                                             *)
(***************************************************************************)

\* Every variable has its type; no blacklist entry outlasts a session without use.
SessionsTypeOK ==
  /\ now \in 1 .. LastTime
  /\ version \in Nat \ {0}
  /\ tok \in Seq([born : Nat, iat : Nat, exp : Nat, ver : Nat, login : Nat, epoch : Nat])
  /\ Len(tok) <= MaxTokens
  /\ blackUntil \in [Tokens -> 0 .. (LastTime + Idle)]
  /\ req \in [Requests ->
       [kind : {"none", "session", "login"},
        step : {"idle", "load", "act"}, token : {0} \union Tokens, fresh : {0} \union Tokens,
        loaded : Nat, epoch : Nat, good : BOOLEAN, unseen : BOOLEAN]]
  /\ cookie \in {0} \union Issued
  /\ lastUse \in 1 .. LastTime
  /\ bumps \in 0 .. MaxBumps
  /\ bumpLost \in BOOLEAN

\* However often it is renewed, no token outlives the absolute age of the
\* session it goes back to (auth.go:35, 56-57).
AbsoluteCap == \A t \in Issued : tok[t].exp <= tok[t].login + AbsoluteMax

\* A browser that keeps using the panel is not logged out by the idle cap: the
\* token it holds lasts, from its last answer, for the idle time less the hour
\* in which it is not renewed, or to the absolute cap (auth.go:36-38).
ActiveStaysIn == cookie # 0 =>
  tok[cookie].exp >= Earlier(lastUse + Idle - RenewAfter, tok[cookie].login + AbsoluteMax)

\* After a password change or a lockdown that was written and that no other one
\* overwrote, no token is accepted whose version was read before it, in whatever
\* order the tokens are issued and renewed (handlers_auth.go:248, 268, 287).
BumpRevokes == ~bumpLost =>
  \A t \in Issued : Accepted(t) => tok[t].epoch = bumps

\* A token the state refuses stays refused: its blacklist entry does not run out
\* before it does, and no later version makes it valid again unless a bump was
\* overwritten.  A request is let through to its handler only if its token was
\* accepted when it came in or, on the blacklist by then, was not seen there
\* because Redis did not answer (redis.go:226-239, auth.go:244-256).
NoRevival ==
  [][/\ \A t \in Issued : ~Accepted(t) /\ ~bumpLost' => ~Accepted(t)'
     /\ \A r \in Requests :
          req[r].step = "load" /\ req'[r].step = "act" /\ ~bumpLost' =>
            req[r].good \/ req[r].unseen]_sessionVars

===============================================================================
