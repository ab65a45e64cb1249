------------------------------ MODULE LoginGuard ------------------------------
(***************************************************************************)
(* What one client address may try (cache/redis.go, LoginStep1 and         *)
(* Verify2FAStep2): the counters of wrong passwords and wrong codes, the   *)
(* bans they lead to, the temporary token of the second step and the       *)
(* one-time code, each a Redis key of its own.  Every Redis command is a   *)
(* step; requests of the address overlap.                                  *)
(*                                                                         *)
(* Every command may fail: its context is the client's, who may hang up,   *)
(* and Redis may not answer.  It then took effect or it did not, and most  *)
(* callers discard the error; look-ups of a ban or of a consumed token     *)
(* pass an error for no.  The process may die between any two.  What Redis *)
(* holds it keeps, and the commands of one pipeline happen together.       *)
(*                                                                         *)
(* The unit of time is failureWindow, half an hour: a request is over      *)
(* before the clock moves, and a temporary token (5 min) and its keys      *)
(* (10 min) do not outlive the unit it was issued in.                      *)
(***************************************************************************)
EXTENDS Integers, FiniteSets

CONSTANTS
  Tries,           \* requests under way at once
  TempTokens,      \* temporary tokens that are issued in one unit
  Codes,           \* one-time codes that are right
  Immune,          \* the address is never banned (IsImmuneIP)
  BanAfter, LongBanAfter,                  \* 6, 12 wrong passwords
  TokenMaxFails, IpBanAfter,               \* 5 wrong codes per token, 15 per address
  Window, BanFor, CodeBanFor, LongBanFor,  \* 30 min, 30 min, 1 h, 24 h
  LastTick,        \* bound: the clock stops here
  MaxFails         \* bound: what any counter reaches

ASSUME GuardOK ==
  /\ Immune \in BOOLEAN
  /\ {BanAfter, LongBanAfter, TokenMaxFails, IpBanAfter} \subseteq Nat \ {0}
  /\ {Window, BanFor, CodeBanFor, LongBanFor} \subseteq Nat \ {0}
  /\ LastTick \in Nat \ {0} /\ MaxFails \in Nat
  /\ IsFiniteSet(Tries)
  /\ "wrong" \notin Codes
  /\ BanAfter < LongBanAfter
  /\ Window <= BanFor /\ BanFor <= CodeBanFor /\ CodeBanFor <= LongBanFor

VARIABLES
  tick,
  fails, failsUntil,      \* auth:fail:<ip> and when it expires
  ipFails, ipFailsUntil,  \* totp:failip:<ip>
  banUntil,               \* blacklist:ip:<ip>
  issued,                 \* temporary tokens that are valid
  tempFails,              \* totp:fail:<jti>
  consumed,               \* jwt:blacklist:<jti>
  used,                   \* totp:used:<code>
  try,                    \* what each request is doing
  codeWins,               \* sessions that came of each code
  passedOver,             \* worn-out tokens that a request left as they were
  banRace,                \* see WriteBan
  open,                   \* bans that were due, and not written, of a counter still up
  slips                   \* a ban was ever not written, or not seen

counterVars == <<fails, failsUntil, ipFails, ipFailsUntil>>
winVars == <<codeWins, passedOver>>
tempVars == <<issued, tempFails, consumed, used, winVars>>
missVars == <<open, slips>>
guardVars == <<tick, counterVars, banUntil, tempVars, try, banRace, missVars>>

None == [step |-> "idle", count |-> 0, token |-> "none", code |-> "none"]

GuardInit ==
  /\ tick = 1
  /\ fails = 0 /\ failsUntil = 0
  /\ ipFails = 0 /\ ipFailsUntil = 0
  /\ banUntil = 0
  /\ issued = {}
  /\ tempFails = [t \in TempTokens |-> 0]
  /\ consumed = {}
  /\ used = {}
  /\ try = [r \in Tries |-> None]
  /\ codeWins = [c \in Codes |-> 0]
  /\ passedOver = {}
  /\ banRace = FALSE
  /\ open = {} /\ slips = FALSE

Banned == ~Immune /\ tick < banUntil
Step(r, s) == try' = [try EXCEPT ![r] = [@ EXCEPT !.step = s]]
Done(r) == try' = [try EXCEPT ![r] = None]
Live(count, until) == IF tick < until THEN count ELSE 0

\* Mutant: the key has no expiry.
NeverExpires(count, until) == count + 1

\* INCR: a key that has expired starts from 0.
Incremented(count, until) == Live(count, until) + 1

\* BlacklistIP: a plain SET, whatever the key holds.  It is a race when another
\* ban is about to be written, or when wrong codes write over an active ban.
WriteBan(length) ==
  /\ banUntil' = IF Immune THEN banUntil ELSE tick + length
  /\ banRace' = \/ banRace
                \/ Cardinality({r \in Tries : try[r].step \in {"ban", "codeban"}}) > 1
                \/ Banned /\ length = CodeBanFor

\* IsIPBlacklisted: without an answer from Redis, a banned address is let in.
LetIn == slips' = (slips \/ Banned)

\* The counter of a kind stands at n: if it has just started, no ban of that kind
\* is open; if over its limit, and the request that counted writes none, one is.
Reopens(kind, n, limit, writes) ==
  LET due == n >= limit /\ ~writes
  IN /\ open' = (IF n = 1 THEN open \ {kind} ELSE open) \union (IF due THEN {kind} ELSE {})
     /\ slips' = (slips \/ due)

\* The SET of the ban fails; its error is discarded.
MissBan(kind) ==
  /\ open' = open \union {kind}
  /\ slips' = TRUE
  /\ UNCHANGED <<banUntil, banRace>>

(***************************************************************************)
(* The first step: the password.                                           *)
(***************************************************************************)
WrongPassword(r) ==
  /\ try[r] = None
  /\ LetIn
  /\ Step(r, "count")
  /\ UNCHANGED <<tick, counterVars, banUntil, tempVars, banRace, open>>

\* RecordLoginFailure: INCR and EXPIRE in one pipeline.  Its answer may be lost.
CountPassword(r) ==
  /\ try[r].step = "count"
  /\ Live(fails, failsUntil) < MaxFails
  /\ fails' = Incremented(fails, failsUntil)
  /\ failsUntil' = tick + Window
  /\ \E answered \in BOOLEAN :
       /\ IF answered /\ fails' >= BanAfter
          THEN try' = [try EXCEPT ![r] = [@ EXCEPT !.step = "ban", !.count = fails']]
          ELSE Done(r)
       /\ Reopens("ban", fails', BanAfter, answered)
  /\ UNCHANGED <<tick, ipFails, ipFailsUntil, banUntil, tempVars, banRace>>

\* Either pipeline fails: nothing is counted, and the handler answers "wrong".
CountNothing(r) ==
  /\ try[r].step \in {"count", "wrong"}
  /\ Done(r)
  /\ UNCHANGED <<tick, counterVars, banUntil, tempVars, banRace, missVars>>

\* Mutant: the cases are tried in the other order.
ShortBanFirst(count) == IF count >= BanAfter THEN BanFor ELSE LongBanFor

BanLength(count) == IF count >= LongBanAfter THEN LongBanFor ELSE BanFor

BanIp(r) ==
  /\ try[r].step = "ban"
  /\ \/ /\ WriteBan(BanLength(try[r].count))
        /\ open' = IF try[r].count >= fails THEN open \ {"ban"} ELSE open
        /\ UNCHANGED slips
     \/ MissBan("ban")
  /\ Done(r)
  /\ UNCHANGED <<tick, counterVars, tempVars>>

RightPassword(t) ==
  /\ LetIn
  /\ t \notin issued
  /\ issued' = issued \union {t}
  /\ UNCHANGED <<tick, counterVars, banUntil, tempFails, consumed, used, try, winVars,
                 banRace, open>>

(***************************************************************************)
(* The second step: the code.                                              *)
(***************************************************************************)

\* The token is valid; "wrong" is any other code.  A consumed token is turned
\* away here, unless Redis does not answer.
SendCode(r, t, c) ==
  /\ try[r] = None
  /\ LetIn
  /\ t \in issued
  /\ \E answered \in BOOLEAN : ~(answered /\ t \in consumed)
  /\ try' = [try EXCEPT ![r] = [step |-> IF c = "wrong" THEN "wrong" ELSE "right",
                                count |-> 0, token |-> t, code |-> c]]
  /\ UNCHANGED <<tick, counterVars, banUntil, tempVars, banRace, open>>

\* Mutant: one wrong code too many.
WornOutLate(n) == n > TokenMaxFails

WornOut(n) == n >= TokenMaxFails

\* A token that is worn out and not consumed.
PassOver(t, fs) == passedOver' = IF WornOut(fs[t]) THEN passedOver \union {t} ELSE passedOver

\* RecordTOTPFailure: both counters in one pipeline, then the ban.  Without the
\* answer the handler says "wrong" and does nothing about either.
CountCode(r) == LET t == try[r].token IN
  /\ try[r].step = "wrong"
  /\ Live(ipFails, ipFailsUntil) < MaxFails /\ tempFails[t] < MaxFails
  /\ tempFails' = [tempFails EXCEPT ![t] = @ + 1]
  /\ ipFails' = Incremented(ipFails, ipFailsUntil)
  /\ ipFailsUntil' = tick + Window
  /\ \E answered \in BOOLEAN :
       /\ CASE answered /\ ipFails' >= IpBanAfter -> Step(r, "codeban")
            [] answered /\ ipFails' < IpBanAfter /\ WornOut(tempFails'[t]) -> Step(r, "consume")
            [] OTHER -> Done(r)
       /\ Reopens("codeban", ipFails', IpBanAfter, answered)
       /\ IF answered THEN UNCHANGED passedOver ELSE PassOver(t, tempFails')
  /\ UNCHANGED <<tick, fails, failsUntil, banUntil, issued, consumed, used, codeWins, banRace>>

\* The handler returns here, before it would consume the token, and whether or
\* not the ban was written.
CodeBan(r) ==
  /\ try[r].step = "codeban"
  /\ \/ /\ WriteBan(CodeBanFor)
        /\ open' = open \ {"codeban"}
        /\ UNCHANGED slips
     \/ MissBan("codeban")
  /\ PassOver(try[r].token, tempFails)
  /\ Done(r)
  /\ UNCHANGED <<tick, counterVars, issued, tempFails, consumed, used, codeWins>>

\* Mutant: taken for unused when Redis does not answer.
CodeUnusedOrError(c) == TRUE

CodeUnused(c) == c \notin used

\* CheckAndSetTOTPUsed (SETNX): an error counts as used, whatever was written.
SpendCode(r) ==
  /\ try[r].step = "right"
  /\ \/ /\ CodeUnused(try[r].code)
        /\ used' = used \union {try[r].code}
        /\ Step(r, "consume")
     \/ /\ used' \in {used, used \union {try[r].code}}
        /\ Done(r)
  /\ UNCHANGED <<tick, counterVars, banUntil, issued, tempFails, consumed, winVars, banRace,
                 missVars>>

Consumed(r) == consumed \union {try[r].token}

\* BlacklistJTI, its error discarded; a right code then gets its session.
Consume(r) ==
  /\ try[r].step = "consume"
  /\ \/ consumed' = Consumed(r) /\ UNCHANGED passedOver
     \/ PassOver(try[r].token, tempFails) /\ UNCHANGED consumed
  /\ IF try[r].code = "wrong"
     THEN Done(r) /\ UNCHANGED codeWins
     ELSE /\ Step(r, "reset")
          /\ codeWins' = [codeWins EXCEPT ![try[r].code] = @ + 1]
  /\ UNCHANGED <<tick, counterVars, banUntil, issued, tempFails, used, banRace, missVars>>

\* ResetLoginFailures.
ResetFailures(r) ==
  /\ try[r].step = "reset"
  /\ \/ fails' = 0 /\ ipFails' = 0 /\ open' = {}
     \/ UNCHANGED <<fails, ipFails, open>>
  /\ Done(r)
  /\ UNCHANGED <<tick, failsUntil, ipFailsUntil, banUntil, tempVars, banRace, slips>>

(***************************************************************************)
(* The administrator, from another address, the clock and the process.     *)
(***************************************************************************)

\* Mutant: the key of the ban is left.
UnbanCountersOnly == fails' = fails /\ ipFails' = ipFails /\ banUntil' = 0

UnbanDeletes == fails' = 0 /\ ipFails' = 0 /\ banUntil' = 0

\* One DEL of all three keys.
UnbanIp ==
  /\ Banned
  /\ UnbanDeletes
  /\ open' = {}
  /\ UNCHANGED <<tick, failsUntil, ipFailsUntil, tempVars, try, banRace, slips>>

GuardTick ==
  /\ \A r \in Tries : try[r] = None
  /\ tick < LastTick
  /\ tick' = tick + 1
  /\ issued' = {} /\ consumed' = {} /\ passedOver' = {}
  /\ tempFails' = [t \in TempTokens |-> 0]
  /\ UNCHANGED <<counterVars, banUntil, used, codeWins, try, banRace, missVars>>

Bans == {"ban", "codeban"}

\* The process dies; what the requests still had to write stays unwritten.
GuardCrash == LET lost == {r \in Tries : try[r].step \in Bans} IN
  /\ \E r \in Tries : try[r] # None
  /\ try' = [r \in Tries |-> None]
  /\ open' = open \union {try[r].step : r \in lost}
  /\ slips' = (slips \/ lost # {})
  /\ passedOver' = passedOver \union
       {t \in TempTokens : /\ WornOut(tempFails[t])
                           /\ \E r \in Tries : try[r].token = t /\ try[r].step \in {"consume", "codeban"}}
  /\ UNCHANGED <<tick, counterVars, banUntil, issued, tempFails, consumed, used, codeWins, banRace>>

GuardNext ==
  \/ \E r \in Tries :
       \/ WrongPassword(r)
       \/ CountPassword(r)
       \/ CountNothing(r)
       \/ BanIp(r)
       \/ \E t \in TempTokens, c \in Codes \union {"wrong"} : SendCode(r, t, c)
       \/ CountCode(r)
       \/ CodeBan(r)
       \/ SpendCode(r)
       \/ Consume(r)
       \/ ResetFailures(r)
  \/ \E t \in TempTokens : RightPassword(t)
  \/ UnbanIp
  \/ GuardTick
  \/ GuardCrash

GuardSpec == GuardInit /\ [][GuardNext]_guardVars

(***************************************************************************)
(* Properties.                                                             *)
(***************************************************************************)

\* Every variable has its type.  As long as every ban was written and seen,
\* requests that were let in together take a counter past its limit by no more
\* than their number.
GuardTypeOK ==
  /\ tick \in 1 .. LastTick
  /\ {fails, ipFails} \subseteq 0 .. MaxFails
  /\ ~Immune /\ ~slips => /\ fails < BanAfter + Cardinality(Tries)
                          /\ ipFails < IpBanAfter + Cardinality(Tries)
  /\ {failsUntil, ipFailsUntil, banUntil} \subseteq Nat
  /\ issued \subseteq TempTokens
  /\ tempFails \in [TempTokens -> Nat]
  /\ consumed \subseteq TempTokens
  /\ used \subseteq Codes
  /\ try \in [Tries ->
       [step : {"idle", "count", "ban", "wrong", "right", "codeban", "consume", "reset"},
        count : 0 .. MaxFails, token : TempTokens \union {"none"},
        code : Codes \union {"wrong", "none"}]]
  /\ codeWins \in [Codes -> Nat]
  /\ passedOver \subseteq TempTokens
  /\ banRace \in BOOLEAN
  /\ open \subseteq Bans
  /\ slips \in BOOLEAN

Writing(s) == \E r \in Tries : try[r].step = s

\* An address whose counters are over a limit is banned, or the request that
\* counted is about to ban it, or it failed to: no ban runs out, and no unban or
\* reset takes effect, with the counter left over the limit.  The next failure
\* makes up for a ban that was missed (redis.go:154-215).
OverLimitBanned == ~Immune =>
  /\ Live(fails, failsUntil) >= BanAfter /\ ~Writing("ban") => Banned \/ "ban" \in open
  /\ Live(ipFails, ipFailsUntil) >= IpBanAfter /\ ~Writing("codeban") =>
       Banned \/ "codeban" \in open

\* The long ban is not cut short by a request that was let in before it, save
\* one that writes its own ban at the same time or for wrong codes; unless the
\* last ban that was due could not be written (redis.go:172-178).
LongBanStands == ~Immune /\ ~banRace /\ ~Writing("ban") /\ "ban" \notin open =>
  (Live(fails, failsUntil) >= LongBanAfter => banUntil >= failsUntil - Window + LongBanFor)

\* One code opens one session, however requests overlap and whatever Redis does
\* not answer (redis.go:215-223).
CodeOnce == \A c \in Codes : codeWins[c] <= 1

WornOutAndIdle(t) ==
  tempFails[t] >= TokenMaxFails /\ \A r \in Tries : try[r].token # t

\* A token with too many wrong codes is consumed, unless the last of them was
\* answered with a ban of the address or the request did not get to write it
\* (handlers_auth.go:184-194).
WornOutTokenEnds == \A t \in TempTokens :
  WornOutAndIdle(t) => t \in consumed \union passedOver

===============================================================================
