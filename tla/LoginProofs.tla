----------------------------- MODULE LoginProofs ------------------------------
(***************************************************************************)
(* What is proved of the sessions, of what one address may try, and of the *)
(* two together.                                                           *)
(***************************************************************************)
EXTENDS MCSessions, FiniteSetTheorems, SequenceTheorems, TLAPS

(***************************************************************************)
(* What is proved of Sessions, for any number of requests and tokens and   *)
(* any lengths of time: the absolute cap, that an active browser stays in, *)
(* that a password change or a lockdown revokes, and that a token once     *)
(* refused stays refused.                                                  *)
(***************************************************************************)

Token == [born : Nat, iat : Nat, exp : Nat, ver : Nat, login : Nat, epoch : Nat]
Kinds == {"none", "session", "login"}
Request == [kind : Kinds, step : {"idle", "load", "act"}, token : {0} \union Tokens,
            fresh : {0} \union Tokens, loaded : Nat, epoch : Nat,
            good : BOOLEAN, unseen : BOOLEAN]

\* The type invariant with its record sets named: the provers carry the names.
Typed ==
  /\ now \in 1 .. LastTime /\ version \in Nat \ {0}
  /\ tok \in Seq(Token) /\ Len(tok) <= MaxTokens
  /\ blackUntil \in [Tokens -> 0 .. (LastTime + Idle)] /\ req \in [Requests -> Request]
  /\ cookie \in {0} \union Issued /\ lastUse \in 1 .. LastTime
  /\ bumps \in 0 .. MaxBumps /\ bumpLost \in BOOLEAN

LEMMA TypedSame == SessionsTypeOK <=> Typed
  BY DEF SessionsTypeOK, Typed, Token, Kinds, Request

\* What is known of a token: when it was issued, how long it lasts, and, while
\* no bump was overwritten, that only a version read after the last bump is the
\* present one.
TokenGood(t) ==
  /\ tok[t].iat <= now
  /\ tok[t].born = tok[t].login
  /\ tok[t].exp = Earlier(tok[t].iat + Idle, tok[t].born + AbsoluteMax)
  /\ ~bumpLost => tok[t].ver <= version /\ (tok[t].ver = version => tok[t].epoch = bumps)

TokenFacts == \A t \in Issued : TokenGood(t)

\* A blacklist entry lasts at least as long as its token.
BlackFacts == \A t \in Tokens :
  blackUntil[t] # 0 => t \in Issued /\ tok[t].exp <= blackUntil[t]

\* A request under way was let in with a token that has not expired since, and
\* carries a fresh token or one that did not need renewal.  If that token was
\* neither accepted nor unseen on the blacklist, its version is out of date.
Sound(q) ==
  /\ q.step = "idle" => q = Idling
  /\ q.step = "load" => q.kind # "login"
  /\ q.step # "idle" /\ q.kind # "login" => q.token \in Issued /\ now < tok[q.token].exp
  /\ q.step = "act" /\ q.kind # "login" =>
       \/ q.fresh # 0 /\ q.fresh \in Issued /\ tok[q.fresh].iat = now
       \/ q.fresh = 0 /\ now - tok[q.token].iat < RenewAfter
  /\ q.step = "act" /\ q.kind = "login" /\ ~bumpLost =>
       q.loaded <= version /\ (q.loaded = version => q.epoch = bumps)
  /\ q.step = "load" /\ ~q.good /\ ~q.unseen /\ ~bumpLost => tok[q.token].ver < version

RequestFacts == \A r \in Requests : Sound(req[r])

\* The inductive invariant; ActiveStaysIn needs no strengthening of its own.
SessionsInv == Typed /\ TokenFacts /\ BlackFacts /\ RequestFacts /\ ActiveStaysIn

(***************************************************************************)
(* Types.                                                                  *)
(***************************************************************************)
\* What a token says.
ClaimsAre(c, born, ver, login, epoch) ==
  /\ c \in Token /\ c.born = born /\ c.iat = now
  /\ c.exp = Earlier(now + Idle, born + AbsoluteMax)
  /\ c.ver = ver /\ c.login = login /\ c.epoch = epoch

LEMMA ClaimsIsToken ==
  ASSUME Typed, NEW b \in Nat, NEW v \in Nat, NEW l \in Nat, NEW e \in Nat
  PROVE  ClaimsAre(Claims(b, v, l, e), b, v, l, e)
<1>1. PICK c : c = Claims(b, v, l, e) OBVIOUS
<1>2. ClaimsAre(c, b, v, l, e)
  BY <1>1, TimesOK DEF TimesOK, Typed, Claims, ClaimsAre, Earlier, Token
<1> QED BY <1>1, <1>2, Zenon

LEMMA TokenType ==
  ASSUME Typed, NEW t \in Issued
  PROVE  /\ t \in Tokens /\ t # 0 /\ tok[t] \in Token
         /\ tok[t].born \in Nat /\ tok[t].iat \in Nat /\ tok[t].exp \in Nat
         /\ tok[t].ver \in Nat /\ tok[t].login \in Nat /\ tok[t].epoch \in Nat
<1>1. tok \in Seq(Token) /\ Len(tok) <= MaxTokens BY DEF Typed
<1>2. Issued = 1 .. Len(tok) BY <1>1 DEF Issued
<1>3. t \in Tokens /\ t # 0 /\ tok[t] \in Token
  BY <1>1, <1>2, ElementOfSeq, TimesOK DEF Tokens, TimesOK
<1> QED BY <1>3 DEF Token

LEMMA RequestType ==
  ASSUME Typed, NEW r \in Requests
  PROVE  /\ req[r] \in Request /\ req[r].kind \in Kinds /\ req[r].step \in {"idle", "load", "act"}
         /\ req[r].token \in {0} \union Tokens /\ req[r].fresh \in {0} \union Tokens
         /\ req[r].loaded \in Nat /\ req[r].epoch \in Nat
         /\ req[r].good \in BOOLEAN /\ req[r].unseen \in BOOLEAN
<1>1. req[r] \in Request BY DEF Typed
<1> QED BY <1>1 DEF Request

LEMMA IdlingType ==
  /\ Idling \in Request /\ Idling.step = "idle" /\ Idling.kind = "none" /\ Idling.token = 0
  /\ Idling.fresh = 0
  BY DEF Idling, Request, Kinds

LEMMA IdlingSound == Sound(Idling) /\ Sound(Idling)'
  BY IdlingType DEF Sound

\* Changing the request of r alone.
LEMMA OneRequest ==
  ASSUME Typed, NEW r \in Requests, NEW q \in Request, req' = [req EXCEPT ![r] = q]
  PROVE  req' \in [Requests -> Request] /\ \A s \in Requests : req'[s] = IF s = r THEN q ELSE req[s]
  BY DEF Typed

\* Issuing a token leaves the others as they are.
LEMMA IssueAppends ==
  ASSUME Typed, NEW e \in Token, tok' = Append(tok, e), Len(tok) < MaxTokens
  PROVE  /\ tok' \in Seq(Token) /\ Len(tok) \in Nat /\ Len(tok') = Len(tok) + 1 /\ Len(tok') <= MaxTokens
         /\ Issued' = Issued \union {Len(tok) + 1} /\ Len(tok) + 1 \notin Issued
         /\ Len(tok) + 1 \in Tokens
         /\ \A t \in Issued : tok'[t] = tok[t]
         /\ tok'[Len(tok) + 1] = e
<1>1. tok \in Seq(Token) BY DEF Typed
<1>2. Len(tok) \in Nat /\ Issued = 1 .. Len(tok) BY <1>1 DEF Issued
<1>3. Issued' = 1 .. Len(tok') BY <1>1, AppendProperties DEF Issued
<1> QED BY <1>1, <1>2, <1>3, AppendProperties, TimesOK DEF TimesOK, Tokens

(***************************************************************************)
(* What a step keeps.                                                      *)
(***************************************************************************)

\* A step leaves the issued tokens alone, and a bump that overwrote none
\* raises the version.
Orderly ==
  /\ Issued \subseteq Issued' /\ \A t \in Issued : tok'[t] = tok[t]
  /\ ~bumpLost' => /\ ~bumpLost
                   /\ version' \in Nat
                   /\ version' > version \/ (version' = version /\ bumps' = bumps)

LEMMA SameOrderly ==
  ASSUME Typed, UNCHANGED <<version, bumps, bumpLost>>, tok' = tok
  PROVE  Orderly /\ Issued' = Issued
  BY DEF Typed, Orderly, Issued

LEMMA TokensKept ==
  ASSUME Typed, TokenFacts, Orderly, now' \in Nat, now <= now', NEW t \in Issued
  PROVE  TokenGood(t)'
<1>1. tok'[t] = tok[t] /\ TokenGood(t) BY DEF Orderly, TokenFacts
<1>2. now \in Nat /\ version \in Nat BY DEF Typed
<1> QED BY <1>1, <1>2, TokenType DEF TokenGood, Orderly

LEMMA RequestKept ==
  ASSUME Typed, Orderly, now' = now, NEW q \in Request, Sound(q)
  PROVE  Sound(q)'
<1>1. q.loaded \in Nat /\ version \in Nat BY DEF Typed, Request
<1>2. q.step # "idle" /\ q.kind # "login" => tok[q.token].ver \in Nat BY TokenType DEF Sound
<1>3. q.step = "load" => q.kind # "login" /\ tok'[q.token] = tok[q.token]
  BY DEF Sound, Orderly
<1> QED BY <1>1, <1>2, <1>3 DEF Orderly, Sound

LEMMA BlackKept ==
  ASSUME Typed, BlackFacts, Orderly, blackUntil' = blackUntil
  PROVE  BlackFacts'
  BY DEF BlackFacts, Orderly

LEMMA CookieKept ==
  ASSUME Typed, ActiveStaysIn, Orderly, UNCHANGED <<cookie, lastUse>>
  PROVE  ActiveStaysIn' /\ cookie' \in {0} \union Issued' /\ lastUse' \in 1 .. LastTime
<1>1. cookie \in {0} \union Issued /\ lastUse \in 1 .. LastTime BY DEF Typed
<1>2. Issued \subseteq Issued' /\ (cookie \in Issued => tok'[cookie] = tok[cookie])
  BY DEF Orderly
<1>3. ActiveStaysIn'
  <2> SUFFICES ASSUME cookie' # 0
               PROVE  tok'[cookie'].exp >= Earlier(lastUse' + Idle - RenewAfter, tok'[cookie'].login + AbsoluteMax)
    BY DEF ActiveStaysIn
  <2>1. cookie \in Issued /\ cookie' = cookie /\ tok'[cookie] = tok[cookie] BY <1>1, <1>2
  <2> QED BY <2>1 DEF ActiveStaysIn
<1> QED BY <1>1, <1>2, <1>3

\* The answer of request r sets a cookie that lasts.
LEMMA AnswerKeeps ==
  ASSUME Typed, TokenFacts, RequestFacts, ActiveStaysIn, NEW r \in Requests,
         req[r].step = "act", req[r].kind # "login",
         NEW c, c = 0 \/ c = Kept(r), Answer(r, c), tok' = tok
  PROVE  /\ ActiveStaysIn' /\ cookie' \in {0} \union Issued /\ lastUse' \in 1 .. LastTime
         /\ req' = [req EXCEPT ![r] = Idling]
<1> DEFINE q == req[r]
<1>0. q \in Request /\ Sound(q) /\ now \in 1 .. LastTime /\ now \in Nat /\ q.token \in Issued
  BY RequestType DEF RequestFacts, Sound, Typed
<1>1. req' = [req EXCEPT ![r] = Idling] BY DEF Answer
<1>2. Issued' = Issued BY DEF Issued
<1>3. cookie \in {0} \union Issued /\ lastUse \in 1 .. LastTime BY DEF Typed
<1>4. CASE UNCHANGED <<cookie, lastUse>>
  <2>1. ActiveStaysIn' BY <1>4, <1>2 DEF ActiveStaysIn
  <2> QED BY <2>1, <1>1, <1>3, <1>4
<1>5. CASE /\ cookie' = c
           /\ lastUse' = IF c \in {q.token, q.fresh} THEN now ELSE lastUse
  <2>1. lastUse' \in 1 .. LastTime BY <1>0, <1>3, <1>5
  <2>2. CASE c = 0
    BY <1>1, <1>5, <2>1, <2>2 DEF ActiveStaysIn
  <2>3. CASE c # 0 /\ q.fresh # 0
    <3>1. c = q.fresh /\ lastUse' = now BY <1>5, <2>3 DEF Kept
    <3>2. c \in Issued /\ tok[c].iat = now BY <3>1, <1>0, <2>3 DEF Sound
    <3>3. TokenGood(c) BY <3>2 DEF TokenFacts
    <3>4. tok[c].exp \in Nat /\ tok[c].login \in Nat BY <3>2, TokenType
    <3>5. tok[c].exp >= Earlier(now + Idle - RenewAfter, tok[c].login + AbsoluteMax)
      BY <1>0, <3>2, <3>3, <3>4, TimesOK DEF TokenGood, Earlier, TimesOK
    <3>6. ActiveStaysIn' BY <1>5, <3>1, <3>5 DEF ActiveStaysIn
    <3> QED BY <1>1, <1>5, <2>1, <3>2, <3>6
  <2>4. CASE c # 0 /\ q.fresh = 0 /\ c = q.token
    <3>1. lastUse' = now /\ c \in Issued BY <1>0, <1>5, <2>4
    <3>2. now - tok[c].iat < RenewAfter BY <1>0, <2>4 DEF Sound
    <3>3. TokenGood(c) BY <3>1 DEF TokenFacts
    <3>4. tok[c].exp \in Nat /\ tok[c].login \in Nat /\ tok[c].iat \in Nat BY <3>1, TokenType
    <3>5. tok[c].exp >= Earlier(now + Idle - RenewAfter, tok[c].login + AbsoluteMax)
      BY <1>0, <3>2, <3>3, <3>4, TimesOK DEF TokenGood, Earlier, TimesOK
    <3>6. ActiveStaysIn' BY <1>5, <3>1, <3>5 DEF ActiveStaysIn
    <3> QED BY <1>1, <1>5, <2>1, <3>1, <3>6
  <2>5. CASE c # 0 /\ q.fresh = 0 /\ c # q.token
    <3>1. c = cookie BY <2>5 DEF Kept
    <3>2. UNCHANGED <<cookie, lastUse>> BY <1>5, <2>5, <3>1
    <3> QED BY <1>4, <3>2
  <2> QED BY <2>2, <2>3, <2>4, <2>5
<1> QED BY <1>4, <1>5 DEF Answer

LEMMA SessionsInitInv == SessionsInit => SessionsInv
<1> SUFFICES ASSUME SessionsInit PROVE SessionsInv
  OBVIOUS
<1>1. Issued = {} BY DEF SessionsInit, Issued
<1>2. tok \in Seq(Token) /\ Len(tok) <= MaxTokens BY TimesOK DEF SessionsInit, TimesOK
<1>3. now \in 1 .. LastTime /\ lastUse \in 1 .. LastTime BY TimesOK DEF SessionsInit, TimesOK
<1>4. bumps \in 0 .. MaxBumps /\ version \in Nat \ {0} BY TimesOK DEF SessionsInit, TimesOK
<1>5. req \in [Requests -> Request] BY IdlingType DEF SessionsInit
<1>10. blackUntil \in [Tokens -> 0 .. (LastTime + Idle)] BY TimesOK DEF SessionsInit, TimesOK
<1>6. Typed BY <1>1, <1>2, <1>3, <1>4, <1>5, <1>10 DEF SessionsInit, Typed
<1>7. TokenFacts /\ BlackFacts BY <1>1 DEF TokenFacts, BlackFacts, SessionsInit
<1>8. RequestFacts BY IdlingSound DEF RequestFacts, SessionsInit
<1>9. ActiveStaysIn BY DEF ActiveStaysIn, SessionsInit
<1> QED BY <1>6, <1>7, <1>8, <1>9 DEF SessionsInv

\* A step that changes the request of r alone, to q.
LEMMA OnlyRequest ==
  ASSUME SessionsInv, NEW r \in Requests, NEW q \in Request, Sound(q),
         req' = [req EXCEPT ![r] = q],
         UNCHANGED <<now, version, tok, blackUntil, cookie, lastUse, bumps, bumpLost>>
  PROVE  SessionsInv'
<1>1. Orderly /\ Issued' = Issued BY SameOrderly DEF SessionsInv
<1>2. now \in Nat BY DEF SessionsInv, Typed
<1>3. Typed' BY <1>1, OneRequest DEF Typed, SessionsInv
<1>4. TokenFacts' BY <1>1, <1>2, TokensKept DEF SessionsInv, TokenFacts
<1>5. BlackFacts' BY <1>1, BlackKept DEF SessionsInv
<1>6. RequestFacts'
  <2> SUFFICES ASSUME NEW s \in Requests PROVE Sound(req[s])'
    BY DEF RequestFacts
  <2>1. req[s] \in Request /\ Sound(req[s]) BY RequestType DEF SessionsInv, RequestFacts
  <2>2. req'[s] = q \/ req'[s] = req[s] BY OneRequest DEF SessionsInv
  <2>3. Sound(q)' BY <1>1, RequestKept DEF SessionsInv
  <2>4. \A p \in Request : Sound(p) => Sound(p)' BY <1>1, RequestKept DEF SessionsInv
  <2> QED BY <2>1, <2>2, <2>3, <2>4 DEF Sound
<1>7. ActiveStaysIn' BY <1>1, CookieKept DEF SessionsInv
<1> QED BY <1>3, <1>4, <1>5, <1>6, <1>7 DEF SessionsInv

\* A step that issues a token e, which is fresh, good and outlived by no blacklist entry.
LEMMA Issues ==
  ASSUME SessionsInv, NEW e \in Token, Len(tok) < MaxTokens, tok' = Append(tok, e),
         UNCHANGED <<now, version, blackUntil, bumps, bumpLost>>,
         e.iat = now, e.born = e.login, e.exp = Earlier(now + Idle, e.born + AbsoluteMax),
         ~bumpLost => e.ver <= version /\ (e.ver = version => e.epoch = bumps)
  PROVE  /\ Orderly /\ TokenFacts' /\ BlackFacts'
         /\ tok' \in Seq(Token) /\ Len(tok') <= MaxTokens /\ Len(tok) + 1 # 0
         /\ Len(tok) + 1 \in Tokens /\ Len(tok) + 1 \in Issued' /\ tok'[Len(tok) + 1] = e
<1>0. PICK n \in Nat : n = Len(tok) + 1 BY DEF SessionsInv, Typed
<1>1. /\ tok' \in Seq(Token) /\ Len(tok) \in Nat /\ Len(tok') <= MaxTokens
      /\ Issued' = Issued \union {n} /\ n \in Tokens
      /\ \A t \in Issued : tok'[t] = tok[t]
      /\ tok'[n] = e
  BY <1>0, IssueAppends DEF SessionsInv
<1>2. Orderly BY <1>1 DEF Orderly, SessionsInv, Typed
<1>3. now \in Nat BY DEF SessionsInv, Typed
<1>4. TokenGood(n)' BY <1>1, <1>3 DEF TokenGood
<1>5. \A t \in Issued : TokenGood(t)' BY <1>2, <1>3, TokensKept DEF SessionsInv
<1>6. TokenFacts' 
  <2> SUFFICES ASSUME NEW t \in Issued' PROVE TokenGood(t)'
    BY DEF TokenFacts
  <2> QED BY <1>1, <1>4, <1>5
<1>7. BlackFacts' BY <1>2, BlackKept DEF SessionsInv
<1> QED BY <1>0, <1>1, <1>2, <1>6, <1>7

\* The request that changes is sound, the others stay so.
LEMMA RequestsKept ==
  ASSUME SessionsInv, Orderly, now' = now, NEW r \in Requests, NEW q \in Request, Sound(q)',
         req' = [req EXCEPT ![r] = q]
  PROVE  RequestFacts' /\ req' \in [Requests -> Request]
<1>1. ASSUME NEW s \in Requests PROVE Sound(req[s])'
  <2>1. req[s] \in Request /\ Sound(req[s]) BY RequestType DEF SessionsInv, RequestFacts
  <2>2. req'[s] = q \/ req'[s] = req[s] BY OneRequest DEF SessionsInv
  <2>3. \A p \in Request : Sound(p) => Sound(p)' BY RequestKept DEF SessionsInv
  <2> QED BY <2>1, <2>2, <2>3 DEF Sound
<1>2. req' \in [Requests -> Request] BY OneRequest DEF SessionsInv
<1> QED BY <1>1, <1>2 DEF RequestFacts

LEMMA LoadInv == ASSUME SessionsInv, NEW r \in Requests, Load(r) PROVE SessionsInv'
<1> DEFINE t == req[r].token
<1>0. /\ req[r] \in Request /\ Sound(req[r]) /\ req[r].step = "load" /\ req[r].kind # "login"
      /\ req[r].kind \in Kinds /\ t \in {0} \union Tokens /\ req[r].epoch \in Nat
      /\ t \in Issued /\ now < tok[t].exp /\ TokenGood(t)
      /\ version \in Nat /\ bumps \in Nat /\ now \in Nat
  BY RequestType DEF Load, SessionsInv, RequestFacts, Sound, TokenFacts, Typed
<1>1. /\ tok[t].born \in Nat /\ tok[t].iat \in Nat /\ tok[t].login \in Nat /\ tok[t].exp \in Nat
  BY <1>0, TokenType DEF SessionsInv
<1>2. CASE tok' = tok /\ req' = [req EXCEPT ![r] = Idling]
  BY <1>2, OnlyRequest, IdlingType, IdlingSound DEF Load
<1> DEFINE q(n) == [req[r] EXCEPT !.step = "act", !.loaded = version, !.fresh = n,
                      !.good = FALSE, !.unseen = FALSE]
<1>3. \A n \in {0} \union Tokens :
        /\ q(n) \in Request /\ q(n).step = "act" /\ q(n).kind # "login" /\ q(n).kind = req[r].kind
        /\ q(n).token = t /\ q(n).fresh = n
  BY <1>0 DEF Request
<1>4. CASE /\ tok' = tok
           /\ ~(RenewDue(t) /\ MayIssue(SessionStartOf(t)))
           /\ req' = [req EXCEPT ![r] = q(0)]
  <2>1. now - tok[t].iat < RenewAfter
    BY <1>0, <1>1, <1>4, TimesOK DEF TokenGood, RenewDue, MayIssue, SessionStartOf, TimesOK, Earlier
  <2>2. Sound(q(0)) BY <1>0, <1>3, <2>1 DEF Sound
  <2> QED BY <1>3, <1>4, <2>2, OnlyRequest DEF Load
<1>5. CASE /\ tok[t].ver = version /\ Len(tok) < MaxTokens
           /\ tok' = Append(tok, Claims(SessionStartOf(t), version, tok[t].login, bumps))
           /\ req' = [req EXCEPT ![r] = q(Len(tok) + 1)]
  <2> DEFINE e == Claims(tok[t].born, version, tok[t].login, bumps)
  <2>0. PICK n \in Nat : n = Len(tok) + 1 BY DEF SessionsInv, Typed
  <2>1. /\ e \in Token /\ e.born = tok[t].born /\ e.iat = now
        /\ e.exp = Earlier(now + Idle, tok[t].born + AbsoluteMax)
        /\ e.ver = version /\ e.login = tok[t].login /\ e.epoch = bumps
    <3>1. Typed BY DEF SessionsInv
    <3>2. tok[t].born \in Nat /\ version \in Nat /\ tok[t].login \in Nat /\ bumps \in Nat
      BY <1>0, <1>1
    <3>3. \A b, v, l, p \in Nat : ClaimsAre(Claims(b, v, l, p), b, v, l, p)
      BY <3>1, ClaimsIsToken
    <3>4. ClaimsAre(e, tok[t].born, version, tok[t].login, bumps) BY <3>2, <3>3
    <3> QED BY <3>4 DEF ClaimsAre
  <2>2. tok' = Append(tok, e) /\ e.born = e.login BY <1>0, <1>5, <2>1 DEF SessionStartOf, TokenGood
  <2> HIDE DEF e
  <2>3. UNCHANGED <<now, version, blackUntil, cookie, lastUse, bumps, bumpLost>> BY DEF Load
  <2>4. /\ Orderly /\ TokenFacts' /\ BlackFacts'
        /\ tok' \in Seq(Token) /\ Len(tok') <= MaxTokens
        /\ n # 0 /\ n \in Tokens /\ n \in Issued' /\ tok'[n] = e
    BY <1>0, <1>5, <2>0, <2>1, <2>2, <2>3, Issues
  <2>5. PICK p \in Request : /\ p = q(n) /\ p.step = "act" /\ p.kind # "login" /\ p.token = t
                             /\ p.fresh = n
    BY <1>3, <2>4
  <2>6. t \in Issued' /\ tok'[t] = tok[t] BY <1>0, <2>4 DEF Orderly
  <2>11. PICK u : u = t OBVIOUS
  <2>7. Sound(p)' BY <2>11, <1>0, <2>1, <2>3, <2>4, <2>5, <2>6 DEF Sound
  <2>8. RequestFacts' /\ req' \in [Requests -> Request]
    BY <1>5, <2>0, <2>3, <2>4, <2>5, <2>7, RequestsKept
  <2>9. ActiveStaysIn' /\ cookie' \in {0} \union Issued' /\ lastUse' \in 1 .. LastTime
    BY <2>3, <2>4, CookieKept DEF SessionsInv
  <2>10. Typed' BY <2>3, <2>4, <2>8, <2>9 DEF Typed, SessionsInv
  <2> QED BY <2>4, <2>8, <2>9, <2>10 DEF SessionsInv
<1> QED BY <1>2, <1>4, <1>5 DEF Load, Outdated

LEMMA HandlersInv ==
  ASSUME SessionsInv, NEW r \in Requests, NEW by \in {1, LockdownStep},
         Use(r) \/ Logout(r) \/ BumpVersion(r, by)
  PROVE  SessionsInv'
<1>0. /\ req[r] \in Request /\ Sound(req[r]) /\ req[r].step = "act" /\ req[r].kind # "login"
      /\ req[r].token \in Issued /\ req[r].token \in Tokens /\ req[r].loaded \in Nat
      /\ now \in Nat /\ version \in Nat /\ bumps \in Nat
  BY RequestType, TokenType DEF Acting, Use, Logout, BumpVersion, SessionsInv, RequestFacts, Sound, Typed
<1>9. now \in 1 .. LastTime BY DEF SessionsInv, Typed
<1>1. now' = now /\ tok' = tok /\ Issued' = Issued BY DEF Use, Logout, BumpVersion, Issued
<1>2. PICK c \in {0, Kept(r)} : Answer(r, c) BY DEF Use, Logout, BumpVersion
<1>3. /\ ActiveStaysIn' /\ cookie' \in {0} \union Issued' /\ lastUse' \in 1 .. LastTime
      /\ req' = [req EXCEPT ![r] = Idling]
  BY <1>0, <1>1, <1>2, AnswerKeeps DEF SessionsInv
<1>4. /\ Orderly /\ version' \in Nat \ {0} /\ bumps' \in 0 .. MaxBumps /\ bumpLost' \in BOOLEAN
  <2>1. CASE UNCHANGED <<version, bumps, bumpLost>>
    BY <1>1, <2>1, SameOrderly DEF SessionsInv, Typed
  <2>2. CASE BumpVersion(r, by)
    <3> SUFFICES ASSUME version' = NewVersion(r, by)
                 PROVE  /\ Orderly /\ version' \in Nat \ {0}
                        /\ bumps' \in 0 .. MaxBumps /\ bumpLost' \in BOOLEAN
      BY <2>1, <2>2 DEF BumpVersion
    <3>0. NewVersion(r, by) \in Nat /\ NewVersion(r, by) > req[r].loaded
      BY <1>0, TimesOK DEF NewVersion, TimesOK
    <3>1. version' \in Nat /\ version' > req[r].loaded BY <3>0
    <3>2. ~bumpLost' => ~bumpLost /\ (version' > version \/ (version' = version /\ bumps' = bumps))
      BY <1>0, <3>1, <2>2 DEF BumpVersion
    <3>4. bumps \in 0 .. MaxBumps /\ bumpLost \in BOOLEAN /\ MaxBumps \in Nat
      BY TimesOK DEF SessionsInv, Typed, TimesOK
    <3>5. bumps' = bumps + 1 \/ bumps' = bumps BY <2>2 DEF BumpVersion
    <3>6. bumps < MaxBumps BY <2>2 DEF BumpVersion
    <3>7. bumpLost' \in BOOLEAN BY <2>2, <3>4 DEF BumpVersion
    <3>3. bumps' \in 0 .. MaxBumps /\ bumpLost' \in BOOLEAN BY <3>4, <3>5, <3>6, <3>7
    <3> QED BY <1>0, <1>1, <3>1, <3>2, <3>3 DEF Orderly
  <2> QED BY <2>1, <2>2 DEF Use, Logout
<1>5. TokenFacts' BY <1>0, <1>1, <1>4, TokensKept DEF SessionsInv, TokenFacts
<1>6. RequestFacts' /\ req' \in [Requests -> Request]
  BY <1>1, <1>3, <1>4, IdlingType, IdlingSound, RequestsKept
<1>7. BlackFacts' /\ blackUntil' \in [Tokens -> 0 .. (LastTime + Idle)]
  <2>1. CASE blackUntil' = blackUntil
    BY <1>4, <2>1, BlackKept DEF SessionsInv, Typed
  <2>2. CASE blackUntil' = [blackUntil EXCEPT ![req[r].token] = BlacklistedUntil]
    <3>1. tok[req[r].token].exp \in Nat /\ tok[req[r].token].iat \in Nat
          /\ tok[req[r].token].born \in Nat /\ TokenGood(req[r].token)
      BY <1>0, TokenType DEF SessionsInv, TokenFacts
    <3>2. BlacklistedUntil \in 0 .. (LastTime + Idle) /\ BlacklistedUntil \in Nat /\ tok[req[r].token].exp <= BlacklistedUntil
      BY <1>0, <1>9, <3>1, TimesOK DEF BlacklistedUntil, TimesOK, TokenGood, Earlier
    <3>3. blackUntil \in [Tokens -> 0 .. (LastTime + Idle)] BY DEF SessionsInv, Typed
    <3>4. blackUntil' \in [Tokens -> 0 .. (LastTime + Idle)] BY <2>2, <3>2, <3>3
    <3>5. BlackFacts'
      <4> SUFFICES ASSUME NEW t \in Tokens, blackUntil'[t] # 0
                   PROVE  t \in Issued /\ tok[t].exp <= blackUntil'[t]
        BY <1>1 DEF BlackFacts
      <4>1. CASE t = req[r].token BY <1>0, <2>2, <3>2, <3>3, <4>1
      <4>2. CASE t # req[r].token BY <2>2, <3>3, <4>2 DEF SessionsInv, BlackFacts
      <4> QED BY <4>1, <4>2
    <3> QED BY <3>4, <3>5
  <2> QED BY <2>1, <2>2 DEF Use, Logout, BumpVersion
<1>8. Typed' BY <1>1, <1>3, <1>4, <1>6, <1>7 DEF SessionsInv, Typed
<1> QED BY <1>3, <1>5, <1>6, <1>7, <1>8 DEF SessionsInv

LEMMA LoginIssueInv == ASSUME SessionsInv, NEW r \in Requests, LoginIssue(r) PROVE SessionsInv'
<1> DEFINE e == Claims(now, req[r].loaded, now, req[r].epoch)
<1>8. PICK n \in Nat : n = Len(tok) + 1 BY DEF SessionsInv, Typed
<1>0. /\ req[r].loaded \in Nat /\ req[r].epoch \in Nat /\ Sound(req[r])
      /\ req[r].step = "act" /\ req[r].kind = "login" /\ now \in Nat
      /\ now \in 1 .. LastTime
  BY RequestType DEF LoginIssue, SessionsInv, RequestFacts, Typed
<1>1. /\ e \in Token /\ e.born = now /\ e.iat = now
      /\ e.exp = Earlier(now + Idle, now + AbsoluteMax)
      /\ e.ver = req[r].loaded /\ e.login = now /\ e.epoch = req[r].epoch
  <2>1. Typed BY DEF SessionsInv
  <2>2. \A b, v, l, p \in Nat : ClaimsAre(Claims(b, v, l, p), b, v, l, p)
    BY <2>1, ClaimsIsToken
  <2>3. ClaimsAre(e, now, req[r].loaded, now, req[r].epoch) BY <1>0, <2>2
  <2> QED BY <2>3 DEF ClaimsAre
<1>2. /\ tok' = Append(tok, e) /\ Len(tok) < MaxTokens /\ req' = [req EXCEPT ![r] = Idling]
      /\ UNCHANGED <<now, version, blackUntil, bumps, bumpLost>>
      /\ (cookie' = n /\ lastUse' = now) \/ UNCHANGED <<cookie, lastUse>>
  BY <1>8 DEF LoginIssue
<1> HIDE DEF e
<1>3. ~bumpLost => e.ver <= version /\ (e.ver = version => e.epoch = bumps)
  BY <1>0, <1>1 DEF Sound
<1>4. /\ Orderly /\ TokenFacts' /\ BlackFacts'
      /\ tok' \in Seq(Token) /\ Len(tok') <= MaxTokens
      /\ n # 0 /\ n \in Issued' /\ tok'[n] = e
  BY <1>8, <1>1, <1>2, <1>3, Issues
<1>5. RequestFacts' /\ req' \in [Requests -> Request]
  BY <1>2, <1>4, IdlingType, IdlingSound, RequestsKept
<1>6. ActiveStaysIn' /\ cookie' \in {0} \union Issued' /\ lastUse' \in 1 .. LastTime
  <2>1. CASE cookie' = n /\ lastUse' = now
    <3>1. e.exp >= Earlier(now + Idle - RenewAfter, e.login + AbsoluteMax)
      BY <1>0, <1>1, TimesOK DEF Earlier, TimesOK
    <3>2. ActiveStaysIn' BY <2>1, <3>1, <1>4 DEF ActiveStaysIn
    <3> QED BY <1>0, <1>4, <2>1, <3>2
  <2>2. CASE UNCHANGED <<cookie, lastUse>> BY <1>4, <2>2, CookieKept DEF SessionsInv
  <2> QED BY <1>2, <2>1, <2>2
<1>7. Typed' BY <1>2, <1>4, <1>5, <1>6 DEF SessionsInv, Typed
<1> QED BY <1>4, <1>5, <1>6, <1>7 DEF SessionsInv

LEMMA TickInv == ASSUME SessionsInv, SessionTick PROVE SessionsInv'
<1>1. Orderly /\ Issued' = Issued BY SameOrderly DEF SessionTick, SessionsInv
<1>2. now \in Nat /\ now' \in 1 .. LastTime /\ now' \in Nat /\ now <= now'
  BY TimesOK DEF SessionTick, SessionsInv, Typed, TimesOK
<1>3. TokenFacts' BY <1>1, <1>2, TokensKept DEF SessionsInv, TokenFacts
<1>4. BlackFacts' BY <1>1, BlackKept DEF SessionTick, SessionsInv
<1>5. RequestFacts'
  <2> SUFFICES ASSUME NEW r \in Requests PROVE Sound(req[r])'
    BY DEF RequestFacts
  <2>1. req'[r] = Idling BY DEF SessionTick
  <2> QED BY <2>1, IdlingSound DEF Sound
<1>6. ActiveStaysIn' /\ cookie' \in {0} \union Issued' /\ lastUse' \in 1 .. LastTime
  BY <1>1, CookieKept DEF SessionTick, SessionsInv
<1>7. Typed' BY <1>2, <1>6 DEF SessionTick, SessionsInv, Typed
<1> QED BY <1>3, <1>4, <1>5, <1>6, <1>7 DEF SessionsInv

LEMMA SessionsStepInv == SessionsInv /\ [SessionsNext]_sessionVars => SessionsInv'
<1> SUFFICES ASSUME SessionsInv, [SessionsNext]_sessionVars PROVE SessionsInv'
  OBVIOUS
<1>1. ASSUME NEW r \in Requests, NEW t \in Issued, Arrive(r, t)
      PROVE SessionsInv'
  <2> DEFINE q == [req[r] EXCEPT !.kind = "session", !.step = "load", !.token = t,
                     !.good = Accepted(t), !.unseen = Blacklisted(t)]
  <2>0. /\ req[r] \in Request /\ t \in Tokens /\ tok[t].ver \in Nat /\ version \in Nat
        /\ TokenGood(t) /\ Accepted(t) \in BOOLEAN /\ Blacklisted(t) \in BOOLEAN
    BY RequestType, TokenType DEF SessionsInv, Typed, TokenFacts, Accepted, Blacklisted
  <2>1. /\ q \in Request /\ q.step = "load" /\ q.kind # "login" /\ q.token = t
        /\ q.good = Accepted(t) /\ q.unseen = Blacklisted(t)
    BY <2>0 DEF Request, Kinds
  <2>2. now < tok[t].exp BY <1>1 DEF Arrive, Unexpired
  <2>5. ~Accepted(t) /\ ~Blacklisted(t) /\ ~bumpLost => tok[t].ver < version
    BY <2>0, <2>2 DEF Accepted, Unexpired, TokenGood
  <2>3. /\ req' = [req EXCEPT ![r] = q]
        /\ UNCHANGED <<now, version, tok, blackUntil, cookie, lastUse, bumps, bumpLost>>
    BY <1>1 DEF Arrive
  <2> HIDE DEF q
  <2>4. Sound(q) BY <2>1, <2>2, <2>5 DEF Sound
  <2> QED BY <2>1, <2>3, <2>4, OnlyRequest
<1>2. ASSUME NEW r \in Requests, LoginLoad(r) PROVE SessionsInv'
  <2> DEFINE q == [req[r] EXCEPT !.kind = "login", !.step = "act", !.loaded = version, !.epoch = bumps]
  <2>0. req[r] \in Request /\ version \in Nat /\ bumps \in Nat
    BY RequestType DEF SessionsInv, Typed
  <2>1. q \in Request /\ q.step = "act" /\ q.kind = "login" /\ q.loaded = version /\ q.epoch = bumps
    BY <2>0 DEF Request, Kinds
  <2>2. /\ req' = [req EXCEPT ![r] = q]
        /\ UNCHANGED <<now, version, tok, blackUntil, cookie, lastUse, bumps, bumpLost>>
    BY <1>2 DEF LoginLoad
  <2> HIDE DEF q
  <2>3. Sound(q) BY <2>0, <2>1 DEF Sound
  <2> QED BY <2>1, <2>2, <2>3, OnlyRequest
<1>3. CASE UNCHANGED sessionVars
  <2>0. Issued' = Issued BY <1>3 DEF sessionVars, Issued
  <2> QED BY <1>3, <2>0 DEF sessionVars, SessionsInv, Typed, TokenFacts, TokenGood, BlackFacts,
             RequestFacts, Sound, ActiveStaysIn
<1> QED BY <1>1, <1>2, <1>3, LoadInv, HandlersInv, LoginIssueInv, TickInv DEF SessionsNext

\* What the token facts say of a session's end and of what a bump leaves.
LEMMA SessionsMeaning == SessionsInv => AbsoluteCap /\ BumpRevokes
<1> SUFFICES ASSUME SessionsInv PROVE AbsoluteCap /\ BumpRevokes
  OBVIOUS
<1>1. \A t \in Issued : TokenGood(t) /\ tok[t].login \in Nat /\ tok[t].exp \in Nat /\ tok[t].iat \in Nat
  BY TokenType DEF SessionsInv, TokenFacts
<1>2. AbsoluteCap BY <1>1, TimesOK DEF TimesOK, AbsoluteCap, Earlier, TokenGood
<1>3. BumpRevokes BY <1>1 DEF BumpRevokes, Accepted, TokenGood
<1> QED BY <1>2, <1>3

\* Every variable keeps its type.
THEOREM SessionsTypeCorrect == SessionsSpec => []SessionsTypeOK
<1>1. SessionsInv => SessionsTypeOK BY TypedSame DEF SessionsInv
<1> QED BY <1>1, SessionsInitInv, SessionsStepInv, PTL DEF SessionsSpec

\* No renewal takes a session past its absolute age (renewSessionIfDue).
THEOREM SessionsEnd == SessionsSpec => []AbsoluteCap
<1> QED BY SessionsMeaning, SessionsInitInv, SessionsStepInv, PTL DEF SessionsSpec

\* A browser in use is not logged out by the idle cap (renewSessionIfDue).
THEOREM ActiveSessionsStay == SessionsSpec => []ActiveStaysIn
<1>1. SessionsInv => ActiveStaysIn BY DEF SessionsInv
<1> QED BY <1>1, SessionsInitInv, SessionsStepInv, PTL DEF SessionsSpec

\* A password change or lockdown that was not overwritten revokes every token
\* whose version was read before it (ChangePassword, TriggerPanicLockdown).
THEOREM BumpsRevoke == SessionsSpec => []BumpRevokes
<1> QED BY SessionsMeaning, SessionsInitInv, SessionsStepInv, PTL DEF SessionsSpec

\* What no step does: turn the clock or, unless a bump is overwritten, the
\* version back, change an issued token, or drop a blacklist entry.
LEMMA NoStepBack ==
  ASSUME SessionsInv, SessionsNext, NEW t \in Issued
  PROVE  /\ now <= now'
         /\ t \in Issued' /\ tok'[t] = tok[t]
         /\ ~bumpLost' => ~bumpLost /\ version <= version'
         /\ blackUntil'[t] = blackUntil[t] \/ now' < blackUntil'[t]
<1>0. /\ now \in Nat /\ version \in Nat /\ t \in Tokens
      /\ blackUntil \in [Tokens -> 0 .. (LastTime + Idle)]
  <2>1. Typed BY DEF SessionsInv
  <2>2. t \in Tokens BY <2>1, TokenType
  <2> QED BY <2>1, <2>2 DEF Typed
<1>1. now' = now \/ now' = now + 1
  <2>1. ASSUME NEW r \in Requests, Load(r) PROVE now' = now BY <2>1 DEF Load
  <2>2. ASSUME NEW r \in Requests, (\E u \in Issued : Arrive(r, u)) \/ Use(r) \/ Logout(r)
        PROVE  now' = now
    BY <2>2 DEF Arrive, Use, Logout
  <2>3. ASSUME NEW r \in Requests, NEW by, BumpVersion(r, by) PROVE now' = now
    BY <2>3 DEF BumpVersion
  <2>4. ASSUME NEW r \in Requests, LoginLoad(r) \/ LoginIssue(r) PROVE now' = now
    BY <2>4 DEF LoginLoad, LoginIssue
  <2>5. SessionTick => now' = now + 1 BY DEF SessionTick
  <2> QED BY <2>1, <2>2, <2>3, <2>4, <2>5 DEF SessionsNext
<1>2. blackUntil'[t] = blackUntil[t] \/ (now' = now /\ blackUntil'[t] = now + Idle)
  <2>1. ASSUME NEW r \in Requests, Logout(r)
        PROVE  blackUntil'[t] = blackUntil[t] \/ (now' = now /\ blackUntil'[t] = now + Idle)
    BY <1>0, <2>1 DEF Logout, BlacklistedUntil
  <2>2. ASSUME NEW r \in Requests, Load(r) PROVE blackUntil' = blackUntil BY <2>2 DEF Load
  <2>3. ASSUME NEW r \in Requests, (\E u \in Issued : Arrive(r, u)) \/ Use(r)
        PROVE  blackUntil' = blackUntil
    BY <2>3 DEF Arrive, Use
  <2>4. ASSUME NEW r \in Requests, NEW by, BumpVersion(r, by) PROVE blackUntil' = blackUntil
    BY <2>4 DEF BumpVersion
  <2>5. ASSUME NEW r \in Requests, LoginLoad(r) \/ LoginIssue(r) PROVE blackUntil' = blackUntil
    BY <2>5 DEF LoginLoad, LoginIssue
  <2>6. SessionTick => blackUntil' = blackUntil BY DEF SessionTick
  <2> QED BY <2>1, <2>2, <2>3, <2>4, <2>5, <2>6 DEF SessionsNext
<1>3. ~bumpLost' => ~bumpLost /\ version <= version'
  <2>1. ASSUME NEW r \in Requests, NEW by \in {1, LockdownStep}, BumpVersion(r, by)
        PROVE  ~bumpLost' => ~bumpLost /\ version <= version'
    <3>1. req[r].loaded \in Nat BY RequestType DEF SessionsInv
    <3>2. \/ version' = NewVersion(r, by) /\ (~bumpLost' => ~bumpLost /\ req[r].loaded = version)
          \/ version' = version /\ bumpLost' = bumpLost
      BY <2>1 DEF BumpVersion
    <3>3. NewVersion(r, by) \in Nat /\ req[r].loaded < NewVersion(r, by)
      BY <3>1, TimesOK DEF NewVersion, TimesOK
    <3> QED BY <1>0, <3>2, <3>3
  <2>2. CASE version' = version /\ bumpLost' = bumpLost
    BY <1>0, <2>2
  <2>3. \/ \E r \in Requests, by \in {1, LockdownStep} : BumpVersion(r, by)
        \/ version' = version /\ bumpLost' = bumpLost
    BY DEF SessionsNext, Arrive, Load, Use, Logout, LoginLoad, LoginIssue, SessionTick
  <2> QED BY <2>1, <2>2, <2>3
<1>4. t \in Issued' /\ tok'[t] = tok[t]
  <2>1. CASE tok' = tok BY <2>1 DEF Issued
  <2>2. ASSUME NEW e \in Token, Len(tok) < MaxTokens, tok' = Append(tok, e)
        PROVE  t \in Issued' /\ tok'[t] = tok[t]
    BY <2>2, IssueAppends DEF SessionsInv
  <2>3. ASSUME NEW r \in Requests, Load(r) PROVE t \in Issued' /\ tok'[t] = tok[t]
    <3>1. /\ req[r].token \in Issued
          /\ \/ tok' = tok
             \/ /\ Len(tok) < MaxTokens
                /\ tok' = Append(tok, Claims(SessionStartOf(req[r].token), version,
                                             tok[req[r].token].login, bumps))
      BY <2>3 DEF Load, SessionsInv, RequestFacts, Sound
    <3>2. tok[req[r].token].born \in Nat /\ tok[req[r].token].login \in Nat
      BY <3>1, TokenType DEF SessionsInv
    <3>3. bumps \in Nat BY DEF SessionsInv, Typed
    <3>4. Claims(SessionStartOf(req[r].token), version, tok[req[r].token].login, bumps) \in Token
      BY <1>0, <3>2, <3>3, ClaimsIsToken DEF ClaimsAre, SessionStartOf, SessionsInv
    <3> QED BY <2>1, <2>2, <3>1, <3>4
  <2>4. ASSUME NEW r \in Requests, LoginIssue(r) PROVE t \in Issued' /\ tok'[t] = tok[t]
    <3>1. req[r].loaded \in Nat /\ req[r].epoch \in Nat BY RequestType DEF SessionsInv
    <3>2. Claims(now, req[r].loaded, now, req[r].epoch) \in Token
      BY <1>0, <3>1, ClaimsIsToken DEF ClaimsAre, SessionsInv
    <3> QED BY <2>2, <2>4, <3>2 DEF LoginIssue
  <2> QED BY <2>1, <2>3, <2>4 DEF SessionsNext, Arrive, Use, Logout, BumpVersion, LoginLoad, SessionTick
<1> QED BY <1>0, <1>1, <1>2, <1>3, <1>4, TimesOK DEF TimesOK

\* A token that expired, is on the blacklist or has an old version never comes
\* back, and a request gets to its handler only with a token that was accepted
\* when it came in or that was on the blacklist and not seen there (Logout,
\* RequireAuth).
THEOREM TokensStayRefused == SessionsSpec => NoRevival
<1> DEFINE Stays == \A t \in Issued : ~Accepted(t) /\ ~bumpLost' => ~Accepted(t)'
           LetThrough == \A r \in Requests :
             req[r].step = "load" /\ req'[r].step = "act" /\ ~bumpLost' =>
               req[r].good \/ req[r].unseen
<1>1. ASSUME SessionsInv, SessionsInv', SessionsNext PROVE Stays
  <2> SUFFICES ASSUME NEW t \in Issued, ~Accepted(t), ~bumpLost' PROVE ~Accepted(t)'
    OBVIOUS
  <2> USE DEF Accepted, Unexpired, Blacklisted
  <2>1. /\ now <= now'
        /\ t \in Issued' /\ tok'[t] = tok[t]
        /\ ~bumpLost /\ version <= version'
        /\ blackUntil'[t] = blackUntil[t] \/ now' < blackUntil'[t]
    BY <1>1, NoStepBack
  <2>2. /\ now \in Nat /\ now' \in Nat /\ version \in Nat /\ version' \in Nat
        /\ t \in Tokens /\ tok[t].exp \in Nat /\ tok[t].ver \in Nat /\ blackUntil[t] \in Nat
    <3>1. Typed /\ Typed' BY <1>1 DEF SessionsInv
    <3>2. t \in Tokens /\ tok[t].exp \in Nat /\ tok[t].ver \in Nat BY <3>1, TokenType
    <3>3. now \in Nat /\ now' \in Nat /\ version \in Nat /\ version' \in Nat BY <3>1 DEF Typed
    <3>4. blackUntil[t] \in Nat BY <3>1, <3>2, TimesOK DEF Typed, TimesOK
    <3> QED BY <3>2, <3>3, <3>4
  <2>3. tok[t].ver <= version BY <1>1, <2>1 DEF SessionsInv, TokenFacts, TokenGood
  <2>4. blackUntil[t] # 0 => tok[t].exp <= blackUntil[t] BY <1>1, <2>2 DEF SessionsInv, BlackFacts
  <2> QED BY <2>1, <2>2, <2>3, <2>4
<1>2. ASSUME SessionsInv, SessionsNext PROVE LetThrough
  <2> SUFFICES ASSUME NEW r \in Requests, req[r].step = "load", req'[r].step = "act", ~bumpLost'
               PROVE  req[r].good \/ req[r].unseen
    OBVIOUS
  <2>0. /\ req \in [Requests -> Request] /\ Sound(req[r]) /\ version \in Nat
        /\ req[r].token \in Issued /\ tok[req[r].token].ver \in Nat
    BY <1>2, TokenType DEF SessionsInv, Typed, RequestFacts, Sound
  <2>1. \A s \in Requests : req'[s] = req[s] => s # r BY <2>0
  <2>2. Load(r)
    <3>1. ASSUME NEW s \in Requests, s # r, NEW q, req' = [req EXCEPT ![s] = q] PROVE FALSE
      BY <2>0, <2>1, <3>1
    <3>2. \A q \in Request : req' = [req EXCEPT ![r] = q] => q.step = "act"
      BY <2>0
    <3>3. ASSUME NEW s \in Requests, req[s].step # "load",
                 \E q : req' = [req EXCEPT ![s] = q]
          PROVE  FALSE
      BY <3>1, <3>3
    <3>4. ASSUME NEW s \in Requests,
                 \/ \E t \in Issued : Arrive(s, t)
                 \/ Use(s) \/ Logout(s) \/ (\E by \in {1, LockdownStep} : BumpVersion(s, by)) \/ LoginLoad(s) \/ LoginIssue(s)
          PROVE  FALSE
      <4>1. req[s].step # "load"
        BY <3>4, IdlingType DEF Acting, Arrive, Use, Logout, BumpVersion, LoginLoad, LoginIssue
      <4>2. \E q : req' = [req EXCEPT ![s] = q]
        BY <3>4 DEF Arrive, Use, Logout, BumpVersion, LoginLoad, LoginIssue, Answer
      <4> QED BY <3>3, <4>1, <4>2
    <3>5. ASSUME NEW s \in Requests, Load(s) PROVE s = r
      <4>1. \E q : req' = [req EXCEPT ![s] = q] BY <3>5 DEF Load
      <4> QED BY <3>1, <4>1
    <3>6. ~SessionTick BY <2>1 DEF SessionTick
    <3> QED BY <1>2, <3>4, <3>5, <3>6 DEF SessionsNext
  <2>3. tok[req[r].token].ver = version /\ bumpLost' = bumpLost
    <3>1. req' = [req EXCEPT ![r] = Idling] => req'[r].step = "idle" BY <2>0, IdlingType
    <3> QED BY <2>2, <3>1 DEF Load, Outdated
  <2> QED BY <2>0, <2>3 DEF Sound
<1>3. ASSUME SessionsInv, SessionsInv', [SessionsNext]_sessionVars
      PROVE  [Stays /\ LetThrough]_sessionVars
  BY <1>1, <1>2, <1>3
<1> QED BY <1>3, SessionsInitInv, SessionsStepInv, PTL DEF SessionsSpec, NoRevival

(***************************************************************************)
(* What one address may try, for any number of requests, tokens and codes, *)
(* any limits and any length of the bans.  Every Redis command may fail    *)
(* and the process may die; as long as no ban was missed, a counter        *)
(* exceeds its limit by no more than the requests that have counted and    *)
(* not yet banned.                                                         *)
(***************************************************************************)

TrySteps == {"idle", "count", "ban", "wrong", "right", "codeban", "consume", "reset"}
Try == [step : TrySteps, count : 0 .. MaxFails, token : TempTokens \union {"none"},
        code : Codes \union {"wrong", "none"}]

\* The types, the bounds on the counters left out.
GuardTyped ==
  /\ tick \in 1 .. LastTick
  /\ fails \in 0 .. MaxFails /\ ipFails \in 0 .. MaxFails
  /\ failsUntil \in Nat /\ ipFailsUntil \in Nat /\ banUntil \in Nat
  /\ issued \subseteq TempTokens
  /\ tempFails \in [TempTokens -> Nat]
  /\ consumed \subseteq TempTokens /\ used \subseteq Codes
  /\ try \in [Tries -> Try]
  /\ codeWins \in [Codes -> Nat]
  /\ passedOver \subseteq TempTokens /\ banRace \in BOOLEAN
  /\ open \subseteq Bans /\ slips \in BOOLEAN

\* A request of the second step carries a token and a code.
WithToken(r) ==
  /\ try[r].step \in {"wrong", "right", "codeban", "consume", "reset"} =>
       try[r].token \in TempTokens /\ try[r].code \in Codes \union {"wrong"}
  /\ try[r].step = "right" => try[r].code # "wrong"
  /\ try[r].step = "wrong" => try[r].code = "wrong"

Doing(s) == {r \in Tries : try[r].step = s}
Number(s) == Cardinality(Doing(s))

Size == Cardinality(Tries)

\* A counter of n failures that expires at until, with so many requests that count and so many
\* that ban: those let in take it past its limit by no more than their number, and a ban
\* outlasts a counter over it.
CounterOK(present, n, until, limit, size, counting, banning, ban) ==
  LET live == IF present < until THEN n ELSE 0
  IN /\ until <= present + Window
     /\ n < limit + size
     /\ live + counting < limit + size
     /\ present >= ban => live < limit + banning
     /\ live >= limit => banning > 0 \/ ban >= until

PasswordCounter ==
  CounterOK(tick, fails, failsUntil, BanAfter, Size, Number("count"), Number("ban"), banUntil)

CodeCounter ==
  CounterOK(tick, ipFails, ipFailsUntil, IpBanAfter, Size, Number("wrong"), Number("codeban"), banUntil)

\* A counter over its limit has its ban, a request about to write it, or one that failed to.
CounterHeld(present, n, until, limit, writing, ban, missed) ==
  LET live == IF present < until THEN n ELSE 0
  IN /\ until <= present + Window
     /\ live >= limit => writing \/ ban >= until \/ missed

PasswordHeld ==
  CounterHeld(tick, fails, failsUntil, BanAfter, Writing("ban"), banUntil, "ban" \in open)

CodeHeld ==
  CounterHeld(tick, ipFails, ipFailsUntil, IpBanAfter, Writing("codeban"), banUntil, "codeban" \in open)

\* While no bans crossed and none was missed, a count over the upper limit has its long ban or
\* the request that sets it.
LongCounter == ~banRace /\ Live(fails, failsUntil) >= LongBanAfter =>
  \/ "ban" \in open
  \/ \E r \in Doing("ban") : try[r].count >= LongBanAfter
  \/ /\ banUntil >= failsUntil - Window + LongBanFor
     /\ \A r \in Doing("ban") : try[r].count >= LongBanAfter

\* A right code on its way to its session is spent, and by one request.
CodeSpent(c) ==
  /\ c \notin used => codeWins[c] = 0 /\ \A r \in Doing("consume") : try[r].code # c
  /\ \A r, s \in Doing("consume") : try[r].code = c /\ try[s].code = c => r = s
  /\ \A r \in Doing("consume") : try[r].code = c => codeWins[c] = 0
  /\ codeWins[c] <= 1

\* A worn-out token has a request that ends it.
TokenEnds(t) == tempFails[t] >= TokenMaxFails =>
  t \in consumed \union passedOver \/
    \E r \in Doing("consume") \union Doing("codeban") : try[r].token = t

GuardInv ==
  /\ GuardTyped
  /\ \A r \in Tries : WithToken(r)
  /\ ~Immune => PasswordHeld /\ CodeHeld /\ LongCounter
  /\ ~Immune /\ ~slips => PasswordCounter /\ CodeCounter
  /\ \A c \in Codes : CodeSpent(c)
  /\ \A t \in TempTokens : TokenEnds(t)

\* A request moves on: try holds x in its place.
Becomes(r, x) == x \in Try /\ try' = [try EXCEPT ![r] = x]

\* The steps that move a request, with what they leave in its place.
LEMMA Moves ==
  ASSUME GuardTyped, \A q \in Tries : WithToken(q), NEW r \in Tries
  PROVE  /\ None \in Try
         /\ WrongPassword(r) => Becomes(r, [None EXCEPT !.step = "count"])
         /\ CountPassword(r) =>
              \/ fails' >= BanAfter /\ \E x : Becomes(r, x) /\ x.step = "ban" /\ x.count = fails'
              \/ fails' < BanAfter /\ Becomes(r, None)
              \/ Becomes(r, None) /\ "ban" \in open' /\ slips'
         /\ CountNothing(r) \/ BanIp(r) \/ CodeBan(r) \/ ResetFailures(r) => Becomes(r, None)
         /\ CountCode(r) =>
              \/ ipFails' >= IpBanAfter /\ Becomes(r, [try[r] EXCEPT !.step = "codeban"])
              \/ ipFails' < IpBanAfter /\ Becomes(r, [try[r] EXCEPT !.step = "consume"])
              \/ /\ Becomes(r, None)
                 /\ ipFails' < IpBanAfter \/ ("codeban" \in open' /\ slips')
                 /\ \/ tempFails'[try[r].token] < TokenMaxFails
                    \/ try[r].token \in passedOver'
         /\ SpendCode(r) =>
              \/ /\ try[r].code \notin used /\ used' = used \union {try[r].code}
                 /\ Becomes(r, [try[r] EXCEPT !.step = "consume"])
              \/ used \subseteq used' /\ Becomes(r, None)
         /\ Consume(r) =>
              \/ try[r].code = "wrong" /\ Becomes(r, None)
              \/ try[r].code # "wrong" /\ Becomes(r, [try[r] EXCEPT !.step = "reset"])
<1> USE GuardOK DEF GuardOK, GuardTyped, Becomes, Try, TrySteps
<1>0. try[r] \in Try OBVIOUS
<1>1. None \in Try BY DEF None
<1>2. \A s \in TrySteps : [try[r] EXCEPT !.step = s] \in Try BY <1>0
<1>3. WrongPassword(r) => Becomes(r, [None EXCEPT !.step = "count"])
  BY <1>1 DEF WrongPassword, Step
<1>4. ASSUME CountPassword(r)
      PROVE  \/ fails' >= BanAfter /\ \E x : Becomes(r, x) /\ x.step = "ban" /\ x.count = fails'
             \/ fails' < BanAfter /\ Becomes(r, None)
             \/ Becomes(r, None) /\ "ban" \in open' /\ slips'
  <2>1. fails' \in 0 .. MaxFails BY <1>4 DEF CountPassword, Incremented, Live
  <2> DEFINE x == [try[r] EXCEPT !.step = "ban", !.count = fails']
  <2>2. x \in Try /\ x.step = "ban" /\ x.count = fails' BY <1>0, <2>1
  <2>3. PICK answered \in BOOLEAN :
          /\ IF answered /\ fails' >= BanAfter THEN try' = [try EXCEPT ![r] = x] ELSE Done(r)
          /\ Reopens("ban", fails', BanAfter, answered)
    BY <1>4 DEF CountPassword
  <2>4. CASE answered /\ fails' >= BanAfter
    <3>1. Becomes(r, x) BY <2>2, <2>3, <2>4
    <3> HIDE DEF x
    <3> QED BY <2>2, <2>4, <3>1
  <2>5. CASE fails' < BanAfter BY <1>1, <2>1, <2>3, <2>5 DEF Done
  <2>6. CASE ~answered /\ fails' >= BanAfter
    <3>1. Becomes(r, None) BY <1>1, <2>3, <2>6 DEF Done
    <3>2. "ban" \in open' /\ slips' BY <2>3, <2>6 DEF Reopens
    <3> QED BY <3>1, <3>2
  <2> QED BY <2>1, <2>4, <2>5, <2>6
<1>5. CountNothing(r) \/ BanIp(r) \/ CodeBan(r) \/ ResetFailures(r) => Becomes(r, None)
  BY <1>1 DEF CountNothing, BanIp, CodeBan, ResetFailures, Done
<1>6. ASSUME CountCode(r)
      PROVE  \/ ipFails' >= IpBanAfter /\ Becomes(r, [try[r] EXCEPT !.step = "codeban"])
             \/ ipFails' < IpBanAfter /\ Becomes(r, [try[r] EXCEPT !.step = "consume"])
             \/ /\ Becomes(r, None)
                /\ ipFails' < IpBanAfter \/ ("codeban" \in open' /\ slips')
                /\ \/ tempFails'[try[r].token] < TokenMaxFails
                   \/ try[r].token \in passedOver'
  <2>1. ipFails' \in Nat BY <1>6 DEF CountCode, Incremented, Live
  <2>2. tempFails'[try[r].token] \in Nat BY <1>6 DEF CountCode, WithToken
  <2>0. PICK answered \in BOOLEAN :
          /\ CASE answered /\ ipFails' >= IpBanAfter -> Step(r, "codeban")
               [] answered /\ ipFails' < IpBanAfter /\ WornOut(tempFails'[try[r].token]) ->
                    Step(r, "consume")
               [] OTHER -> Done(r)
          /\ Reopens("codeban", ipFails', IpBanAfter, answered)
          /\ IF answered THEN UNCHANGED passedOver ELSE PassOver(try[r].token, tempFails')
    BY <1>6 DEF CountCode
  <2>3. CASE answered /\ ipFails' >= IpBanAfter
    <3>1. Step(r, "codeban") BY <2>0, <2>1, <2>3
    <3> QED BY <1>2, <2>3, <3>1 DEF Step
  <2>4. CASE answered /\ ipFails' < IpBanAfter /\ WornOut(tempFails'[try[r].token])
    <3>1. Step(r, "consume") BY <2>0, <2>1, <2>4
    <3> QED BY <1>2, <2>4, <3>1 DEF Step
  <2>5. CASE answered /\ ipFails' < IpBanAfter /\ ~WornOut(tempFails'[try[r].token])
    <3>1. Done(r) BY <2>0, <2>1, <2>5
    <3> QED BY <1>1, <2>2, <2>5, <3>1 DEF Done, WornOut
  <2>6. CASE ~answered
    <3>1. Done(r) /\ PassOver(try[r].token, tempFails') BY <2>0, <2>6
    <3>2. Becomes(r, None) BY <1>1, <3>1 DEF Done
    <3>5. Reopens("codeban", ipFails', IpBanAfter, FALSE) BY <2>0, <2>6
    <3>6. ipFails' >= IpBanAfter => "codeban" \in open' /\ slips' BY <3>5, Zenon DEF Reopens
    <3>7. ipFails' < IpBanAfter \/ ipFails' >= IpBanAfter BY <2>1
    <3>3. ipFails' < IpBanAfter \/ ("codeban" \in open' /\ slips') BY <3>6, <3>7, Zenon
    <3>4. tempFails'[try[r].token] < TokenMaxFails \/ try[r].token \in passedOver'
      BY <2>2, <3>1 DEF PassOver, WornOut
    <3> QED BY <3>2, <3>3, <3>4
  <2> QED BY <2>1, <2>3, <2>4, <2>5, <2>6
<1>7. SpendCode(r) =>
         \/ /\ try[r].code \notin used /\ used' = used \union {try[r].code}
            /\ Becomes(r, [try[r] EXCEPT !.step = "consume"])
         \/ used \subseteq used' /\ Becomes(r, None)
  BY <1>1, <1>2 DEF SpendCode, CodeUnused, Step, Done
<1>8. Consume(r) =>
         \/ try[r].code = "wrong" /\ Becomes(r, None)
         \/ try[r].code # "wrong" /\ Becomes(r, [try[r] EXCEPT !.step = "reset"])
  BY <1>1, <1>2 DEF Consume, Step, Done
<1> QED BY <1>1, <1>3, <1>4, <1>5, <1>6, <1>7, <1>8

\* A right or a wrong code is sent: the request of the second step.
LEMMA SendMoves ==
  ASSUME GuardTyped, NEW r \in Tries, NEW t \in TempTokens, NEW c \in Codes \union {"wrong"},
         SendCode(r, t, c)
  PROVE  /\ try[r] = None
         /\ Becomes(r, [step |-> IF c = "wrong" THEN "wrong" ELSE "right",
                         count |-> 0, token |-> t, code |-> c])
BY GuardOK DEF GuardOK, GuardTyped, Becomes, Try, TrySteps, SendCode

\* How many requests are at a step.
LEMMA Numbers ==
  ASSUME GuardTyped, NEW s
  PROVE  Number(s) \in Nat /\ IsFiniteSet(Doing(s)) /\ Number(s) <= Cardinality(Tries)
         /\ (Number(s) = 0 <=> Doing(s) = {})
<1>1. Doing(s) \subseteq Tries BY DEF Doing
<1>2. IsFiniteSet(Tries) BY GuardOK DEF GuardOK
<1> QED BY <1>1, <1>2, FS_Subset, FS_CardinalityType, FS_EmptySet DEF Number

\* A move takes one request from its step to the next.
LEMMA NumberMoves ==
  ASSUME GuardTyped, NEW r \in Tries, NEW x, Becomes(r, x), NEW s
  PROVE  /\ Doing(s)' = (Doing(s) \ {r}) \union (IF x.step = s THEN {r} ELSE {})
         /\ Number(s)' = (IF try[r].step = s THEN Number(s) - 1 ELSE Number(s))
                        + (IF x.step = s THEN 1 ELSE 0)
<1>1. Doing(s)' = (Doing(s) \ {r}) \union (IF x.step = s THEN {r} ELSE {})
  BY DEF GuardTyped, Becomes, Doing
<1>2. IsFiniteSet(Doing(s)) /\ Number(s) \in Nat BY Numbers
<1>3. /\ IsFiniteSet(Doing(s) \ {r})
      /\ Cardinality(Doing(s) \ {r}) = IF try[r].step = s THEN Number(s) - 1 ELSE Number(s)
  BY <1>2, FS_RemoveElement DEF Number, Doing
<1>4. CASE x.step = s
  <2>1. Cardinality((Doing(s) \ {r}) \union {r}) = Cardinality(Doing(s) \ {r}) + 1
    BY <1>3, FS_AddElement
  <2>2. Doing(s)' = (Doing(s) \ {r}) \union {r} BY <1>1, <1>4
  <2> QED BY <1>1, <1>2, <1>3, <1>4, <2>1, <2>2 DEF Number
<1>5. CASE x.step # s
  <2>1. Doing(s)' = Doing(s) \ {r} BY <1>1, <1>5
  <2> QED BY <1>1, <1>2, <1>3, <1>5, <2>1 DEF Number
<1> QED BY <1>4, <1>5

\* A ban that is written, or missed.
LEMMA BanWritten ==
  ASSUME GuardTyped, NEW length \in {BanFor, CodeBanFor, LongBanFor}, WriteBan(length)
  PROVE  /\ banUntil' \in Nat /\ banRace' \in BOOLEAN
         /\ ~Immune => banUntil' = tick + length /\ banUntil' >= tick + Window
<1>1. length \in Nat /\ Window \in Nat /\ length >= Window BY GuardOK DEF GuardOK
<1>2. tick \in Nat /\ banUntil \in Nat BY DEF GuardTyped
<1>3. banUntil' = (IF Immune THEN banUntil ELSE tick + length) BY DEF WriteBan
<1>4. banRace' \in BOOLEAN BY DEF WriteBan
<1> QED BY <1>1, <1>2, <1>3, <1>4

LEMMA BanMissed ==
  ASSUME GuardTyped, NEW kind \in Bans, MissBan(kind)
  PROVE  /\ banUntil' = banUntil /\ banRace' = banRace /\ slips'
         /\ open' = open \union {kind} /\ open' \subseteq Bans /\ slips' \in BOOLEAN
BY DEF GuardTyped, MissBan

\* What BanIp and CodeBan do to the ban.
LEMMA BansDone ==
  ASSUME GuardTyped, NEW r \in Tries, BanIp(r) \/ CodeBan(r)
  PROVE  /\ banUntil' \in Nat /\ banRace' \in BOOLEAN /\ open' \subseteq Bans /\ slips' \in BOOLEAN
         /\ \/ ~Immune => banUntil' >= tick + Window
            \/ banUntil' = banUntil /\ open' = open \union {try[r].step} /\ slips'
<1>1. CASE BanIp(r)
  <2>1. try[r].step = "ban" /\ try[r].step \in Bans BY <1>1 DEF BanIp, Bans
  <2>2. BanLength(try[r].count) \in {BanFor, CodeBanFor, LongBanFor} BY DEF BanLength
  <2>3. CASE WriteBan(BanLength(try[r].count)) /\ open' \subseteq open /\ slips' = slips
    <3>1. open' \subseteq Bans /\ slips' \in BOOLEAN BY <2>3 DEF GuardTyped
    <3> QED BY <2>2, <2>3, <3>1, BanWritten
  <2>4. CASE MissBan("ban")
    <3>1. banUntil \in Nat /\ banRace \in BOOLEAN BY DEF GuardTyped
    <3> QED BY <2>1, <2>4, <3>1, BanMissed
  <2> QED BY <1>1, <2>3, <2>4 DEF BanIp
<1>2. CASE CodeBan(r)
  <2>1. try[r].step = "codeban" /\ try[r].step \in Bans BY <1>2 DEF CodeBan, Bans
  <2>3. CASE WriteBan(CodeBanFor) /\ open' \subseteq open /\ slips' = slips
    <3>1. open' \subseteq Bans /\ slips' \in BOOLEAN BY <2>3 DEF GuardTyped
    <3> QED BY <2>3, <3>1, BanWritten
  <2>4. CASE MissBan("codeban")
    <3>1. banUntil \in Nat /\ banRace \in BOOLEAN BY DEF GuardTyped
    <3> QED BY <2>1, <2>4, <3>1, BanMissed
  <2> QED BY <1>2, <2>3, <2>4 DEF CodeBan
<1> QED BY <1>1, <1>2

\* Every step keeps the types.
LEMMA GuardTypes ==
  ASSUME GuardTyped, \A q \in Tries : WithToken(q), GuardNext
  PROVE  GuardTyped' /\ \A q \in Tries : WithToken(q)'
<1> USE GuardOK DEF GuardOK, counterVars, tempVars, winVars, missVars, LetIn, Bans
<1>1. ASSUME NEW r \in Tries, NEW x, Becomes(r, x),
             x.step \in {"wrong", "right", "codeban", "consume", "reset"} =>
               x.token \in TempTokens /\ x.code \in Codes \union {"wrong"},
             x.step = "right" => x.code # "wrong",
             x.step = "wrong" => x.code = "wrong"
      PROVE  try' \in [Tries -> Try] /\ \A q \in Tries : WithToken(q)'
  BY <1>1 DEF GuardTyped, Becomes, WithToken
<1>2. ASSUME NEW r \in Tries, WrongPassword(r) PROVE GuardTyped' /\ \A q \in Tries : WithToken(q)'
  <2>1. try' \in [Tries -> Try] /\ \A q \in Tries : WithToken(q)'
    BY <1>1, <1>2, Moves DEF None
  <2> QED BY <1>2, <2>1 DEF GuardTyped, WrongPassword
<1>3. ASSUME NEW r \in Tries, CountPassword(r) PROVE GuardTyped' /\ \A q \in Tries : WithToken(q)'
  <2>1. try[r].step = "count" /\ try[r] \in Try BY <1>3 DEF CountPassword, GuardTyped
  <2>2. try' \in [Tries -> Try] /\ \A q \in Tries : WithToken(q)'
    BY <1>1, <1>3, <2>1, Moves DEF None, Try
  <2>3. open' \subseteq Bans /\ slips' \in BOOLEAN
    BY <1>3 DEF GuardTyped, CountPassword, Reopens
  <2>4. fails' \in 0 .. MaxFails /\ failsUntil' \in Nat
    BY <1>3 DEF GuardTyped, CountPassword, Incremented, Live
  <2> QED BY <1>3, <2>2, <2>3, <2>4 DEF GuardTyped, CountPassword
<1>14. ASSUME NEW r \in Tries, CountNothing(r) PROVE GuardTyped' /\ \A q \in Tries : WithToken(q)'
  <2>1. try' \in [Tries -> Try] /\ \A q \in Tries : WithToken(q)'
    BY <1>1, <1>14, Moves DEF None
  <2> QED BY <1>14, <2>1 DEF GuardTyped, CountNothing
<1>4. ASSUME NEW r \in Tries, BanIp(r) PROVE GuardTyped' /\ \A q \in Tries : WithToken(q)'
  <2>1. try' \in [Tries -> Try] /\ \A q \in Tries : WithToken(q)'
    BY <1>1, <1>4, Moves DEF None
  <2>2. banUntil' \in Nat /\ banRace' \in BOOLEAN /\ open' \subseteq Bans /\ slips' \in BOOLEAN
    BY <1>4, BansDone
  <2>3. UNCHANGED <<tick, counterVars, tempVars>> BY <1>4 DEF BanIp
  <2> QED BY <2>1, <2>2, <2>3 DEF GuardTyped
<1>5. ASSUME NEW r \in Tries, NEW t \in TempTokens, NEW c \in Codes \union {"wrong"}, SendCode(r, t, c)
      PROVE  GuardTyped' /\ \A q \in Tries : WithToken(q)'
  <2> DEFINE x == [step |-> IF c = "wrong" THEN "wrong" ELSE "right",
                   count |-> 0, token |-> t, code |-> c]
  <2>0. Becomes(r, x) BY <1>5, SendMoves
  <2>1. try' \in [Tries -> Try] /\ \A q \in Tries : WithToken(q)'
    BY <1>1, <2>0
  <2> QED BY <1>5, <2>1 DEF GuardTyped, SendCode
<1>6. ASSUME NEW r \in Tries, CountCode(r) PROVE GuardTyped' /\ \A q \in Tries : WithToken(q)'
  <2>1. try[r].step = "wrong" /\ try[r] \in Try BY <1>6 DEF CountCode, GuardTyped
  <2>2. try[r].token \in TempTokens /\ try[r].code \in Codes \union {"wrong"} BY <2>1 DEF WithToken
  <2>3. try' \in [Tries -> Try] /\ \A q \in Tries : WithToken(q)'
    BY <1>1, <1>6, <2>1, <2>2, Moves DEF None, Try
  <2>4. open' \subseteq Bans /\ slips' \in BOOLEAN
    BY <1>6 DEF GuardTyped, CountCode, Reopens
  <2>5. ipFails' \in 0 .. MaxFails /\ ipFailsUntil' \in Nat
    BY <1>6 DEF GuardTyped, CountCode, Incremented, Live
  <2>6. passedOver' \subseteq TempTokens /\ tempFails' \in [TempTokens -> Nat]
    BY <1>6, <2>2 DEF GuardTyped, CountCode, PassOver
  <2> QED BY <1>6, <2>3, <2>4, <2>5, <2>6 DEF GuardTyped, CountCode
<1>7. ASSUME NEW r \in Tries, CodeBan(r) PROVE GuardTyped' /\ \A q \in Tries : WithToken(q)'
  <2>1. try' \in [Tries -> Try] /\ \A q \in Tries : WithToken(q)'
    BY <1>1, <1>7, Moves DEF None
  <2>2. banUntil' \in Nat /\ banRace' \in BOOLEAN /\ open' \subseteq Bans /\ slips' \in BOOLEAN
    BY <1>7, BansDone
  <2>3. UNCHANGED <<tick, counterVars, issued, tempFails, consumed, used, codeWins>> BY <1>7 DEF CodeBan
  <2>4. try[r].token \in TempTokens BY <1>7 DEF CodeBan, WithToken
  <2>5. passedOver' \subseteq TempTokens BY <1>7, <2>4 DEF CodeBan, PassOver, GuardTyped
  <2> QED BY <2>1, <2>2, <2>3, <2>5 DEF GuardTyped
<1>8. ASSUME NEW r \in Tries, SpendCode(r) PROVE GuardTyped' /\ \A q \in Tries : WithToken(q)'
  <2>1. try[r].step = "right" /\ try[r] \in Try BY <1>8 DEF SpendCode, GuardTyped
  <2>2. try[r].token \in TempTokens /\ try[r].code \in Codes BY <2>1 DEF WithToken
  <2>3. try' \in [Tries -> Try] /\ \A q \in Tries : WithToken(q)'
    BY <1>1, <1>8, <2>1, <2>2, Moves DEF None, Try
  <2> QED BY <1>8, <2>2, <2>3 DEF GuardTyped, SpendCode
<1>9. ASSUME NEW r \in Tries, Consume(r) PROVE GuardTyped' /\ \A q \in Tries : WithToken(q)'
  <2>1. try[r].step = "consume" /\ try[r] \in Try BY <1>9 DEF Consume, GuardTyped
  <2>2. try[r].token \in TempTokens /\ try[r].code \in Codes \union {"wrong"} BY <2>1 DEF WithToken
  <2>3. try' \in [Tries -> Try] /\ \A q \in Tries : WithToken(q)'
    BY <1>1, <1>9, <2>1, <2>2, Moves DEF None, Try
  <2> QED BY <1>9, <2>2, <2>3 DEF GuardTyped, Consume, Consumed, PassOver
<1>10. ASSUME NEW r \in Tries, ResetFailures(r) PROVE GuardTyped' /\ \A q \in Tries : WithToken(q)'
  <2>1. try' \in [Tries -> Try] /\ \A q \in Tries : WithToken(q)'
    BY <1>1, <1>10, Moves DEF None
  <2>2. fails' \in 0 .. MaxFails /\ ipFails' \in 0 .. MaxFails /\ open' \subseteq Bans
    <3>1. 0 \in 0 .. MaxFails OBVIOUS
    <3>2. /\ fails \in 0 .. MaxFails /\ ipFails \in 0 .. MaxFails /\ open \subseteq Bans
          /\ (fails' = 0 /\ ipFails' = 0 /\ open' = {}) \/ UNCHANGED <<fails, ipFails, open>>
      BY <1>10 DEF GuardTyped, ResetFailures
    <3> QED BY <3>1, <3>2
  <2>3. UNCHANGED <<tick, failsUntil, ipFailsUntil, banUntil, tempVars, banRace, slips>>
    BY <1>10 DEF ResetFailures
  <2> QED BY <2>1, <2>2, <2>3 DEF GuardTyped
<1>11. ASSUME NEW t \in TempTokens, RightPassword(t) PROVE GuardTyped' /\ \A q \in Tries : WithToken(q)'
  BY <1>11 DEF GuardTyped, RightPassword, WithToken
<1>12. CASE UnbanIp
  <2>1. /\ fails' = 0 /\ ipFails' = 0 /\ banUntil' = 0 /\ open' = {}
        /\ UNCHANGED <<tick, failsUntil, ipFailsUntil, tempVars, try, banRace, slips>>
    BY <1>12 DEF UnbanIp, UnbanDeletes
  <2> QED BY <2>1 DEF GuardTyped, WithToken
<1>15. CASE GuardTick
  <2>1. /\ tick' = tick + 1 /\ tick' \in 1 .. LastTick
        /\ issued' = {} /\ consumed' = {} /\ passedOver' = {}
        /\ tempFails' \in [TempTokens -> Nat]
        /\ UNCHANGED <<counterVars, banUntil, used, codeWins, try, banRace, missVars>>
    BY <1>15 DEF GuardTick, GuardTyped
  <2> QED BY <2>1 DEF GuardTyped, WithToken
<1>13. CASE GuardCrash
  <2>1. try' = [r \in Tries |-> None] BY <1>13 DEF GuardCrash
  <2>2. try' \in [Tries -> Try]
    <3>1. None \in Try BY DEF None, Try, TrySteps
    <3> QED BY <2>1, <3>1
  <2>3. \A q \in Tries : WithToken(q)' BY <2>1 DEF WithToken, None
  <2>4. open' \subseteq Bans /\ slips' \in BOOLEAN /\ passedOver' \subseteq TempTokens
    BY <1>13 DEF GuardTyped, GuardCrash
  <2> QED BY <1>13, <2>2, <2>3, <2>4 DEF GuardTyped, GuardCrash
<1> QED BY <1>13, <1>14, <1>15, <1>2, <1>3, <1>4, <1>5, <1>6, <1>7, <1>8, <1>9, <1>10, <1>11, <1>12 DEF GuardNext

(* The counters. *)

LEMMA CounterEnters ==
  ASSUME NEW present \in Nat, NEW n \in Nat, NEW until \in Nat, NEW limit \in Nat \ {0},
         NEW size \in Nat, NEW counting \in Nat, NEW banning \in Nat, NEW ban \in Nat,
         CounterOK(present, n, until, limit, size, counting, banning, ban),
         present >= ban, counting + banning + 1 <= size
  PROVE  CounterOK(present, n, until, limit, size, counting + 1, banning, ban)
BY DEF CounterOK

LEMMA CounterCounts ==
  ASSUME NEW present \in Nat, NEW n \in Nat, NEW until \in Nat, NEW limit \in Nat \ {0},
         NEW size \in Nat, NEW counting \in Nat, NEW banning \in Nat, NEW ban \in Nat,
         CounterOK(present, n, until, limit, size, counting, banning, ban),
         counting >= 1, NEW n2 \in Nat, n2 = (IF present < until THEN n ELSE 0) + 1
  PROVE  CounterOK(present, n2, present + Window, limit, size, counting - 1,
                   IF n2 >= limit THEN banning + 1 ELSE banning, ban)
BY GuardOK DEF CounterOK, GuardOK

LEMMA CounterBanned ==
  ASSUME NEW present \in Nat, NEW n \in Nat, NEW until \in Nat, NEW limit \in Nat \ {0},
         NEW size \in Nat, NEW counting \in Nat, NEW banning \in Nat, NEW ban \in Nat,
         CounterOK(present, n, until, limit, size, counting, banning, ban),
         NEW banning2 \in Nat, NEW ban2 \in Nat, ban2 >= present + Window
  PROVE  CounterOK(present, n, until, limit, size, counting, banning2, ban2)
BY GuardOK DEF CounterOK, GuardOK

LEMMA CounterLeaves ==
  ASSUME NEW present \in Nat, NEW n \in Nat, NEW until \in Nat, NEW limit \in Nat \ {0},
         NEW size \in Nat, NEW counting \in Nat, NEW banning \in Nat, NEW ban \in Nat,
         CounterOK(present, n, until, limit, size, counting, banning, ban),
         NEW fewer \in Nat, fewer <= counting
  PROVE  CounterOK(present, n, until, limit, size, fewer, banning, ban)
BY DEF CounterOK

LEMMA CounterClears ==
  ASSUME NEW present \in Nat, NEW n \in Nat, NEW until \in Nat, NEW limit \in Nat \ {0},
         NEW size \in Nat, NEW counting \in Nat, NEW banning \in Nat, NEW ban \in Nat,
         CounterOK(present, n, until, limit, size, counting, banning, ban),
         counting <= size, NEW ban2 \in Nat
  PROVE  CounterOK(present, 0, until, limit, size, counting, banning, ban2)
BY GuardOK DEF CounterOK, GuardOK

LEMMA CounterTicks ==
  ASSUME NEW present \in Nat, NEW n \in Nat, NEW until \in Nat, NEW limit \in Nat \ {0},
         NEW size \in Nat, NEW ban \in Nat,
         CounterOK(present, n, until, limit, size, 0, 0, ban)
  PROVE  CounterOK(present + 1, n, until, limit, size, 0, 0, ban)
BY GuardOK DEF CounterOK, GuardOK

\* An idle request leaves room for one more of those that count and ban.
LEMMA Room ==
  ASSUME GuardTyped, NEW r \in Tries, NEW s, NEW u, s # u, try[r].step \notin {s, u}
  PROVE  Number(s) + Number(u) + 1 <= Cardinality(Tries)
<1> DEFINE both == Doing(s) \union Doing(u)
<1>1. /\ Doing(s) \intersect Doing(u) = {} /\ r \notin both
      /\ both \union {r} \in SUBSET Tries
  BY DEF Doing
<1>2. IsFiniteSet(Doing(s)) /\ IsFiniteSet(Doing(u)) /\ Number(s) \in Nat /\ Number(u) \in Nat
  BY Numbers
<1>3. IsFiniteSet(both) /\ Cardinality(both) = Number(s) + Number(u)
  <2>1. Cardinality(Doing(s) \intersect Doing(u)) = 0 BY <1>1, FS_EmptySet
  <2>2. /\ IsFiniteSet(both)
        /\ Cardinality(both) = Number(s) + Number(u) - Cardinality(Doing(s) \intersect Doing(u))
    BY <1>2, FS_Union DEF Number
  <2> QED BY <1>2, <2>1, <2>2
<1>4. Cardinality(both \union {r}) = Number(s) + Number(u) + 1
  BY <1>1, <1>3, FS_AddElement
<1>5. IsFiniteSet(Tries) BY GuardOK DEF GuardOK
<1> HIDE DEF both
<1> QED BY <1>1, <1>4, <1>5, FS_Subset

\* Every step keeps a counter over its limit with its ban, or with what was to write it.
LEMMA HeldStep ==
  ASSUME GuardTyped, \A q \in Tries : WithToken(q), ~Immune, PasswordHeld, CodeHeld, GuardNext
  PROVE  PasswordHeld' /\ CodeHeld'
<1> USE DEF PasswordHeld, CodeHeld
<1>0. /\ {BanAfter, IpBanAfter, Window, BanFor, CodeBanFor, LongBanFor} \subseteq Nat \ {0}
      /\ Window <= BanFor /\ BanFor <= CodeBanFor /\ CodeBanFor <= LongBanFor
      /\ tick \in Nat /\ fails \in Nat /\ failsUntil \in Nat /\ ipFails \in Nat
      /\ ipFailsUntil \in Nat /\ banUntil \in Nat
  BY GuardOK DEF GuardOK, GuardTyped
\* What a kind of ban keeps when a step leaves its counter and the ban alone.
<1> DEFINE Still(kind) == Writing(kind) \/ kind \in open => Writing(kind)' \/ kind \in open'
<1>1. ASSUME UNCHANGED <<tick, fails, failsUntil, banUntil>>, Still("ban") PROVE PasswordHeld'
  BY <1>1 DEF CounterHeld
<1>2. ASSUME UNCHANGED <<tick, ipFails, ipFailsUntil, banUntil>>, Still("codeban") PROVE CodeHeld'
  BY <1>2 DEF CounterHeld
<1> HIDE DEF PasswordHeld, CodeHeld
<1>3. ASSUME NEW r \in Tries, NEW x, Becomes(r, x), NEW kind, try[r].step # kind,
             kind \in open => kind \in open'
      PROVE  Still(kind)
  <2>1. ASSUME NEW q \in Tries, try[q].step = kind PROVE try'[q].step = kind
    BY <1>3, <2>1 DEF Becomes, GuardTyped
  <2> QED BY <1>3, <2>1 DEF Writing
<1>4. ASSUME NEW r \in Tries, NEW x, Becomes(r, x), try[r].step \notin Bans, open \subseteq open',
             UNCHANGED <<tick, counterVars, banUntil>>
      PROVE  PasswordHeld' /\ CodeHeld'
  BY <1>1, <1>2, <1>3, <1>4 DEF Bans, counterVars
<1>5. ASSUME NEW r \in Tries, WrongPassword(r) \/ CountNothing(r) \/ SpendCode(r) \/ Consume(r)
      PROVE  PasswordHeld' /\ CodeHeld'
  <2>1. PICK x : Becomes(r, x) BY <1>5, Moves
  <2>2. try[r].step \notin Bans /\ open' = open /\ UNCHANGED <<tick, counterVars, banUntil>>
    BY <1>5 DEF WrongPassword, CountNothing, SpendCode, Consume, Bans, None, missVars
  <2> QED BY <1>4, <2>1, <2>2
<1>6. ASSUME NEW r \in Tries, NEW t \in TempTokens, NEW c \in Codes \union {"wrong"}, SendCode(r, t, c)
      PROVE  PasswordHeld' /\ CodeHeld'
  <2>1. PICK x : Becomes(r, x) BY <1>6, SendMoves
  <2>2. try[r].step \notin Bans /\ open' = open /\ UNCHANGED <<tick, counterVars, banUntil>>
    BY <1>6 DEF SendCode, Bans, None
  <2> QED BY <1>4, <2>1, <2>2
<1>7. ASSUME NEW r \in Tries, CountPassword(r) PROVE PasswordHeld' /\ CodeHeld'
  <2>1. /\ try[r].step = "count" /\ failsUntil' = tick + Window /\ fails' \in Nat
        /\ UNCHANGED <<tick, ipFails, ipFailsUntil, banUntil>>
    BY <1>0, <1>7 DEF CountPassword, Incremented, Live
  <2>2. PICK x : /\ Becomes(r, x)
                 /\ fails' >= BanAfter => x.step = "ban" \/ "ban" \in open'
    <3>1. CASE fails' >= BanAfter /\ \E x : Becomes(r, x) /\ x.step = "ban" /\ x.count = fails'
      BY <3>1
    <3>2. CASE fails' < BanAfter /\ Becomes(r, None)
      <4>1. ~(fails' >= BanAfter) BY <1>0, <2>1, <3>2
      <4> QED BY <3>2, <4>1
    <3>3. CASE Becomes(r, None) /\ "ban" \in open' BY <3>3
    <3> QED BY <1>7, <3>1, <3>2, <3>3, Moves
  <2>3. "codeban" \in open => "codeban" \in open' BY <1>7 DEF CountPassword, Reopens
  <2>4. CodeHeld' BY <1>2, <1>3, <2>1, <2>2, <2>3
  <2>5. x.step = "ban" => Writing("ban")' BY <2>2 DEF Writing, Becomes, GuardTyped
  <2>6. PasswordHeld' BY <1>0, <2>1, <2>2, <2>5 DEF PasswordHeld, CounterHeld
  <2> QED BY <2>4, <2>6
<1>8. ASSUME NEW r \in Tries, CountCode(r) PROVE PasswordHeld' /\ CodeHeld'
  <2>1. /\ try[r].step = "wrong" /\ ipFailsUntil' = tick + Window /\ ipFails' \in Nat
        /\ UNCHANGED <<tick, fails, failsUntil, banUntil>>
    BY <1>0, <1>8 DEF CountCode, Incremented, Live
  <2>2. PICK x : /\ Becomes(r, x)
                 /\ ipFails' >= IpBanAfter => x.step = "codeban" \/ "codeban" \in open'
    <3>1. CASE ipFails' >= IpBanAfter /\ Becomes(r, [try[r] EXCEPT !.step = "codeban"])
      <4>1. [try[r] EXCEPT !.step = "codeban"].step = "codeban" BY DEF GuardTyped, Try
      <4> QED BY <3>1, <4>1
    <3>2. CASE ipFails' < IpBanAfter /\ \E x : Becomes(r, x) BY <1>0, <2>1, <3>2
    <3>3. CASE Becomes(r, None) /\ "codeban" \in open' BY <3>3
    <3> QED BY <1>8, <3>1, <3>2, <3>3, Moves
  <2>3. "ban" \in open => "ban" \in open' BY <1>8 DEF CountCode, Reopens
  <2>4. PasswordHeld' BY <1>1, <1>3, <2>1, <2>2, <2>3
  <2>5. x.step = "codeban" => Writing("codeban")' BY <2>2 DEF Writing, Becomes, GuardTyped
  <2>6. CodeHeld' BY <1>0, <2>1, <2>2, <2>5 DEF CodeHeld, CounterHeld
  <2> QED BY <2>4, <2>6
<1>9. ASSUME NEW r \in Tries, BanIp(r) \/ CodeBan(r) PROVE PasswordHeld' /\ CodeHeld'
  <2>1. UNCHANGED <<tick, counterVars>> BY <1>9 DEF BanIp, CodeBan
  <2>2. CASE banUntil' \in Nat /\ banUntil' >= tick + Window
    BY <1>0, <2>1, <2>2 DEF PasswordHeld, CodeHeld, CounterHeld, counterVars
  <2>3. CASE banUntil' = banUntil /\ open' = open \union {try[r].step}
    <3>1. PICK x : Becomes(r, x) BY <1>9, Moves
    <3>2. ASSUME NEW kind PROVE Still(kind)
      <4>1. CASE try[r].step = kind BY <2>3, <4>1
      <4>2. CASE try[r].step # kind BY <1>3, <2>3, <3>1, <4>2
      <4> QED BY <4>1, <4>2
    <3> QED BY <1>1, <1>2, <2>1, <2>3, <3>2 DEF counterVars
  <2> QED BY <1>9, <2>2, <2>3, BansDone
<1>10. ASSUME fails' = 0, ipFails' = 0, UNCHANGED <<tick, failsUntil, ipFailsUntil>>
       PROVE  PasswordHeld' /\ CodeHeld'
  BY <1>0, <1>10 DEF PasswordHeld, CodeHeld, CounterHeld
<1>11. ASSUME NEW r \in Tries, ResetFailures(r) PROVE PasswordHeld' /\ CodeHeld'
  <2>1. CASE fails' = 0 /\ ipFails' = 0 BY <1>10, <1>11, <2>1 DEF ResetFailures
  <2>2. CASE UNCHANGED <<fails, ipFails, open>>
    <3>1. PICK x : Becomes(r, x) BY <1>11, Moves
    <3>2. try[r].step \notin Bans /\ UNCHANGED <<tick, counterVars, banUntil>>
      BY <1>11, <2>2 DEF ResetFailures, Bans, counterVars
    <3> QED BY <1>4, <2>2, <3>1, <3>2
  <2> QED BY <1>11, <2>1, <2>2 DEF ResetFailures
<1>12. CASE \E t \in TempTokens : RightPassword(t)
  <2>1. UNCHANGED <<tick, counterVars, banUntil, try, open>> BY <1>12 DEF RightPassword
  <2>2. ASSUME NEW kind PROVE Still(kind) BY <2>1 DEF Writing
  <2> QED BY <1>1, <1>2, <2>1, <2>2 DEF counterVars
<1>13. CASE UnbanIp BY <1>10, <1>13 DEF UnbanIp, UnbanDeletes
<1>14. CASE GuardTick
  <2>1. /\ tick' = tick + 1 /\ UNCHANGED <<counterVars, banUntil, open>>
        /\ \A r \in Tries : try[r] = None
    BY <1>14 DEF GuardTick, missVars
  <2>2. ~Writing("ban") /\ ~Writing("codeban") BY <2>1 DEF Writing, None
  <2> QED BY <1>0, <2>1, <2>2 DEF PasswordHeld, CodeHeld, CounterHeld, counterVars
<1>15. CASE GuardCrash
  <2>1. UNCHANGED <<tick, counterVars, banUntil>> BY <1>15 DEF GuardCrash
  <2>2. ASSUME NEW kind \in Bans PROVE Still(kind) BY <1>15 DEF GuardCrash, Writing
  <2> QED BY <1>1, <1>2, <2>1, <2>2 DEF counterVars, Bans
<1> QED BY <1>5, <1>6, <1>7, <1>8, <1>9, <1>11, <1>12, <1>13, <1>14, <1>15 DEF GuardNext

\* Every step that misses no ban keeps both counters.
LEMMA CountersStep ==
  ASSUME GuardTyped, \A q \in Tries : WithToken(q), ~Immune, PasswordCounter, CodeCounter, GuardNext,
         ~slips'
  PROVE  PasswordCounter' /\ CodeCounter'
<1> USE DEF PasswordCounter, CodeCounter
<1>0. /\ {BanAfter, IpBanAfter, Window, BanFor, CodeBanFor, LongBanFor} \subseteq Nat \ {0}
      /\ Window <= BanFor /\ BanFor <= CodeBanFor /\ CodeBanFor <= LongBanFor
      /\ tick \in Nat /\ fails \in Nat /\ failsUntil \in Nat /\ ipFails \in Nat
      /\ ipFailsUntil \in Nat /\ banUntil \in Nat
  BY GuardOK DEF GuardOK, GuardTyped
<1>1. \A s : Number(s) \in Nat /\ Number(s) <= Size BY Numbers DEF Size
<1>2. Size \in Nat BY GuardOK, FS_CardinalityType DEF GuardOK, Size
<1>3. ASSUME NEW r \in Tries, WrongPassword(r) PROVE PasswordCounter' /\ CodeCounter'
  <2>1. Becomes(r, [None EXCEPT !.step = "count"]) /\ try[r] = None BY <1>3, Moves DEF WrongPassword
  <2>2. /\ Number("count")' = Number("count") + 1 /\ Number("ban")' = Number("ban")
        /\ Number("wrong")' = Number("wrong") /\ Number("codeban")' = Number("codeban")
    BY <1>1, <2>1, NumberMoves DEF None
  <2>3. UNCHANGED <<tick, counterVars, banUntil>> /\ tick >= banUntil
    <3>1. UNCHANGED <<tick, counterVars, banUntil>> /\ LetIn BY <1>3 DEF WrongPassword
    <3>2. ~Banned BY <3>1, Zenon DEF LetIn
    <3> QED BY <1>0, <3>1, <3>2 DEF Banned
  <2>4. Number("count") + Number("ban") + 1 <= Size BY <2>1, Room DEF None, Size
  <2>5. CounterOK(tick, fails, failsUntil, BanAfter, Size, Number("count") + 1, Number("ban"), banUntil)
    BY <1>0, <1>1, <1>2, <2>3, <2>4, CounterEnters
  <2> QED BY <2>2, <2>3, <2>5 DEF counterVars, Size
<1>4. ASSUME NEW r \in Tries, CountPassword(r) PROVE PasswordCounter' /\ CodeCounter'
  <2>1. /\ try[r].step = "count" /\ failsUntil' = tick + Window
        /\ fails' = (IF tick < failsUntil THEN fails ELSE 0) + 1
        /\ UNCHANGED <<tick, ipFails, ipFailsUntil, banUntil>>
    BY <1>4 DEF CountPassword, Incremented, Live
  <2>2. fails' \in Nat BY <1>0, <2>1
  <2>3. /\ Number("count")' = Number("count") - 1
        /\ Number("ban")' = IF fails' >= BanAfter THEN Number("ban") + 1 ELSE Number("ban")
        /\ Number("wrong")' = Number("wrong") /\ Number("codeban")' = Number("codeban")
    <3>1. CASE fails' >= BanAfter /\ \E x : Becomes(r, x) /\ x.step = "ban" /\ x.count = fails'
      <4>1. PICK x : Becomes(r, x) /\ x.step = "ban" BY <3>1
      <4> QED BY <1>1, <2>1, <3>1, <4>1, NumberMoves
    <3>2. CASE fails' < BanAfter /\ Becomes(r, None)
      BY <1>0, <1>1, <2>1, <2>2, <3>2, NumberMoves DEF None
    <3> QED BY <1>4, <3>1, <3>2, Moves
  <2>4. Number("count") >= 1
    <3>1. Number("count") # 0 BY <2>1, Numbers DEF Doing
    <3> QED BY <1>1, <3>1
  <2>5. CounterOK(tick, fails', tick + Window, BanAfter, Size, Number("count") - 1,
                  IF fails' >= BanAfter THEN Number("ban") + 1 ELSE Number("ban"), banUntil)
    BY <1>0, <1>1, <1>2, <2>1, <2>2, <2>4, CounterCounts
  <2> QED BY <2>1, <2>3, <2>5 DEF Size
<1>5. ASSUME NEW r \in Tries, BanIp(r) PROVE PasswordCounter' /\ CodeCounter'
  <2>1. Becomes(r, None) /\ try[r].step = "ban" BY <1>5, Moves DEF BanIp
  <2>2. /\ Number("count")' = Number("count") /\ Number("ban")' = Number("ban") - 1
        /\ Number("wrong")' = Number("wrong") /\ Number("codeban")' = Number("codeban")
    BY <1>1, <2>1, NumberMoves DEF None
  <2>3. UNCHANGED <<tick, counterVars>> /\ banUntil' \in Nat /\ banUntil' >= tick + Window
    <3>1. UNCHANGED <<tick, counterVars>> BY <1>5 DEF BanIp
    <3> QED BY <1>5, <3>1, BansDone
  <2>4. Number("ban") - 1 \in Nat
    <3>1. Number("ban") # 0 BY <2>1, Numbers DEF Doing
    <3> QED BY <1>1, <3>1
  <2>5. CounterOK(tick, fails, failsUntil, BanAfter, Size, Number("count"), Number("ban") - 1, banUntil')
    BY <1>0, <1>1, <1>2, <2>3, <2>4, CounterBanned
  <2>6. CounterOK(tick, ipFails, ipFailsUntil, IpBanAfter, Size, Number("wrong"), Number("codeban"), banUntil')
    BY <1>0, <1>1, <1>2, <2>3, CounterBanned
  <2> QED BY <2>2, <2>3, <2>5, <2>6 DEF counterVars, Size
<1>6. ASSUME NEW r \in Tries, NEW t \in TempTokens, NEW c \in Codes \union {"wrong"}, SendCode(r, t, c)
      PROVE  PasswordCounter' /\ CodeCounter'
  <2> DEFINE step == IF c = "wrong" THEN "wrong" ELSE "right"
  <2>1. try[r] = None /\ Becomes(r, [step |-> step, count |-> 0, token |-> t, code |-> c])
    BY <1>6, SendMoves
  <2>2. /\ Number("count")' = Number("count") /\ Number("ban")' = Number("ban")
        /\ Number("wrong")' = Number("wrong") + (IF c = "wrong" THEN 1 ELSE 0)
        /\ Number("codeban")' = Number("codeban")
    BY <1>1, <2>1, NumberMoves DEF None
  <2>3. UNCHANGED <<tick, counterVars, banUntil>> /\ tick >= banUntil
    <3>1. UNCHANGED <<tick, counterVars, banUntil>> /\ LetIn BY <1>6 DEF SendCode
    <3>2. ~Banned BY <3>1, Zenon DEF LetIn
    <3> QED BY <1>0, <3>1, <3>2 DEF Banned
  <2>4. Number("wrong") + Number("codeban") + 1 <= Size BY <2>1, Room DEF None, Size
  <2>5. CounterOK(tick, ipFails, ipFailsUntil, IpBanAfter, Size, Number("wrong") + 1, Number("codeban"), banUntil)
    BY <1>0, <1>1, <1>2, <2>3, <2>4, CounterEnters
  <2>6. CASE c = "wrong" BY <2>2, <2>3, <2>5, <2>6 DEF counterVars, Size
  <2>7. CASE c # "wrong" BY <1>1, <2>2, <2>3, <2>7 DEF counterVars, Size
  <2> QED BY <2>6, <2>7
<1>7. ASSUME NEW r \in Tries, CountCode(r) PROVE PasswordCounter' /\ CodeCounter'
  <2>1. /\ try[r].step = "wrong" /\ ipFailsUntil' = tick + Window
        /\ ipFails' = (IF tick < ipFailsUntil THEN ipFails ELSE 0) + 1
        /\ UNCHANGED <<tick, fails, failsUntil, banUntil>>
    BY <1>7 DEF CountCode, Incremented, Live
  <2>2. ipFails' \in Nat BY <1>0, <2>1
  <2>3. /\ Number("count")' = Number("count") /\ Number("ban")' = Number("ban")
        /\ Number("wrong")' = Number("wrong") - 1
        /\ Number("codeban")' = IF ipFails' >= IpBanAfter THEN Number("codeban") + 1 ELSE Number("codeban")
    <3>2. CASE ipFails' >= IpBanAfter /\ Becomes(r, [try[r] EXCEPT !.step = "codeban"])
      <4>1. PICK x : Becomes(r, x) /\ x.step = "codeban" BY <3>2 DEF GuardTyped, Try
      <4> QED BY <1>1, <2>1, <3>2, <4>1, NumberMoves
    <3>3. CASE ipFails' < IpBanAfter /\ Becomes(r, [try[r] EXCEPT !.step = "consume"])
      <4>1. PICK x : Becomes(r, x) /\ x.step = "consume" BY <3>3 DEF GuardTyped, Try
      <4> QED BY <1>0, <1>1, <2>1, <2>2, <3>3, <4>1, NumberMoves
    <3>4. CASE ipFails' < IpBanAfter /\ Becomes(r, None)
      BY <1>0, <1>1, <2>1, <2>2, <3>4, NumberMoves DEF None
    <3> QED BY <1>7, <3>2, <3>3, <3>4, Moves
  <2>4. Number("wrong") >= 1
    <3>1. Number("wrong") # 0 BY <2>1, Numbers DEF Doing
    <3> QED BY <1>1, <3>1
  <2>5. CounterOK(tick, ipFails', tick + Window, IpBanAfter, Size, Number("wrong") - 1,
                  IF ipFails' >= IpBanAfter THEN Number("codeban") + 1 ELSE Number("codeban"), banUntil)
    BY <1>0, <1>1, <1>2, <2>1, <2>2, <2>4, CounterCounts
  <2> QED BY <2>1, <2>3, <2>5 DEF Size
<1>8. ASSUME NEW r \in Tries, CodeBan(r) PROVE PasswordCounter' /\ CodeCounter'
  <2>1. Becomes(r, None) /\ try[r].step = "codeban" BY <1>8, Moves DEF CodeBan
  <2>2. /\ Number("count")' = Number("count") /\ Number("ban")' = Number("ban")
        /\ Number("wrong")' = Number("wrong") /\ Number("codeban")' = Number("codeban") - 1
    BY <1>1, <2>1, NumberMoves DEF None
  <2>3. UNCHANGED <<tick, counterVars>> /\ banUntil' \in Nat /\ banUntil' >= tick + Window
    <3>1. UNCHANGED <<tick, counterVars>> BY <1>8 DEF CodeBan
    <3> QED BY <1>8, <3>1, BansDone
  <2>4. Number("codeban") - 1 \in Nat
    <3>1. Number("codeban") # 0 BY <2>1, Numbers DEF Doing
    <3> QED BY <1>1, <3>1
  <2>5. CounterOK(tick, fails, failsUntil, BanAfter, Size, Number("count"), Number("ban"), banUntil')
    BY <1>0, <1>1, <1>2, <2>3, CounterBanned
  <2>6. CounterOK(tick, ipFails, ipFailsUntil, IpBanAfter, Size, Number("wrong"), Number("codeban") - 1, banUntil')
    BY <1>0, <1>1, <1>2, <2>3, <2>4, CounterBanned
  <2> QED BY <2>2, <2>3, <2>5, <2>6 DEF counterVars, Size
<1>9. ASSUME NEW r \in Tries, SpendCode(r) \/ Consume(r) PROVE PasswordCounter' /\ CodeCounter'
  <2>2. PICK x : Becomes(r, x) /\ x.step \notin {"count", "ban", "wrong", "codeban"}
    <3>1. CASE Becomes(r, None) BY <3>1 DEF None
    <3>2. CASE Becomes(r, [try[r] EXCEPT !.step = "consume"]) BY <3>2 DEF GuardTyped, Try
    <3>3. CASE Becomes(r, [try[r] EXCEPT !.step = "reset"]) BY <3>3 DEF GuardTyped, Try
    <3> QED BY <1>9, <3>1, <3>2, <3>3, Moves
  <2>3. try[r].step \notin {"count", "ban", "wrong", "codeban"} BY <1>9 DEF SpendCode, Consume
  <2>4. /\ Number("count")' = Number("count") /\ Number("ban")' = Number("ban")
        /\ Number("wrong")' = Number("wrong") /\ Number("codeban")' = Number("codeban")
    BY <1>1, <2>2, <2>3, NumberMoves
  <2>5. UNCHANGED <<tick, counterVars, banUntil>> BY <1>9 DEF SpendCode, Consume
  <2> QED BY <2>4, <2>5 DEF counterVars, Size
<1>10. ASSUME NEW r \in Tries, ResetFailures(r) PROVE PasswordCounter' /\ CodeCounter'
  <2>1. Becomes(r, None) /\ try[r].step = "reset" BY <1>10, Moves DEF ResetFailures
  <2>2. /\ Number("count")' = Number("count") /\ Number("ban")' = Number("ban")
        /\ Number("wrong")' = Number("wrong") /\ Number("codeban")' = Number("codeban")
    BY <1>1, <2>1, NumberMoves DEF None
  <2>3. UNCHANGED <<tick, failsUntil, ipFailsUntil, banUntil>>
    BY <1>10 DEF ResetFailures
  <2>4. CounterOK(tick, 0, failsUntil, BanAfter, Size, Number("count"), Number("ban"), banUntil)
    BY <1>0, <1>1, <1>2, CounterClears
  <2>5. CounterOK(tick, 0, ipFailsUntil, IpBanAfter, Size, Number("wrong"), Number("codeban"), banUntil)
    BY <1>0, <1>1, <1>2, CounterClears
  <2>6. CASE fails' = 0 /\ ipFails' = 0 BY <2>2, <2>3, <2>4, <2>5, <2>6 DEF Size
  <2>7. CASE UNCHANGED <<fails, ipFails>> BY <2>2, <2>3, <2>7 DEF Size
  <2> QED BY <1>10, <2>6, <2>7 DEF ResetFailures
<1>11. CASE \E t \in TempTokens : RightPassword(t)
  BY <1>11 DEF RightPassword, counterVars, Number, Doing, Size
<1>12. CASE UnbanIp
  <2>1. /\ UNCHANGED <<tick, failsUntil, ipFailsUntil, try>> /\ fails' = 0 /\ ipFails' = 0 /\ banUntil' = 0
    BY <1>12 DEF UnbanIp, UnbanDeletes
  <2>2. CounterOK(tick, 0, failsUntil, BanAfter, Size, Number("count"), Number("ban"), 0)
    BY <1>0, <1>1, <1>2, CounterClears
  <2>3. CounterOK(tick, 0, ipFailsUntil, IpBanAfter, Size, Number("wrong"), Number("codeban"), 0)
    BY <1>0, <1>1, <1>2, CounterClears
  <2> QED BY <2>1, <2>2, <2>3 DEF Number, Doing, Size
<1>13. CASE GuardTick
  <2>1. tick' = tick + 1 /\ UNCHANGED <<counterVars, banUntil, try>> /\ \A r \in Tries : try[r] = None
    BY <1>13 DEF GuardTick
  <2>2. ASSUME NEW s, s # "idle" PROVE Number(s) = 0 /\ Number(s)' = Number(s)
    <3>1. Doing(s) = {} BY <2>1, <2>2 DEF Doing, None
    <3> QED BY <2>1, <3>1, Numbers DEF Number, Doing
  <2>3. CounterOK(tick + 1, fails, failsUntil, BanAfter, Size, 0, 0, banUntil)
    BY <1>0, <1>2, <2>2, CounterTicks
  <2>4. CounterOK(tick + 1, ipFails, ipFailsUntil, IpBanAfter, Size, 0, 0, banUntil)
    BY <1>0, <1>2, <2>2, CounterTicks
  <2> QED BY <2>1, <2>2, <2>3, <2>4 DEF counterVars, Size
<1>14. ASSUME NEW r \in Tries, CountNothing(r) PROVE PasswordCounter' /\ CodeCounter'
  <2>1. Becomes(r, None) /\ try[r].step \in {"count", "wrong"} BY <1>14, Moves DEF CountNothing
  <2>2. /\ Number("count")' \in Nat /\ Number("count")' <= Number("count")
        /\ Number("wrong")' \in Nat /\ Number("wrong")' <= Number("wrong")
        /\ Number("ban")' = Number("ban") /\ Number("codeban")' = Number("codeban")
    <3>1. /\ try[r].step = "count" => Number("count") # 0
          /\ try[r].step = "wrong" => Number("wrong") # 0
      BY Numbers DEF Doing
    <3> QED BY <1>1, <2>1, <3>1, NumberMoves DEF None
  <2>3. UNCHANGED <<tick, counterVars, banUntil>> BY <1>14 DEF CountNothing
  <2>4. CounterOK(tick, fails, failsUntil, BanAfter, Size, Number("count")', Number("ban"), banUntil)
    BY <1>0, <1>1, <1>2, <2>2, CounterLeaves
  <2>5. CounterOK(tick, ipFails, ipFailsUntil, IpBanAfter, Size, Number("wrong")', Number("codeban"), banUntil)
    BY <1>0, <1>1, <1>2, <2>2, CounterLeaves
  <2> QED BY <2>2, <2>3, <2>4, <2>5 DEF counterVars, Size
<1>15. CASE GuardCrash
  <2>1. /\ try' = [r \in Tries |-> None] /\ UNCHANGED <<tick, counterVars, banUntil>>
        /\ {r \in Tries : try[r].step \in Bans} = {}
    BY <1>15 DEF GuardCrash
  <2>2. ASSUME NEW s, s # "idle" PROVE Number(s)' = 0
    <3>1. Doing(s)' = {} BY <2>1, <2>2 DEF Doing, None
    <3> QED BY <3>1, FS_EmptySet DEF Number
  <2>3. Number("ban") = 0 /\ Number("codeban") = 0
    <3>1. Doing("ban") = {} /\ Doing("codeban") = {} BY <2>1 DEF Doing, Bans
    <3> QED BY <3>1, Numbers
  <2>4. CounterOK(tick, fails, failsUntil, BanAfter, Size, 0, 0, banUntil)
    <3>1. 0 \in Nat /\ 0 <= Number("count") BY <1>1
    <3>2. CounterOK(tick, fails, failsUntil, BanAfter, Size, 0, Number("ban"), banUntil)
      BY <1>0, <1>1, <1>2, <3>1, CounterLeaves
    <3> QED BY <2>3, <3>2
  <2>5. CounterOK(tick, ipFails, ipFailsUntil, IpBanAfter, Size, 0, 0, banUntil)
    <3>1. 0 \in Nat /\ 0 <= Number("wrong") BY <1>1
    <3>2. CounterOK(tick, ipFails, ipFailsUntil, IpBanAfter, Size, 0, Number("codeban"), banUntil)
      BY <1>0, <1>1, <1>2, <3>1, CounterLeaves
    <3> QED BY <2>3, <3>2
  <2> QED BY <2>1, <2>2, <2>4, <2>5 DEF counterVars, Size
<1> QED BY <1>14, <1>15, <1>3, <1>4, <1>5, <1>6, <1>7, <1>8, <1>9, <1>10, <1>11, <1>12, <1>13 DEF GuardNext

(* The long ban, the codes and the tokens. *)

\* A ban written while none crossed: nobody else is about to write one.
LEMMA NoRace ==
  ASSUME GuardTyped, NEW length, WriteBan(length), ~banRace'
  PROVE  /\ ~banRace
         /\ \A r, s \in Doing("ban") \union Doing("codeban") : r = s
         /\ length = CodeBanFor => ~Banned
<1> DEFINE writers == {r \in Tries : try[r].step \in {"ban", "codeban"}}
<1>1. ~banRace /\ ~(Cardinality(writers) > 1) /\ (length = CodeBanFor => ~Banned) BY DEF WriteBan
<1>2. IsFiniteSet(writers) /\ Cardinality(writers) \in Nat
  BY GuardOK, FS_Subset, FS_CardinalityType DEF GuardOK
<1>3. writers = {} \/ \E x : writers = {x}
  <2>1. Cardinality(writers) = 0 \/ Cardinality(writers) = 1 BY <1>1, <1>2
  <2> QED BY <1>2, <2>1, FS_EmptySet, FS_Singleton
<1>4. Doing("ban") \union Doing("codeban") = writers BY DEF Doing
<1> HIDE DEF writers
<1> QED BY <1>1, <1>3, <1>4

\* Every step keeps the long ban.
LEMMA LongStep ==
  ASSUME GuardTyped, \A q \in Tries : WithToken(q), ~Immune, PasswordHeld, LongCounter, GuardNext
  PROVE  LongCounter'
<1>0. /\ {BanAfter, LongBanAfter, IpBanAfter, Window, BanFor, CodeBanFor, LongBanFor} \subseteq Nat \ {0}
      /\ Window <= BanFor /\ BanFor <= CodeBanFor /\ CodeBanFor <= LongBanFor /\ BanAfter < LongBanAfter
      /\ tick \in Nat /\ fails \in Nat /\ failsUntil \in Nat /\ banUntil \in Nat
      /\ banRace \in BOOLEAN
  BY GuardOK DEF GuardOK, GuardTyped
<1>1. failsUntil <= tick + Window BY DEF PasswordHeld, CounterHeld
<1> DEFINE StillOpen == "ban" \in open => "ban" \in open'
<1>2. ASSUME UNCHANGED <<tick, fails, failsUntil, banUntil, banRace>>, StillOpen,
             \A r \in Tries : r \in Doing("ban")' <=> r \in Doing("ban"),
             \A r \in Doing("ban") : try'[r] = try[r]
      PROVE  LongCounter'
  <2>1. Doing("ban")' = Doing("ban") BY <1>2 DEF Doing
  <2> QED BY <1>2, <2>1 DEF LongCounter, Live
<1>3. ASSUME NEW r \in Tries, NEW x, Becomes(r, x), try[r].step # "ban", x.step # "ban",
             UNCHANGED <<tick, fails, failsUntil, banUntil, banRace>>, StillOpen
      PROVE  LongCounter'
  BY <1>2, <1>3 DEF Becomes, GuardTyped, Doing
<1>14. ASSUME "ban" \in open' PROVE LongCounter'
  BY <1>14 DEF LongCounter
<1> HIDE DEF StillOpen
<1>15. ASSUME open \subseteq open' PROVE StillOpen
  BY <1>15 DEF StillOpen
<1>4. ASSUME NEW r \in Tries, CountPassword(r) PROVE LongCounter'
  <2>1. /\ try[r].step = "count" /\ failsUntil' = tick + Window
        /\ fails' = (IF tick < failsUntil THEN fails ELSE 0) + 1
        /\ UNCHANGED <<tick, banUntil, banRace>>
    BY <1>4 DEF CountPassword, Incremented, Live
  <2>2. SUFFICES ASSUME fails' >= LongBanAfter
                 PROVE  "ban" \in open' \/ \E q \in Doing("ban")' : try'[q].count >= LongBanAfter
    BY <1>0, <2>1 DEF LongCounter, Live
  <2>3. fails' \in Nat /\ fails' >= BanAfter BY <1>0, <2>1, <2>2
  <2>4. ~(fails' < BanAfter) BY <1>0, <2>3
  <2>5. CASE \E x : Becomes(r, x) /\ x.step = "ban" /\ x.count = fails'
    <3>1. PICK x : Becomes(r, x) /\ x.step = "ban" /\ x.count = fails' BY <2>5
    <3>2. try'[r] = x BY <3>1 DEF Becomes, GuardTyped
    <3> QED BY <2>2, <3>1, <3>2 DEF Doing
  <2> QED BY <1>4, <2>4, <2>5, Moves
<1>5. ASSUME NEW r \in Tries, BanIp(r) PROVE LongCounter'
  <2>1. Becomes(r, None) /\ r \in Doing("ban") BY <1>5, Moves DEF BanIp, Doing
  <2>2. UNCHANGED <<tick, fails, failsUntil>> BY <1>5 DEF BanIp, counterVars
  <2>3. CASE MissBan("ban") BY <1>14, <2>3 DEF MissBan
  <2>4. CASE /\ WriteBan(BanLength(try[r].count))
             /\ open' = IF try[r].count >= fails THEN open \ {"ban"} ELSE open
    <3>1. SUFFICES ASSUME ~banRace', (Live(fails, failsUntil) >= LongBanAfter)', "ban" \notin open'
                   PROVE  /\ banUntil' >= failsUntil' - Window + LongBanFor
                          /\ Doing("ban")' = {}
      BY DEF LongCounter, Live
    <3>2. ~banRace /\ \A q, s \in Doing("ban") \union Doing("codeban") : q = s
      BY <2>4, <3>1, NoRace
    <3>3. Live(fails, failsUntil) >= LongBanAfter /\ Live(fails, failsUntil) = fails
      BY <1>0, <2>2, <3>1 DEF Live
    <3>4. try[r].count >= LongBanAfter
      <4>1. CASE "ban" \in open
        <5>1. try[r].count \in Nat BY DEF GuardTyped, Try
        <5>2. try[r].count >= fails BY <2>4, <3>1, <4>1
        <5> QED BY <1>0, <3>3, <5>1, <5>2
      <4>2. CASE "ban" \notin open BY <2>1, <3>2, <3>3, <4>2 DEF LongCounter
      <4> QED BY <4>1, <4>2
    <3>5. banUntil' = tick + LongBanFor BY <2>4, <3>4 DEF WriteBan, BanLength
    <3>6. Doing("ban")' = {} BY <2>1, <3>2 DEF Becomes, GuardTyped, Doing, None
    <3> QED BY <1>0, <1>1, <2>2, <3>5, <3>6
  <2> QED BY <1>5, <2>3, <2>4 DEF BanIp
<1>6. ASSUME NEW r \in Tries, CodeBan(r) PROVE LongCounter'
  <2>1. Becomes(r, None) /\ r \in Doing("codeban") BY <1>6, Moves DEF CodeBan, Doing
  <2>2. UNCHANGED <<tick, fails, failsUntil>> BY <1>6 DEF CodeBan, counterVars
  <2>3. CASE MissBan("codeban")
    <3>1. UNCHANGED <<banUntil, banRace>> /\ StillOpen BY <1>15, <2>3 DEF MissBan
    <3>2. None.step # "ban" /\ try[r].step # "ban" BY <2>1 DEF None, Doing
    <3> QED BY <1>3, <2>1, <2>2, <3>1, <3>2
  <2>4. CASE WriteBan(CodeBanFor) /\ open' = open \ {"codeban"}
    <3>1. SUFFICES ASSUME ~banRace', Live(fails, failsUntil) >= LongBanAfter, "ban" \notin open
                   PROVE  FALSE
      BY <2>2, <2>4 DEF LongCounter, Live
    <3>2. ~banRace /\ ~Banned /\ \A q, s \in Doing("ban") \union Doing("codeban") : q = s
      BY <2>4, <3>1, NoRace
    <3>3. Doing("ban") = {} BY <2>1, <3>2 DEF Doing
    <3>4. banUntil >= failsUntil - Window + LongBanFor BY <3>1, <3>2, <3>3 DEF LongCounter
    <3>5. tick >= banUntil BY <1>0, <3>2 DEF Banned
    <3>6. tick < failsUntil BY <1>0, <3>1 DEF Live
    <3> QED BY <1>0, <3>4, <3>5, <3>6
  <2> QED BY <1>6, <2>3, <2>4 DEF CodeBan
<1>7. ASSUME NEW r \in Tries, WrongPassword(r) \/ CountNothing(r) PROVE LongCounter'
  <2>1. PICK x : Becomes(r, x) /\ x.step # "ban"
    <3>1. [None EXCEPT !.step = "count"].step # "ban" /\ None.step # "ban" BY DEF None
    <3> QED BY <1>7, <3>1, Moves
  <2>2. try[r].step # "ban" BY <1>7 DEF WrongPassword, CountNothing, None
  <2>3. UNCHANGED <<tick, fails, failsUntil, banUntil, banRace, open>>
    BY <1>7 DEF WrongPassword, CountNothing, counterVars, missVars
  <2> QED BY <1>3, <1>15, <2>1, <2>2, <2>3
<1>8. ASSUME NEW r \in Tries, NEW t \in TempTokens, NEW c \in Codes \union {"wrong"}, SendCode(r, t, c)
      PROVE  LongCounter'
  <2> DEFINE x == [step |-> IF c = "wrong" THEN "wrong" ELSE "right",
                   count |-> 0, token |-> t, code |-> c]
  <2>1. Becomes(r, x) /\ x.step # "ban" BY <1>8, SendMoves
  <2>2. try[r].step # "ban" BY <1>8 DEF SendCode, None
  <2>3. UNCHANGED <<tick, fails, failsUntil, banUntil, banRace, open>>
    BY <1>8 DEF SendCode, counterVars
  <2> QED BY <1>3, <1>15, <2>1, <2>2, <2>3
<1>9. ASSUME NEW r \in Tries, CountCode(r) \/ SpendCode(r) \/ Consume(r) PROVE LongCounter'
  <2>1. PICK x : Becomes(r, x) /\ x.step # "ban"
    <3>1. CASE Becomes(r, None) BY <3>1 DEF None
    <3>2. CASE Becomes(r, [try[r] EXCEPT !.step = "consume"]) BY <3>2 DEF GuardTyped, Try
    <3>3. CASE Becomes(r, [try[r] EXCEPT !.step = "reset"]) BY <3>3 DEF GuardTyped, Try
    <3>4. CASE Becomes(r, [try[r] EXCEPT !.step = "codeban"]) BY <3>4 DEF GuardTyped, Try
    <3> QED BY <1>9, <3>1, <3>2, <3>3, <3>4, Moves
  <2>2. try[r].step # "ban" BY <1>9 DEF CountCode, SpendCode, Consume
  <2>3. UNCHANGED <<tick, fails, failsUntil, banUntil, banRace>>
    BY <1>9 DEF CountCode, SpendCode, Consume, counterVars
  <2>4. StillOpen
    <3>1. CountCode(r) => ("ban" \in open => "ban" \in open') BY DEF CountCode, Reopens
    <3>2. SpendCode(r) \/ Consume(r) => open' = open BY DEF SpendCode, Consume, missVars
    <3> QED BY <1>9, <3>1, <3>2 DEF StillOpen
  <2> QED BY <1>3, <2>1, <2>2, <2>3, <2>4
<1>10. ASSUME NEW r \in Tries, ResetFailures(r) PROVE LongCounter'
  <2>1. CASE fails' = 0 BY <1>0, <2>1 DEF LongCounter, Live
  <2>2. CASE UNCHANGED <<fails, open>>
    <3>1. Becomes(r, None) /\ try[r].step # "ban" /\ None.step # "ban"
      BY <1>10, Moves DEF ResetFailures, None
    <3>2. UNCHANGED <<tick, failsUntil, banUntil, banRace>> BY <1>10 DEF ResetFailures
    <3> QED BY <1>3, <1>15, <2>2, <3>1, <3>2
  <2> QED BY <1>10, <2>1, <2>2 DEF ResetFailures
<1>11. CASE \E t \in TempTokens : RightPassword(t)
  <2>1. UNCHANGED <<tick, fails, failsUntil, banUntil, banRace, open, try>>
    BY <1>11 DEF RightPassword, counterVars
  <2> QED BY <1>2, <1>15, <2>1 DEF Doing
<1>12. CASE UnbanIp
  BY <1>0, <1>12 DEF UnbanIp, UnbanDeletes, LongCounter, Live
<1>13. CASE GuardTick
  <2>1. tick' = tick + 1 /\ UNCHANGED <<fails, failsUntil, banUntil, try, banRace, open>>
    BY <1>13 DEF GuardTick, counterVars, missVars
  <2> QED BY <1>0, <2>1 DEF LongCounter, Live, Doing
<1>16. CASE GuardCrash
  <2>1. /\ try' = [r \in Tries |-> None] /\ UNCHANGED <<tick, fails, failsUntil, banUntil, banRace>>
        /\ open' = open \union {try[r].step : r \in {q \in Tries : try[q].step \in Bans}}
    BY <1>16 DEF GuardCrash, counterVars
  <2>2. CASE Doing("ban") = {}
    <3>1. Doing("ban")' = {} BY <2>1 DEF Doing, None
    <3> QED BY <1>2, <1>15, <2>1, <2>2, <3>1
  <2>3. CASE Doing("ban") # {}
    <3>1. "ban" \in open' BY <2>1, <2>3 DEF Doing, Bans
    <3> QED BY <1>14, <3>1
  <2> QED BY <2>2, <2>3
<1> QED BY <1>4, <1>5, <1>6, <1>7, <1>8, <1>9, <1>10, <1>11, <1>12, <1>13, <1>16 DEF GuardNext

\* Every step keeps each right code spent by one request.
LEMMA CodeStep ==
  ASSUME GuardTyped, \A q \in Tries : WithToken(q), NEW c \in Codes, CodeSpent(c), GuardNext
  PROVE  CodeSpent(c)'
<1> USE DEF winVars, tempVars
<1>0. c # "wrong" BY GuardOK DEF GuardOK
<1>1. ASSUME used \subseteq used', UNCHANGED codeWins,
             \A r \in Tries : try'[r].step = "consume" /\ try'[r].code = c =>
               try[r].step = "consume" /\ try[r].code = c
      PROVE  CodeSpent(c)'
  BY <1>1 DEF CodeSpent, Doing
<1>2. ASSUME NEW r \in Tries, NEW x, Becomes(r, x), x.step # "consume" \/ x.code # c,
             used \subseteq used', UNCHANGED codeWins
      PROVE  CodeSpent(c)'
  BY <1>1, <1>2 DEF Becomes, GuardTyped
<1>3. ASSUME NEW r \in Tries, WrongPassword(r) PROVE CodeSpent(c)'
  <2>1. [None EXCEPT !.step = "count"].step # "consume" BY DEF None
  <2> QED BY <1>2, <1>3, <2>1, Moves DEF WrongPassword
<1>4. ASSUME NEW r \in Tries, CountPassword(r) PROVE CodeSpent(c)'
  <2>1. PICK x : Becomes(r, x) /\ x.step # "consume"
    <3>1. None.step # "consume" BY DEF None
    <3> QED BY <1>4, <3>1, Moves
  <2> QED BY <1>2, <1>4, <2>1 DEF CountPassword
<1>5. ASSUME NEW r \in Tries, CountNothing(r) \/ BanIp(r) \/ CodeBan(r) \/ ResetFailures(r)
      PROVE  CodeSpent(c)'
  <2>1. Becomes(r, None) BY <1>5, Moves
  <2>2. None.step # "consume" BY DEF None
  <2>3. UNCHANGED <<used, codeWins>> BY <1>5 DEF CountNothing, BanIp, CodeBan, ResetFailures
  <2> QED BY <1>2, <2>1, <2>2, <2>3
<1>6. ASSUME NEW r \in Tries, NEW t \in TempTokens, NEW d \in Codes \union {"wrong"}, SendCode(r, t, d)
      PROVE  CodeSpent(c)'
  <2> DEFINE x == [step |-> IF d = "wrong" THEN "wrong" ELSE "right",
                   count |-> 0, token |-> t, code |-> d]
  <2>1. Becomes(r, x) /\ x.step # "consume" BY <1>6, SendMoves
  <2> QED BY <1>2, <1>6, <2>1 DEF SendCode
<1>7. ASSUME NEW r \in Tries, CountCode(r) PROVE CodeSpent(c)'
  <2>1. try[r].code # c BY <1>0, <1>7 DEF CountCode, WithToken
  <2>2. PICK x : Becomes(r, x) /\ (x.step # "consume" \/ x.code # c)
    <3>1. CASE Becomes(r, None) BY <3>1 DEF None
    <3>2. CASE Becomes(r, [try[r] EXCEPT !.step = "consume"]) BY <2>1, <3>2 DEF GuardTyped, Try
    <3>3. CASE Becomes(r, [try[r] EXCEPT !.step = "codeban"]) BY <3>3 DEF GuardTyped, Try
    <3> QED BY <1>7, <3>1, <3>2, <3>3, Moves
  <2> QED BY <1>2, <1>7, <2>2 DEF CountCode
<1>8. ASSUME NEW r \in Tries, SpendCode(r) PROVE CodeSpent(c)'
  <2>1. CASE used \subseteq used' /\ Becomes(r, None)
    <3>1. None.step # "consume" /\ UNCHANGED codeWins BY <1>8 DEF None, SpendCode
    <3> QED BY <1>2, <2>1, <3>1
  <2>2. CASE /\ try[r].code \notin used /\ used' = used \union {try[r].code}
             /\ Becomes(r, [try[r] EXCEPT !.step = "consume"])
    <3>1. Becomes(r, [try[r] EXCEPT !.step = "consume"]) BY <2>2
    <3>2. used' = used \union {try[r].code} /\ UNCHANGED codeWins BY <1>8, <2>2 DEF SpendCode
    <3>3. try'[r].code = try[r].code /\ \A q \in Tries \ {r} : try'[q] = try[q]
      BY <3>1 DEF Becomes, GuardTyped, Try
    <3>4. CASE try[r].code = c
      <4>1. codeWins[c] = 0 /\ \A q \in Doing("consume") : try[q].code # c
        BY <2>2, <3>4 DEF CodeSpent
      <4> QED BY <3>2, <3>3, <3>4, <4>1 DEF CodeSpent, Doing
    <3>5. CASE try[r].code # c BY <3>2, <3>3, <3>5 DEF CodeSpent, Doing
    <3> QED BY <3>4, <3>5
  <2> QED BY <1>8, <2>1, <2>2, Moves
<1>9. ASSUME NEW r \in Tries, Consume(r) PROVE CodeSpent(c)'
  <2>1. PICK x : Becomes(r, x) /\ x.step # "consume"
    <3>1. CASE Becomes(r, None) BY <3>1 DEF None
    <3>2. CASE Becomes(r, [try[r] EXCEPT !.step = "reset"]) BY <3>2 DEF GuardTyped, Try
    <3> QED BY <1>9, <3>1, <3>2, Moves
  <2>2. used' = used /\ r \in Doing("consume") BY <1>9 DEF Consume, Doing
  <2>3. CASE try[r].code # c
    <3>1. codeWins'[c] = codeWins[c] BY <1>9, <2>3 DEF Consume, GuardTyped
    <3> QED BY <2>1, <2>2, <3>1 DEF Becomes, GuardTyped, CodeSpent, Doing
  <2>4. CASE try[r].code = c
    <3>1. codeWins[c] = 0 /\ c \in used /\ \A q \in Doing("consume") : try[q].code = c => q = r
      BY <2>2, <2>4 DEF CodeSpent
    <3>2. codeWins'[c] = 1 BY <1>0, <1>9, <2>4, <3>1 DEF Consume, GuardTyped
    <3>3. \A q \in Doing("consume")' : try'[q].code # c
      BY <2>1, <3>1 DEF Becomes, GuardTyped, Doing
    <3> QED BY <2>2, <3>1, <3>2, <3>3 DEF CodeSpent
  <2> QED BY <2>3, <2>4
<1>10. CASE \E t \in TempTokens : RightPassword(t)
  BY <1>1, <1>10 DEF RightPassword
<1>11. CASE UnbanIp \/ GuardTick
  BY <1>1, <1>11 DEF UnbanIp, GuardTick
<1>12. CASE GuardCrash
  BY <1>1, <1>12 DEF GuardCrash, None
<1> QED BY <1>3, <1>4, <1>5, <1>6, <1>7, <1>8, <1>9, <1>10, <1>11, <1>12 DEF GuardNext

\* Every step keeps a worn-out token in the hands of a request that ends it.
LEMMA TokenStep ==
  ASSUME GuardTyped, \A q \in Tries : WithToken(q), NEW t \in TempTokens, TokenEnds(t), GuardNext
  PROVE  TokenEnds(t)'
<1> USE DEF winVars, tempVars
<1>1. ASSUME tempFails'[t] = tempFails[t], consumed \subseteq consumed', passedOver \subseteq passedOver',
             \A r \in Tries : try[r].step \in {"consume", "codeban"} /\ try[r].token = t =>
               try'[r] = try[r] \/ t \in consumed' \union passedOver' \/ ~WornOut(tempFails[t])
      PROVE  TokenEnds(t)'
  BY <1>1 DEF TokenEnds, Doing, WornOut
<1>2. ASSUME NEW r \in Tries, NEW x, Becomes(r, x), try[r].step \notin {"consume", "codeban"},
             UNCHANGED <<tempFails, consumed, passedOver>>
      PROVE  TokenEnds(t)'
  BY <1>1, <1>2 DEF Becomes, GuardTyped
<1>3. ASSUME NEW r \in Tries, WrongPassword(r) PROVE TokenEnds(t)'
  <2>1. try[r].step \notin {"consume", "codeban"} BY <1>3 DEF WrongPassword, None
  <2> QED BY <1>2, <1>3, <2>1, Moves DEF WrongPassword
<1>4. ASSUME NEW r \in Tries, CountPassword(r) PROVE TokenEnds(t)'
  <2>1. PICK x : Becomes(r, x) BY <1>4, Moves
  <2> QED BY <1>2, <1>4, <2>1 DEF CountPassword
<1>5. ASSUME NEW r \in Tries, CountNothing(r) \/ BanIp(r) \/ ResetFailures(r) PROVE TokenEnds(t)'
  BY <1>2, <1>5, Moves DEF CountNothing, BanIp, ResetFailures
<1>6. ASSUME NEW r \in Tries, NEW u \in TempTokens, NEW d \in Codes \union {"wrong"}, SendCode(r, u, d)
      PROVE  TokenEnds(t)'
  <2>1. PICK x : Becomes(r, x) BY <1>6, SendMoves
  <2>2. try[r].step \notin {"consume", "codeban"} BY <1>6 DEF SendCode, None
  <2> QED BY <1>2, <1>6, <2>1, <2>2 DEF SendCode
<1>7. ASSUME NEW r \in Tries, CountCode(r) PROVE TokenEnds(t)'
  <2>1. try[r].step = "wrong" /\ consumed' = consumed /\ passedOver \subseteq passedOver'
    BY <1>7 DEF CountCode, PassOver
  <2>2. PICK x : Becomes(r, x) BY <1>7, Moves
  <2>3. CASE try[r].token # t
    <3>1. tempFails'[t] = tempFails[t] BY <1>7, <2>3 DEF CountCode, GuardTyped
    <3> QED BY <1>1, <2>1, <2>2, <3>1 DEF Becomes, GuardTyped
  <2>4. CASE try[r].token = t /\ (tempFails'[t] < TokenMaxFails \/ t \in passedOver')
    <3>1. tempFails'[t] \in Nat BY <1>7, <2>4 DEF CountCode, GuardTyped
    <3> QED BY <2>4, <3>1, GuardOK DEF TokenEnds, GuardOK
  <2>5. CASE try[r].token = t /\ \E s \in {"consume", "codeban"} : Becomes(r, [try[r] EXCEPT !.step = s])
    <3>1. PICK y : Becomes(r, y) /\ y.step \in {"consume", "codeban"} /\ y.token = t
      BY <2>5 DEF GuardTyped, Try
    <3>2. try'[r] = y BY <3>1 DEF Becomes, GuardTyped
    <3> QED BY <3>1, <3>2 DEF TokenEnds, Doing
  <2> QED BY <1>7, <2>3, <2>4, <2>5, Moves
<1>13. ASSUME NEW r \in Tries, NEW x, Becomes(r, x), PassOver(try[r].token, tempFails),
              UNCHANGED <<tempFails, consumed>>
       PROVE  TokenEnds(t)'
  BY <1>1, <1>13 DEF Becomes, GuardTyped, PassOver
<1>8. ASSUME NEW r \in Tries, CodeBan(r) PROVE TokenEnds(t)'
  <2>1. Becomes(r, None) BY <1>8, Moves
  <2>2. PassOver(try[r].token, tempFails) /\ UNCHANGED <<tempFails, consumed>>
    BY <1>8 DEF CodeBan
  <2> QED BY <1>13, <2>1, <2>2
<1>9. ASSUME NEW r \in Tries, SpendCode(r) PROVE TokenEnds(t)'
  <2>1. PICK x : Becomes(r, x) BY <1>9, Moves
  <2> QED BY <1>2, <1>9, <2>1 DEF SpendCode
<1>10. ASSUME NEW r \in Tries, Consume(r) PROVE TokenEnds(t)'
  <2>1. PICK x : Becomes(r, x) BY <1>10, Moves
  <2>2. CASE consumed' = consumed \union {try[r].token} /\ UNCHANGED <<tempFails, passedOver>>
    BY <1>1, <2>1, <2>2 DEF Becomes, GuardTyped
  <2>3. CASE PassOver(try[r].token, tempFails) /\ UNCHANGED <<tempFails, consumed>>
    BY <1>13, <2>1, <2>3
  <2> QED BY <1>10, <2>2, <2>3 DEF Consume, Consumed
<1>11. CASE \E u \in TempTokens : RightPassword(u)
  BY <1>1, <1>11 DEF RightPassword
<1>12. CASE UnbanIp
  BY <1>1, <1>12 DEF UnbanIp
<1>14. CASE GuardTick
  <2>1. tempFails'[t] = 0 BY <1>14 DEF GuardTick
  <2> QED BY <2>1, GuardOK DEF TokenEnds, GuardOK
<1>15. CASE GuardCrash
  <2>1. UNCHANGED <<tempFails, consumed>> /\ passedOver \subseteq passedOver'
    BY <1>15 DEF GuardCrash
  <2>2. ASSUME NEW r \in Tries, try[r].step \in {"consume", "codeban"}, try[r].token = t,
               WornOut(tempFails[t])
        PROVE  t \in passedOver'
    BY <1>15, <2>2 DEF GuardCrash
  <2> QED BY <1>1, <2>1, <2>2
<1> QED BY <1>3, <1>4, <1>5, <1>6, <1>7, <1>8, <1>9, <1>10, <1>11, <1>12, <1>14, <1>15 DEF GuardNext

(* The theorems. *)

\* Nothing has failed at first.
LEMMA GuardInitInv == GuardInit => GuardInv
<1> SUFFICES ASSUME GuardInit PROVE GuardInv OBVIOUS
<1> USE GuardOK DEF GuardOK, GuardInit
<1>1. GuardTyped
  <2>1. None \in Try BY DEF None, Try, TrySteps
  <2>2. try \in [Tries -> Try] BY <2>1
  <2>3. issued \subseteq TempTokens OBVIOUS
  <2>4. tempFails \in [TempTokens -> Nat] /\ codeWins \in [Codes -> Nat] OBVIOUS
  <2>5. tick \in 1 .. LastTick /\ fails \in 0 .. MaxFails /\ ipFails \in 0 .. MaxFails OBVIOUS
  <2>6. open \subseteq Bans /\ slips \in BOOLEAN /\ banRace \in BOOLEAN OBVIOUS
  <2> QED BY <2>2, <2>3, <2>4, <2>5, <2>6 DEF GuardTyped
<1>2. \A r \in Tries : WithToken(r) BY DEF WithToken, None
<1>3. \A s : s # "idle" => Doing(s) = {} BY DEF Doing, None
<1>4. \A s : s # "idle" => Number(s) = 0 BY <1>1, <1>3, Numbers
<1>5. PasswordCounter /\ CodeCounter
  <2>1. Size \in Nat BY FS_CardinalityType DEF Size
  <2> QED BY <1>4, <2>1 DEF PasswordCounter, CodeCounter, CounterOK
<1>9. PasswordHeld /\ CodeHeld BY DEF PasswordHeld, CodeHeld, CounterHeld
<1>6. LongCounter BY DEF LongCounter, Live
<1>7. \A c \in Codes : CodeSpent(c) BY <1>3 DEF CodeSpent
<1>8. \A t \in TempTokens : TokenEnds(t) BY DEF TokenEnds
<1> QED BY <1>1, <1>2, <1>5, <1>6, <1>7, <1>8, <1>9 DEF GuardInv

\* That a ban was missed is not forgotten.
LEMMA SlipsStay == ASSUME GuardNext, slips PROVE slips'
<1> USE DEF missVars, LetIn
<1>1. ASSUME NEW r \in Tries, CountPassword(r) \/ CountCode(r) PROVE slips'
  BY <1>1, Zenon DEF CountPassword, CountCode, Reopens
<1>2. ASSUME NEW r \in Tries, BanIp(r) \/ CodeBan(r) PROVE slips'
  BY <1>2, Zenon DEF BanIp, CodeBan, MissBan
<1>3. ASSUME NEW r \in Tries, WrongPassword(r) \/ CountNothing(r) \/ SpendCode(r) \/ Consume(r)
                             \/ ResetFailures(r)
      PROVE  slips'
  BY <1>3, Zenon DEF WrongPassword, CountNothing, SpendCode, Consume, ResetFailures
<1>4. ASSUME NEW r \in Tries, NEW t \in TempTokens, NEW c \in Codes \union {"wrong"}, SendCode(r, t, c)
      PROVE  slips'
  BY <1>4, Zenon DEF SendCode
<1>5. CASE \E t \in TempTokens : RightPassword(t) BY <1>5, Zenon DEF RightPassword
<1>6. CASE UnbanIp \/ GuardTick BY <1>6, Zenon DEF UnbanIp, GuardTick
<1>7. CASE GuardCrash BY <1>7, Zenon DEF GuardCrash
<1> QED BY <1>1, <1>2, <1>3, <1>4, <1>5, <1>6, <1>7 DEF GuardNext

\* The invariant is inductive.
LEMMA GuardStepInv == GuardInv /\ [GuardNext]_guardVars => GuardInv'
<1> SUFFICES ASSUME GuardInv, [GuardNext]_guardVars PROVE GuardInv' OBVIOUS
<1>1. CASE GuardNext
  <2> USE <1>1
  <2>1. GuardTyped /\ \A r \in Tries : WithToken(r) BY DEF GuardInv
  <2>2. GuardTyped' /\ \A r \in Tries : WithToken(r)' BY <2>1, GuardTypes
  <2>3. ~Immune => PasswordHeld' /\ CodeHeld' /\ LongCounter'
    BY <2>1, HeldStep, LongStep DEF GuardInv
  <2>6. ~Immune /\ ~slips' => PasswordCounter' /\ CodeCounter'
    <3>1. ASSUME ~Immune, ~slips' PROVE PasswordCounter /\ CodeCounter
      BY <3>1, SlipsStay DEF GuardInv
    <3> QED BY <2>1, <3>1, CountersStep
  <2>4. \A c \in Codes : CodeSpent(c)' BY <2>1, CodeStep DEF GuardInv
  <2>5. \A t \in TempTokens : TokenEnds(t)' BY <2>1, TokenStep DEF GuardInv
  <2> QED BY <2>2, <2>3, <2>4, <2>5, <2>6 DEF GuardInv
<1>2. CASE UNCHANGED guardVars
  <2> USE <1>2 DEF guardVars, counterVars, tempVars, winVars, missVars
  <2>1. GuardTyped' /\ \A r \in Tries : WithToken(r)' BY DEF GuardInv, GuardTyped, WithToken
  <2>2. \A s : Doing(s)' = Doing(s) /\ Number(s)' = Number(s) /\ (Writing(s)' <=> Writing(s))
    BY DEF Doing, Number, Writing
  <2>3. ~Immune => PasswordHeld' /\ CodeHeld' /\ LongCounter'
    BY <2>2 DEF GuardInv, PasswordHeld, CodeHeld, LongCounter, Live
  <2>4. ~Immune /\ ~slips' => PasswordCounter' /\ CodeCounter'
    BY <2>2 DEF GuardInv, PasswordCounter, CodeCounter, Size
  <2>5. (\A c \in Codes : CodeSpent(c)') /\ (\A t \in TempTokens : TokenEnds(t)')
    BY <2>2 DEF GuardInv, CodeSpent, TokenEnds
  <2> QED BY <2>1, <2>3, <2>4, <2>5 DEF GuardInv
<1> QED BY <1>1, <1>2

\* The inductive invariant gives the properties.
LEMMA GuardMeaning ==
  GuardInv => GuardTypeOK /\ OverLimitBanned /\ LongBanStands /\ CodeOnce /\ WornOutTokenEnds
<1> SUFFICES ASSUME GuardInv
    PROVE  GuardTypeOK /\ OverLimitBanned /\ LongBanStands /\ CodeOnce /\ WornOutTokenEnds
  OBVIOUS
<1> USE DEF GuardInv
<1>1. GuardTypeOK
  <2>1. ~Immune /\ ~slips => fails < BanAfter + Cardinality(Tries)
                            /\ ipFails < IpBanAfter + Cardinality(Tries)
    BY DEF PasswordCounter, CodeCounter, CounterOK, Size
  <2> QED BY <2>1 DEF GuardTypeOK, GuardTyped, Try, TrySteps
<1>2. ASSUME ~Immune PROVE OverLimitBanned
  <2>1. tick \in Nat /\ banUntil \in Nat /\ failsUntil \in Nat /\ ipFailsUntil \in Nat
    BY DEF GuardTyped
  <2>2. /\ PasswordHeld /\ CodeHeld
        /\ {BanAfter, IpBanAfter} \subseteq Nat \ {0}
    BY <1>2, GuardOK DEF GuardOK
  <2>3. Live(fails, failsUntil) >= BanAfter /\ ~Writing("ban") => Banned \/ "ban" \in open
    BY <1>2, <2>1, <2>2 DEF PasswordHeld, CounterHeld, Live, Banned
  <2>4. Live(ipFails, ipFailsUntil) >= IpBanAfter /\ ~Writing("codeban") =>
          Banned \/ "codeban" \in open
    BY <1>2, <2>1, <2>2 DEF CodeHeld, CounterHeld, Live, Banned
  <2> QED BY <2>3, <2>4 DEF OverLimitBanned
<1>3. LongBanStands BY DEF LongBanStands, LongCounter, Writing, Doing
<1>4. CodeOnce BY DEF CodeOnce, CodeSpent
<1>5. WornOutTokenEnds BY DEF WornOutTokenEnds, WornOutAndIdle, TokenEnds, Doing
<1> QED BY <1>1, <1>2, <1>3, <1>4, <1>5 DEF OverLimitBanned

\* The inductive invariant holds in every reachable state.
THEOREM GuardInvariance == GuardSpec => []GuardInv
BY GuardInitInv, GuardStepInv, PTL DEF GuardSpec

\* Every variable keeps its type, and as long as no ban went unwritten or unseen, a counter
\* passes its limit by less than the requests that can be under way together.
THEOREM GuardTypeCorrect == GuardSpec => []GuardTypeOK
BY GuardMeaning, GuardInvariance, PTL

\* An address over a limit is banned, or about to be, or the ban that was due is recorded as
\* one that Redis, the client or a crash kept from being written.
THEOREM LimitsBan == GuardSpec => []OverLimitBanned
BY GuardMeaning, GuardInvariance, PTL

\* The long ban is not cut short, save by a ban written at the same time or for wrong codes,
\* or because the last ban that was due could not be written.
THEOREM LongBansStand == GuardSpec => []LongBanStands
BY GuardMeaning, GuardInvariance, PTL

\* One code opens one session, whatever Redis does not answer.
THEOREM CodesOpenOnce == GuardSpec => []CodeOnce
BY GuardMeaning, GuardInvariance, PTL

\* A temporary token with too many wrong codes is consumed, unless the request that counted
\* the last of them got no answer, banned the address instead, failed to write or died.
THEOREM WornOutTokensEnd == GuardSpec => []WornOutTokenEnds
BY GuardMeaning, GuardInvariance, PTL

(***************************************************************************)
(* The two together, as the run sessions has them.                         *)
(***************************************************************************)

\* A behaviour of the two is a behaviour of each.
THEOREM LoginComponents == MCSpec => SessionsSpec /\ GuardSpec
<1>1. MCInit => SessionsInit /\ GuardInit BY DEF MCInit
<1>2. [MCNext]_<<subject, sessionVars, guardVars>> =>
        [SessionsNext]_sessionVars /\ [GuardNext]_guardVars
  BY DEF MCNext
<1> QED BY <1>1, <1>2, PTL DEF MCSpec, SessionsSpec, GuardSpec

\* Every variable of both keeps its type, and a counter its bound.
THEOREM LoginTypeCorrect == MCSpec => []LoginStateOK
<1>1. SessionsTypeOK /\ GuardTypeOK => LoginStateOK BY DEF LoginStateOK
<1> QED BY <1>1, LoginComponents, SessionsTypeCorrect, GuardTypeCorrect, PTL

===============================================================================
