--------------------------- MODULE LaunchCallProofs ---------------------------
(***************************************************************************)
(* What is proved of LaunchCall, for any number of workers, attempts,      *)
(* requests per call and lookups: its types, that no second instance is    *)
(* made while the engine can see, and that it implements LaunchPromise.    *)
(***************************************************************************)
EXTENDS LaunchCall, FiniteSetTheorems, TLAPS

CallVerdicts == {Category(a) : a \in Answers} \union {"none", "expired"}
InCall(w) == stage[w] \in {"send", "wait"}

\* The type invariant with its sets named.
Typed ==
  /\ taskRow \in {"running", "success", "failed", "stopped"}
  /\ asked \in BOOLEAN
  /\ stage \in [Workers -> Stages]
  /\ ended \in [Workers -> BOOLEAN]
  /\ attempt \in [Workers -> 0 .. MaxAttempts]
  /\ tries \in [Workers -> 0 .. MaxCalls]
  /\ lookups \in [Workers -> 0 .. MaxLookups]
  /\ verdict \in [Workers -> CallVerdicts]
  /\ net \in SUBSET Tokens
  /\ cloud \in SUBSET Tokens
  /\ excuse \in {"none", "masked", "unlooked", "stale", "blind"}

\* The counters of a call start anew with the call, and a request may be sent
\* and a lookup made while they are below their limits.
CounterFacts == \A w \in Workers :
  /\ Alive(w) => attempt[w] >= 1
  /\ ~InCall(w) => tries[w] = 0
  /\ stage[w] = "send" => tries[w] < MaxCalls
  /\ stage[w] \notin {"confirm", "check", "write"} => lookups[w] = 0
  /\ stage[w] = "confirm" => lookups[w] < MaxLookups

\* Of two live workers of the row one is cancelled.
OneLive == \A v, w \in Workers : v # w /\ Alive(v) /\ Alive(w) => ended[v] \/ ended[w]

\* While nothing was missed: one worker calls at a time, and none while the one
\* that is not cancelled has made its lookup; an instance that exists is the one
\* the call is for; no two exist.
SightFacts == excuse # "blind" =>
  /\ \A v, w \in Workers : InCall(v) /\ InCall(w) => v = w
  /\ \A v, w \in Workers :
       InCall(v) /\ stage[w] \in {"confirm", "check"} /\ ~ended[w] => v = w
  /\ \A w \in Workers : InCall(w) => \A t \in cloud : t = Token(w)
  /\ \A s, t \in cloud : s = t

\* A verdict tells whether there is an instance, the row that there is one.
VerdictFacts ==
  /\ \A w \in Workers : verdict[w] = "ok" => cloud # {}
  /\ \A w \in Workers :
       stage[w] = "check" /\ verdict[w] # "ok" /\ ~ended[w] /\ excuse = "none" => cloud = {}
  /\ taskRow = "success" => cloud # {}

\* Without an excuse, a worker that will end the task is the last one: there is
\* no instance, no request that could make one, and no worker that could call.
WriteFacts == excuse = "none" =>
  \A w \in Workers : EndsTask(w) =>
    /\ cloud = {}
    /\ \A v \in Workers : ~InCall(v)
    /\ \A v \in Workers : v # w /\ Alive(v) => ended[v]

CallInv ==
  /\ Typed
  /\ IsFiniteSet(cloud)
  /\ CounterFacts
  /\ OneLive
  /\ SightFacts
  /\ VerdictFacts
  /\ WriteFacts

LEMMA TypedSame == CallTypeOK <=> Typed
  BY DEF CallTypeOK, Typed, CallVerdicts

LEMMA VerdictsOK ==
  /\ {"none", "ok", "again", "cancelled", "fatal", "expired"} \subseteq CallVerdicts
  /\ \A a \in Answers : Category(a) \in CallVerdicts
<1>1. {"ok", "cancelled", "client", "capacity"} \subseteq Answers BY DEF Answers, Refusals
<1>2. /\ Category("ok") = "ok" /\ Category("cancelled") = "cancelled"
      /\ Category("client") = "fatal" /\ Category("capacity") = "again"
  BY DEF Category
<1> QED BY <1>1, <1>2 DEF CallVerdicts

LEMMA CallInitInv == CallInit => CallInv
<1> SUFFICES ASSUME CallInit PROVE CallInv
  OBVIOUS
<1>1. Typed
  <2>1. /\ 0 \in 0 .. MaxAttempts /\ 0 \in 0 .. MaxCalls /\ 0 \in 0 .. MaxLookups
    BY AttemptsOK DEF AttemptsOK
  <2>2. "none" \in CallVerdicts /\ "fresh" \in Stages BY VerdictsOK DEF Stages
  <2> QED BY <2>1, <2>2 DEF CallInit, Typed
<1>2. IsFiniteSet(cloud) BY FS_EmptySet DEF CallInit
<1>3. CounterFacts BY AttemptsOK DEF CallInit, CounterFacts, Alive, InCall, AttemptsOK
<1>4. OneLive /\ SightFacts /\ VerdictFacts /\ WriteFacts
  BY DEF CallInit, OneLive, SightFacts, VerdictFacts, WriteFacts, EndsTask, Alive, InCall
<1> QED BY <1>1, <1>2, <1>3, <1>4 DEF CallInv

LEMMA CallStepInv == CallInv /\ [CallNext]_callVars => CallInv'
<1> SUFFICES ASSUME CallInv, [CallNext]_callVars PROVE CallInv'
  OBVIOUS
<1> USE AttemptsOK DEF AttemptsOK
<1>1. CASE AskStart
  <2>1. Typed'
    BY <1>1, VerdictsOK DEF AskStart, CallInv, Typed, CounterFacts, Alive, InCall, Stages, workerVars
  <2>2. CounterFacts' BY <1>1 DEF AskStart, CallInv, Typed, CounterFacts, Alive, InCall, workerVars
  <2>3. OneLive' BY <1>1 DEF AskStart, CallInv, Typed, OneLive, Alive, workerVars
  <2>4. SightFacts' BY <1>1 DEF AskStart, CallInv, Typed, SightFacts, InCall, Token, workerVars
  <2>5. VerdictFacts' BY <1>1 DEF AskStart, CallInv, Typed, VerdictFacts, InCall, workerVars
  <2>6. IsFiniteSet(cloud)' BY <1>1 DEF AskStart, CallInv
  <2>7. WriteFacts' BY <1>1 DEF AskStart, CallInv, Typed, WriteFacts, EndsTask, InCall, Alive, workerVars
  <2> QED BY <2>1, <2>2, <2>3, <2>4, <2>5, <2>6, <2>7 DEF CallInv
<1>2. ASSUME NEW w \in Workers, Begin(w)
      PROVE  CallInv'
  <2>1. Typed'
    <3>1. stage' \in [Workers -> Stages] BY <1>2 DEF Begin, CallInv, Typed, Stages
    <3>2. ended' \in [Workers -> BOOLEAN] BY <1>2 DEF Begin, Alive
    <3>3. attempt' \in [Workers -> 0 .. MaxAttempts] BY <1>2 DEF Begin, CallInv, Typed
    <3>4. excuse' \in {"none", "masked", "unlooked", "stale", "blind"}
      BY <1>2 DEF Begin, CallInv, Typed, Excused
    <3>5. asked' \in BOOLEAN /\ taskRow' = "running" BY <1>2 DEF Begin
    <3> QED BY <1>2, <3>1, <3>2, <3>3, <3>4, <3>5 DEF Begin, CallInv, Typed
  <2>2. CounterFacts' BY <1>2 DEF Begin, CallInv, Typed, CounterFacts, Alive, InCall, Excused
  <2>3. OneLive' BY <1>2 DEF Begin, CallInv, Typed, OneLive, Alive, Excused
  <2>4. SightFacts' BY <1>2 DEF Begin, CallInv, Typed, SightFacts, InCall, Token, Excused
  <2>5. VerdictFacts' BY <1>2 DEF Begin, CallInv, Typed, VerdictFacts, InCall, Excused
  <2>6. IsFiniteSet(cloud)' BY <1>2 DEF Begin, CallInv
  <2>7. WriteFacts' BY <1>2 DEF Begin, CallInv, Typed, WriteFacts, EndsTask, InCall, Alive, Excused
  <2> QED BY <2>1, <2>2, <2>3, <2>4, <2>5, <2>6, <2>7 DEF CallInv
<1>3. CASE StopTask
  <2>1. Typed'
    BY <1>3, VerdictsOK DEF StopTask, CallInv, Typed, CounterFacts, Alive, InCall, Stages
  <2>2. CounterFacts' BY <1>3 DEF StopTask, CallInv, Typed, CounterFacts, Alive, InCall
  <2>3. OneLive' BY <1>3 DEF StopTask, CallInv, Typed, OneLive, Alive
  <2>4. SightFacts' BY <1>3 DEF StopTask, CallInv, Typed, SightFacts, InCall, Token
  <2>5. VerdictFacts' BY <1>3 DEF StopTask, CallInv, Typed, VerdictFacts, InCall
  <2>6. IsFiniteSet(cloud)' BY <1>3 DEF StopTask, CallInv
  <2>7. WriteFacts' BY <1>3 DEF StopTask, CallInv, Typed, WriteFacts, EndsTask, InCall, Alive
  <2> QED BY <2>1, <2>2, <2>3, <2>4, <2>5, <2>6, <2>7 DEF CallInv
<1>4. CASE CrashEngine
  <2>0. \A w \in Workers : ~Alive(w)' BY <1>4 DEF CrashEngine, Alive
  <2>9. \A w \in Workers : verdict'[w] = "none" /\ stage'[w] \in {"fresh", "done"}
    BY <1>4 DEF CrashEngine, Alive
  <2>1. Typed'
    <3>1. stage' \in [Workers -> Stages] BY <1>4 DEF CrashEngine, CallInv, Typed, Stages
    <3>2. /\ tries' \in [Workers -> 0 .. MaxCalls]
          /\ lookups' \in [Workers -> 0 .. MaxLookups]
          /\ attempt' \in [Workers -> 0 .. MaxAttempts]
      BY <1>4 DEF CrashEngine
    <3>3. verdict' \in [Workers -> CallVerdicts] BY <1>4, VerdictsOK DEF CrashEngine
    <3>4. asked' \in BOOLEAN /\ ended' \in [Workers -> BOOLEAN] BY <1>4 DEF CrashEngine
    <3> QED BY <1>4, <3>1, <3>2, <3>3, <3>4 DEF CrashEngine, CallInv, Typed
  <2>2. CounterFacts' BY <1>4 DEF CrashEngine, CallInv, Typed, CounterFacts, Alive, InCall
  <2>3. OneLive' BY <1>4 DEF CrashEngine, CallInv, Typed, OneLive, Alive
  <2>4. SightFacts'
    <3>1. \A w \in Workers : ~InCall(w)' BY <2>9 DEF InCall
    <3>2. UNCHANGED <<cloud, excuse>> BY <1>4 DEF CrashEngine
    <3> QED BY <3>1, <3>2 DEF CallInv, SightFacts
  <2>5. VerdictFacts'
    <3>1. UNCHANGED <<taskRow, cloud, excuse>> BY <1>4 DEF CrashEngine
    <3> QED BY <2>9, <3>1 DEF CallInv, VerdictFacts
  <2>6. IsFiniteSet(cloud)' BY <1>4 DEF CrashEngine, CallInv
  <2>7. WriteFacts' BY <1>4 DEF CrashEngine, CallInv, Typed, WriteFacts, EndsTask, InCall, Alive
  <2> QED BY <2>1, <2>2, <2>3, <2>4, <2>5, <2>6, <2>7 DEF CallInv
<1>5. ASSUME NEW w \in Workers, ResolveADs(w)
      PROVE  CallInv'
  <2>1. Typed'
    BY <1>5, VerdictsOK DEF ResolveADs, CallInv, Typed, CounterFacts, Alive, InCall, Stages
  <2>2. CounterFacts' BY <1>5 DEF ResolveADs, CallInv, Typed, CounterFacts, Alive, InCall
  <2>3. OneLive' BY <1>5 DEF ResolveADs, CallInv, Typed, OneLive, Alive
  <2>4. SightFacts' BY <1>5 DEF ResolveADs, CallInv, Typed, SightFacts, InCall, Token
  <2>5. VerdictFacts' BY <1>5 DEF ResolveADs, CallInv, Typed, VerdictFacts, InCall
  <2>6. IsFiniteSet(cloud)' BY <1>5 DEF ResolveADs, CallInv
  <2>7. WriteFacts' BY <1>5 DEF ResolveADs, CallInv, Typed, WriteFacts, EndsTask, InCall, Alive
  <2> QED BY <2>1, <2>2, <2>3, <2>4, <2>5, <2>6, <2>7 DEF CallInv
<1>6. ASSUME NEW w \in Workers, ReadRow(w)
      PROVE  CallInv'
  <2>1. Typed'
    BY <1>6, VerdictsOK DEF ReadRow, CallInv, Typed, CounterFacts, Alive, InCall, Stages
  <2>2. CounterFacts' BY <1>6 DEF ReadRow, CallInv, Typed, CounterFacts, Alive, InCall
  <2>3. OneLive' BY <1>6 DEF ReadRow, CallInv, Typed, OneLive, Alive
  <2>4. SightFacts' BY <1>6 DEF ReadRow, CallInv, Typed, SightFacts, InCall, Token
  <2>5. VerdictFacts' BY <1>6 DEF ReadRow, CallInv, Typed, VerdictFacts, InCall
  <2>6. IsFiniteSet(cloud)' BY <1>6 DEF ReadRow, CallInv
  <2>7. WriteFacts' BY <1>6 DEF ReadRow, CallInv, Typed, WriteFacts, EndsTask, InCall, Alive
  <2> QED BY <2>1, <2>2, <2>3, <2>4, <2>5, <2>6, <2>7 DEF CallInv
<1>7. ASSUME NEW w \in Workers, GiveUp(w)
      PROVE  CallInv'
  <2>1. Typed'
    BY <1>7, VerdictsOK DEF GiveUp, CallInv, Typed, CounterFacts, Alive, InCall, Stages, Excused, Busy, OneLive
  <2>2. CounterFacts' BY <1>7 DEF GiveUp, CallInv, Typed, CounterFacts, Alive, InCall, Excused, Busy, OneLive
  <2>3. OneLive' BY <1>7 DEF GiveUp, CallInv, Typed, OneLive, Alive, Excused, Busy, OneLive
  <2>4. SightFacts' BY <1>7 DEF GiveUp, CallInv, Typed, SightFacts, InCall, Token, Excused, Busy, OneLive
  <2>5. VerdictFacts' BY <1>7 DEF GiveUp, CallInv, Typed, VerdictFacts, InCall, Excused, Busy, OneLive
  <2>6. IsFiniteSet(cloud)' BY <1>7 DEF GiveUp, CallInv
  <2>7. WriteFacts' BY <1>7 DEF GiveUp, CallInv, Typed, WriteFacts, EndsTask, InCall, Alive, Excused, Busy, OneLive
  <2> QED BY <2>1, <2>2, <2>3, <2>4, <2>5, <2>6, <2>7 DEF CallInv
<1>8. ASSUME NEW w \in Workers, FindExisting(w)
      PROVE  CallInv'
  <2>1. Typed'
    BY <1>8, VerdictsOK DEF FindExisting, CallInv, Typed, CounterFacts, Stages, Alive, InCall, Excused
  <2>2. CounterFacts' BY <1>8 DEF FindExisting, CallInv, Typed, CounterFacts, Alive, InCall, Excused
  <2>3. OneLive' BY <1>8 DEF FindExisting, CallInv, Typed, OneLive, Alive, Excused
  <2>4. SightFacts'
    <3>0. PICK found \in BOOLEAN :
            /\ found => cloud # {}
            /\ Excused(Busy(w) \/ (cloud # {} /\ ~found), "blind")
            /\ stage' = [stage EXCEPT ![w] = IF found THEN "write" ELSE "send"]
      BY <1>8 DEF FindExisting
    <3>1. UNCHANGED <<ended, attempt, cloud>> /\ stage[w] = "lookup" /\ ~ended[w]
      BY <1>8 DEF FindExisting
    <3> SUFFICES ASSUME excuse' # "blind" PROVE SightFacts'
      BY DEF SightFacts
    <3>2. excuse # "blind" /\ ~Busy(w) /\ (cloud = {} \/ found) BY <3>0 DEF Excused, CallInv, Typed
    <3>3. \A v \in Workers \ {w} : stage'[v] = stage[v] /\ ~InCall(v)
      BY <3>0, <3>2 DEF CallInv, Typed, Busy, InCall
    <3>4. stage'[w] = IF found THEN "write" ELSE "send" BY <3>0 DEF CallInv, Typed
    <3>5. \A v \in Workers : InCall(v)' => v = w /\ cloud = {}
      BY <3>2, <3>3, <3>4 DEF InCall
    <3>6. \A v \in Workers \ {w} : stage[v] \in {"confirm", "check"} => ended[v]
      BY <3>1 DEF CallInv, OneLive, Alive
    <3> QED BY <3>1, <3>2, <3>3, <3>5, <3>6 DEF CallInv, SightFacts
  <2>5. VerdictFacts' BY <1>8 DEF FindExisting, CallInv, Typed, VerdictFacts, InCall, Excused
  <2>6. IsFiniteSet(cloud)' BY <1>8, FS_AddElement DEF FindExisting, CallInv
  <2>7. WriteFacts' BY <1>8 DEF FindExisting, CallInv, Typed, WriteFacts, EndsTask, InCall, Alive, Excused
  <2> QED BY <2>1, <2>2, <2>3, <2>4, <2>5, <2>6, <2>7 DEF CallInv
<1>9. ASSUME NEW w \in Workers, Send(w)
      PROVE  CallInv'
  <2>1. Typed'
    BY <1>9, VerdictsOK DEF Send, CallInv, Typed, CounterFacts, Alive, InCall, Stages, Tokens, Token, Excused
  <2>2. CounterFacts' BY <1>9 DEF Send, CallInv, Typed, CounterFacts, Alive, InCall, Excused
  <2>3. OneLive' BY <1>9 DEF Send, CallInv, Typed, OneLive, Alive, Excused
  <2>4. SightFacts' BY <1>9 DEF Send, CallInv, Typed, SightFacts, InCall, Token, Excused, Busy
  <2>5. VerdictFacts' BY <1>9 DEF Send, CallInv, Typed, VerdictFacts, InCall, Excused
  <2>6. IsFiniteSet(cloud)' BY <1>9, FS_AddElement DEF Send, CallInv
  <2>7. WriteFacts' BY <1>9 DEF Send, CallInv, Typed, WriteFacts, EndsTask, InCall, Alive, Excused
  <2> QED BY <2>1, <2>2, <2>3, <2>4, <2>5, <2>6, <2>7 DEF CallInv
<1>10. ASSUME NEW w \in Workers, SendFails(w)
      PROVE  CallInv'
  <2>1. Typed'
    BY <1>10, VerdictsOK DEF SendFails, CallInv, Typed, CounterFacts, Alive, InCall, Stages, Category
  <2>2. CounterFacts' BY <1>10 DEF SendFails, CallInv, Typed, CounterFacts, Alive, InCall
  <2>3. OneLive' BY <1>10 DEF SendFails, CallInv, Typed, OneLive, Alive
  <2>4. SightFacts' BY <1>10 DEF SendFails, CallInv, Typed, SightFacts, InCall, Token
  <2>5. VerdictFacts' BY <1>10 DEF SendFails, CallInv, Typed, VerdictFacts, Category, InCall
  <2>6. IsFiniteSet(cloud)' BY <1>10, FS_AddElement DEF SendFails, CallInv
  <2>7. WriteFacts' BY <1>10 DEF SendFails, CallInv, Typed, WriteFacts, EndsTask, InCall, Alive
  <2> QED BY <2>1, <2>2, <2>3, <2>4, <2>5, <2>6, <2>7 DEF CallInv
<1>11. ASSUME NEW w \in Workers, Receive(w)
      PROVE  CallInv'
  <2>0. PICK a \in Answers, next \in {"send", "confirm", "check"}, retry \in BOOLEAN :
          /\ Possible(w, a)
          /\ net' \in AfterAnswer(w, a)
          /\ stage' = [stage EXCEPT ![w] = next]
          /\ retry => next = "send" /\ tries[w] < MaxCalls /\ UNCHANGED <<tries, verdict>>
          /\ ~retry => /\ next \in {"confirm", "check"}
                       /\ tries' = [tries EXCEPT ![w] = 0]
                       /\ verdict' = [verdict EXCEPT ![w] = Category(a)]
          /\ next = "check" => a \notin OutcomeUnknown
          /\ Excused(a \in Refusals /\ Token(w) \in cloud \union net', "masked")
    <3>1. PICK a \in Answers :
            /\ Possible(w, a)
            /\ net' \in AfterAnswer(w, a)
            /\ stage' = [stage EXCEPT ![w] = AfterCall(w, a)]
            /\ IF MayRetry(w, a)
               THEN UNCHANGED <<tries, verdict>>
               ELSE /\ tries' = [tries EXCEPT ![w] = 0]
                    /\ verdict' = [verdict EXCEPT ![w] = Category(a)]
            /\ Excused(a \in Refusals /\ Token(w) \in cloud \union net', "masked")
      BY <1>11 DEF Receive
    <3>2. CASE a \in ShouldRetry /\ tries[w] < MaxCalls
      <4>1. AfterCall(w, a) = "send" BY <3>2 DEF AfterCall, MayRetry
      <4>2. stage' = [stage EXCEPT ![w] = "send"] /\ UNCHANGED <<tries, verdict>>
        BY <3>1, <3>2, <4>1 DEF MayRetry
      <4> QED BY <3>1, <3>2, <4>2
    <3>3. CASE ~(a \in ShouldRetry /\ tries[w] < MaxCalls)
      <4>1. AfterCall(w, a) = IF a \in OutcomeUnknown THEN "confirm" ELSE "check"
        BY <3>3 DEF AfterCall, MayRetry
      <4>2. PICK next \in {"confirm", "check"} :
              /\ next = "check" => a \notin OutcomeUnknown
              /\ stage' = [stage EXCEPT ![w] = next]
        BY <3>1, <4>1
      <4>3. /\ tries' = [tries EXCEPT ![w] = 0]
            /\ verdict' = [verdict EXCEPT ![w] = Category(a)]
        BY <3>1, <3>3 DEF MayRetry
      <4> QED BY <3>1, <4>2, <4>3
    <3> QED BY <3>2, <3>3
  <2>7. stage[w] = "wait" /\ UNCHANGED <<taskRow, asked, ended, attempt, lookups, cloud>>
    BY <1>11 DEF Receive
  <2>8. net' \subseteq net BY <2>0 DEF AfterAnswer
  <2>10. Category(a) = "ok" => a = "ok" BY DEF Category
  <2>11. next = "check" /\ Category(a) # "ok" => a \in Refusals
    BY <2>0 DEF Category, OutcomeUnknown, Lost, Answers
  <2>1. Typed'
    <3>1. stage' \in [Workers -> Stages] BY <2>0 DEF CallInv, Typed, Stages
    <3>2. tries' \in [Workers -> 0 .. MaxCalls] BY <2>0 DEF CallInv, Typed
    <3>3. verdict' \in [Workers -> CallVerdicts] BY <2>0, VerdictsOK DEF CallInv, Typed
    <3>4. excuse' \in {"none", "masked", "unlooked", "stale", "blind"} BY <2>0 DEF CallInv, Typed, Excused
    <3> QED BY <3>1, <3>2, <3>3, <3>4, <2>7, <2>8 DEF CallInv, Typed
  <2>2. CounterFacts'
    <3> SUFFICES ASSUME NEW v \in Workers
                 PROVE  /\ Alive(v)' => attempt[v] >= 1
                        /\ ~InCall(v)' => tries'[v] = 0
                        /\ stage'[v] = "send" => tries'[v] < MaxCalls
                        /\ stage'[v] \notin {"confirm", "check", "write"} => lookups[v] = 0
                        /\ stage'[v] = "confirm" => lookups[v] < MaxLookups
      BY <2>7 DEF CounterFacts
    <3>1. CASE v = w
      <4>1. stage'[w] = next BY <2>0 DEF CallInv, Typed
      <4>2. Alive(w) /\ attempt[w] >= 1 /\ lookups[w] = 0
        BY <2>7 DEF CallInv, CounterFacts, Alive
      <4>3. retry => tries'[w] = tries[w] /\ tries[w] < MaxCalls /\ next = "send"
        BY <2>0 DEF CallInv, Typed
      <4>4. ~retry => tries'[w] = 0 /\ next \in {"confirm", "check"} BY <2>0 DEF CallInv, Typed
      <4> QED BY <3>1, <4>1, <4>2, <4>3, <4>4 DEF Alive, InCall
    <3>2. CASE v # w
      <4>1. stage'[v] = stage[v] /\ tries'[v] = tries[v] BY <2>0, <3>2 DEF CallInv, Typed
      <4> QED BY <4>1 DEF CallInv, CounterFacts, Alive, InCall
    <3> QED BY <3>1, <3>2
  <2>3. OneLive' BY <2>0, <2>7 DEF CallInv, Typed, OneLive, Alive
  <2>4. SightFacts'
    <3>1. excuse' # "blind" => excuse # "blind" BY <2>0 DEF Excused, CallInv, Typed
    <3>2. \A v \in Workers : InCall(v)' => InCall(v)
      BY <2>0, <2>7 DEF InCall, CallInv, Typed
    <3>3. \A v \in Workers \ {w} : stage'[v] = stage[v] BY <2>0 DEF CallInv, Typed
    <3>4. InCall(w) BY <2>7 DEF InCall
    <3> QED BY <2>7, <3>1, <3>2, <3>3, <3>4 DEF SightFacts, CallInv, Token
  <2>5. VerdictFacts'
    <3> SUFFICES ASSUME NEW v \in Workers
                 PROVE  /\ verdict'[v] = "ok" => cloud # {}
                        /\ /\ stage'[v] = "check" /\ verdict'[v] # "ok" /\ ~ended[v]
                           /\ excuse' = "none"
                           => cloud = {}
      BY <2>7 DEF CallInv, VerdictFacts
    <3>0. excuse' = "none" => excuse = "none" BY <2>0 DEF Excused, CallInv, Typed
    <3>1. CASE v = w /\ ~retry
      <4>0. verdict' = [verdict EXCEPT ![w] = Category(a)] BY <2>0, <3>1
      <4>1. verdict'[w] = Category(a)
        <5>1. DOMAIN verdict = Workers BY DEF CallInv, Typed
        <5> QED BY <4>0, <5>1
      <4>4. stage'[w] = next BY <2>0 DEF CallInv, Typed
      <4>2. a = "ok" => cloud # {} BY <2>0 DEF Possible, Refusals, Lost
      <4>3. ASSUME a \in Refusals, excuse' = "none" PROVE cloud = {}
        <5>1. Token(w) \notin cloud BY <2>0, <4>3 DEF Excused, CallInv, Typed
        <5>2. InCall(w) BY <2>7 DEF InCall
        <5> QED BY <3>0, <4>3, <5>1, <5>2 DEF CallInv, SightFacts
      <4> QED BY <3>1, <4>1, <4>2, <4>3, <4>4, <2>10, <2>11
    <3>2. CASE v = w /\ retry
      <4>1. verdict'[w] = verdict[w] /\ stage'[w] = "send" BY <2>0, <3>2 DEF CallInv, Typed
      <4> QED BY <3>2, <4>1 DEF CallInv, VerdictFacts
    <3>3. CASE v # w
      <4>1. stage'[v] = stage[v] /\ verdict'[v] = verdict[v] BY <2>0, <3>3 DEF CallInv, Typed
      <4> QED BY <3>0, <4>1 DEF CallInv, VerdictFacts
    <3> QED BY <3>1, <3>2, <3>3
  <2>6. IsFiniteSet(cloud)' BY <2>7 DEF CallInv
  <2>12. WriteFacts'
    <3> SUFFICES ASSUME excuse' = "none", NEW v \in Workers, EndsTask(v)' PROVE FALSE
      BY DEF WriteFacts
    <3>1. excuse = "none" BY <2>0 DEF Excused, CallInv, Typed
    <3>2. v # w BY <2>0 DEF EndsTask, CallInv, Typed
    <3>3. stage'[v] = stage[v] /\ verdict'[v] = verdict[v] /\ attempt'[v] = attempt[v]
      BY <2>0, <2>7, <3>2 DEF CallInv, Typed
    <3>4. EndsTask(v) BY <3>3 DEF EndsTask
    <3> QED BY <2>7, <3>1, <3>4 DEF CallInv, WriteFacts, InCall
  <2> QED BY <2>1, <2>2, <2>3, <2>4, <2>5, <2>6, <2>12 DEF CallInv
<1>12. ASSUME NEW w \in Workers, Confirm(w)
      PROVE  CallInv'
  <2>1. Typed'
    BY <1>12, VerdictsOK DEF Confirm, CallInv, Typed, CounterFacts, Stages, Alive, InCall, Excused
  <2>2. CounterFacts' BY <1>12 DEF Confirm, CallInv, Typed, CounterFacts, Alive, InCall, Excused
  <2>3. OneLive' BY <1>12 DEF Confirm, CallInv, Typed, OneLive, Alive, Excused
  <2>4. SightFacts' BY <1>12 DEF Confirm, CallInv, Typed, SightFacts, InCall, Token, Excused
  <2>5. VerdictFacts' BY <1>12 DEF Confirm, CallInv, Typed, VerdictFacts, InCall, Excused
  <2>6. IsFiniteSet(cloud)' BY <1>12, FS_AddElement DEF Confirm, CallInv
  <2>7. WriteFacts' BY <1>12 DEF Confirm, CallInv, Typed, WriteFacts, EndsTask, InCall, Alive, Excused
  <2> QED BY <2>1, <2>2, <2>3, <2>4, <2>5, <2>6, <2>7 DEF CallInv
<1>13. ASSUME NEW w \in Workers, Quit(w)
      PROVE  CallInv'
  <2>1. Typed'
    BY <1>13, VerdictsOK DEF Quit, CallInv, Typed, CounterFacts, Alive, InCall, Stages, Leaves
  <2>2. CounterFacts' BY <1>13 DEF Quit, CallInv, Typed, CounterFacts, Alive, InCall, Leaves
  <2>3. OneLive' BY <1>13 DEF Quit, CallInv, Typed, OneLive, Alive, Leaves
  <2>4. SightFacts' BY <1>13 DEF Quit, CallInv, Typed, SightFacts, InCall, Token, Leaves
  <2>5. VerdictFacts' BY <1>13 DEF Quit, CallInv, Typed, VerdictFacts, InCall, Leaves
  <2>6. IsFiniteSet(cloud)' BY <1>13 DEF Quit, CallInv
  <2>7. WriteFacts' BY <1>13 DEF Quit, CallInv, Typed, WriteFacts, EndsTask, InCall, Alive, Leaves
  <2> QED BY <2>1, <2>2, <2>3, <2>4, <2>5, <2>6, <2>7 DEF CallInv
<1>14. ASSUME NEW w \in Workers, NotQueued(w)
      PROVE  CallInv'
  <2>1. Typed'
    BY <1>14, VerdictsOK DEF NotQueued, CallInv, Typed, CounterFacts, Alive, InCall, Stages, Leaves
  <2>2. CounterFacts' BY <1>14 DEF NotQueued, CallInv, Typed, CounterFacts, Alive, InCall, Leaves
  <2>3. OneLive' BY <1>14 DEF NotQueued, CallInv, Typed, OneLive, Alive, Leaves
  <2>4. SightFacts' BY <1>14 DEF NotQueued, CallInv, Typed, SightFacts, InCall, Token, Leaves
  <2>5. VerdictFacts' BY <1>14 DEF NotQueued, CallInv, Typed, VerdictFacts, InCall, Leaves
  <2>6. IsFiniteSet(cloud)' BY <1>14 DEF NotQueued, CallInv
  <2>7. WriteFacts' BY <1>14 DEF NotQueued, CallInv, Typed, WriteFacts, EndsTask, InCall, Alive, Leaves
  <2> QED BY <2>1, <2>2, <2>3, <2>4, <2>5, <2>6, <2>7 DEF CallInv
<1>15. ASSUME NEW w \in Workers, CheckContext(w)
      PROVE  CallInv'
  <2>1. Typed'
    BY <1>15, VerdictsOK DEF CheckContext, CallInv, Typed, CounterFacts, Alive, InCall, Stages
  <2>2. CounterFacts' BY <1>15 DEF CheckContext, CallInv, Typed, CounterFacts, Alive, InCall
  <2>3. OneLive' BY <1>15 DEF CheckContext, CallInv, Typed, OneLive, Alive
  <2>4. SightFacts' BY <1>15 DEF CheckContext, CallInv, Typed, SightFacts, InCall, Token
  <2>5. VerdictFacts' BY <1>15 DEF CheckContext, CallInv, Typed, VerdictFacts, InCall
  <2>6. IsFiniteSet(cloud)' BY <1>15 DEF CheckContext, CallInv
  <2>7. WriteFacts'
    <3> SUFFICES ASSUME excuse = "none", NEW v \in Workers, EndsTask(v)'
                 PROVE  /\ cloud = {}
                        /\ \A u \in Workers : ~InCall(u)'
                        /\ \A u \in Workers : u # v /\ Alive(u)' => ended[u]
      BY <1>15 DEF CheckContext, WriteFacts
    <3>1. /\ \A u \in Workers \ {w} : stage'[u] = stage[u]
          /\ stage[w] = "check" /\ stage'[w] = "write"
          /\ UNCHANGED <<verdict, attempt, ended>>
      BY <1>15 DEF CheckContext, CallInv, Typed
    <3>2. \A u \in Workers : (Alive(u)' <=> Alive(u)) /\ (InCall(u)' <=> InCall(u))
      BY <3>1 DEF Alive, InCall
    <3>3. CASE v = w
      <4>1. verdict[w] # "ok" /\ ~ended[w] BY <1>15, <3>1, <3>3 DEF CheckContext, EndsTask
      <4>2. cloud = {} BY <3>1, <4>1 DEF CallInv, VerdictFacts
      <4>3. \A u \in Workers : ~InCall(u) BY <3>1, <4>1 DEF CallInv, SightFacts, InCall
      <4>4. Alive(w) BY <3>1 DEF Alive
      <4>5. \A u \in Workers : u # w /\ Alive(u) => ended[u] BY <4>1, <4>4 DEF CallInv, OneLive
      <4> QED BY <3>2, <3>3, <4>2, <4>3, <4>5
    <3>4. CASE v # w
      <4>1. EndsTask(v) BY <3>1, <3>4 DEF EndsTask
      <4> QED BY <3>2, <4>1 DEF CallInv, WriteFacts
    <3> QED BY <3>3, <3>4
  <2> QED BY <2>1, <2>2, <2>3, <2>4, <2>5, <2>6, <2>7 DEF CallInv
<1>16. ASSUME NEW w \in Workers, RecordSuccess(w)
      PROVE  CallInv'
  <2>1. Typed'
    BY <1>16, VerdictsOK DEF RecordSuccess, CallInv, Typed, CounterFacts, Alive, InCall, Stages, Leaves
  <2>2. CounterFacts' BY <1>16 DEF RecordSuccess, CallInv, Typed, CounterFacts, Alive, InCall, Leaves
  <2>3. OneLive' BY <1>16 DEF RecordSuccess, CallInv, Typed, OneLive, Alive, Leaves
  <2>4. SightFacts' BY <1>16 DEF RecordSuccess, CallInv, Typed, SightFacts, InCall, Token, Leaves
  <2>5. VerdictFacts' BY <1>16 DEF RecordSuccess, CallInv, Typed, VerdictFacts, InCall, Leaves
  <2>6. IsFiniteSet(cloud)' BY <1>16 DEF RecordSuccess, CallInv
  <2>7. WriteFacts' BY <1>16 DEF RecordSuccess, CallInv, Typed, WriteFacts, EndsTask, InCall, Alive, Leaves
  <2> QED BY <2>1, <2>2, <2>3, <2>4, <2>5, <2>6, <2>7 DEF CallInv
<1>17. ASSUME NEW w \in Workers, RecordFailure(w)
      PROVE  CallInv'
  <2>0. PICK next \in {"done", "top"}, n \in 0 .. MaxAttempts :
          Leaves(w, next, n) /\ (next = "top" => n >= 1)
    BY <1>17 DEF RecordFailure, CallInv, Typed
  <2>9. /\ stage[w] = "write" /\ UNCHANGED <<asked, tries, net, cloud, excuse>>
        /\ taskRow' \in {"failed", "stopped", taskRow}
    BY <1>17 DEF RecordFailure, EndsTask
  <2>1. Typed'
    <3>1. stage' \in [Workers -> Stages] BY <2>0 DEF Leaves, CallInv, Typed, Stages
    <3>2. ended' \in [Workers -> BOOLEAN] BY <2>0, Zenon DEF Leaves, CallInv, Typed
    <3>3. attempt' \in [Workers -> 0 .. MaxAttempts] BY <2>0 DEF Leaves, CallInv, Typed
    <3>4. lookups' \in [Workers -> 0 .. MaxLookups] BY <2>0 DEF Leaves, CallInv, Typed
    <3>5. verdict' \in [Workers -> CallVerdicts] BY <2>0, VerdictsOK DEF Leaves, CallInv, Typed
    <3> QED BY <2>9, <3>1, <3>2, <3>3, <3>4, <3>5 DEF CallInv, Typed
  <2>2. CounterFacts' BY <2>0, <2>9 DEF CallInv, Typed, CounterFacts, Alive, InCall, Leaves
  <2>3. OneLive' BY <1>17 DEF RecordFailure, CallInv, Typed, OneLive, Alive, Leaves
  <2>4. SightFacts' BY <1>17 DEF RecordFailure, CallInv, Typed, SightFacts, InCall, Token, Leaves
  <2>5. VerdictFacts' BY <1>17 DEF RecordFailure, CallInv, Typed, VerdictFacts, InCall, Leaves
  <2>6. IsFiniteSet(cloud)' BY <1>17 DEF RecordFailure, CallInv
  <2>7. WriteFacts' BY <1>17 DEF RecordFailure, CallInv, Typed, WriteFacts, EndsTask, InCall, Alive, Leaves
  <2> QED BY <2>1, <2>2, <2>3, <2>4, <2>5, <2>6, <2>7 DEF CallInv
<1>18. ASSUME NEW t \in net, Create(t)
      PROVE  CallInv'
  <2>1. Typed'
    BY <1>18, VerdictsOK DEF Create, CallInv, Typed, CounterFacts, Alive, InCall, workerVars, Excused
  <2>2. CounterFacts'
    BY <1>18 DEF Create, CallInv, Typed, CounterFacts, workerVars, Alive, InCall, Excused
  <2>3. OneLive' BY <1>18 DEF Create, CallInv, Typed, OneLive, workerVars, Alive, Excused
  <2>4. SightFacts'
    BY <1>18 DEF Create, CallInv, Typed, SightFacts, Tokens, workerVars, InCall, Token, Excused
  <2>5. VerdictFacts'
    <3>0. /\ t[1] \in Workers /\ cloud' = cloud \union {t}
          /\ UNCHANGED <<stage, ended, verdict, attempt>>
      BY <1>18 DEF Create, workerVars, CallInv, Typed, Tokens
    <3> SUFFICES ASSUME NEW v \in Workers, stage[v] = "check", verdict[v] # "ok", ~ended[v],
                        excuse' = "none"
                 PROVE  FALSE
      <4>1. taskRow' = taskRow BY <1>18 DEF Create
      <4> QED BY <3>0, <4>1 DEF VerdictFacts, CallInv
    <3>1. excuse = "none" /\ (t \in cloud \/ InCall(t[1]))
      BY <1>18 DEF Create, Excused, InCall, CallInv, Typed
    <3>2. cloud = {} BY <3>1 DEF CallInv, VerdictFacts
    <3>3. InCall(t[1]) /\ t[1] = v BY <3>0, <3>1, <3>2 DEF CallInv, SightFacts
    <3> QED BY <3>3 DEF InCall
  <2>6. IsFiniteSet(cloud)' BY <1>18, FS_AddElement DEF Create, CallInv
  <2>7. WriteFacts'
    <3>0. t[1] \in Workers /\ UNCHANGED <<stage, ended, verdict, attempt>>
      BY <1>18 DEF Create, workerVars, CallInv, Typed, Tokens
    <3> SUFFICES ASSUME excuse' = "none", NEW v \in Workers, EndsTask(v) PROVE FALSE
      BY <3>0 DEF WriteFacts, EndsTask
    <3>1. excuse = "none" /\ (t \in cloud \/ InCall(t[1]))
      BY <1>18 DEF Create, Excused, InCall, CallInv, Typed
    <3> QED BY <3>0, <3>1 DEF CallInv, WriteFacts
  <2> QED BY <2>1, <2>2, <2>3, <2>4, <2>5, <2>6, <2>7 DEF CallInv
<1>19. ASSUME NEW t \in net, Vanish(t)
      PROVE  CallInv'
  <2>1. Typed'
    BY <1>19, VerdictsOK DEF Vanish, CallInv, Typed, CounterFacts, Alive, InCall, workerVars
  <2>2. CounterFacts' BY <1>19 DEF Vanish, CallInv, Typed, CounterFacts, workerVars, Alive, InCall
  <2>3. OneLive' BY <1>19 DEF Vanish, CallInv, Typed, OneLive, workerVars, Alive
  <2>4. SightFacts' BY <1>19 DEF Vanish, CallInv, Typed, SightFacts, workerVars, InCall, Token
  <2>5. VerdictFacts' BY <1>19 DEF Vanish, CallInv, Typed, VerdictFacts, workerVars, InCall
  <2>6. IsFiniteSet(cloud)' BY <1>19, FS_AddElement DEF Vanish, CallInv
  <2>7. WriteFacts' BY <1>19 DEF Vanish, CallInv, Typed, WriteFacts, EndsTask, InCall, Alive, workerVars
  <2> QED BY <2>1, <2>2, <2>3, <2>4, <2>5, <2>6, <2>7 DEF CallInv
<1>20. CASE UNCHANGED callVars
  BY <1>20 DEF callVars, workerVars, CallInv, Typed, CounterFacts, OneLive, SightFacts, VerdictFacts,
               WriteFacts, EndsTask, Alive, InCall, Token
<1> QED BY <1>1, <1>2, <1>3, <1>4, <1>5, <1>6, <1>7, <1>8, <1>9, <1>10, <1>11, <1>12, <1>13, <1>14, <1>15, <1>16, <1>17, <1>18, <1>19, <1>20
        DEF CallNext, AttemptStep

LEMMA CallMeaning == CallInv => CallTypeOK /\ NoSecondInstance
<1> SUFFICES ASSUME CallInv PROVE CallTypeOK /\ NoSecondInstance
  OBVIOUS
<1>1. CallTypeOK BY TypedSame DEF CallInv
<1>2. ASSUME excuse # "blind" PROVE Cardinality(cloud) <= 1
  <2>1. CASE cloud = {} BY <2>1, FS_EmptySet
  <2>2. ASSUME NEW t \in cloud PROVE Cardinality(cloud) <= 1
    <3>1. cloud = {t} BY <1>2, <2>2 DEF CallInv, SightFacts
    <3> QED BY <3>1, FS_Singleton
  <2> QED BY <2>1, <2>2
<1>3. Cardinality(cloud) \in Nat BY FS_CardinalityType DEF CallInv
<1>4. NoSecondInstance BY <1>2, <1>3 DEF NoSecondInstance
<1> QED BY <1>1, <1>4

\* A call makes at most so many requests and lookups, a task so many attempts
\* (launchRetryPolicy, findExistingInstance, runWorkerLoop).
THEOREM CallTypeCorrect == CallSpec => []CallTypeOK
<1> QED BY CallMeaning, CallInitInv, CallStepInv, PTL DEF CallSpec

\* A second instance needs a lookup that missed the first, a request that
\* outlived its call, or two workers at once (executeAttempt, LaunchInstance).
THEOREM OneInstanceInSight == CallSpec => []NoSecondInstance
<1> QED BY CallMeaning, CallInitInv, CallStepInv, PTL DEF CallSpec

(***************************************************************************)
(* The refinement.                                                         *)
(***************************************************************************)

\* One step of the call is one of the promise, or none.
LEMMA PromiseStep ==
  ASSUME CallInv, CallNext
  PROVE  [Promise!PromiseNext]_<<Cardinality(cloud), taskRow, (excuse # "none")>>
<1> DEFINE Step == [Promise!PromiseNext]_<<Cardinality(cloud), taskRow, (excuse # "none")>>
<1> USE DEF Promise!PromiseNext
<1>0. excuse # "none" => excuse' # "none"
  BY DEF CallInv, Typed, CallNext, AttemptStep, AskStart, Begin, StopTask, CrashEngine, ResolveADs, ReadRow,
         GiveUp, FindExisting, Send, SendFails, Receive, Confirm, CheckContext, Quit, NotQueued,
         RecordSuccess, RecordFailure, Create, Vanish, Excused
<1>7. excuse \in {"none", "masked", "unlooked", "stale", "blind"} BY DEF CallInv, Typed
\* Steps that only look.
<1>1. ASSUME UNCHANGED <<cloud, taskRow>> PROVE Step
  <2>1. CASE excuse = "none" /\ excuse' # "none" BY <1>1, <2>1 DEF Promise!Excuse
  <2>2. CASE (excuse # "none") = (excuse' # "none") BY <1>1, <2>2
  <2> QED BY <1>0, <2>1, <2>2
\* A start, a stop, a budget that runs out.
<1>2. ASSUME UNCHANGED cloud, taskRow' \in {"running", "stopped"},
             taskRow # "success" \/ excuse' # "none"
      PROVE  Step
  BY <1>0, <1>2 DEF Promise!Requeue
<1>3. ASSUME NEW w \in Workers, RecordSuccess(w) PROVE Step
  <2>1. cloud # {} BY <1>3 DEF RecordSuccess, CallInv, VerdictFacts
  <2>2. Cardinality(cloud) > 0 BY <2>1, FS_EmptySet, FS_CardinalityType DEF CallInv
  <2>3. UNCHANGED <<cloud, excuse>> /\ taskRow' = "success" BY <1>3 DEF RecordSuccess
  <2> QED BY <2>2, <2>3 DEF Promise!Succeed
<1>4. ASSUME NEW w \in Workers, RecordFailure(w) PROVE Step
  <2>0. UNCHANGED <<cloud, excuse>> BY <1>4 DEF RecordFailure
  <2>1. CASE EndsTask(w) /\ taskRow' = IF verdict[w] = "fatal" THEN "failed" ELSE "stopped"
    <3>1. excuse = "none" => cloud = {} BY <2>1 DEF CallInv, WriteFacts
    <3>2. excuse = "none" => Cardinality(cloud) = 0 BY <3>1, FS_EmptySet
    <3>3. taskRow # "success" \/ excuse' # "none" BY <2>0, <3>1 DEF CallInv, VerdictFacts
    <3>4. CASE taskRow' = "failed" BY <2>0, <3>2, <3>4 DEF Promise!Fail
    <3>5. CASE taskRow' = "stopped" BY <1>2, <2>0, <3>3, <3>5
    <3> QED BY <2>1, <3>4, <3>5
  <2>2. CASE UNCHANGED taskRow BY <1>1, <2>0, <2>2
  <2> QED BY <1>4, <2>1, <2>2 DEF RecordFailure
<1>5. ASSUME NEW t \in net, Create(t) PROVE Step
  <2>0. cloud' = cloud \union {t} /\ taskRow' = taskRow BY <1>5 DEF Create
  <2>1. CASE t \in cloud BY <1>1, <2>0, <2>1
  <2>2. CASE t \notin cloud
    <3>1. Cardinality(cloud') = Cardinality(cloud) + 1 BY <2>0, <2>2, FS_AddElement DEF CallInv
    <3>2. Cardinality(cloud) = 0 \/ excuse' # "none"
      <4> SUFFICES ASSUME excuse' = "none" PROVE Cardinality(cloud) = 0
        OBVIOUS
      <4>1. excuse = "none" /\ InCall(t[1]) /\ Token(t[1]) = t
        BY <1>5, <2>2 DEF Create, Excused, InCall
      <4>2. t[1] \in Workers BY DEF CallInv, Typed, Tokens
      <4>3. cloud = {} BY <2>2, <4>1, <4>2 DEF CallInv, SightFacts
      <4> QED BY <4>3, FS_EmptySet
    <3> QED BY <1>0, <2>0, <3>1, <3>2 DEF Promise!Create
  <2> QED BY <2>1, <2>2
<1>6. ASSUME NEW w \in Workers, Begin(w) PROVE Step
  <2>1. taskRow # "success" \/ excuse' # "none" BY <1>6 DEF Begin, Excused, CallInv, Typed
  <2> QED BY <1>2, <1>6, <2>1 DEF Begin
<1>8. CASE StopTask
  <2>1. CASE taskRow = "running" BY <1>2, <1>8, <2>1 DEF StopTask
  <2>2. CASE taskRow # "running" BY <1>1, <1>8, <2>2 DEF StopTask
  <2> QED BY <2>1, <2>2
<1>9. \/ UNCHANGED <<cloud, taskRow>>
      \/ StopTask
      \/ \E w \in Workers : Begin(w) \/ RecordSuccess(w) \/ RecordFailure(w)
      \/ \E t \in net : Create(t)
  BY DEF CallNext, AttemptStep, AskStart, CrashEngine, ResolveADs, ReadRow, GiveUp, FindExisting, Send,
         SendFails, Receive, Confirm, CheckContext, Quit, NotQueued, Vanish, workerVars
<1> QED BY <1>1, <1>3, <1>4, <1>5, <1>6, <1>8, <1>9

\* The launching of a task implements what LaunchPromise says of it.
THEOREM CallKeepsPromise == CallSpec => KeepsPromise
<1>1. CallInit => Promise!PromiseInit
  BY FS_EmptySet DEF CallInit, Promise!PromiseInit
<1>2. CallInv /\ [CallNext]_callVars
        => [Promise!PromiseNext]_<<Cardinality(cloud), taskRow, (excuse # "none")>>
  <2>1. CASE UNCHANGED callVars BY <2>1 DEF callVars
  <2> QED BY <2>1, PromiseStep
<1> QED BY <1>1, <1>2, CallInitInv, CallStepInv, PTL DEF CallSpec, KeepsPromise, Promise!PromiseSpec

===============================================================================
