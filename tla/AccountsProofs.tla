---------------------------- MODULE AccountsProofs ----------------------------
(***************************************************************************)
(* What is proved of Accounts, for any number of requests, clients,        *)
(* accounts and keys: names are used once, a client signs with the key     *)
(* whose fingerprint it sends, a profile stays with its owner, and a       *)
(* default key exists.                                                     *)
(***************************************************************************)
EXTENDS Accounts, TLAPS

Steps ==
  {"idle", "name", "first", "save", "create", "invalidate", "erase", "set", "unsave", "clear"}
Row == [name : 0 .. LastSuffix, owner : Owners \union {NoOwner},
        fp : {keyFingerprint(p) : p \in Pems} \union {<<>>}, pem : Pems \union {"none"},
        dflt : 0 .. LastKey]
Request == [step : Steps, id : 0 .. LastId, row : Row, sect : Row, key : 0 .. LastKey]
Client == [step : {"idle", "decrypt"}, id : 0 .. LastId, row : Row, pem : Pems \union {"none"}]

Typed ==
  /\ profiles \in [Ids -> Row]
  /\ madeKeys \in 0 .. LastKey /\ sshKeys \subseteq 1 .. madeKeys /\ haunted \subseteq 1 .. madeKeys
  /\ req \in [Requests -> Request]
  /\ client \in [Clients -> Client]
  /\ founder \in [Ids -> Owners \union {NoOwner}]
  /\ contested \subseteq Ids

\* A row of a real account.
Full(row) ==
  /\ row.name # 0 /\ row.owner \in Owners /\ row.pem \in Pems /\ row.fp = keyFingerprint(row.pem)

\* A key that may be somebody's default.
Known(k) ==
  \/ k \in sshKeys \union haunted \union {0}
  \/ \E r \in Requests : req[r].step = "clear" /\ req[r].key = k

\* A row of the table is whole, of an account that was created, the only one of
\* its name, and of the owner it was created for.
Kept1(id) ==
  /\ Full(profiles[id])
  /\ founder[id] # NoOwner
  /\ \A i \in Ids : profiles[i].name = profiles[id].name => i = id
  /\ \A k \in 0 .. LastKey : profiles[id].dflt = k => Known(k)
  /\ id \notin contested /\ profiles[id].name < LastSuffix => profiles[id].owner = founder[id]

ProfileFacts == \A id \in Ids : Exists(id) => Kept1(id)

\* A request that has chosen a name, before it looks for the row again.
FirstGood(q) == \A id \in Ids \ contested :
  Exists(id) /\ profiles[id].name = q.sect.name /\ q.sect.name < LastSuffix
    => profiles[id].owner = q.sect.owner

\* One that is about to write the row it read.
SaveGood(q) ==
  /\ q.id # 0 /\ founder[q.id] # NoOwner /\ Known(q.row.dflt)
  /\ Exists(q.id) => profiles[q.id].name = q.sect.name
  /\ q.id \notin contested /\ q.sect.name < LastSuffix => founder[q.id] = q.sect.owner

Good(q) ==
  /\ q.step \in {"name", "first", "save", "create"} => Full(q.sect) /\ q.sect.dflt = 0
  /\ q.step = "first" => FirstGood(q)
  /\ q.step = "save" => SaveGood(q)
  /\ q.step \in {"set", "unsave", "clear"} => q.key \in 1 .. madeKeys
  /\ q.step = "set" => q.id # 0 /\ Known(q.key)
  /\ q.step \in {"erase", "invalidate"} => q.id # 0

RequestFacts == \A r \in Requests : Good(req[r])

\* Two imports that write to one row mean one name.
SameName(p, q) == p.step = "save" /\ q.step = "save" /\ p.id = q.id => p.sect.name = q.sect.name
SameRowSameName == \A q, r \in Requests : SameName(req[q], req[r])

\* The cache and the clients hold keys with their own fingerprints.
CacheFacts == \A e \in rsaKeyCache : e[1][2] = keyFingerprint(e[2]) /\ e[2] \in Pems
Signs(d) ==
  /\ d.id # 0 => Full(d.row)
  /\ d.step = "decrypt" => d.id # 0
  /\ d.pem # "none" => keyFingerprint(d.pem) = d.row.fp
ClientFacts == \A c \in Clients : Signs(client[c])

AccountsInv ==
  Typed /\ ProfileFacts /\ RequestFacts /\ SameRowSameName /\ CacheFacts /\ ClientFacts

(***************************************************************************)
(* Types.                                                                  *)
(***************************************************************************)
LEMMA RowType ==
  ASSUME NEW row \in Row
  PROVE  /\ row.name \in 0 .. LastSuffix /\ row.name \in Nat /\ row.owner \in Owners \union {NoOwner}
         /\ row.fp \in {keyFingerprint(p) : p \in Pems} \union {<<>>}
         /\ row.pem \in Pems \union {"none"} /\ row.dflt \in 0 .. LastKey
  BY DEF Row

LEMMA RequestType ==
  ASSUME Typed, NEW r \in Requests
  PROVE  /\ req[r] \in Request /\ req[r].step \in Steps /\ req[r].id \in 0 .. LastId
         /\ req[r].row \in Row /\ req[r].sect \in Row /\ req[r].key \in 0 .. LastKey
<1>1. req[r] \in Request BY DEF Typed
<1> QED BY <1>1 DEF Request

LEMMA NoneTyped ==
  /\ NoRow \in Row /\ NoRow.name = 0 /\ ~Full(NoRow)
  /\ NoRequest \in Request /\ NoRequest.step = "idle"
  /\ NoClient \in Client /\ NoClient.step = "idle" /\ NoClient.id = 0 /\ NoClient.pem = "none"
<1>1. NoRow \in Row /\ NoRow.name = 0 /\ ~Full(NoRow)
  BY AccountsOK DEF AccountsOK, NoRow, Row, NoOwner, Full
<1>2. NoRequest \in Request /\ NoRequest.step = "idle"
  BY <1>1, AccountsOK DEF AccountsOK, NoRequest, Request, Steps
<1>3. NoClient \in Client /\ NoClient.step = "idle" /\ NoClient.id = 0 /\ NoClient.pem = "none"
  BY <1>1, AccountsOK DEF AccountsOK, NoClient, Client
<1> QED BY <1>1, <1>2, <1>3

LEMMA IdleGood == Good(NoRequest) /\ Good(NoRequest)'
  BY NoneTyped DEF Good

(***************************************************************************)
(* What a step keeps.                                                      *)
(***************************************************************************)
\* No row appears, and none changes its name, owner or key.
RowsKept == \A id \in Ids : Exists(id)' =>
  /\ Exists(id)
  /\ profiles'[id].name = profiles[id].name /\ profiles'[id].owner = profiles[id].owner
  /\ profiles'[id].pem = profiles[id].pem /\ profiles'[id].fp = profiles[id].fp

\* Every default that was known is known.
KnownKept == \A k \in 0 .. LastKey : Known(k) => Known(k)'

LEMMA GoodKept ==
  ASSUME Typed, RowsKept, KnownKept, UNCHANGED <<founder, contested>>, madeKeys' \in Nat,
         madeKeys <= madeKeys', NEW q \in Request, Good(q)
  PROVE  Good(q)'
<1>1. q.row.dflt \in 0 .. LastKey /\ q.key \in 0 .. LastKey /\ q.id \in 0 .. LastId /\ madeKeys \in Nat
  BY RowType DEF Typed, Request
<1>2. q.step = "first" => FirstGood(q)' BY DEF Good, FirstGood, RowsKept
<1>3. q.step = "save" => SaveGood(q)'
  <2>1. q.id # 0 => q.id \in Ids BY <1>1 DEF Ids
  <2> QED BY <1>1, <2>1 DEF Good, SaveGood, RowsKept, KnownKept
<1> QED BY <1>1, <1>2, <1>3 DEF Good, KnownKept

LEMMA ProfilesKept ==
  ASSUME AccountsInv, RowsKept, profiles' \in [Ids -> Row], UNCHANGED <<founder, contested>>,
         \A id \in Ids, k \in 0 .. LastKey : Exists(id)' /\ profiles'[id].dflt = k => Known(k)'
  PROVE  ProfileFacts'
<1> SUFFICES ASSUME NEW id \in Ids, Exists(id)' PROVE Kept1(id)'
  BY DEF ProfileFacts
<1>1. Exists(id) /\ Kept1(id) BY DEF RowsKept, AccountsInv, ProfileFacts
<1>2. Full(profiles[id])' BY <1>1 DEF Kept1, Full, RowsKept
<1>3. ASSUME NEW i \in Ids, profiles'[i].name = profiles'[id].name PROVE i = id
  <2>1. profiles'[id].name # 0 BY <1>2 DEF Full
  <2>2. Exists(i)' BY <2>1, <1>3, NoneTyped DEF Exists
  <2> QED BY <1>1, <1>3, <2>2 DEF RowsKept, Kept1
<1>4. id \notin contested' /\ profiles'[id].name < LastSuffix => profiles'[id].owner = founder'[id]
  BY <1>1 DEF Kept1, RowsKept
<1>5. founder'[id] # NoOwner BY <1>1 DEF Kept1
<1> QED BY <1>2, <1>3, <1>4, <1>5 DEF Kept1

\* The request of r becomes q, the others stay.
LEMMA RequestsKept ==
  ASSUME AccountsInv, NEW r \in Requests, NEW q \in Request, req' = [req EXCEPT ![r] = q],
         Good(q)', \A p \in Request : Good(p) => Good(p)',
         q.step = "save" => \A s \in Requests : SameName(req[s], q)
  PROVE  RequestFacts' /\ SameRowSameName' /\ req' \in [Requests -> Request]
<1>1. req \in [Requests -> Request] BY DEF AccountsInv, Typed
<1>2. req' \in [Requests -> Request] BY <1>1
<1>3. \A s \in Requests : req'[s] = IF s = r THEN q ELSE req[s] BY <1>1
<1>4. ASSUME NEW s \in Requests PROVE Good(req[s])'
  <2>1. req[s] \in Request /\ Good(req[s]) BY <1>1 DEF AccountsInv, RequestFacts
  <2>2. PICK p \in Request : p = req'[s] BY <1>2
  <2>3. Good(p)' BY <2>1, <2>2, <1>3
  <2> QED BY <2>2, <2>3 DEF Good, FirstGood, SaveGood
<1>5. SameRowSameName'
  <2> SUFFICES ASSUME NEW s \in Requests, NEW t \in Requests PROVE SameName(req'[s], req'[t])
    BY DEF SameRowSameName, SameName
  <2>1. SameName(req[s], req[t]) BY DEF AccountsInv, SameRowSameName
  <2> QED BY <1>3, <2>1 DEF SameName
<1> QED BY <1>2, <1>4, <1>5 DEF RequestFacts

LEMMA AccountsInitInv == AccountsInit => AccountsInv
<1> SUFFICES ASSUME AccountsInit PROVE AccountsInv
  OBVIOUS
<1>1. Typed
  <2>1. profiles \in [Ids -> Row] /\ req \in [Requests -> Request] /\ client \in [Clients -> Client]
    BY NoneTyped DEF AccountsInit
  <2> QED BY <2>1, AccountsOK DEF AccountsInit, Typed, AccountsOK
<1>2. ProfileFacts BY DEF AccountsInit, ProfileFacts, Exists
<1>3. RequestFacts BY IdleGood DEF AccountsInit, RequestFacts
<1>4. SameRowSameName BY NoneTyped DEF AccountsInit, SameRowSameName, SameName
<1>5. CacheFacts BY DEF AccountsInit, CacheFacts
<1>6. ClientFacts BY NoneTyped DEF AccountsInit, ClientFacts, Signs
<1> QED BY <1>1, <1>2, <1>3, <1>4, <1>5, <1>6 DEF AccountsInv

(***************************************************************************)
(* Steps that write no row.                                                *)
(***************************************************************************)
LEMMA SameRows == ASSUME UNCHANGED profiles PROVE RowsKept
  BY DEF RowsKept, Exists

LEMMA ClearingKept ==
  ASSUME Typed, NEW r \in Requests, NEW q \in Request, req' = [req EXCEPT ![r] = q],
         req[r].step # "clear", sshKeys \subseteq sshKeys', haunted \subseteq haunted'
  PROVE  KnownKept
<1>1. \A s \in Requests \ {r} : req'[s] = req[s] BY DEF Typed
<1> SUFFICES ASSUME NEW k \in 0 .. LastKey, Known(k) PROVE Known(k)'
  BY DEF KnownKept
<1>2. CASE k \in sshKeys \union haunted \union {0} BY <1>2 DEF Known
<1>3. ASSUME NEW s \in Requests, req[s].step = "clear", req[s].key = k PROVE Known(k)'
  BY <1>1, <1>3 DEF Known
<1> QED BY <1>2, <1>3 DEF Known

\* The rest of the state is what it was: the tables are right still.
LEMMA TablesKept ==
  ASSUME AccountsInv, KnownKept, UNCHANGED <<profiles, founder, contested>>
  PROVE  ProfileFacts'
<1>1. ASSUME NEW id \in Ids, NEW k \in 0 .. LastKey, Exists(id)', profiles'[id].dflt = k
      PROVE  Known(k)'
  <2>1. Exists(id) /\ Known(k) BY <1>1 DEF Exists, AccountsInv, ProfileFacts, Kept1
  <2> QED BY <2>1 DEF KnownKept
<1> QED BY <1>1, SameRows, ProfilesKept DEF AccountsInv, Typed

LEMMA OnlyRequest ==
  ASSUME AccountsInv, NEW r \in Requests, NEW q \in Request, req' = [req EXCEPT ![r] = q],
         req[r].step # "clear", Good(q),
         q.step = "save" => \A s \in Requests : SameName(req[s], q),
         UNCHANGED <<profiles, sshKeys, madeKeys, rsaKeyCache, client, founder, contested, haunted>>
  PROVE  AccountsInv'
<1>1. KnownKept BY ClearingKept DEF AccountsInv
<1>2. madeKeys \in Nat BY AccountsOK DEF AccountsInv, Typed, AccountsOK
<1>3. \A p \in Request : Good(p) => Good(p)'
  BY <1>1, <1>2, SameRows, GoodKept DEF AccountsInv
<1>4. RequestFacts' /\ SameRowSameName' /\ req' \in [Requests -> Request]
  BY <1>3, RequestsKept
<1>5. ProfileFacts' BY <1>1, TablesKept
<1>6. Typed' BY <1>4 DEF AccountsInv, Typed
<1>7. CacheFacts' /\ ClientFacts' BY DEF AccountsInv, CacheFacts, ClientFacts
<1> QED BY <1>4, <1>5, <1>6, <1>7 DEF AccountsInv

LEMMA ImportInv == ASSUME AccountsInv, NEW r \in Requests, ImportProfile(r) PROVE AccountsInv'
<1>1. PICK o \in Owners, p \in Pems :
        req' = [req EXCEPT ![r] = [@ EXCEPT !.step = "name",
          !.sect = [name |-> 1, owner |-> o, fp |-> keyFingerprint(p), pem |-> p, dflt |-> 0]]]
  BY DEF ImportProfile
<1>2. PICK row : row = [name |-> 1, owner |-> o, fp |-> keyFingerprint(p), pem |-> p, dflt |-> 0]
  OBVIOUS
<1>3. row \in Row /\ Full(row) /\ row.dflt = 0 BY <1>2, AccountsOK DEF AccountsOK, Row, Full
<1>4. PICK q : q = [req[r] EXCEPT !.step = "name", !.sect = row] OBVIOUS
<1>5. q \in Request /\ q.step = "name" /\ q.sect = row
  BY <1>3, <1>4, RequestType DEF AccountsInv, Request, Steps
<1>6. Good(q) BY <1>3, <1>5 DEF Good
<1>7. req' = [req EXCEPT ![r] = q] BY <1>1, <1>2, <1>4 DEF AccountsInv, Typed
<1> QED BY <1>5, <1>6, <1>7, OnlyRequest DEF ImportProfile, At

LEMMA NameInv == ASSUME AccountsInv, NEW r \in Requests, uniqueProfileName(r) PROVE AccountsInv'
<1>0. /\ req[r] \in Request /\ req[r].step = "name" /\ req[r].sect \in Row
      /\ Full(req[r].sect) /\ req[r].sect.dflt = 0
  BY RequestType DEF uniqueProfileName, At, AccountsInv, RequestFacts, Good
<1>1. CASE /\ req[r].sect.name = LastSuffix \/ \A id \in Named(req[r].sect.name) : SameAccount(id, req[r].sect)
           /\ ReqTo(r, "first")
  <2>1. PICK q : q = [req[r] EXCEPT !.step = "first"] OBVIOUS
  <2>2. q \in Request /\ q.step = "first" /\ q.sect = req[r].sect BY <1>0, <2>1 DEF Request, Steps
  <2>3. FirstGood(q)
    <3> SUFFICES ASSUME NEW id \in Ids, profiles[id].name = q.sect.name, q.sect.name < LastSuffix
                 PROVE  profiles[id].owner = q.sect.owner
      BY DEF FirstGood
    <3>1. q.sect.name # LastSuffix BY <1>0, <2>2, RowType, AccountsOK DEF AccountsOK
    <3> QED BY <1>1, <2>2, <3>1 DEF Named, SameAccount
  <2>4. Good(q) BY <1>0, <2>2, <2>3 DEF Good
  <2>5. req' = [req EXCEPT ![r] = q] BY <1>1, <2>1 DEF ReqTo, AccountsInv, Typed
  <2> QED BY <1>0, <2>2, <2>4, <2>5, OnlyRequest DEF uniqueProfileName
<1>2. CASE /\ req[r].sect.name # LastSuffix
           /\ req' = [req EXCEPT ![r].sect.name = @ + 1]
  <2>1. PICK row : row = [req[r].sect EXCEPT !.name = @ + 1] OBVIOUS
  <2>2. req[r].sect.name + 1 \in 0 .. LastSuffix /\ req[r].sect.name + 1 # 0
    BY <1>0, <1>2, RowType, AccountsOK DEF AccountsOK
  <2>3. row \in Row /\ Full(row) /\ row.dflt = 0 BY <1>0, <2>1, <2>2 DEF Row, Full
  <2>4. PICK q : q = [req[r] EXCEPT !.sect = row] OBVIOUS
  <2>5. q \in Request /\ q.step = "name" /\ q.sect = row BY <1>0, <2>3, <2>4 DEF Request
  <2>6. Good(q) BY <2>3, <2>5 DEF Good
  <2>7. req' = [req EXCEPT ![r] = q] BY <1>0, <1>2, <2>1, <2>4 DEF AccountsInv, Typed, Request
  <2> QED BY <1>0, <2>5, <2>6, <2>7, OnlyRequest DEF uniqueProfileName
<1> QED BY <1>1, <1>2 DEF uniqueProfileName

LEMMA FirstInv == ASSUME AccountsInv, NEW r \in Requests, FirstByName(r) PROVE AccountsInv'
<1>0. /\ req[r] \in Request /\ req[r].step = "first" /\ req[r].sect \in Row
      /\ Full(req[r].sect) /\ req[r].sect.dflt = 0 /\ FirstGood(req[r])
  BY RequestType DEF FirstByName, At, AccountsInv, RequestFacts, Good
<1>1. CASE ReqTo(r, "create")
  <2>1. PICK q : q = [req[r] EXCEPT !.step = "create"] OBVIOUS
  <2>2. q \in Request /\ q.step = "create" /\ q.sect = req[r].sect BY <1>0, <2>1 DEF Request, Steps
  <2>3. Good(q) BY <1>0, <2>2 DEF Good
  <2>4. req' = [req EXCEPT ![r] = q] BY <1>1, <2>1 DEF ReqTo, AccountsInv, Typed
  <2> QED BY <1>0, <2>2, <2>3, <2>4, OnlyRequest DEF FirstByName
<1>2. ASSUME NEW id \in Named(req[r].sect.name),
             req' = [req EXCEPT ![r] = [@ EXCEPT !.step = "save", !.id = id, !.row = profiles[id]]]
      PROVE  AccountsInv'
  <2>0. id \in Ids /\ id \in 0 .. LastId /\ id # 0 /\ profiles[id].name = req[r].sect.name
    BY <1>2 DEF Named, Ids
  <2>1. Exists(id) /\ Kept1(id) /\ profiles[id] \in Row
    BY <1>0, <2>0, NoneTyped DEF Exists, Full, AccountsInv, ProfileFacts, Typed
  <2>2. PICK q : q = [req[r] EXCEPT !.step = "save", !.id = id, !.row = profiles[id]] OBVIOUS
  <2>3. /\ q \in Request /\ q.step = "save" /\ q.sect = req[r].sect /\ q.id = id /\ q.row = profiles[id]
    BY <1>0, <2>0, <2>1, <2>2 DEF Request, Steps
  <2>4. SaveGood(q)
    <3>1. id \notin contested /\ q.sect.name < LastSuffix => founder[id] = q.sect.owner
      BY <1>0, <2>0, <2>1, <2>3 DEF FirstGood, Kept1
    <3>2. q.row.dflt \in 0 .. LastKey /\ Known(q.row.dflt) BY <2>1, <2>3, RowType DEF Kept1
    <3> QED BY <2>0, <2>1, <2>3, <3>1, <3>2 DEF SaveGood, Kept1
  <2>5. Good(q) BY <1>0, <2>3, <2>4 DEF Good
  <2>6. \A s \in Requests : SameName(req[s], q)
    <3> SUFFICES ASSUME NEW s \in Requests, req[s].step = "save", req[s].id = id
                 PROVE  req[s].sect.name = q.sect.name
      BY <2>3 DEF SameName
    <3>1. SaveGood(req[s]) BY DEF AccountsInv, RequestFacts, Good
    <3> QED BY <2>0, <2>1, <2>3, <3>1 DEF SaveGood
  <2>7. req' = [req EXCEPT ![r] = q] BY <1>2, <2>2 DEF AccountsInv, Typed
  <2> QED BY <1>0, <2>3, <2>5, <2>6, <2>7, OnlyRequest DEF FirstByName
<1> QED BY <1>1, <1>2 DEF FirstByName

LEMMA FindKeyInv ==
  ASSUME AccountsInv, NEW r \in Requests, NEW s \in {"set", "unsave"}, FindKey(r, s) PROVE AccountsInv'
<1>1. PICK k \in sshKeys, id \in Ids :
        req' = [req EXCEPT ![r] = [@ EXCEPT !.step = s, !.key = k, !.id = IF s = "set" THEN id ELSE 0]]
  BY DEF FindKey
<1>3. req[r] \in Request /\ k \in 1 .. madeKeys /\ k \in 0 .. LastKey /\ id \in 0 .. LastId /\ id # 0
  BY RequestType, AccountsOK DEF AccountsOK, AccountsInv, Typed, Ids
<1>8. PICK j \in 0 .. LastId : j = IF s = "set" THEN id ELSE 0
  BY <1>3, AccountsOK DEF AccountsOK
<1>2. PICK q : q = [req[r] EXCEPT !.step = s, !.key = k, !.id = j] OBVIOUS
<1>4. q \in Request /\ q.step = s /\ q.key = k /\ (s = "set" => q.id = id)
  BY <1>2, <1>3, <1>8 DEF Request, Steps
<1>5. Good(q) BY <1>3, <1>4 DEF Good, Known
<1>6. req' = [req EXCEPT ![r] = q] BY <1>1, <1>2, <1>8 DEF AccountsInv, Typed
<1>7. req[r].step # "clear" BY NoneTyped DEF FindKey, At
<1> QED BY <1>4, <1>5, <1>6, <1>7, OnlyRequest DEF FindKey

(***************************************************************************)
(* Steps that write rows, keys or the cache.                               *)
(***************************************************************************)

\* The request of r is over or goes on to a step that promises little, while
\* rows lose fields at most.
LEMMA RowsShrink ==
  ASSUME AccountsInv, NEW r \in Requests, NEW q \in Request, req' = [req EXCEPT ![r] = q],
         q.step # "save", Good(q)', RowsKept, KnownKept, profiles' \in [Ids -> Row],
         \A id \in Ids, k \in 0 .. LastKey : Exists(id)' /\ profiles'[id].dflt = k => Known(k)',
         madeKeys' \in madeKeys .. LastKey, sshKeys' \subseteq 1 .. madeKeys', haunted' \subseteq 1 .. madeKeys',
         rsaKeyCache' \subseteq rsaKeyCache, UNCHANGED <<client, founder, contested>>
  PROVE  AccountsInv'
<1>1. madeKeys \in Nat /\ madeKeys' \in Nat /\ madeKeys <= madeKeys'
  BY AccountsOK DEF AccountsInv, Typed, AccountsOK
<1>2. \A p \in Request : Good(p) => Good(p)'
  BY <1>1, GoodKept DEF AccountsInv
<1>3. RequestFacts' /\ SameRowSameName' /\ req' \in [Requests -> Request] BY <1>2, RequestsKept
<1>4. ProfileFacts' BY ProfilesKept
<1>5. Typed' BY <1>1, <1>3, AccountsOK DEF AccountsInv, Typed, AccountsOK
<1>6. CacheFacts' /\ ClientFacts' BY DEF AccountsInv, CacheFacts, ClientFacts
<1> QED BY <1>3, <1>4, <1>5, <1>6 DEF AccountsInv

\* No row or key is written: the defaults are known because they were.
LEMMA DefaultsKept ==
  ASSUME AccountsInv, KnownKept, NEW id \in Ids, NEW k \in 0 .. LastKey, Exists(id), profiles[id].dflt = k
  PROVE  Known(k)'
<1>1. Known(k) BY DEF AccountsInv, ProfileFacts, Kept1
<1> QED BY <1>1 DEF KnownKept

LEMMA InvalidateInv == ASSUME AccountsInv, NEW r \in Requests, InvalidateImported(r) PROVE AccountsInv'
<1>1. /\ req' = [req EXCEPT ![r] = NoRequest] /\ req[r].step # "clear"
      /\ rsaKeyCache' \subseteq rsaKeyCache
      /\ UNCHANGED <<profiles, sshKeys, madeKeys, client, founder, contested, haunted>>
  BY DEF InvalidateImported, ReqDone, At, Without
<1>2. KnownKept BY <1>1, ClearingKept, NoneTyped DEF AccountsInv
<1>3. \A id \in Ids, k \in 0 .. LastKey : Exists(id)' /\ profiles'[id].dflt = k => Known(k)'
  BY <1>1, <1>2, DefaultsKept DEF Exists
<1>4. madeKeys' \in madeKeys .. LastKey BY <1>1, AccountsOK DEF AccountsInv, Typed, AccountsOK
<1> QED BY <1>1, <1>2, <1>3, <1>4, SameRows, IdleGood, NoneTyped, RowsShrink DEF AccountsInv, Typed

LEMMA DeleteInv == ASSUME AccountsInv, NEW r \in Requests, DeleteProfile(r) PROVE AccountsInv'
<1>1. PICK id \in Ids :
        /\ rsaKeyCache' = Without(id)
        /\ req' = [req EXCEPT ![r] = [@ EXCEPT !.step = "erase", !.id = id]]
  BY DEF DeleteProfile
<1>2. PICK q : q = [req[r] EXCEPT !.step = "erase", !.id = id] OBVIOUS
<1>3. q \in Request /\ q.step = "erase" /\ q.id # 0
  <2>1. id \in 0 .. LastId /\ id # 0 BY AccountsOK DEF Ids, AccountsOK
  <2>2. req[r] \in Request BY RequestType DEF AccountsInv
  <2> QED BY <1>2, <2>1, <2>2 DEF Request, Steps
<1>4. Good(q)' BY <1>3 DEF Good
<1>5. req' = [req EXCEPT ![r] = q] BY <1>1, <1>2 DEF AccountsInv, Typed
<1>6. /\ rsaKeyCache' \subseteq rsaKeyCache /\ req[r].step # "clear"
      /\ UNCHANGED <<profiles, sshKeys, madeKeys, client, founder, contested, haunted>>
  BY <1>1 DEF DeleteProfile, Without, At
<1>7. KnownKept BY <1>3, <1>5, <1>6, ClearingKept DEF AccountsInv
<1>8. \A i \in Ids, k \in 0 .. LastKey : Exists(i)' /\ profiles'[i].dflt = k => Known(k)'
  BY <1>6, <1>7, DefaultsKept DEF Exists
<1>9. madeKeys' \in madeKeys .. LastKey BY <1>6, AccountsOK DEF AccountsInv, Typed, AccountsOK
<1> QED BY <1>3, <1>4, <1>5, <1>6, <1>7, <1>8, <1>9, SameRows, RowsShrink DEF AccountsInv, Typed

LEMMA EraseInv == ASSUME AccountsInv, NEW r \in Requests, EraseRow(r) PROVE AccountsInv'
<1>1. /\ req' = [req EXCEPT ![r] = NoRequest] /\ req[r].step # "clear"
      /\ profiles' = [profiles EXCEPT ![req[r].id] = NoRow]
      /\ UNCHANGED <<sshKeys, madeKeys, rsaKeyCache, client, founder, contested, haunted>>
  BY DEF EraseRow, ReqDone, At
<1>2. KnownKept BY <1>1, ClearingKept, NoneTyped DEF AccountsInv
<1>3. profiles' \in [Ids -> Row] BY <1>1, NoneTyped DEF AccountsInv, Typed
<1>4. \A id \in Ids : profiles'[id] = NoRow \/ profiles'[id] = profiles[id]
  BY <1>1 DEF AccountsInv, Typed
<1>5. RowsKept BY <1>4 DEF RowsKept, Exists
<1>6. \A id \in Ids, k \in 0 .. LastKey : Exists(id)' /\ profiles'[id].dflt = k => Known(k)'
  BY <1>4, <1>2, DefaultsKept DEF Exists
<1>7. madeKeys' \in madeKeys .. LastKey BY <1>1, AccountsOK DEF AccountsInv, Typed, AccountsOK
<1> QED BY <1>1, <1>2, <1>3, <1>5, <1>6, <1>7, IdleGood, NoneTyped, RowsShrink DEF AccountsInv, Typed

LEMMA CreateKeyInv == ASSUME AccountsInv, NEW r \in Requests, CreateSSHKey(r) PROVE AccountsInv'
<1>1. PICK q \in Request : q = req[r] BY RequestType DEF AccountsInv
<1>2. req' = [req EXCEPT ![r] = q] /\ q.step = "idle"
  BY <1>1, NoneTyped DEF CreateSSHKey, AccountsInv, Typed, At
<1>3. Good(q)' BY <1>2, <1>1 DEF AccountsInv, RequestFacts, Good
<1>4. /\ madeKeys' \in madeKeys .. LastKey /\ sshKeys' \subseteq 1 .. madeKeys' /\ sshKeys \subseteq sshKeys'
      /\ haunted' = haunted /\ haunted' \subseteq 1 .. madeKeys'
  BY AccountsOK DEF CreateSSHKey, AccountsInv, Typed, AccountsOK
<1>5. KnownKept BY <1>1, <1>2, <1>4, ClearingKept DEF AccountsInv
<1>6. UNCHANGED <<profiles, rsaKeyCache, client, founder, contested>> BY DEF CreateSSHKey
<1>7. \A id \in Ids, k \in 0 .. LastKey : Exists(id)' /\ profiles'[id].dflt = k => Known(k)'
  BY <1>5, <1>6, DefaultsKept DEF Exists
<1> QED BY <1>2, <1>3, <1>4, <1>5, <1>6, <1>7, SameRows, RowsShrink DEF AccountsInv, Typed

LEMMA SetDefaultInv == ASSUME AccountsInv, NEW r \in Requests, SetDefaultSSHKey(r) PROVE AccountsInv'
<1>1. /\ req' = [req EXCEPT ![r] = NoRequest] /\ req[r].step = "set"
      /\ UNCHANGED <<sshKeys, madeKeys, rsaKeyCache, client, founder, contested, haunted>>
  BY DEF SetDefaultSSHKey, ReqDone, At
<1>2. KnownKept BY <1>1, ClearingKept, NoneTyped DEF AccountsInv
<1>3. PICK k \in 0 .. LastKey, j \in Ids : k = req[r].key /\ j = req[r].id /\ Known(k)
  BY <1>1, RequestType, AccountsOK DEF AccountsOK, AccountsInv, RequestFacts, Good, Ids
<1>4. PICK row : row = [profiles[j] EXCEPT !.dflt = k] OBVIOUS
<1>5. /\ row \in Row /\ row.dflt = k
      /\ row.name = profiles[j].name /\ row.owner = profiles[j].owner
      /\ row.pem = profiles[j].pem /\ row.fp = profiles[j].fp
  BY <1>3, <1>4 DEF AccountsInv, Typed, Row
<1>6. profiles' = [profiles EXCEPT ![j] = row] \/ profiles' = profiles
  BY <1>3, <1>4 DEF SetDefaultSSHKey, AccountsInv, Typed
<1>7. profiles' \in [Ids -> Row] BY <1>3, <1>5, <1>6 DEF AccountsInv, Typed
<1>8. \A id \in Ids : profiles'[id] = profiles[id] \/ (id = j /\ profiles'[id] = row /\ Exists(j))
  BY <1>3, <1>4, <1>6 DEF AccountsInv, Typed, SetDefaultSSHKey
<1>9. RowsKept BY <1>5, <1>8 DEF RowsKept, Exists
<1>10. \A id \in Ids, i \in 0 .. LastKey : Exists(id)' /\ profiles'[id].dflt = i => Known(i)'
  <2> SUFFICES ASSUME NEW id \in Ids, NEW i \in 0 .. LastKey, Exists(id)', profiles'[id].dflt = i
               PROVE  Known(i)'
    OBVIOUS
  <2>1. CASE profiles'[id] = profiles[id] BY <2>1, <1>2, DefaultsKept DEF Exists
  <2>2. CASE profiles'[id] = row BY <2>2, <1>2, <1>3, <1>5 DEF KnownKept
  <2> QED BY <2>1, <2>2, <1>8
<1>11. madeKeys' \in madeKeys .. LastKey BY <1>1, AccountsOK DEF AccountsInv, Typed, AccountsOK
<1> QED BY <1>1, <1>2, <1>7, <1>9, <1>10, <1>11, IdleGood, NoneTyped, RowsShrink DEF AccountsInv, Typed

\* A key that is deleted is being cleared.
LEMMA DeleteKeyInv == ASSUME AccountsInv, NEW r \in Requests, DeleteSSHKey(r) PROVE AccountsInv'
<1>1. PICK q : q = [req[r] EXCEPT !.step = "clear"] OBVIOUS
<1>2. req[r] \in Request /\ req[r].step = "unsave" /\ req[r].key \in 1 .. madeKeys
  BY RequestType DEF DeleteSSHKey, At, AccountsInv, RequestFacts, Good
<1>3. q \in Request /\ q.step = "clear" /\ q.key = req[r].key BY <1>1, <1>2 DEF Request, Steps
<1>4. /\ req' = [req EXCEPT ![r] = q] /\ sshKeys' = sshKeys \ {q.key}
      /\ UNCHANGED <<profiles, madeKeys, rsaKeyCache, client, founder, contested, haunted>>
  BY <1>1, <1>3 DEF DeleteSSHKey, ReqTo, AccountsInv, Typed
<1>5. Good(q)' BY <1>2, <1>3, <1>4 DEF Good
<1>6. \A s \in Requests : req'[s] = IF s = r THEN q ELSE req[s] BY <1>4 DEF AccountsInv, Typed
<1>7. KnownKept
  <2> SUFFICES ASSUME NEW k \in 0 .. LastKey, Known(k) PROVE Known(k)'
    BY DEF KnownKept
  <2>1. CASE k = q.key BY <2>1, <1>3, <1>6 DEF Known
  <2>2. CASE k # q.key /\ k \in sshKeys \union haunted \union {0} BY <2>2, <1>4 DEF Known
  <2>3. ASSUME NEW s \in Requests, req[s].step = "clear", req[s].key = k PROVE Known(k)'
    BY <2>3, <1>2, <1>6 DEF Known
  <2> QED BY <2>1, <2>2, <2>3 DEF Known
<1>8. \A id \in Ids, k \in 0 .. LastKey : Exists(id)' /\ profiles'[id].dflt = k => Known(k)'
  BY <1>4, <1>7, DefaultsKept DEF Exists
<1>9. madeKeys' \in madeKeys .. LastKey BY <1>4, AccountsOK DEF AccountsInv, Typed, AccountsOK
<1> QED BY <1>3, <1>4, <1>5, <1>7, <1>8, <1>9, SameRows, RowsShrink DEF AccountsInv, Typed

\* Every profile with the key loses it; a request that holds the key haunts it.
LEMMA ClearInv == ASSUME AccountsInv, NEW r \in Requests, ClearDefaults(r) PROVE AccountsInv'
<1> DEFINE holds == \E s \in Requests : Holds(s, req[r].key)
<1>1. PICK k \in 0 .. LastKey : k = req[r].key /\ k \in 1 .. madeKeys /\ req[r].step = "clear" /\ k # 0
  BY RequestType DEF ClearDefaults, At, AccountsInv, RequestFacts, Good
<1>2. /\ req' = [req EXCEPT ![r] = NoRequest]
      /\ profiles' = [id \in Ids |-> IF profiles[id].dflt = k THEN [profiles[id] EXCEPT !.dflt = 0] ELSE profiles[id]]
      /\ haunted' = IF \E s \in Requests : Holds(s, k) THEN haunted \union {k} ELSE haunted
      /\ UNCHANGED <<sshKeys, madeKeys, rsaKeyCache, client, founder, contested>>
  BY <1>1 DEF ClearDefaults, Cleared, ReqDone
<1>3. \A s \in Requests : req'[s] = IF s = r THEN NoRequest ELSE req[s] BY <1>2 DEF AccountsInv, Typed
<1>4. ASSUME NEW i \in 0 .. LastKey, Known(i), i # k \/ \E s \in Requests : Holds(s, k) PROVE Known(i)'
  <2>1. CASE i \in sshKeys \union haunted \union {0} BY <2>1, <1>2 DEF Known
  <2>2. CASE i = k BY <2>2, <1>2, <1>4 DEF Known
  <2>3. ASSUME NEW s \in Requests, req[s].step = "clear", req[s].key = i, i # k PROVE Known(i)'
    BY <2>3, <1>1, <1>3 DEF Known
  <2> QED BY <1>4, <2>1, <2>2, <2>3 DEF Known
<1>5. ASSUME NEW row \in Row
      PROVE  /\ [row EXCEPT !.dflt = 0] \in Row /\ [row EXCEPT !.dflt = 0].dflt = 0
             /\ [row EXCEPT !.dflt = 0].name = row.name /\ [row EXCEPT !.dflt = 0].owner = row.owner
             /\ [row EXCEPT !.dflt = 0].pem = row.pem /\ [row EXCEPT !.dflt = 0].fp = row.fp
  BY AccountsOK DEF AccountsOK, Row
<1>6. \A id \in Ids :
        \/ profiles'[id] = profiles[id] /\ profiles[id].dflt # k
        \/ profiles'[id] = [profiles[id] EXCEPT !.dflt = 0] /\ profiles[id].dflt = k
  BY <1>2
<1>7. profiles' \in [Ids -> Row] BY <1>2, <1>5 DEF AccountsInv, Typed
<1>8. RowsKept
  <2> SUFFICES ASSUME NEW id \in Ids, Exists(id)'
               PROVE  /\ Exists(id)
                      /\ profiles'[id].name = profiles[id].name /\ profiles'[id].owner = profiles[id].owner
                      /\ profiles'[id].pem = profiles[id].pem /\ profiles'[id].fp = profiles[id].fp
    BY DEF RowsKept
  <2>1. profiles[id] \in Row BY DEF AccountsInv, Typed
  <2>2. CASE profiles'[id] = profiles[id] BY <2>2 DEF Exists
  <2>3. CASE profiles'[id] = [profiles[id] EXCEPT !.dflt = 0] /\ profiles[id].dflt = k
    BY <2>1, <2>3, <1>1, <1>5 DEF Exists, NoRow
  <2> QED BY <1>6, <2>2, <2>3
<1>9. \A id \in Ids, i \in 0 .. LastKey : Exists(id)' /\ profiles'[id].dflt = i => Known(i)'
  <2> SUFFICES ASSUME NEW id \in Ids, NEW i \in 0 .. LastKey, Exists(id)', profiles'[id].dflt = i
               PROVE  Known(i)'
    OBVIOUS
  <2>1. CASE profiles'[id] = profiles[id] /\ profiles[id].dflt # k
    <3>1. Known(i) BY <2>1 DEF Exists, AccountsInv, ProfileFacts, Kept1
    <3> QED BY <2>1, <3>1, <1>4
  <2>2. CASE profiles'[id] = [profiles[id] EXCEPT !.dflt = 0]
    <3>1. i = 0 BY <2>2, <1>5 DEF AccountsInv, Typed
    <3> QED BY <3>1 DEF Known
  <2> QED BY <1>6, <2>1, <2>2
<1>10. /\ madeKeys' \in madeKeys .. LastKey /\ sshKeys' \subseteq 1 .. madeKeys' /\ haunted' \subseteq 1 .. madeKeys'
  BY <1>1, <1>2, AccountsOK DEF AccountsInv, Typed, AccountsOK
<1>11. CASE \E s \in Requests : Holds(s, k)
  <2>1. KnownKept BY <1>4, <1>11 DEF KnownKept
  <2> QED BY <1>2, <1>7, <1>8, <1>9, <1>10, <2>1, IdleGood, NoneTyped, RowsShrink
<1>12. CASE \A s \in Requests : ~Holds(s, k)
  <2>1. ASSUME NEW s \in Requests \ {r} PROVE Good(req[s])'
    <3>1. PICK p \in Request : p = req[s] /\ Good(p) /\ p = req'[s]
      BY <1>3, RequestType DEF AccountsInv, RequestFacts
    <3>2. (p.step = "set" => p.key # k) /\ (p.step = "save" => p.row.dflt # k)
      BY <1>12, <3>1 DEF Holds, At
    <3>3. p.row.dflt \in 0 .. LastKey /\ p.key \in 0 .. LastKey /\ p.id \in 0 .. LastId
      BY RowType DEF Request
    <3>4. p.step = "first" => FirstGood(p)' BY <1>2, <1>8, <3>1 DEF Good, FirstGood, RowsKept
    <3>5. p.step = "save" => SaveGood(p)'
      <4>1. p.id # 0 => p.id \in Ids BY <3>3 DEF Ids
      <4>2. p.step = "save" => Known(p.row.dflt)' BY <1>4, <3>1, <3>2, <3>3 DEF Good, SaveGood
      <4> QED BY <1>2, <1>8, <3>1, <4>1, <4>2 DEF Good, SaveGood, RowsKept
    <3>6. p.step = "set" => Known(p.key)' BY <1>4, <3>1, <3>2, <3>3 DEF Good
    <3>7. Good(p)' BY <1>2, <3>1, <3>4, <3>5, <3>6 DEF Good
    <3> QED BY <3>1, <3>7 DEF Good, FirstGood, SaveGood
  <2>2. RequestFacts'
    <3> SUFFICES ASSUME NEW s \in Requests PROVE Good(req[s])'
      BY DEF RequestFacts
    <3>1. CASE s = r BY <3>1, <1>3, IdleGood DEF Good
    <3> QED BY <2>1, <3>1
  <2>3. SameRowSameName' BY <1>3, NoneTyped DEF AccountsInv, SameRowSameName, SameName
  <2>4. ProfileFacts' BY <1>2, <1>7, <1>8, <1>9, ProfilesKept
  <2>5. req' \in [Requests -> Request] BY <1>2, NoneTyped DEF AccountsInv, Typed
  <2>6. Typed' BY <1>2, <1>7, <1>10, <2>5, AccountsOK DEF AccountsInv, Typed, AccountsOK
  <2>7. CacheFacts' /\ ClientFacts' BY <1>2 DEF AccountsInv, CacheFacts, ClientFacts
  <2> QED BY <2>2, <2>3, <2>4, <2>6, <2>7 DEF AccountsInv
<1> QED BY <1>11, <1>12

\* A row is written by an import.
LEMMA PutInv ==
  ASSUME AccountsInv, NEW r \in Requests, NEW id \in Ids, NEW row \in Row, Put(r, id, row),
         req[r].step # "clear", Full(row), Known(row.dflt),
         founder' \in [Ids -> Owners \union {NoOwner}], founder'[id] # NoOwner,
         \A i \in Ids : founder[i] # NoOwner => founder'[i] = founder[i],
         \A i \in Ids : profiles[i].name = row.name => i = id,
         Exists(id) => profiles[id].name = row.name /\ founder[id] # NoOwner,
         id \notin contested /\ row.name < LastSuffix => row.owner = founder'[id],
         \A s \in Requests : req[s].step = "save" /\ req[s].id = id => req[s].sect.name = row.name,
         UNCHANGED <<sshKeys, madeKeys, rsaKeyCache, client, haunted>>
  PROVE  AccountsInv'
<1>1. PICK q : q = [NoRequest EXCEPT !.step = "invalidate", !.id = id] OBVIOUS
<1>2. q \in Request /\ q.step = "invalidate" /\ q.id = id /\ id # 0
  <2>1. id \in 0 .. LastId /\ id # 0 BY AccountsOK DEF Ids, AccountsOK
  <2> QED BY <1>1, <2>1, NoneTyped DEF Request, Steps
<1>3. /\ profiles' = [profiles EXCEPT ![id] = row] /\ req' = [req EXCEPT ![r] = q]
      /\ contested' = IF ~Exists(id) /\ Contends(row.name, row.owner) THEN contested \union {id} ELSE contested
  BY <1>1 DEF Put
<1>4. /\ profiles' \in [Ids -> Row] /\ profiles'[id] = row
      /\ \A i \in Ids \ {id} : profiles'[i] = profiles[i]
      /\ contested \subseteq contested' /\ contested' \subseteq Ids
      /\ req' \in [Requests -> Request]
      /\ \A s \in Requests : req'[s] = IF s = r THEN q ELSE req[s]
  BY <1>2, <1>3 DEF AccountsInv, Typed
<1>5. KnownKept BY <1>2, <1>3, ClearingKept DEF AccountsInv
<1>6. row.dflt \in 0 .. LastKey BY RowType
<1>7. ProfileFacts'
  <2> SUFFICES ASSUME NEW i \in Ids, Exists(i)' PROVE Kept1(i)'
    BY DEF ProfileFacts
  <2>1. CASE i = id
    <3>1. Full(profiles[i])' BY <2>1, <1>4 DEF Full
    <3>2. \A j \in Ids : profiles'[j].name = profiles'[i].name => j = i BY <2>1, <1>4
    <3>3. \A k \in 0 .. LastKey : profiles'[i].dflt = k => Known(k)' BY <2>1, <1>4, <1>5 DEF KnownKept
    <3>4. i \notin contested' /\ profiles'[i].name < LastSuffix => profiles'[i].owner = founder'[i]
      BY <2>1, <1>4
    <3> QED BY <2>1, <3>1, <3>2, <3>3, <3>4 DEF Kept1
  <2>2. CASE i # id
    <3>0. profiles'[i] = profiles[i] /\ Exists(i) /\ Kept1(i)
      BY <2>2, <1>4 DEF Exists, AccountsInv, ProfileFacts
    <3>1. Full(profiles[i])' BY <3>0 DEF Full, Kept1
    <3>2. profiles[i].name # row.name BY <2>2
    <3>3. \A j \in Ids : profiles'[j].name = profiles'[i].name => j = i BY <3>0, <3>2, <1>4 DEF Kept1
    <3>4. \A k \in 0 .. LastKey : profiles'[i].dflt = k => Known(k)' BY <3>0, <1>5 DEF KnownKept, Kept1
    <3>5. founder'[i] # NoOwner /\ founder'[i] = founder[i] BY <3>0 DEF Kept1
    <3>6. i \notin contested' /\ profiles'[i].name < LastSuffix => profiles'[i].owner = founder'[i]
      BY <3>0, <3>5, <1>4 DEF Kept1
    <3> QED BY <3>1, <3>3, <3>4, <3>5, <3>6 DEF Kept1
  <2> QED BY <2>1, <2>2
<1>8. ASSUME NEW s \in Requests \ {r} PROVE Good(req[s])'
  <2>1. PICK p \in Request : p = req[s] /\ Good(p) /\ p = req'[s]
    BY <1>4, RequestType DEF AccountsInv, RequestFacts
  <2>2. p.row.dflt \in 0 .. LastKey /\ p.key \in 0 .. LastKey /\ p.id \in 0 .. LastId BY RowType DEF Request
  <2>3. p.step = "first" => FirstGood(p)'
    <3> SUFFICES ASSUME p.step = "first", NEW i \in Ids, i \notin contested', Exists(i)',
                        profiles'[i].name = p.sect.name, p.sect.name < LastSuffix
                 PROVE  profiles'[i].owner = p.sect.owner
      BY DEF FirstGood
    <3>1. CASE i # id BY <2>1, <3>1, <1>4 DEF Good, FirstGood, Exists
    <3>2. CASE i = id /\ Exists(id)
      <4>1. profiles[id].owner = p.sect.owner BY <2>1, <3>2, <1>4 DEF Good, FirstGood
      <4>2. profiles[id].owner = founder[id] BY <3>2, <1>4 DEF AccountsInv, ProfileFacts, Kept1
      <4> QED BY <3>2, <4>1, <4>2, <1>4
    <3>3. CASE i = id /\ ~Exists(id)
      <4>1. ~Contends(row.name, row.owner) BY <3>3, <1>3
      <4> QED BY <2>1, <3>3, <4>1, <1>4 DEF Contends, At
    <3> QED BY <3>1, <3>2, <3>3
  <2>4. p.step = "save" => SaveGood(p)'
    <3> SUFFICES ASSUME p.step = "save" PROVE SaveGood(p)'
      OBVIOUS
    <3>1. p.id \in Ids /\ p.id # 0 /\ SaveGood(p) BY <2>1, <2>2 DEF Good, SaveGood, Ids
    <3>2. founder'[p.id] = founder[p.id] /\ founder[p.id] # NoOwner BY <3>1 DEF SaveGood
    <3>3. Known(p.row.dflt)' BY <2>2, <3>1, <1>5 DEF SaveGood, KnownKept
    <3>4. Exists(p.id)' => profiles'[p.id].name = p.sect.name
      <4>1. CASE p.id = id BY <4>1, <2>1, <1>4
      <4>2. CASE p.id # id BY <4>2, <3>1, <1>4 DEF SaveGood, Exists
      <4> QED BY <4>1, <4>2
    <3>5. p.id \notin contested' /\ p.sect.name < LastSuffix => founder'[p.id] = p.sect.owner
      BY <3>1, <3>2, <1>4 DEF SaveGood
    <3> QED BY <3>1, <3>2, <3>3, <3>4, <3>5 DEF SaveGood
  <2>5. p.step = "set" => Known(p.key)' BY <2>1, <2>2, <1>5 DEF Good, KnownKept
  <2>6. Good(p)' BY <2>1, <2>3, <2>4, <2>5 DEF Good
  <2> QED BY <2>1, <2>6 DEF Good, FirstGood, SaveGood
<1>9. RequestFacts'
  <2> SUFFICES ASSUME NEW s \in Requests PROVE Good(req[s])'
    BY DEF RequestFacts
  <2>1. CASE s = r
    <3>1. Good(q)' BY <1>2 DEF Good
    <3> QED BY <2>1, <3>1, <1>4 DEF Good, FirstGood, SaveGood
  <2> QED BY <1>8, <2>1
<1>10. SameRowSameName' BY <1>2, <1>4 DEF AccountsInv, SameRowSameName, SameName
<1>11. Typed' BY <1>4 DEF AccountsInv, Typed
<1>12. CacheFacts' /\ ClientFacts' BY DEF AccountsInv, CacheFacts, ClientFacts
<1> QED BY <1>7, <1>9, <1>10, <1>11, <1>12 DEF AccountsInv

LEMMA SaveInv == ASSUME AccountsInv, NEW r \in Requests, SaveRow(r) PROVE AccountsInv'
<1>0. /\ req[r] \in Request /\ req[r].step = "save" /\ req[r].sect \in Row /\ req[r].row \in Row
      /\ Full(req[r].sect) /\ SaveGood(req[r])
      /\ UNCHANGED <<sshKeys, madeKeys, rsaKeyCache, client, founder, haunted>>
  BY RequestType DEF SaveRow, At, AccountsInv, RequestFacts, Good
<1>1. CASE ReqDone(r) /\ UNCHANGED <<profiles, contested>>
  BY <1>0, <1>1, NoneTyped, IdleGood, OnlyRequest DEF ReqDone
<1>2. CASE /\ Exists(req[r].id) \/ Named(req[r].sect.name) = {}
           /\ Put(r, req[r].id, [req[r].sect EXCEPT !.dflt = req[r].row.dflt])
  <2>1. PICK row : row = [req[r].sect EXCEPT !.dflt = req[r].row.dflt] OBVIOUS
  <2>2. /\ row \in Row /\ Full(row) /\ row.dflt = req[r].row.dflt
        /\ row.name = req[r].sect.name /\ row.owner = req[r].sect.owner
    <3>1. req[r].row.dflt \in 0 .. LastKey BY <1>0, RowType
    <3> QED BY <1>0, <2>1, <3>1 DEF Row, Full
  <2>3. PICK id \in Ids : id = req[r].id
    BY <1>0, RequestType DEF SaveGood, Ids, AccountsInv
  <2>4. Put(r, id, row) BY <1>2, <2>1, <2>3
  <2>5. Known(row.dflt) BY <1>0, <2>2 DEF SaveGood, Known
  <2>6. \A i \in Ids : profiles[i].name = row.name => i = id
    <3>1. CASE Exists(id) BY <3>1, <1>0, <2>2, <2>3 DEF AccountsInv, ProfileFacts, Kept1, SaveGood
    <3>2. CASE Named(req[r].sect.name) = {} BY <3>2, <2>2 DEF Named
    <3> QED BY <1>2, <2>3, <3>1, <3>2
  <2>7. founder[id] # NoOwner /\ (Exists(id) => profiles[id].name = row.name)
    BY <1>0, <2>2, <2>3 DEF SaveGood
  <2>8. id \notin contested /\ row.name < LastSuffix => row.owner = founder'[id]
    BY <1>0, <2>2, <2>3 DEF SaveGood
  <2>9. \A s \in Requests : req[s].step = "save" /\ req[s].id = id => req[s].sect.name = row.name
    BY <1>0, <2>2, <2>3 DEF AccountsInv, SameRowSameName, SameName
  <2>10. founder' \in [Ids -> Owners \union {NoOwner}] BY <1>0 DEF AccountsInv, Typed
  <2> QED BY <1>0, <2>2, <2>4, <2>5, <2>6, <2>7, <2>8, <2>9, <2>10, PutInv
<1> QED BY <1>1, <1>2 DEF SaveRow

LEMMA CreateInv == ASSUME AccountsInv, NEW r \in Requests, CreateRow(r) PROVE AccountsInv'
<1>0. /\ req[r] \in Request /\ req[r].step = "create" /\ req[r].sect \in Row
      /\ Full(req[r].sect) /\ req[r].sect.dflt = 0
      /\ UNCHANGED <<sshKeys, madeKeys, rsaKeyCache, client, haunted>>
  BY RequestType DEF CreateRow, At, AccountsInv, RequestFacts, Good
<1>1. CASE ReqDone(r) /\ UNCHANGED <<profiles, contested, founder>>
  BY <1>0, <1>1, NoneTyped, IdleGood, OnlyRequest DEF ReqDone
<1>2. ASSUME NEW id \in Ids, Named(req[r].sect.name) = {},
             \A i \in Ids : (founder[i] # NoOwner) <=> (i < id),
             founder' = [founder EXCEPT ![id] = req[r].sect.owner], Put(r, id, req[r].sect)
      PROVE  AccountsInv'
  <2>1. PICK row \in Row : row = req[r].sect BY <1>0
  <2>2. Full(row) /\ row.dflt = 0 /\ Put(r, id, row) BY <1>0, <1>2, <2>1
  <2>3. Known(row.dflt) BY <2>2 DEF Known
  <2>4. founder[id] = NoOwner BY <1>2 DEF Ids
  <2>5. ~Exists(id) BY <2>4 DEF AccountsInv, ProfileFacts, Kept1
  <2>6. /\ founder' \in [Ids -> Owners \union {NoOwner}] /\ founder'[id] = row.owner
        /\ \A i \in Ids : founder[i] # NoOwner => founder'[i] = founder[i]
    BY <1>2, <2>1, <2>2, <2>4 DEF AccountsInv, Typed, Full
  <2>7. founder'[id] # NoOwner BY <2>2, <2>6, AccountsOK DEF Full, AccountsOK, NoOwner
  <2>8. \A i \in Ids : profiles[i].name = row.name => i = id BY <1>2, <2>1 DEF Named
  <2>9. \A s \in Requests : req[s].step = "save" /\ req[s].id = id => req[s].sect.name = row.name
    BY <2>4 DEF AccountsInv, RequestFacts, Good, SaveGood
  <2> QED BY <1>0, <2>1, <2>2, <2>3, <2>5, <2>6, <2>7, <2>8, <2>9, PutInv
<1> QED BY <1>1, <1>2 DEF CreateRow

\* Only a client or the cache changes.
LEMMA OnlyClient ==
  ASSUME AccountsInv, NEW c \in Clients, NEW d \in Client, client' = [client EXCEPT ![c] = d],
         Signs(d), CacheFacts',
         UNCHANGED <<profiles, sshKeys, madeKeys, req, founder, contested, haunted>>
  PROVE  AccountsInv'
<1>1. Typed' BY DEF AccountsInv, Typed
<1>2. ClientFacts'
  <2> SUFFICES ASSUME NEW a \in Clients PROVE Signs(client'[a])
    BY DEF ClientFacts, Signs
  <2>1. client'[a] = d \/ client'[a] = client[a] BY DEF AccountsInv, Typed
  <2> QED BY <2>1 DEF AccountsInv, ClientFacts, Signs
<1>3. ProfileFacts' BY DEF AccountsInv, ProfileFacts, Kept1, Exists, Known
<1>4. RequestFacts' BY DEF AccountsInv, RequestFacts, Good, FirstGood, SaveGood, Exists, Known
<1>5. SameRowSameName' BY DEF AccountsInv, SameRowSameName, SameName
<1> QED BY <1>1, <1>2, <1>3, <1>4, <1>5 DEF AccountsInv

LEMMA ClientType ==
  ASSUME AccountsInv, NEW c \in Clients
  PROVE  /\ client[c] \in Client /\ client[c].id \in 0 .. LastId /\ client[c].row \in Row
         /\ client[c].pem \in Pems \union {"none"} /\ Signs(client[c])
<1>1. client[c] \in Client /\ Signs(client[c]) BY DEF AccountsInv, Typed, ClientFacts
<1> QED BY <1>1 DEF Client

LEMMA ReadInv == ASSUME AccountsInv, NEW c \in Clients, ReadProfile(c) PROVE AccountsInv'
<1>1. PICK id \in Ids : /\ Exists(id)
                        /\ client' = [client EXCEPT ![c] = [NoClient EXCEPT !.id = id, !.row = profiles[id]]]
  BY DEF ReadProfile
<1>2. PICK d : d = [NoClient EXCEPT !.id = id, !.row = profiles[id]] OBVIOUS
<1>3. d \in Client /\ d.pem = "none" /\ d.step = "idle" /\ d.row = profiles[id]
  <2>1. id \in 0 .. LastId /\ profiles[id] \in Row BY AccountsOK DEF AccountsOK, Ids, AccountsInv, Typed
  <2> QED BY <1>2, <2>1, NoneTyped DEF Client
<1>4. Full(profiles[id]) BY <1>1 DEF AccountsInv, ProfileFacts, Kept1
<1>5. Signs(d) BY <1>3, <1>4 DEF Signs
<1>6. CacheFacts' BY DEF ReadProfile, AccountsInv, CacheFacts
<1>7. client' = [client EXCEPT ![c] = d] BY <1>1, <1>2
<1> QED BY <1>3, <1>5, <1>6, <1>7, OnlyClient DEF ReadProfile

LEMMA LoadInv == ASSUME AccountsInv, NEW c \in Clients, LoadKey(c) PROVE AccountsInv'
<1>0. client[c].id # 0 /\ Full(client[c].row) BY ClientType DEF LoadKey, Signs
<1>1. CacheFacts' BY DEF LoadKey, AccountsInv, CacheFacts
<1>2. CASE client' = [client EXCEPT ![c].step = "decrypt"]
  <2>1. PICK d : d = [client[c] EXCEPT !.step = "decrypt"] OBVIOUS
  <2>2. /\ d \in Client /\ d.row = client[c].row /\ d.id = client[c].id /\ d.pem = client[c].pem
    BY <2>1, ClientType DEF Client
  <2>3. Signs(d) BY <1>0, <2>2, ClientType DEF Signs
  <2>4. client' = [client EXCEPT ![c] = d] BY <1>2, <2>1 DEF AccountsInv, Typed
  <2> QED BY <1>1, <2>2, <2>3, <2>4, OnlyClient DEF LoadKey
<1>3. ASSUME NEW e \in rsaKeyCache, e[1] = keyCacheKey(client[c].id, client[c].row),
             client' = [client EXCEPT ![c].pem = e[2]]
      PROVE  AccountsInv'
  <2>1. PICK d : d = [client[c] EXCEPT !.pem = e[2]] OBVIOUS
  <2>2. e[2] \in Pems /\ keyFingerprint(e[2]) = client[c].row.fp
    BY <1>3 DEF AccountsInv, CacheFacts, keyCacheKey
  <2>3. /\ d \in Client /\ d.row = client[c].row /\ d.id = client[c].id /\ d.pem = e[2]
        /\ d.step = client[c].step
    BY <2>1, <2>2, ClientType DEF Client
  <2>4. Signs(d) BY <1>0, <2>2, <2>3 DEF Signs
  <2>5. client' = [client EXCEPT ![c] = d] BY <1>3, <2>1 DEF AccountsInv, Typed
  <2> QED BY <1>1, <2>3, <2>4, <2>5, OnlyClient DEF LoadKey
<1> QED BY <1>2, <1>3 DEF LoadKey

LEMMA StoreInv == ASSUME AccountsInv, NEW c \in Clients, StoreKey(c) PROVE AccountsInv'
<1>0. client[c].id # 0 /\ Full(client[c].row) BY ClientType DEF StoreKey, Signs
<1>1. PICK p \in Pems : p = client[c].row.pem /\ keyFingerprint(p) = client[c].row.fp
  BY <1>0 DEF Full
<1>2. CacheFacts'
  <2> SUFFICES ASSUME NEW e \in rsaKeyCache' PROVE e[1][2] = keyFingerprint(e[2]) /\ e[2] \in Pems
    BY DEF CacheFacts
  <2>1. CASE e \in rsaKeyCache BY <2>1 DEF AccountsInv, CacheFacts
  <2>2. CASE e = <<keyCacheKey(client[c].id, client[c].row), p>> BY <2>2, <1>1 DEF keyCacheKey
  <2> QED BY <1>1, <2>1, <2>2 DEF StoreKey
<1>3. PICK d : d = [client[c] EXCEPT !.step = "idle", !.pem = p] OBVIOUS
<1>4. /\ d \in Client /\ d.row = client[c].row /\ d.id = client[c].id /\ d.pem = p /\ d.step = "idle"
  BY <1>3, ClientType DEF Client
<1>5. Signs(d) BY <1>0, <1>1, <1>4 DEF Signs
<1>6. client' = [client EXCEPT ![c] = d] BY <1>1, <1>3 DEF StoreKey, AccountsInv, Typed
<1> QED BY <1>2, <1>4, <1>5, <1>6, OnlyClient DEF StoreKey

LEMMA RestartInv == ASSUME AccountsInv, RestartPanel PROVE AccountsInv'
<1>1. /\ rsaKeyCache' = {} /\ UNCHANGED <<profiles, sshKeys, madeKeys, founder, contested>>
      /\ req' = [r \in Requests |-> NoRequest] /\ client' = [c \in Clients |-> NoClient]
      /\ haunted' = haunted \union {req[r].key : r \in {q \in Requests : req[q].step = "clear"}}
  BY DEF RestartPanel, At
<1>2. \A r \in Requests : req[r].step = "clear" => req[r].key \in 1 .. madeKeys
  BY DEF AccountsInv, RequestFacts, Good
<1>3. Typed'
  <2>1. req' \in [Requests -> Request] /\ client' \in [Clients -> Client] BY <1>1, NoneTyped
  <2>2. haunted' \subseteq 1 .. madeKeys BY <1>1, <1>2 DEF AccountsInv, Typed
  <2> QED BY <1>1, <2>1, <2>2 DEF AccountsInv, Typed
<1>4. KnownKept BY <1>1 DEF KnownKept, Known
<1>5. ProfileFacts' BY <1>1, <1>4, TablesKept
<1>6. RequestFacts' BY <1>1, IdleGood DEF RequestFacts, Good, FirstGood, SaveGood
<1>7. SameRowSameName' BY <1>1, NoneTyped DEF SameRowSameName, SameName
<1>8. CacheFacts' /\ ClientFacts' BY <1>1, NoneTyped DEF CacheFacts, ClientFacts, Signs
<1> QED BY <1>3, <1>5, <1>6, <1>7, <1>8 DEF AccountsInv

LEMMA AccountsStepInv == AccountsInv /\ [AccountsNext]_accountVars => AccountsInv'
<1> SUFFICES ASSUME AccountsInv, [AccountsNext]_accountVars PROVE AccountsInv'
  OBVIOUS
<1>1. CASE UNCHANGED accountVars
  BY <1>1 DEF accountVars, AccountsInv, Typed, ProfileFacts, Kept1, Exists, Known, RequestFacts, Good,
              FirstGood, SaveGood, SameRowSameName, SameName, CacheFacts, ClientFacts, Signs
<1> QED BY <1>1, ImportInv, NameInv, FirstInv, SaveInv, CreateInv, InvalidateInv, DeleteInv, EraseInv,
           CreateKeyInv, FindKeyInv, SetDefaultInv, DeleteKeyInv, ClearInv, ReadInv, LoadInv, StoreInv,
           RestartInv
        DEF AccountsNext

(***************************************************************************)
(* Theorems.                                                               *)
(***************************************************************************)
LEMMA AccountsMeaning ==
  AccountsInv => AccountsTypeOK /\ KeyMatchesFingerprint /\ NameOwnerStable /\ DefaultKeyExists
<1> SUFFICES ASSUME AccountsInv
             PROVE  AccountsTypeOK /\ KeyMatchesFingerprint /\ NameOwnerStable /\ DefaultKeyExists
  OBVIOUS
<1>1. AccountsTypeOK
  <2>1. ASSUME NEW id \in Ids, Exists(id)
        PROVE  /\ profiles[id].name \in 1 .. LastSuffix /\ profiles[id].owner \in Owners
               /\ profiles[id].pem \in Pems /\ Named(profiles[id].name) = {id}
    <3>1. Kept1(id) /\ profiles[id] \in Row BY <2>1 DEF AccountsInv, ProfileFacts, Typed
    <3>2. profiles[id].name \in 1 .. LastSuffix BY <3>1, RowType, AccountsOK DEF AccountsOK, Kept1, Full
    <3> QED BY <3>1, <3>2 DEF Kept1, Full, Named
  <2>2. \A r \in Requests : req[r].step \in Steps BY RequestType DEF AccountsInv
  <2>3. \A c \in Clients : client[c].step \in {"idle", "decrypt"} BY ClientType DEF Client
  <2> QED BY <2>1, <2>2, <2>3 DEF AccountsTypeOK, AccountsInv, Typed, Steps
<1>2. KeyMatchesFingerprint BY DEF KeyMatchesFingerprint, AccountsInv, ClientFacts, Signs
<1>3. NameOwnerStable BY DEF NameOwnerStable, AccountsInv, ProfileFacts, Kept1
<1>4. DefaultKeyExists
  <2> SUFFICES ASSUME NEW id \in Ids
               PROVE  profiles[id].dflt \in sshKeys \union haunted \union {0}
                        \union {req[r].key : r \in {q \in Requests : req[q].step = "clear"}}
    BY DEF DefaultKeyExists, At
  <2>1. CASE Exists(id)
    <3>1. PICK k \in 0 .. LastKey : k = profiles[id].dflt BY RowType DEF AccountsInv, Typed
    <3>2. Known(k) BY <2>1, <3>1 DEF AccountsInv, ProfileFacts, Kept1
    <3> QED BY <3>1, <3>2 DEF Known
  <2>2. CASE ~Exists(id) BY <2>2 DEF Exists, NoRow
  <2> QED BY <2>1, <2>2
<1> QED BY <1>1, <1>2, <1>3, <1>4

\* Every variable has its type and no two accounts have one name, however the
\* imports overlap (uniqueProfileName, upsertProfile).
THEOREM AccountsTypeCorrect == AccountsSpec => []AccountsTypeOK
<1> QED BY AccountsMeaning, AccountsInitInv, AccountsStepInv, PTL DEF AccountsSpec

\* A client never signs with a key other than the one it names
\* (GetConfigurationProvider).
THEOREM KeysMatch == AccountsSpec => []KeyMatchesFingerprint
<1> QED BY AccountsMeaning, AccountsInitInv, AccountsStepInv, PTL DEF AccountsSpec

\* A profile stays with its tenancy and user (upsertProfile).
THEOREM OwnersStay == AccountsSpec => []NameOwnerStable
<1> QED BY AccountsMeaning, AccountsInitInv, AccountsStepInv, PTL DEF AccountsSpec

\* The default key of an account exists (DeleteSSHKey, SetDefaultSSHKey).
THEOREM DefaultsExist == AccountsSpec => []DefaultKeyExists
<1> QED BY AccountsMeaning, AccountsInitInv, AccountsStepInv, PTL DEF AccountsSpec

===============================================================================
