------------------------------- MODULE Accounts -------------------------------
(***************************************************************************)
(* The OCI accounts of the panel and their saved SSH keys: rows of two     *)
(* tables that requests read, change and write back with no transaction    *)
(* (api/handlers_profile.go, api/handlers_sshkeys.go), and the RSA keys    *)
(* that clients take from a cache in memory (oci/client.go).               *)
(*                                                                         *)
(* Every import is of one configured name; a row's name is its suffix: 1   *)
(* for the name itself, n for name-n.  An owner is a tenancy and a user.   *)
(***************************************************************************)
EXTENDS Integers

CONSTANTS
  Requests,   \* requests under way at once
  Clients,    \* workers and handlers that sign OCI calls
  Owners,     \* <<tenancy, user>>
  Pems,       \* private keys
  LastSuffix, \* 99 in the code
  LastId,     \* bounds the profiles ever created
  LastKey     \* bounds the SSH keys ever created

ASSUME AccountsOK ==
  /\ LastSuffix \in Nat /\ LastSuffix >= 2 /\ LastId \in Nat /\ LastKey \in Nat
  /\ <<>> \notin Owners /\ "none" \notin Pems

VARIABLES
  profiles,           \* table of accounts
  sshKeys, madeKeys,  \* ids of the keys that exist; the last id given to one
  rsaKeyCache,        \* <<cache key, private key>>
  req, client,        \* what each request and each client is doing
  founder,            \* owner each profile was created for
  contested,          \* profiles created in the middle of an import for another owner
  haunted             \* deleted SSH keys that were being made a default meanwhile

accountVars ==
  <<profiles, sshKeys, madeKeys, rsaKeyCache, req, client, founder, contested, haunted>>

NoOwner == <<>>
NoRow == [name |-> 0, owner |-> NoOwner, fp |-> <<>>, pem |-> "none", dflt |-> 0]
NoRequest == [step |-> "idle", id |-> 0, row |-> NoRow, sect |-> NoRow, key |-> 0]
NoClient == [step |-> "idle", id |-> 0, row |-> NoRow, pem |-> "none"]

Ids == 1..LastId
Exists(id) == profiles[id] # NoRow
Named(n) == {id \in Ids : profiles[id].name = n}

AccountsInit ==
  /\ profiles = [id \in Ids |-> NoRow]
  /\ sshKeys = {} /\ madeKeys = 0
  /\ rsaKeyCache = {}
  /\ req = [r \in Requests |-> NoRequest]
  /\ client = [c \in Clients |-> NoClient]
  /\ founder = [id \in Ids |-> NoOwner]
  /\ contested = {} /\ haunted = {}

At(r, s) == req[r].step = s
ReqTo(r, s) == req' = [req EXCEPT ![r].step = s]
ReqDone(r) == req' = [req EXCEPT ![r] = NoRequest]

(***************************************************************************)
(* upsertProfile, for one section of a configuration.                      *)
(***************************************************************************)

\* The digest of the public half: each key has its own.
keyFingerprint(pem) == <<"md5", pem>>

\* A section whose key does not have its fingerprint is refused.
ImportProfile(r) ==
  /\ At(r, "idle")
  /\ \E o \in Owners, p \in Pems, f \in {keyFingerprint(q) : q \in Pems} :
       /\ keyFingerprint(p) = f
       /\ req' = [req EXCEPT ![r] = [@ EXCEPT !.step = "name",
            !.sect = [name |-> 1, owner |-> o, fp |-> f, pem |-> p, dflt |-> 0]]]
  /\ UNCHANGED <<profiles, sshKeys, madeKeys, rsaKeyCache, client, founder, contested, haunted>>

\* Mutant: the same tenancy is enough.
SameTenancy(id, s) == profiles[id].owner[1] = s.owner[1]

SameAccount(id, s) == profiles[id].owner = s.owner

\* uniqueProfileName: a free name, or the name of the same account.  The last
\* candidate is not looked up.
uniqueProfileName(r) == LET s == req[r].sect IN
  /\ At(r, "name")
  /\ IF s.name = LastSuffix \/ \A id \in Named(s.name) : SameAccount(id, s)
     THEN ReqTo(r, "first")
     ELSE req' = [req EXCEPT ![r].sect.name = @ + 1]
  /\ UNCHANGED <<profiles, sshKeys, madeKeys, rsaKeyCache, client, founder, contested, haunted>>

FirstByName(r) ==
  /\ At(r, "first")
  /\ IF Named(req[r].sect.name) = {}
     THEN ReqTo(r, "create")
     ELSE \E id \in Named(req[r].sect.name) :
            req' = [req EXCEPT ![r] = [@ EXCEPT !.step = "save", !.id = id, !.row = profiles[id]]]
  /\ UNCHANGED <<profiles, sshKeys, madeKeys, rsaKeyCache, client, founder, contested, haunted>>

\* Another import has chosen this name for another account and is about to look
\* for the row it will write to.
Contends(n, o) == \E q \in Requests :
  At(q, "first") /\ req[q].sect.name = n /\ req[q].sect.owner # o

Put(r, id, row) ==
  /\ profiles' = [profiles EXCEPT ![id] = row]
  /\ contested' = IF ~Exists(id) /\ Contends(row.name, row.owner) THEN contested \union {id} ELSE contested
  /\ req' = [req EXCEPT ![r] = [NoRequest EXCEPT !.step = "invalidate", !.id = id]]

\* Save writes every column of the row that was read, and inserts the row again
\* when it is gone.  Names are unique: an insertion that breaks this fails.
SaveRow(r) == LET s == req[r].sect  row == [s EXCEPT !.dflt = req[r].row.dflt] IN
  /\ At(r, "save")
  /\ IF ~Exists(req[r].id) /\ Named(s.name) # {}
     THEN ReqDone(r) /\ UNCHANGED <<profiles, contested>>
     ELSE Put(r, req[r].id, row)
  /\ UNCHANGED <<sshKeys, madeKeys, rsaKeyCache, client, founder, haunted>>

CreateRow(r) == LET s == req[r].sect IN
  /\ At(r, "create")
  /\ IF Named(s.name) # {}
     THEN ReqDone(r) /\ UNCHANGED <<profiles, contested, founder>>
     ELSE \E id \in Ids :
            /\ \A i \in Ids : (founder[i] # NoOwner) <=> (i < id)
            /\ founder' = [founder EXCEPT ![id] = s.owner]
            /\ Put(r, id, s)
  /\ UNCHANGED <<sshKeys, madeKeys, rsaKeyCache, client, haunted>>

\* InvalidateProfileCache: every entry of the profile.
Without(id) == {e \in rsaKeyCache : e[1][1] # id}

InvalidateImported(r) ==
  /\ At(r, "invalidate")
  /\ rsaKeyCache' = Without(req[r].id)
  /\ ReqDone(r)
  /\ UNCHANGED <<profiles, sshKeys, madeKeys, client, founder, contested, haunted>>

(***************************************************************************)
(* DeleteProfile: the cache first, then the row.                           *)
(***************************************************************************)
DeleteProfile(r) ==
  /\ At(r, "idle")
  /\ \E id \in Ids :
       /\ Exists(id)
       /\ rsaKeyCache' = Without(id)
       /\ req' = [req EXCEPT ![r] = [@ EXCEPT !.step = "erase", !.id = id]]
  /\ UNCHANGED <<profiles, sshKeys, madeKeys, client, founder, contested, haunted>>

EraseRow(r) ==
  /\ At(r, "erase")
  /\ profiles' = [profiles EXCEPT ![req[r].id] = NoRow]
  /\ ReqDone(r)
  /\ UNCHANGED <<sshKeys, madeKeys, rsaKeyCache, client, founder, contested, haunted>>

(***************************************************************************)
(* SSH keys.                                                               *)
(***************************************************************************)
CreateSSHKey(r) ==
  /\ At(r, "idle") /\ madeKeys < LastKey
  /\ madeKeys' = madeKeys + 1
  /\ sshKeys' = sshKeys \union {madeKeys'}
  /\ UNCHANGED <<profiles, rsaKeyCache, req, client, founder, contested, haunted>>

FindKey(r, s) ==
  /\ At(r, "idle")
  /\ \E k \in sshKeys, id \in Ids :
       /\ Exists(id)
       /\ req' = [req EXCEPT ![r] = [@ EXCEPT !.step = s, !.key = k, !.id = IF s = "set" THEN id ELSE 0]]
  /\ UNCHANGED <<profiles, sshKeys, madeKeys, rsaKeyCache, client, founder, contested, haunted>>

\* Update of one column of the profile, when it is still there.
SetDefaultSSHKey(r) == LET id == req[r].id IN
  /\ At(r, "set")
  /\ profiles' = IF Exists(id) THEN [profiles EXCEPT ![id].dflt = req[r].key] ELSE profiles
  /\ ReqDone(r)
  /\ UNCHANGED <<sshKeys, madeKeys, rsaKeyCache, client, founder, contested, haunted>>

DeleteSSHKey(r) ==
  /\ At(r, "unsave")
  /\ sshKeys' = sshKeys \ {req[r].key}
  /\ ReqTo(r, "clear")
  /\ UNCHANGED <<profiles, madeKeys, rsaKeyCache, client, founder, contested, haunted>>

\* A request that still holds the key will write it after this.
Holds(q, k) ==
  \/ At(q, "set") /\ req[q].key = k
  \/ At(q, "save") /\ req[q].row.dflt = k

\* Mutant: the profiles keep what they have.
ClearNothing(k) == profiles

Cleared(k) ==
  [id \in Ids |-> IF profiles[id].dflt = k THEN [profiles[id] EXCEPT !.dflt = 0] ELSE profiles[id]]

ClearDefaults(r) == LET k == req[r].key IN
  /\ At(r, "clear")
  /\ profiles' = Cleared(k)
  /\ haunted' = IF \E q \in Requests : Holds(q, k) THEN haunted \union {k} ELSE haunted
  /\ ReqDone(r)
  /\ UNCHANGED <<sshKeys, madeKeys, rsaKeyCache, client, founder, contested>>

(***************************************************************************)
(* GetConfigurationProvider, with a copy of the row that may be old.       *)
(***************************************************************************)

\* Mutant: one key per profile.
KeyOfProfile(id, row) == <<id, "any">>

keyCacheKey(id, row) == <<id, row.fp>>

ReadProfile(c) ==
  /\ client[c].step = "idle"
  /\ \E id \in Ids :
       /\ Exists(id)
       /\ client' = [client EXCEPT ![c] = [NoClient EXCEPT !.id = id, !.row = profiles[id]]]
  /\ UNCHANGED <<profiles, sshKeys, madeKeys, rsaKeyCache, req, founder, contested, haunted>>

LoadKey(c) == LET d == client[c]  hits == {e \in rsaKeyCache : e[1] = keyCacheKey(d.id, d.row)} IN
  /\ d.step = "idle" /\ d.id # 0
  /\ IF hits = {}
     THEN client' = [client EXCEPT ![c].step = "decrypt"]
     ELSE \E e \in hits : client' = [client EXCEPT ![c].pem = e[2]]
  /\ UNCHANGED <<profiles, sshKeys, madeKeys, rsaKeyCache, req, founder, contested, haunted>>

StoreKey(c) == LET d == client[c]  k == keyCacheKey(d.id, d.row) IN
  /\ d.step = "decrypt"
  /\ rsaKeyCache' = {e \in rsaKeyCache : e[1] # k} \union {<<k, d.row.pem>>}
  /\ client' = [client EXCEPT ![c].step = "idle", ![c].pem = d.row.pem]
  /\ UNCHANGED <<profiles, sshKeys, madeKeys, req, founder, contested, haunted>>

\* The process stops and starts again: the tables stay.
RestartPanel ==
  /\ rsaKeyCache' = {}
  /\ req' = [r \in Requests |-> NoRequest]
  /\ client' = [c \in Clients |-> NoClient]
  /\ haunted' = haunted \union {req[r].key : r \in {q \in Requests : At(q, "clear")}}
  /\ UNCHANGED <<profiles, sshKeys, madeKeys, founder, contested>>

AccountsNext ==
  \/ \E r \in Requests :
       \/ ImportProfile(r) \/ uniqueProfileName(r) \/ FirstByName(r)
       \/ SaveRow(r) \/ CreateRow(r) \/ InvalidateImported(r)
       \/ DeleteProfile(r) \/ EraseRow(r)
       \/ CreateSSHKey(r) \/ FindKey(r, "set") \/ FindKey(r, "unsave")
       \/ SetDefaultSSHKey(r) \/ DeleteSSHKey(r) \/ ClearDefaults(r)
  \/ \E c \in Clients : ReadProfile(c) \/ LoadKey(c) \/ StoreKey(c)
  \/ RestartPanel

AccountsSpec == AccountsInit /\ [][AccountsNext]_accountVars

(***************************************************************************)
(* Properties.                                                             *)
(***************************************************************************)

\* Every variable has its type; a name is used once.
AccountsTypeOK ==
  /\ \A id \in Ids : Exists(id) =>
       /\ profiles[id].name \in 1..LastSuffix
       /\ profiles[id].owner \in Owners
       /\ profiles[id].pem \in Pems
       /\ Named(profiles[id].name) = {id}
  /\ sshKeys \subseteq 1..madeKeys /\ madeKeys \in 0..LastKey
  /\ \A r \in Requests : req[r].step \in
       {"idle", "name", "first", "save", "create", "invalidate", "erase", "set", "unsave", "clear"}
  /\ \A c \in Clients : client[c].step \in {"idle", "decrypt"}
  /\ contested \subseteq Ids /\ haunted \subseteq 1..madeKeys

\* A client signs with the key whose fingerprint it sends, whatever imports of a
\* rotated key, deletions and restarts go on around its old copy of the row
\* (client.go:113-146).
KeyMatchesFingerprint == \A c \in Clients :
  client[c].pem # "none" => keyFingerprint(client[c].pem) = client[c].row.fp

\* A profile stays with the tenancy and user it was created for, so tasks that
\* name it never launch elsewhere, unless it was created while an import of the
\* same name for another account was between its two look-ups, or had run out of
\* names (handlers_profile.go:177-190, 227-243).
NameOwnerStable == \A id \in Ids :
  Exists(id) /\ id \notin contested /\ profiles[id].name < LastSuffix =>
    profiles[id].owner = founder[id]

\* The default key of an account is a key that exists, unless its deletion has
\* still to clear the defaults, was cut short, or met a request that had read it
\* before (handlers_sshkeys.go:131-132, 163, handlers_profile.go:228-243).
DefaultKeyExists == \A id \in Ids : LET k == profiles[id].dflt IN
  k \in sshKeys \union haunted \union {0} \union {req[r].key : r \in {q \in Requests : At(q, "clear")}}

===============================================================================
