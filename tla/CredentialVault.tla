-------------------------- MODULE CredentialVault --------------------------
(***************************************************************************)
(* The credentials and the keys that open them: writeCredentials up to its *)
(* upsert, getOrCreateDEK, LoadCredentials, deleteAccount and              *)
(* internal/crypto/envelope.go. Each statement is a step of a request;     *)
(* requests of one user overlap when one is slower than the 30 seconds of  *)
(* credentialRL. Encryption is what it does: what was sealed with a key is *)
(* opened with that key, and with no other.                                *)
(***************************************************************************)
EXTENDS Maps

CONSTANTS
    Users, Requests, Inputs, NoInput,
    DEKs, NoDEK,        \* the data keys
    MEK,                \* the master key
    Failed              \* the error of open

ASSUME NoneAssumption == NoInput \notin Inputs /\ NoDEK \notin DEKs /\ MEK \notin DEKs
ASSUME FailedAssumption == Failed \notin Inputs /\ Failed \notin DEKs /\ NoInput # Failed

VARIABLES
    users,      \* the accounts
    deks,       \* the table user_deks: the sealed data key of each user
    creds,      \* the table starbucks_credentials: sealed credentials
    req         \* the requests that are served: op, the next step, its data

vars == <<users, deks, creds, req>>

Seal(k, x) == [key |-> k, data |-> x]

Open(k, c) == IF c.key = k THEN c.data ELSE Failed

\* Mutant: the data key is not decrypted.
SealedDEK(u) == deks[u]

\* The data key of a user.
DecryptDEK(u) == Open(MEK, deks[u])

\* io.ReadFull(rand.Reader, plainDEK): a key that nobody has seen.
Fresh == DEKs \ ({deks[u].data : u \in DOMAIN deks} \cup {creds[u].key : u \in DOMAIN creds}
                   \cup {req[r].dek : r \in DOMAIN req})

Init == users = {} /\ deks = <<>> /\ creds = <<>> /\ req = <<>>

\* FindOrCreateUser, with an id that nobody has seen.
CreateUser(u) ==
    /\ u \notin users /\ \A r \in DOMAIN req : req[r].user # u
    /\ users' = users \cup {u}
    /\ UNCHANGED <<deks, creds, req>>

Goto(r, s) == [req EXCEPT ![r].at = s]
At(r, s) == r \in DOMAIN req /\ req[r].at = s

-----------------------------------------------------------------------------
(* writeCredentials *)

WriteCredentials(r, u, x) ==
    /\ r \notin DOMAIN req /\ u \in users
    /\ req' = Put(req, r, [op |-> "write", at |-> "look", user |-> u, dek |-> NoDEK,
                           input |-> x, cause |-> FALSE])
    /\ UNCHANGED <<users, deks, creds>>

\* Mutant: a data key is generated each time.
LookAway(r) ==
    /\ At(r, "look") /\ req' = Goto(r, "generate")
    /\ UNCHANGED <<users, deks, creds>>

\* getOrCreateDEK, the SELECT.
Look(r) ==
    /\ At(r, "look")
    /\ \/ req[r].user \in DOMAIN deks
          /\ req' = [req EXCEPT ![r].at = "store", ![r].dek = DecryptDEK(req[r].user)]
       \/ req[r].user \notin DOMAIN deks /\ req' = Goto(r, "generate")
    /\ UNCHANGED <<users, deks, creds>>

\* The data key k is stored by r; for the others it is a cause to fail.
Keyed(r, k) ==
    /\ deks' = Put(deks, req[r].user, Seal(MEK, k))
    /\ req' = [q \in DOMAIN req |->
          IF q = r THEN [req[q] EXCEPT !.at = "store", !.dek = k]
          ELSE IF req[q].user = req[r].user /\ req[q].op = "write"
               THEN [req[q] EXCEPT !.cause = TRUE] ELSE req[q]]

\* Mutant: the data key is upserted, as the credentials are.
GenerateAnyway(r) ==
    /\ At(r, "generate")
    /\ IF req[r].user \notin users
       THEN req' = Goto(r, "failed") /\ deks' = deks
       ELSE \E k \in Fresh : Keyed(r, k)
    /\ UNCHANGED <<users, creds>>

\* getOrCreateDEK, the INSERT: it fails if there is a key, or no account.
Generate(r) ==
    /\ At(r, "generate")
    /\ IF req[r].user \in DOMAIN deks \/ req[r].user \notin users
       THEN req' = Goto(r, "failed") /\ deks' = deks
       ELSE \E k \in Fresh : Keyed(r, k)
    /\ UNCHANGED <<users, creds>>

\* Mutant: the foreign key is not enforced.
StoreAnyway(r) ==
    /\ At(r, "store")
    /\ req' = Goto(r, "done")
    /\ creds' = Put(creds, req[r].user, Seal(req[r].dek, req[r].input))
    /\ UNCHANGED <<users, deks>>

\* Mutant: ON CONFLICT DO NOTHING.
StoreFirst(r) ==
    /\ At(r, "store")
    /\ IF req[r].user \notin users
       THEN req' = Goto(r, "failed") /\ creds' = creds
       ELSE /\ req' = Goto(r, "done")
            /\ creds' = IF req[r].user \in DOMAIN creds THEN creds
                        ELSE Put(creds, req[r].user, Seal(req[r].dek, req[r].input))
    /\ UNCHANGED <<users, deks>>

\* The upsert of the sealed credentials; it fails if the account is gone.
Store(r) ==
    /\ At(r, "store")
    /\ IF req[r].user \notin users
       THEN req' = Goto(r, "failed") /\ creds' = creds
       ELSE /\ req' = Goto(r, "done")
            /\ creds' = Put(creds, req[r].user, Seal(req[r].dek, req[r].input))
    /\ UNCHANGED <<users, deks>>

-----------------------------------------------------------------------------
(* LoadCredentials, called by scrapeGetCredentials *)

LoadCredentials(r, u) ==
    /\ r \notin DOMAIN req /\ u \in users
    /\ req' = Put(req, r, [op |-> "load", at |-> "key", user |-> u, dek |-> NoDEK,
                           input |-> NoInput, cause |-> u \notin DOMAIN creds])
    /\ UNCHANGED <<users, deks, creds>>

LoadKey(r) ==
    /\ At(r, "key")
    /\ \/ req[r].user \in DOMAIN deks
          /\ req' = [req EXCEPT ![r].at = "open", ![r].dek = DecryptDEK(req[r].user)]
       \/ req[r].user \notin DOMAIN deks /\ req' = Goto(r, "failed")
    /\ UNCHANGED <<users, deks, creds>>

OpenCredentials(r) ==
    LET u == req[r].user
        x == Open(req[r].dek, creds[u])
    IN  /\ At(r, "open")
        /\ \/ u \in DOMAIN creds /\ x # Failed
              /\ req' = [req EXCEPT ![r].at = "loaded", ![r].input = x]
           \/ (u \in DOMAIN creds => x = Failed) /\ req' = Goto(r, "failed")
        /\ UNCHANGED <<users, deks, creds>>

-----------------------------------------------------------------------------
Ended == {"done", "loaded", "failed"}

\* The response is written, or the client is gone and the next statement's
\* context is cancelled.
End(r) ==
    /\ r \in DOMAIN req /\ req' = Without(req, {r})
    /\ UNCHANGED <<users, deks, creds>>

\* deleteAccount, with the cascades.
DeleteAccount(u) ==
    /\ u \in users
    /\ users' = users \ {u} /\ deks' = Without(deks, {u}) /\ creds' = Without(creds, {u})
    /\ req' = [r \in DOMAIN req |->
          IF req[r].user = u THEN [req[r] EXCEPT !.cause = TRUE] ELSE req[r]]

Restart == req' = <<>> /\ UNCHANGED <<users, deks, creds>>

Next ==
    \/ Restart
    \/ \E u \in Users : CreateUser(u) \/ DeleteAccount(u)
    \/ \E r \in Requests :
          \/ \E u \in Users : LoadCredentials(r, u) \/ \E x \in Inputs : WriteCredentials(r, u, x)
          \/ Look(r) \/ Generate(r) \/ Store(r) \/ LoadKey(r) \/ OpenCredentials(r) \/ End(r)

Spec == Init /\ [][Next]_vars

-----------------------------------------------------------------------------
TypeOK ==
    /\ users \subseteq Users
    /\ DOMAIN deks \subseteq Users
    /\ \A u \in DOMAIN deks : deks[u] \in [key : {MEK}, data : DEKs]
    /\ DOMAIN creds \subseteq Users
    /\ \A u \in DOMAIN creds : creds[u] \in [key : DEKs, data : Inputs]
    /\ DOMAIN req \subseteq Requests
    /\ \A r \in DOMAIN req : req[r] \in
          [op : {"write", "load"}, user : Users, dek : DEKs \cup {NoDEK},
           at : {"look", "generate", "store", "key", "open"} \cup Ended,
           input : Inputs \cup {NoInput}, cause : BOOLEAN]

\* getOrCreateDEK, writeCredentials: whoever wins the race to store a data key,
\* the stored credentials are sealed with the stored key.
StoredOpens == \A u \in DOMAIN creds :
    u \in DOMAIN deks /\ creds[u].key = deks[u].data

\* deleteAccount: no key and no credentials are left of an account, and no
\* request that is slower than the deletion brings them back.
NothingOutlivesAccount == DOMAIN deks \cup DOMAIN creds \subseteq users

\* A write fails only if the account was deleted or another request stored the
\* data key, a load only if the account was deleted or had no credentials.
FailsOnlyForCause == \A r \in DOMAIN req : req[r].at = "failed" => req[r].cause

-----------------------------------------------------------------------------
(* The vault implements CredentialStore. *)

Saved == [u \in DOMAIN creds |-> Open(DecryptDEK(u), creds[u])]
Loaded == [r \in {q \in DOMAIN req : req[q].at = "loaded"} |->
              [user |-> req[r].user, input |-> req[r].input]]

Asked == [r \in {q \in DOMAIN req : req[q].at \in {"look", "generate", "store"}} |->
              [user |-> req[r].user, input |-> req[r].input]]
Acked == {r \in DOMAIN req : req[r].at = "done"}

Promise == INSTANCE CredentialStore WITH
    saved <- Saved, asked <- Asked, acked <- Acked, loaded <- Loaded

\* writeCredentials and LoadCredentials: "credentials saved" is true, and what
\* the scraper gets is what the user saved last, although keys and credentials
\* are read and written in separate statements.
KeepsPromise == Promise!Spec
=============================================================================
