------------------------------- MODULE Login -------------------------------
(***************************************************************************)
(* Logging in and out: internal/auth/pin.go, internal/auth/session.go and  *)
(* the handlers of cmd/app/server.go that use them, with deleteAccount.    *)
(*                                                                         *)
(* A request is a goroutine; each lock section of the PIN store and each   *)
(* statement is a step. Deadlines are times left: Tick takes one unit from *)
(* each, down to -1, which means that the deadline has passed.             *)
(***************************************************************************)
EXTENDS Integers, Maps

CONSTANTS
    Addresses,          \* email addresses as they are typed
    Lower,              \* strings.ToLower
    Pins, NoPin,
    Ids, NoId,          \* users.id
    Tokens,             \* sessions.token_hash
    Requests,
    MaxAttempts, PinExpiry, SessionDuration

Keys == {Lower[a] : a \in Addresses}

ASSUME LowerAssumption == DOMAIN Lower = Addresses
ASSUME NoneAssumption == NoPin \notin Pins /\ NoId \notin Ids
ASSUME NumbersAssumption == {MaxAttempts, PinExpiry, SessionDuration} \subseteq Nat \ {0}

VARIABLES
    entries,    \* PinStore.entries: the PIN, its attempts, the time left
    users,      \* the table users: the email of each id
    sessions,   \* the table sessions: the user and the time left
    req         \* the requests that are served: op, the next step, its data

vars == <<entries, users, sessions, req>>

Less(n) == IF n < 0 THEN n ELSE n - 1

Request(op, at, a, p, u) ==
    [op |-> op, at |-> at, addr |-> a, pin |-> p, user |-> u, raced |-> FALSE]

\* req with the request r at its next step.
Goto(r, s) == [req EXCEPT ![r].at = s]

Init == entries = <<>> /\ users = <<>> /\ sessions = <<>> /\ req = <<>>

Tick ==
    /\ entries' = [k \in DOMAIN entries |-> [entries[k] EXCEPT !.left = Less(@)]]
    /\ sessions' = [t \in DOMAIN sessions |-> [sessions[t] EXCEPT !.left = Less(@)]]
    /\ UNCHANGED <<users, req>>

-----------------------------------------------------------------------------
(* requestPin and verifyPin, up to the end of the lock section. *)

Store(k, p) == entries' = Put(entries, k, [pin |-> p, attempts |-> 0, left |-> PinExpiry])

RequestPin(r, a) ==
    /\ r \notin DOMAIN req
    /\ \E p \in Pins : Store(Lower[a], p)
    /\ req' = Put(req, r, Request("request", "find", a, NoPin, NoId))
    /\ UNCHANGED <<users, sessions>>

VerifyExpired(k) ==
    /\ k \in DOMAIN entries /\ entries[k].left < 0
    /\ entries' = Without(entries, {k})
    /\ UNCHANGED <<users, sessions, req>>

\* Mutant: attempts are not limited.
VerifyUnlimited(k, p) ==
    /\ k \in DOMAIN entries /\ entries[k].left >= 0 /\ entries[k].pin # p
    /\ entries' = [entries EXCEPT ![k].attempts = @ + 1]
    /\ UNCHANGED <<users, sessions, req>>

VerifyWrong(k, p) ==
    /\ k \in DOMAIN entries /\ entries[k].left >= 0
    /\ entries[k].attempts < MaxAttempts /\ entries[k].pin # p
    /\ entries' = [entries EXCEPT ![k].attempts = @ + 1]
    /\ UNCHANGED <<users, sessions, req>>

\* Mutant: the PIN is not deleted.
VerifyAgain(r, a, p) ==
    LET k == Lower[a]
    IN  /\ r \notin DOMAIN req
        /\ k \in DOMAIN entries /\ entries[k].left >= 0
        /\ entries[k].attempts < MaxAttempts /\ entries[k].pin = p
        /\ req' = Put(req, r, Request("verify", "find", a, p, NoId))
        /\ UNCHANGED <<entries, users, sessions>>

VerifyRight(r, a, p) ==
    LET k == Lower[a]
    IN  /\ r \notin DOMAIN req
        /\ k \in DOMAIN entries /\ entries[k].left >= 0
        /\ entries[k].attempts < MaxAttempts /\ entries[k].pin = p
        /\ entries' = Without(entries, {k})
        /\ req' = Put(req, r, Request("verify", "find", a, p, NoId))
        /\ UNCHANGED <<users, sessions>>

Cleanup ==
    /\ entries' = Without(entries, {k \in DOMAIN entries : entries[k].left < 0})
    /\ UNCHANGED <<users, sessions, req>>

-----------------------------------------------------------------------------
(* FindOrCreateUser, and what the handlers do with the user. *)

IdsOf(a) == {u \in DOMAIN users : users[u] = a}

\* getUserByEmail finds a user: the handler goes on.
Found(r) == \E u \in IdsOf(req[r].addr) :
    req' = [req EXCEPT ![r].user = u,
                       ![r].at = IF req[r].op = "request" THEN "done" ELSE "session"]

Find(r) ==
    /\ r \in DOMAIN req /\ req[r].at = "find"
    /\ Found(r) \/ (IdsOf(req[r].addr) = {} /\ req' = Goto(r, "insert"))
    /\ UNCHANGED <<entries, users, sessions>>

\* Mutant: users.email is not unique.
InsertAnyway(r) ==
    /\ r \in DOMAIN req /\ req[r].at = "insert"
    /\ \E u \in Ids \ (DOMAIN users \cup {req[q].user : q \in DOMAIN req}) :
          users' = Put(users, u, req[r].addr)
    /\ req' = Goto(r, "again")
    /\ UNCHANGED <<entries, sessions>>

\* Mutant: no second lookup after an INSERT that failed.
InsertOrFail(r) ==
    /\ r \in DOMAIN req /\ req[r].at = "insert"
    /\ IF IdsOf(req[r].addr) # {} THEN users' = users /\ req' = Goto(r, "failed")
       ELSE /\ \E u \in Ids \ (DOMAIN users \cup {req[q].user : q \in DOMAIN req}) :
                  users' = Put(users, u, req[r].addr)
            /\ req' = Goto(r, "again")
    /\ UNCHANGED <<entries, sessions>>

\* The INSERT fails if another request has created the user; both look again.
Insert(r) ==
    /\ r \in DOMAIN req /\ req[r].at = "insert"
    /\ IF IdsOf(req[r].addr) # {} THEN users' = users
       ELSE \E u \in Ids \ (DOMAIN users \cup {req[q].user : q \in DOMAIN req}) :
               users' = Put(users, u, req[r].addr)
    /\ req' = Goto(r, "again")
    /\ UNCHANGED <<entries, sessions>>

FindAgain(r) ==
    /\ r \in DOMAIN req /\ req[r].at = "again"
    /\ Found(r) \/ (IdsOf(req[r].addr) = {} /\ req' = Goto(r, "failed"))
    /\ UNCHANGED <<entries, users, sessions>>

\* The foreign key rejects a session of a user who has been deleted.
CreateSession(r) ==
    /\ r \in DOMAIN req /\ req[r].at = "session"
    /\ IF req[r].user \notin DOMAIN users
       THEN req' = Goto(r, "failed") /\ sessions' = sessions
       ELSE /\ req' = Goto(r, "done")
            /\ \E t \in Tokens \ DOMAIN sessions :
                  sessions' = Put(sessions, t, [user |-> req[r].user, left |-> SessionDuration])
    /\ UNCHANGED <<entries, users>>

\* The response is written.
Respond(r) ==
    /\ r \in DOMAIN req /\ req[r].at \in {"done", "failed"}
    /\ req' = Without(req, {r})
    /\ UNCHANGED <<entries, users, sessions>>

\* The client is gone: the context of the next statement is cancelled.
Cancelled(r) ==
    /\ r \in DOMAIN req /\ req[r].at \notin {"done", "failed"}
    /\ req' = Without(req, {r})
    /\ UNCHANGED <<entries, users, sessions>>

-----------------------------------------------------------------------------
(* Sessions and accounts. *)

Valid(t) == t \in DOMAIN sessions /\ sessions[t].left > 0

\* authMiddleware, before deleteAccount.
Authenticate(r, t) ==
    /\ r \notin DOMAIN req /\ Valid(t)
    /\ LET u == sessions[t].user
       IN  req' = Put(req, r, Request("delete", "delete", users[u], NoPin, u))
    /\ UNCHANGED <<entries, users, sessions>>

\* deleteAccount, with the cascade to the sessions.
DeleteAccount(r) ==
    /\ r \in DOMAIN req /\ req[r].at = "delete"
    /\ LET u == req[r].user
           gone == {t \in DOMAIN sessions : sessions[t].user = u}
           hit == {q \in DOMAIN req : u \in DOMAIN users /\ req[q].addr = users[u]}
       IN  /\ users' = Without(users, {u})
           /\ sessions' = Without(sessions, gone)
           /\ req' = [q \in DOMAIN req |->
                 [req[q] EXCEPT !.at = IF q = r THEN "done" ELSE @,
                                !.raced = IF q \in hit THEN TRUE ELSE @]]
    /\ UNCHANGED entries

Logout(t) ==
    /\ t \in DOMAIN sessions
    /\ sessions' = Without(sessions, {t})
    /\ UNCHANGED <<entries, users, req>>

\* Mutant: sessions that have not expired are deleted.
RetentionOfValid ==
    /\ sessions' = Without(sessions, {t \in DOMAIN sessions : sessions[t].left >= 0})
    /\ UNCHANGED <<entries, users, req>>

\* runRetention, the sessions.
Retention ==
    /\ sessions' = Without(sessions, {t \in DOMAIN sessions : sessions[t].left < 0})
    /\ UNCHANGED <<entries, users, req>>

\* The server is restarted: PINs and requests are lost, the tables stay.
Restart ==
    /\ entries' = <<>> /\ req' = <<>>
    /\ UNCHANGED <<users, sessions>>

Next ==
    \/ Tick \/ Cleanup \/ Retention \/ Restart
    \/ \E k \in Keys : VerifyExpired(k) \/ \E p \in Pins : VerifyWrong(k, p)
    \/ \E r \in Requests :
          \/ \E a \in Addresses : RequestPin(r, a) \/ \E p \in Pins : VerifyRight(r, a, p)
          \/ \E t \in Tokens : Authenticate(r, t)
          \/ Find(r) \/ Insert(r) \/ FindAgain(r) \/ CreateSession(r)
          \/ Respond(r) \/ Cancelled(r) \/ DeleteAccount(r)
    \/ \E t \in Tokens : Logout(t)

Spec == Init /\ [][Next]_vars

-----------------------------------------------------------------------------
Steps == {"find", "insert", "again", "session", "delete", "done", "failed"}

TypeOK ==
    /\ DOMAIN entries \subseteq Keys
    /\ \A k \in DOMAIN entries : entries[k] \in
          [pin : Pins, attempts : 0..MaxAttempts, left : -1..PinExpiry]
    /\ DOMAIN users \subseteq Ids /\ \A u \in DOMAIN users : users[u] \in Addresses
    /\ DOMAIN sessions \subseteq Tokens
    /\ \A t \in DOMAIN sessions : sessions[t] \in
          [user : Ids, left : -1..SessionDuration]
    /\ DOMAIN req \subseteq Requests
    /\ \A r \in DOMAIN req : req[r] \in
          [op : {"request", "verify", "delete"}, at : Steps, addr : Addresses,
           pin : Pins \cup {NoPin}, user : Ids \cup {NoId}, raced : BOOLEAN]

\* FindOrCreateUser: two first requests of an address do not create two users.
OneUserPerAddress == \A u, v \in DOMAIN users : users[u] = users[v] => u = v

\* FindOrCreateUser, CreateSession: a request that has spent its PIN, or stored
\* one, fails only if the account was deleted while it was served.
FailsOnlyIfDeleted == \A r \in DOMAIN req : req[r].at = "failed" => req[r].raced

\* A session that is valid ends by a logout or with its account, never by the
\* retention, another login or a restart.
SessionsKept == [][\A t \in Tokens :
    Valid(t) /\ t \notin DOMAIN sessions' =>
        ~Retention /\ (Logout(t) \/ sessions[t].user \notin DOMAIN users')]_vars

-----------------------------------------------------------------------------
(* Logging in implements OneTimeCode: what is expired is gone, and a request *)
(* has a pass from Verify to its session.                                    *)

Live == {k \in DOMAIN entries : entries[k].left >= 0}
HasPass == {r \in DOMAIN req :
    req[r].op = "verify" /\ req[r].at \in {"find", "insert", "again", "session"}}
Open == {t \in DOMAIN sessions : sessions[t].left > 0}

Code == [k \in Live |-> [pin |-> entries[k].pin, left |-> MaxAttempts - entries[k].attempts]]
Pass == [r \in HasPass |-> [key |-> Lower[req[r].addr], pin |-> req[r].pin]]
Whose == [t \in Open |-> Lower[users[sessions[t].user]]]

Promise == INSTANCE OneTimeCode WITH
    Codes <- Pins, Tries <- MaxAttempts, Sessions <- Tokens,
    code <- Code, pass <- Pass, open <- Whose

\* Verify, FindOrCreateUser and CreateSession keep the promise: a session of an
\* address only by the PIN that was stored for it, up to capitals, each PIN once,
\* within its attempts and its time, whatever happens to the account in between.
KeepsPromise == Promise!Spec
=============================================================================
