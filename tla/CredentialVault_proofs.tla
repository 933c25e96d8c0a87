----------------------- MODULE CredentialVault_proofs -----------------------
(* The invariant of CredentialVault, and that it implements CredentialStore. *)
EXTENDS CredentialVault, TLAPS

\* What the next step of a request relies on.
ReqOK(r) ==
    /\ req[r].user \notin users => req[r].cause
    /\ req[r].op = "load" /\ req[r].user \notin DOMAIN creds => req[r].cause
    /\ req[r].at \in {"look", "generate", "store"} =>
          req[r].op = "write" /\ req[r].input \in Inputs
    /\ req[r].at \in {"key", "open"} => req[r].op = "load"
    /\ req[r].at = "generate" /\ req[r].user \in DOMAIN deks => req[r].cause
    /\ req[r].at \in {"store", "open"} =>
          /\ req[r].dek \in DEKs
          /\ req[r].user \in users =>
                req[r].user \in DOMAIN deks /\ deks[req[r].user].data = req[r].dek
    /\ req[r].at = "failed" => req[r].cause

States == {"look", "generate", "store", "key", "open"} \cup Ended
Req == [op : {"write", "load"}, user : Users, dek : DEKs \cup {NoDEK}, at : States,
        input : Inputs \cup {NoInput}, cause : BOOLEAN]

IInv == TypeOK /\ StoredOpens /\ NothingOutlivesAccount /\ \A r \in DOMAIN req : ReqOK(r)

LEMMA InitIInv == Init => IInv
BY DEF Init, IInv, TypeOK, StoredOpens, NothingOutlivesAccount, ReqOK

LEMMA NextIInv == IInv /\ [Next]_vars => IInv'
<1> SUFFICES ASSUME IInv, [Next]_vars PROVE IInv'
  OBVIOUS
<1> USE NoneAssumption, FailedAssumption
<1> USE DEF IInv, TypeOK, StoredOpens, NothingOutlivesAccount, Ended
<1>a. \A u \in DOMAIN deks : DecryptDEK(u) = deks[u].data /\ deks[u].data \in DEKs
  BY DEF DecryptDEK, Open
<1>b. ASSUME NEW r \in Requests, r \in DOMAIN req, req[r].user \in DOMAIN deks,
             NEW from \in {"look", "key"}, req[r].at = from,
             NEW to \in {"store", "open"}, to = IF from = "look" THEN "store" ELSE "open",
             req' = [req EXCEPT ![r].at = to, ![r].dek = deks[req[r].user].data],
             UNCHANGED <<users, deks, creds>>
      PROVE  IInv'
  <2>1. /\ DOMAIN req' = DOMAIN req /\ \A q \in DOMAIN req : q # r => req'[q] = req[q]
        /\ req'[r].at = to /\ req'[r].dek = deks[req[r].user].data
        /\ req'[r].op = req[r].op /\ req'[r].user = req[r].user
        /\ req'[r].input = req[r].input /\ req'[r].cause = req[r].cause
    BY <1>b
  <2>2. TypeOK'
    <3>1. req[r] \in Req /\ deks[req[r].user].data \in DEKs /\ to \in States
      BY <1>a, <1>b DEF Req, States
    <3>2. req'[r] = [[req[r] EXCEPT !.at = to] EXCEPT !.dek = deks[req[r].user].data]
      BY <1>b
    <3>3. req'[r] \in Req
      BY <3>1, <3>2 DEF Req
    <3>4. \A q \in DOMAIN req' : req'[q] \in Req
      BY <2>1, <3>3 DEF Req, States
    <3> QED BY <1>b, <2>1, <3>4 DEF Req, States
  <2>3. ReqOK(r)'
    BY <1>a, <1>b, <2>1 DEF ReqOK
  <2>4. ASSUME NEW q \in DOMAIN req, q # r PROVE ReqOK(q)'
    BY <1>b, <2>1, <2>4 DEF ReqOK
  <2> QED BY <1>b, <2>1, <2>2, <2>3, <2>4
<1>1. CASE Restart
  BY <1>1 DEF Restart, ReqOK
<1>2. ASSUME NEW u \in Users, CreateUser(u) PROVE IInv'
  BY <1>2 DEF CreateUser, ReqOK
<1>3. ASSUME NEW u \in Users, DeleteAccount(u) PROVE IInv'
  <2>1. /\ users' = users \ {u} /\ deks' = Without(deks, {u}) /\ creds' = Without(creds, {u})
        /\ DOMAIN req' = DOMAIN req
        /\ \A r \in DOMAIN req : req'[r] = IF req[r].user = u THEN [req[r] EXCEPT !.cause = TRUE]
                                           ELSE req[r]
    BY <1>3 DEF DeleteAccount
  <2>2. TypeOK' /\ StoredOpens' /\ NothingOutlivesAccount'
    <3>1. ASSUME NEW r \in DOMAIN req PROVE req'[r] \in Req
      <4>1. req[r] \in Req
        BY <2>1, <3>1 DEF Req, States
      <4>2. req'[r] = req[r] \/ req'[r] = [req[r] EXCEPT !.cause = TRUE]
        BY <2>1, <3>1
      <4> QED BY <4>1, <4>2 DEF Req
    <3> QED BY <2>1, <3>1 DEF Without, Req, States
  <2>3. ASSUME NEW r \in DOMAIN req PROVE ReqOK(r)'
    <3>1. CASE req[r].user = u
      <4>1. /\ req'[r].cause = TRUE /\ req'[r].op = req[r].op /\ req'[r].at = req[r].at
            /\ req'[r].user = u /\ req'[r].dek = req[r].dek /\ req'[r].input = req[r].input
        BY <2>1, <3>1
      <4> QED BY <2>1, <4>1, <3>1 DEF ReqOK
    <3>2. CASE req[r].user # u
      BY <2>1, <3>2 DEF ReqOK, Without
    <3> QED BY <3>1, <3>2
  <2> QED BY <2>1, <2>2, <2>3
<1>4. ASSUME NEW r \in Requests, NEW u \in Users, LoadCredentials(r, u) PROVE IInv'
  BY <1>4 DEF LoadCredentials, Put, ReqOK
<1>5. ASSUME NEW r \in Requests, NEW u \in Users, NEW x \in Inputs, WriteCredentials(r, u, x)
      PROVE  IInv'
  BY <1>5 DEF WriteCredentials, Put, ReqOK
<1>6. ASSUME NEW r \in Requests, Look(r) PROVE IInv'
  <2>1. CASE req[r].user \in DOMAIN deks
    BY <1>6, <1>a, <1>b, <2>1 DEF Look, At
  <2>2. CASE req[r].user \notin DOMAIN deks
    BY <1>6, <2>2 DEF Look, At, Goto, ReqOK
  <2> QED BY <2>1, <2>2
<1>7. ASSUME NEW r \in Requests, Generate(r) PROVE IInv'
  <2>1. CASE req[r].user \in DOMAIN deks \/ req[r].user \notin users
    BY <1>7, <2>1 DEF Generate, At, Goto, ReqOK
  <2>2. CASE ~(req[r].user \in DOMAIN deks \/ req[r].user \notin users)
    <3> DEFINE u == req[r].user
    <3>1. PICK k \in DEKs : Keyed(r, k)
      BY <1>7, <2>2 DEF Generate, Fresh
    <3>2. r \in DOMAIN req /\ req[r].at = "generate" /\ UNCHANGED <<users, creds>> /\ u \in users
          /\ u \notin DOMAIN deks
      BY <1>7, <2>2 DEF Generate, At
    <3>3. deks' = Put(deks, u, [key |-> MEK, data |-> k])
      BY <3>1 DEF Keyed, Seal
    <3>4. /\ DOMAIN req' = DOMAIN req
          /\ req'[r].op = req[r].op /\ req'[r].at = "store" /\ req'[r].user = u
          /\ req'[r].dek = k /\ req'[r].input = req[r].input /\ req'[r].cause = req[r].cause
          /\ \A q \in DOMAIN req : q # r =>
                /\ req'[q].op = req[q].op /\ req'[q].at = req[q].at
                /\ req'[q].user = req[q].user /\ req'[q].dek = req[q].dek
                /\ req'[q].input = req[q].input
                /\ req[q].cause => req'[q].cause
                /\ req[q].user = u /\ req[q].op = "write" => req'[q].cause
      <4>1. req' = [q \in DOMAIN req |->
              IF q = r THEN [[req[q] EXCEPT !.at = "store"] EXCEPT !.dek = k]
              ELSE IF req[q].user = u /\ req[q].op = "write"
                   THEN [req[q] EXCEPT !.cause = TRUE] ELSE req[q]]
        BY <3>1 DEF Keyed
      <4>2. /\ DOMAIN req' = DOMAIN req
            /\ req'[r] = [[req[r] EXCEPT !.at = "store"] EXCEPT !.dek = k]
        BY <3>2, <4>1
      <4>3. ASSUME NEW q \in DOMAIN req, q # r
            PROVE  /\ req'[q].op = req[q].op /\ req'[q].at = req[q].at
                   /\ req'[q].user = req[q].user /\ req'[q].dek = req[q].dek
                   /\ req'[q].input = req[q].input
                   /\ req[q].cause => req'[q].cause
                   /\ req[q].user = u /\ req[q].op = "write" => req'[q].cause
        BY <4>1, <4>3
      <4> QED BY <3>2, <4>2, <4>3
    <3>5. ASSUME NEW q \in DOMAIN req PROVE req'[q] \in Req
      <4>1. CASE q = r
        <5>1. req'[q] = [[req[q] EXCEPT !.at = "store"] EXCEPT !.dek = k]
          BY <3>1, <4>1 DEF Keyed
        <5>2. req[q] \in Req /\ "store" \in States
          BY DEF Req, States
        <5> QED BY <5>1, <5>2 DEF Req
      <4>2. CASE q # r
        <5>1. req'[q] = req[q] \/ req'[q] = [req[q] EXCEPT !.cause = TRUE]
          BY <3>1, <4>2 DEF Keyed
        <5>2. req[q] \in Req
          BY DEF Req, States
        <5> QED BY <5>1, <5>2 DEF Req
      <4> QED BY <4>1, <4>2
    <3>6. TypeOK' /\ StoredOpens' /\ NothingOutlivesAccount'
      BY <3>2, <3>3, <3>4, <3>5 DEF Put, Req, States
    <3>7. ReqOK(r)'
      BY <3>2, <3>3, <3>4 DEF Put, ReqOK
    <3>8. ASSUME NEW q \in DOMAIN req, q # r PROVE ReqOK(q)'
      BY <3>2, <3>3, <3>4, <3>8 DEF Put, ReqOK
    <3> QED BY <3>4, <3>6, <3>7, <3>8
  <2> QED BY <2>1, <2>2
<1>8. ASSUME NEW r \in Requests, Store(r) PROVE IInv'
  BY <1>8 DEF Store, At, Goto, Seal, Put, ReqOK
<1>9. ASSUME NEW r \in Requests, LoadKey(r) PROVE IInv'
  <2>1. CASE req[r].user \in DOMAIN deks
    BY <1>9, <1>a, <1>b, <2>1 DEF LoadKey, At
  <2>2. CASE req[r].user \notin DOMAIN deks
    BY <1>9, <2>2 DEF LoadKey, At, Goto, ReqOK
  <2> QED BY <2>1, <2>2
<1>10. ASSUME NEW r \in Requests, OpenCredentials(r) PROVE IInv'
  BY <1>10 DEF OpenCredentials, At, Goto, Open, ReqOK
<1>11. ASSUME NEW r \in Requests, End(r) PROVE IInv'
  BY <1>11 DEF End, Without, ReqOK
<1>12. CASE UNCHANGED vars
  BY <1>12 DEF vars, ReqOK
<1> QED
  BY <1>1, <1>2, <1>3, <1>4, <1>5, <1>6, <1>7, <1>8, <1>9, <1>10, <1>11, <1>12 DEF Next

THEOREM VaultInvariance == Spec => []IInv
BY InitIInv, NextIInv, PTL DEF Spec

\* Types; above all, data keys are used unsealed and credentials sealed with one.
THEOREM VaultTypeCorrect == Spec => []TypeOK
BY VaultInvariance, PTL DEF IInv

\* getOrCreateDEK, writeCredentials: stored credentials open with the stored key.
THEOREM VaultOpens == Spec => []StoredOpens
BY VaultInvariance, PTL DEF IInv

\* deleteAccount: no key and no credentials without an account.
THEOREM VaultDeletes == Spec => []NothingOutlivesAccount
BY VaultInvariance, PTL DEF IInv

\* Writes and loads fail only for a cause.
THEOREM VaultFailsOnlyForCause == Spec => []FailsOnlyForCause
<1>1. IInv => FailsOnlyForCause
  BY DEF IInv, ReqOK, FailsOnlyForCause
<1> QED BY <1>1, VaultInvariance, PTL

-----------------------------------------------------------------------------
(* CredentialVault implements CredentialStore. *)

Asking == {"look", "generate", "store"}
Calls == <<Asked, Acked, Loaded>>

\* What is saved is what was sealed.
LEMMA SavedIsData == IInv => Saved = [u \in DOMAIN creds |-> creds[u].data]
BY DEF IInv, StoredOpens, TypeOK, Saved, DecryptDEK, Open

LEMMA SavedSame == IInv /\ IInv' /\ creds' = creds => Saved' = Saved
<1> SUFFICES ASSUME IInv, IInv', creds' = creds PROVE Saved' = Saved
  OBVIOUS
<1>1. Saved' = [u \in DOMAIN creds' |-> creds'[u].data]
  BY DEF IInv, StoredOpens, TypeOK, Saved, DecryptDEK, Open
<1> QED BY <1>1, SavedIsData

LEMMA NothingWithout ==
    /\ Without(Saved, {}) = Saved
    /\ Without(Asked, {}) = Asked
    /\ Without(Loaded, {}) = Loaded
    /\ Acked \ {} = Acked
BY DEF Without, Saved, Asked, Loaded

LEMMA ForgetStep ==
    ASSUME NEW U \in SUBSET Users, NEW R \in SUBSET Requests, NEW Q \in SUBSET Requests,
           Saved' = Without(Saved, U), Asked' = Without(Asked, R),
           Acked' = Acked \ Q, Loaded' = Without(Loaded, Q)
    PROVE  Promise!Next
BY DEF Promise!Next, Promise!Forget, Promise!Without, Without

\* Requests whose part in the promise is the same.
SameCalls ==
    /\ DOMAIN req' = DOMAIN req
    /\ \A r \in DOMAIN req :
          /\ req'[r].user = req[r].user /\ req'[r].input = req[r].input
          /\ req'[r].at \in Asking <=> req[r].at \in Asking
          /\ req'[r].at = "done" <=> req[r].at = "done"
          /\ req'[r].at = "loaded" <=> req[r].at = "loaded"

LEMMA CallsSame == SameCalls => Calls' = Calls
<1> SUFFICES ASSUME SameCalls PROVE Calls' = Calls
  OBVIOUS
<1>1. {q \in DOMAIN req' : req'[q].at \in Asking} = {q \in DOMAIN req : req[q].at \in Asking}
  BY DEF SameCalls
<1>2. Asked' = Asked
  BY <1>1 DEF SameCalls, Asked, Asking
<1>3. {q \in DOMAIN req' : req'[q].at = "loaded"} = {q \in DOMAIN req : req[q].at = "loaded"}
  BY DEF SameCalls
<1>4. Loaded' = Loaded
  BY <1>3 DEF SameCalls, Loaded
<1>5. Acked' = Acked
  BY DEF SameCalls, Acked
<1> QED BY <1>2, <1>4, <1>5 DEF Calls

\* r fails or ends: it has not loaded, or it is gone.
LEMMA CallsLost ==
    ASSUME IInv, IInv', creds' = creds, NEW r \in Requests,
           \A q : q # r => (q \in DOMAIN req' <=> q \in DOMAIN req),
           \A q \in DOMAIN req : q # r => req'[q] = req[q],
           r \in DOMAIN req' => req'[r].at = "failed"
    PROVE  Promise!Next
<1>1. Asked' = Without(Asked, {r})
  <2>1. {q \in DOMAIN req' : req'[q].at \in Asking}
          = {q \in DOMAIN req : req[q].at \in Asking} \ {r}
    BY DEF Asking
  <2> QED BY <2>1 DEF Asked, Asking, Without
<1>2. Loaded' = Without(Loaded, {r})
  <2>1. {q \in DOMAIN req' : req'[q].at = "loaded"}
          = {q \in DOMAIN req : req[q].at = "loaded"} \ {r}
    OBVIOUS
  <2> QED BY <2>1 DEF Loaded, Without
<1>3. Acked' = Acked \ {r}
  BY DEF Acked
<1>4. Saved' = Without(Saved, {})
  BY SavedSame, NothingWithout
<1> QED BY <1>1, <1>2, <1>3, <1>4, ForgetStep

LEMMA StepKeepsPromise ==
    IInv /\ IInv' /\ [Next]_vars => [Promise!Next]_(Promise!vars)
<1> SUFFICES ASSUME IInv, IInv', [Next]_vars, ~(Saved' = Saved /\ Calls' = Calls)
             PROVE  Promise!Next
  BY DEF Promise!vars, Calls
<1>a. TypeOK /\ \A r \in DOMAIN req : ReqOK(r)
  BY DEF IInv
<1>1. CASE Restart
  <2>1. Asked' = Without(Asked, Requests) /\ Loaded' = Without(Loaded, Requests)
    BY <1>1, <1>a DEF Restart, Asked, Loaded, Without, TypeOK
  <2>2. Acked' = Acked \ Requests
    BY <1>1, <1>a DEF Restart, Acked, TypeOK
  <2> QED BY <1>1, <2>1, <2>2, SavedSame, NothingWithout, ForgetStep DEF Restart
<1>2. ASSUME NEW u \in Users, CreateUser(u) PROVE Promise!Next
  BY <1>2, SavedSame, CallsSame DEF CreateUser, SameCalls
<1>3. ASSUME NEW u \in Users, DeleteAccount(u) PROVE Promise!Next
  <2>1. Saved' = Without(Saved, {u})
    <3>1. Saved' = [v \in DOMAIN creds' |-> creds'[v].data]
      BY DEF IInv, StoredOpens, TypeOK, Saved, DecryptDEK, Open
    <3> QED BY <1>3, <3>1, SavedIsData DEF DeleteAccount, Without
  <2>2. Calls' = Calls
    BY <1>3, <1>a, CallsSame DEF DeleteAccount, SameCalls, TypeOK
  <2>3. Asked' = Asked /\ Acked' = Acked /\ Loaded' = Loaded
    BY <2>2 DEF Calls
  <2> QED BY <2>1, <2>3, NothingWithout, ForgetStep
<1>4. ASSUME NEW r \in Requests, NEW u \in Users, LoadCredentials(r, u) PROVE Promise!Next
  <2>1. /\ DOMAIN req' = DOMAIN req \cup {r} /\ r \notin DOMAIN req /\ req'[r].at = "key"
        /\ \A q \in DOMAIN req : req'[q] = req[q]
    BY <1>4 DEF LoadCredentials, Put
  <2>2. Asked' = Asked
    <3>1. {q \in DOMAIN req' : req'[q].at \in Asking} = {q \in DOMAIN req : req[q].at \in Asking}
      BY <2>1 DEF Asking
    <3> QED BY <2>1, <3>1 DEF Asked, Asking
  <2>3. Loaded' = Loaded
    <3>1. {q \in DOMAIN req' : req'[q].at = "loaded"} = {q \in DOMAIN req : req[q].at = "loaded"}
      BY <2>1
    <3> QED BY <2>1, <3>1 DEF Loaded
  <2>4. Acked' = Acked
    BY <2>1 DEF Acked
  <2> QED BY <1>4, <2>2, <2>3, <2>4, SavedSame DEF LoadCredentials, Calls
<1>5. ASSUME NEW r \in Requests, NEW u \in Users, NEW x \in Inputs, WriteCredentials(r, u, x)
      PROVE  Promise!Next
  <2>1. /\ DOMAIN req' = DOMAIN req \cup {r} /\ r \notin DOMAIN req /\ req'[r].at = "look"
        /\ req'[r].user = u /\ req'[r].input = x
        /\ \A q \in DOMAIN req : req'[q] = req[q]
    BY <1>5 DEF WriteCredentials, Put
  <2>2. Asked' = Put(Asked, r, [user |-> u, input |-> x]) /\ r \notin DOMAIN Asked
    <3>1. {q \in DOMAIN req' : req'[q].at \in Asking}
            = {q \in DOMAIN req : req[q].at \in Asking} \cup {r}
      BY <2>1 DEF Asking
    <3> QED BY <2>1, <3>1 DEF Asked, Asking, Put
  <2>3. Loaded' = Loaded
    <3>1. {q \in DOMAIN req' : req'[q].at = "loaded"} = {q \in DOMAIN req : req[q].at = "loaded"}
      BY <2>1
    <3> QED BY <2>1, <3>1 DEF Loaded
  <2>4. Acked' = Acked
    BY <2>1 DEF Acked
  <2>5. Saved' = Saved
    BY <1>5, SavedSame DEF WriteCredentials
  <2> QED BY <2>2, <2>3, <2>4, <2>5 DEF Promise!Next, Promise!Ask, Promise!Put, Put
<1>6. ASSUME NEW r \in Requests, r \in DOMAIN req, req' = Goto(r, "failed"), creds' = creds
      PROVE  Promise!Next
  BY <1>6, <1>a, CallsLost DEF Goto, TypeOK
<1>7. ASSUME NEW r \in Requests, Look(r) PROVE Promise!Next
  BY <1>7, <1>a, SavedSame, CallsSame DEF Look, At, Goto, SameCalls, Asking, TypeOK
<1>8. ASSUME NEW r \in Requests, Generate(r) PROVE Promise!Next
  <2>1. CASE req' = Goto(r, "failed")
    BY <1>6, <1>8, <2>1 DEF Generate, At
  <2>2. ASSUME NEW k, Keyed(r, k) PROVE Promise!Next
    <3>1. DOMAIN req' = DOMAIN req /\ r \in DOMAIN req /\ req[r].at = "generate" /\ creds' = creds
      BY <1>8, <2>2 DEF Generate, At, Keyed
    <3>2. ASSUME NEW q \in DOMAIN req
          PROVE  /\ req'[q].user = req[q].user /\ req'[q].input = req[q].input
                 /\ req'[q].at = IF q = r THEN "store" ELSE req[q].at
      <4>1. req[q] \in Req
        BY <1>a DEF TypeOK, Req, States
      <4>2. req'[q] = IF q = r THEN [[req[q] EXCEPT !.at = "store"] EXCEPT !.dek = k]
                      ELSE IF req[q].user = req[r].user /\ req[q].op = "write"
                           THEN [req[q] EXCEPT !.cause = TRUE] ELSE req[q]
        BY <2>2 DEF Keyed
      <4> QED BY <4>1, <4>2 DEF Req
    <3>3. SameCalls
      BY <3>1, <3>2 DEF SameCalls, Asking
    <3> QED BY <3>1, <3>3, CallsSame, SavedSame
  <2> QED BY <1>8, <2>1, <2>2 DEF Generate
<1>9. ASSUME NEW r \in Requests, Store(r), req[r].user \in users PROVE Promise!Next
  <2>1. /\ r \in DOMAIN req /\ req[r].at = "store" /\ req' = Goto(r, "done")
        /\ creds' = Put(creds, req[r].user, Seal(req[r].dek, req[r].input))
    BY <1>9 DEF Store, At
  <2>2. Saved' = Put(Saved, req[r].user, req[r].input)
    <3>1. Saved' = [v \in DOMAIN creds' |-> creds'[v].data]
      BY DEF IInv, StoredOpens, TypeOK, Saved, DecryptDEK, Open
    <3> QED BY <2>1, <3>1, SavedIsData DEF Put, Seal
  <2>3. /\ DOMAIN req' = DOMAIN req /\ req'[r].at = "done"
        /\ \A q \in DOMAIN req : q # r => req'[q] = req[q]
    BY <1>a, <2>1 DEF Goto, TypeOK
  <2>4. Asked' = Without(Asked, {r})
    <3>1. {q \in DOMAIN req' : req'[q].at \in Asking}
            = {q \in DOMAIN req : req[q].at \in Asking} \ {r}
      BY <2>3 DEF Asking
    <3> QED BY <2>3, <3>1 DEF Asked, Asking, Without
  <2>5. Acked' = Acked \cup {r}
    BY <2>1, <2>3 DEF Acked
  <2>6. Loaded' = Loaded
    <3>1. {q \in DOMAIN req' : req'[q].at = "loaded"} = {q \in DOMAIN req : req[q].at = "loaded"}
      BY <2>1, <2>3
    <3> QED BY <2>1, <2>3, <3>1 DEF Loaded
  <2>7. r \in DOMAIN Asked /\ Asked[r].user = req[r].user /\ Asked[r].input = req[r].input
    BY <2>1 DEF Asked
  <2> QED BY <2>2, <2>4, <2>5, <2>6, <2>7
        DEF Promise!Next, Promise!Save, Promise!Put, Promise!Without, Put, Without
<1>10. ASSUME NEW r \in Requests, Store(r) PROVE Promise!Next
  BY <1>6, <1>9, <1>10 DEF Store, At
<1>11. ASSUME NEW r \in Requests, LoadKey(r) PROVE Promise!Next
  <2>1. CASE req' = Goto(r, "failed")
    BY <1>6, <1>11, <2>1 DEF LoadKey, At
  <2>2. CASE req[r].user \in DOMAIN deks
    BY <1>11, <1>a, <2>2, SavedSame, CallsSame DEF LoadKey, At, SameCalls, Asking, TypeOK
  <2> QED BY <1>11, <2>1, <2>2 DEF LoadKey
<1>12. ASSUME NEW r \in Requests, OpenCredentials(r) PROVE Promise!Next
  <2> DEFINE u == req[r].user
             x == Open(req[r].dek, creds[u])
  <2>0. r \in DOMAIN req /\ req[r].at = "open" /\ UNCHANGED <<users, deks, creds>>
    BY <1>12 DEF OpenCredentials, At
  <2>1. CASE req' = Goto(r, "failed")
    BY <1>6, <2>0, <2>1
  <2>2. CASE u \in DOMAIN creds /\ x # Failed
             /\ req' = [req EXCEPT ![r].at = "loaded", ![r].input = x]
    <3>1. x = creds[u].data
      BY <2>2 DEF Open
    <3> HIDE DEF x
    <3>2. /\ DOMAIN req' = DOMAIN req /\ req'[r].at = "loaded" /\ req'[r].user = u
          /\ req'[r].input = x
          /\ \A q \in DOMAIN req : q # r => req'[q] = req[q]
      BY <1>a, <2>0, <2>2 DEF TypeOK
    <3>3. Loaded' = Put(Loaded, r, [user |-> u, input |-> x]) /\ r \notin DOMAIN Loaded
      <4>1. {q \in DOMAIN req' : req'[q].at = "loaded"}
              = {q \in DOMAIN req : req[q].at = "loaded"} \cup {r}
        BY <2>0, <3>2
      <4> QED BY <2>0, <3>2, <4>1 DEF Loaded, Put
    <3>4. Asked' = Asked
      <4>1. {q \in DOMAIN req' : req'[q].at \in Asking} = {q \in DOMAIN req : req[q].at \in Asking}
        BY <2>0, <3>2 DEF Asking
      <4> QED BY <2>0, <3>2, <4>1 DEF Asked, Asking
    <3>5. Acked' = Acked
      BY <2>0, <3>2 DEF Acked
    <3>6. u \in DOMAIN Saved /\ Saved[u] = x /\ u \in Users /\ Saved' = Saved
      BY <1>a, <2>0, <2>2, <3>1, SavedIsData, SavedSame DEF TypeOK
    <3> QED BY <3>3, <3>4, <3>5, <3>6 DEF Promise!Next, Promise!Load, Promise!Put, Put
  <2> QED BY <1>12, <2>1, <2>2 DEF OpenCredentials
<1>13. ASSUME NEW r \in Requests, End(r) PROVE Promise!Next
  BY <1>13, CallsLost DEF End, Without
<1>14. ASSUME UNCHANGED vars PROVE FALSE
  BY <1>14, SavedSame, CallsSame DEF vars, SameCalls
<1> QED
  BY <1>1, <1>2, <1>3, <1>4, <1>5, <1>7, <1>8, <1>10, <1>11, <1>12, <1>13, <1>14 DEF Next

\* The vault, with its keys, statements and overlapping requests, is a
\* CredentialStore: what is loaded is what was saved last.
THEOREM VaultKeepsPromise == Spec => KeepsPromise
<1>1. Init => Promise!Init
  BY DEF Init, Promise!Init, Saved, Asked, Acked, Loaded
<1>2. QED
  BY <1>1, VaultInvariance, StepKeepsPromise, PTL DEF Spec, KeepsPromise, Promise!Spec
=============================================================================
