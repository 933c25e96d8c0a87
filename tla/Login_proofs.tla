---------------------------- MODULE Login_proofs ----------------------------
(* The invariant of Login, and that it implements OneTimeCode.              *)
EXTENDS Login, TLAPS

\* What the next step of a request relies on.
ReqOK(r) ==
    /\ req[r].op = "verify" => req[r].pin \in Pins
    /\ req[r].op = "delete" => req[r].at \in {"delete", "done"}
    /\ req[r].at = "again" =>
          req[r].raced \/ \E u \in DOMAIN users : users[u] = req[r].addr
    /\ req[r].at = "session" =>
          /\ req[r].op = "verify" /\ req[r].user \in Ids
          /\ IF req[r].user \in DOMAIN users THEN users[req[r].user] = req[r].addr
                                             ELSE req[r].raced
    /\ req[r].at = "failed" => req[r].raced

\* CreateSession, deleteAccount: every session is of a user who exists, although
\* the user was looked up before.
SessionsHaveUsers == \A t \in DOMAIN sessions : sessions[t].user \in DOMAIN users

IInv == TypeOK /\ OneUserPerAddress /\ SessionsHaveUsers /\ \A r \in DOMAIN req : ReqOK(r)

LEMMA InitIInv == Init => IInv
BY DEF Init, IInv, TypeOK, OneUserPerAddress, SessionsHaveUsers, ReqOK

LEMMA FoundIInv ==
    ASSUME IInv, NEW r \in DOMAIN req, req[r].at \in {"find", "again"}, Found(r),
           UNCHANGED <<entries, users, sessions>>
    PROVE  IInv'
<1> USE NoneAssumption DEF IInv, TypeOK, OneUserPerAddress, SessionsHaveUsers
<1>1. PICK u \in IdsOf(req[r].addr) :
        req' = [req EXCEPT ![r].user = u,
                           ![r].at = IF req[r].op = "request" THEN "done" ELSE "session"]
  BY DEF Found
<1>2. u \in Ids /\ u \in DOMAIN users /\ users[u] = req[r].addr
  BY DEF IdsOf
<1>3. req[r].op \in {"request", "verify"}
  BY DEF ReqOK
<1>4. TypeOK'
  BY <1>1, <1>2 DEF Steps
<1>5. ASSUME NEW q \in DOMAIN req, q # r PROVE ReqOK(q)'
  BY <1>1, <1>5 DEF ReqOK
<1>6. ReqOK(r)'
  <2>1. /\ req'[r].op = req[r].op /\ req'[r].pin = req[r].pin /\ req'[r].addr = req[r].addr
        /\ req'[r].user = u
        /\ req'[r].at = IF req[r].op = "request" THEN "done" ELSE "session"
    BY <1>1
  <2>2. req[r].op = "verify" => req[r].pin \in Pins
    BY DEF ReqOK
  <2> QED BY <2>1, <2>2, <1>2, <1>3 DEF ReqOK
<1> QED BY <1>1, <1>4, <1>5, <1>6

LEMMA NextIInv == IInv /\ [Next]_vars => IInv'
<1> SUFFICES ASSUME IInv, [Next]_vars PROVE IInv'
  OBVIOUS
<1> USE NumbersAssumption, NoneAssumption, LowerAssumption
<1> USE DEF IInv, TypeOK, OneUserPerAddress, SessionsHaveUsers
<1>1. CASE Tick
  BY <1>1 DEF Tick, Less, ReqOK
<1>2. CASE Cleanup
  BY <1>2 DEF Cleanup, Without, ReqOK
<1>3. CASE Retention
  BY <1>3 DEF Retention, Without, ReqOK
<1>4. CASE Restart
  BY <1>4 DEF Restart, ReqOK
<1>5. ASSUME NEW k \in Keys, VerifyExpired(k) PROVE IInv'
  BY <1>5 DEF VerifyExpired, Without, ReqOK
<1>6. ASSUME NEW k \in Keys, NEW p \in Pins, VerifyWrong(k, p) PROVE IInv'
  BY <1>6 DEF VerifyWrong, ReqOK
<1>7. ASSUME NEW r \in Requests, NEW a \in Addresses, RequestPin(r, a) PROVE IInv'
  BY <1>7 DEF RequestPin, Store, Put, Request, Keys, Steps, ReqOK
<1>8. ASSUME NEW r \in Requests, NEW a \in Addresses, NEW p \in Pins, VerifyRight(r, a, p)
      PROVE IInv'
  BY <1>8 DEF VerifyRight, Put, Without, Request, Steps, ReqOK
<1>9. ASSUME NEW r \in Requests, NEW t \in Tokens, Authenticate(r, t) PROVE IInv'
  BY <1>9 DEF Authenticate, Valid, Put, Request, Steps, ReqOK
<1>10. ASSUME NEW r \in Requests, Find(r) PROVE IInv'
  <2>1. CASE Found(r)
    BY <1>10, <2>1, FoundIInv DEF Find
  <2>2. CASE req' = Goto(r, "insert")
    BY <1>10, <2>2 DEF Find, Goto, Steps, ReqOK
  <2> QED BY <1>10, <2>1, <2>2 DEF Find
<1>11. ASSUME NEW r \in Requests, Insert(r) PROVE IInv'
  <2>1. CASE IdsOf(req[r].addr) # {}
    <3>1. PICK u \in DOMAIN users : users[u] = req[r].addr
      BY <2>1 DEF IdsOf
    <3>2. req' = Goto(r, "again") /\ UNCHANGED <<entries, sessions, users>>
      BY <1>11, <2>1 DEF Insert
    <3> QED BY <1>11, <3>1, <3>2 DEF Insert, Goto, Steps, ReqOK
  <2>2. ASSUME NEW u \in Ids, u \notin DOMAIN users, \A q \in DOMAIN req : req[q].user # u,
               IdsOf(req[r].addr) = {}, users' = Put(users, u, req[r].addr)
        PROVE  IInv'
    <3>1. TypeOK' /\ OneUserPerAddress' /\ SessionsHaveUsers'
      BY <1>11, <2>2 DEF Insert, IdsOf, Put, Goto, Steps
    <3>2. ASSUME NEW q \in DOMAIN req PROVE ReqOK(q)'
      <4>1. CASE q = r
        BY <1>11, <2>2, <4>1 DEF Insert, Put, Goto, ReqOK
      <4>2. CASE q # r
        <5>1. req'[q] = req[q]
          BY <1>11, <4>2 DEF Insert, Goto
        <5> QED BY <5>1, <2>2 DEF Put, ReqOK
      <4> QED BY <4>1, <4>2
    <3> QED BY <1>11, <3>1, <3>2 DEF Insert, Goto
  <2> QED BY <1>11, <2>1, <2>2 DEF Insert
<1>12. ASSUME NEW r \in Requests, FindAgain(r) PROVE IInv'
  <2>1. CASE Found(r)
    BY <1>12, <2>1, FoundIInv DEF FindAgain
  <2>2. CASE IdsOf(req[r].addr) = {} /\ req' = Goto(r, "failed")
    BY <1>12, <2>2 DEF FindAgain, IdsOf, Goto, Steps, ReqOK
  <2> QED BY <1>12, <2>1, <2>2 DEF FindAgain
<1>13. ASSUME NEW r \in Requests, CreateSession(r) PROVE IInv'
  <2>1. CASE req[r].user \notin DOMAIN users
    BY <1>13, <2>1 DEF CreateSession, Goto, Steps, ReqOK
  <2>2. CASE req[r].user \in DOMAIN users
    <3>1. PICK t \in Tokens :
             sessions' = Put(sessions, t, [user |-> req[r].user, left |-> SessionDuration])
      BY <1>13, <2>2 DEF CreateSession
    <3>2. SessionDuration \in -1..SessionDuration
      OBVIOUS
    <3>3. \A x \in DOMAIN sessions' :
             sessions'[x] \in [user : Ids, left : -1..SessionDuration] /\ sessions'[x].user \in DOMAIN users
      BY <2>2, <3>1, <3>2 DEF Put
    <3>4. TypeOK' /\ OneUserPerAddress' /\ SessionsHaveUsers'
      BY <1>13, <2>2, <3>1, <3>3 DEF CreateSession, Put, Goto, Steps
    <3> QED BY <1>13, <2>2, <3>4 DEF CreateSession, Goto, ReqOK
  <2> QED BY <2>1, <2>2
<1>14. ASSUME NEW r \in Requests, Respond(r) PROVE IInv'
  BY <1>14 DEF Respond, Without, ReqOK
<1>15. ASSUME NEW r \in Requests, Cancelled(r) PROVE IInv'
  BY <1>15 DEF Cancelled, Without, ReqOK
<1>16. ASSUME NEW r \in Requests, DeleteAccount(r) PROVE IInv'
  <2> DEFINE u == req[r].user
             hit == {q \in DOMAIN req : u \in DOMAIN users /\ req[q].addr = users[u]}
             Changed(q) == [req[q] EXCEPT !.at = IF q = r THEN "done" ELSE @,
                                          !.raced = IF q \in hit THEN TRUE ELSE @]
  <2> DEFINE R == [op : {"request", "verify", "delete"}, at : Steps,
                  addr : Addresses, pin : Pins \cup {NoPin}, user : Ids \cup {NoId},
                  raced : BOOLEAN]
  <2>1. OneUserPerAddress' /\ SessionsHaveUsers'
    BY <1>16 DEF DeleteAccount, Without
  <2>3. req' = [q \in DOMAIN req |-> Changed(q)]
    BY <1>16 DEF DeleteAccount
  <2>4. ASSUME NEW q \in DOMAIN req
        PROVE  /\ Changed(q) \in R
               /\ Changed(q).op = req[q].op /\ Changed(q).pin = req[q].pin
               /\ Changed(q).addr = req[q].addr /\ Changed(q).user = req[q].user
               /\ Changed(q).at = IF q = r THEN "done" ELSE req[q].at
               /\ Changed(q).raced = IF q \in hit THEN TRUE ELSE req[q].raced
    <3> DEFINE at == IF q = r THEN "done" ELSE req[q].at
             raced == IF q \in hit THEN TRUE ELSE req[q].raced
    <3>1. req[q] \in R
      OBVIOUS
    <3>2. at \in Steps /\ raced \in BOOLEAN
      BY <3>1 DEF Steps
    <3>3. Changed(q) = [[req[q] EXCEPT !.at = at] EXCEPT !.raced = raced]
      BY <3>1
    <3> HIDE DEF at, raced, Changed, hit
    <3>4. /\ Changed(q) \in R
          /\ Changed(q).op = req[q].op /\ Changed(q).pin = req[q].pin
          /\ Changed(q).addr = req[q].addr /\ Changed(q).user = req[q].user
          /\ Changed(q).at = at /\ Changed(q).raced = raced
      BY <3>1, <3>2, <3>3
    <3> QED BY <3>4 DEF at, raced
  <2> HIDE DEF Changed
  <2>5. TypeOK'
    <3>1. /\ DOMAIN users' \subseteq Ids /\ \A v \in DOMAIN users' : users'[v] \in Addresses
          /\ DOMAIN sessions' \subseteq Tokens
          /\ \A t \in DOMAIN sessions' : sessions'[t] = sessions[t] /\ t \in DOMAIN sessions
          /\ entries' = entries
      BY <1>16 DEF DeleteAccount, Without
    <3>2. DOMAIN req' = DOMAIN req /\ \A q \in DOMAIN req : req'[q] = Changed(q)
      BY <2>3
    <3> HIDE DEF hit, R
    <3>3. \A q \in DOMAIN req' : req'[q] \in R
      <4>1. \A q \in DOMAIN req : Changed(q) \in R
        BY ONLY <2>4
      <4> QED BY ONLY <3>2, <4>1
    <3>4. DOMAIN req' \subseteq Requests
      BY <3>2
    <3> HIDE DEF Changed, IInv
    <3> QED BY <3>1, <3>3, <3>4 DEF IInv, R
  <2>2. ASSUME NEW q \in DOMAIN req PROVE ReqOK(q)'
    <3>1. /\ req'[q].op = req[q].op /\ req'[q].pin = req[q].pin
          /\ req'[q].addr = req[q].addr /\ req'[q].user = req[q].user
          /\ req'[q].at = IF q = r THEN "done" ELSE req[q].at
          /\ req'[q].raced = IF q \in hit THEN TRUE ELSE req[q].raced
      BY <2>3, <2>4
    <3>2. users' = Without(users, {u})
      BY <1>16 DEF DeleteAccount
    <3> QED BY <3>1, <3>2 DEF ReqOK, Without
  <2> QED BY <1>16, <2>1, <2>2, <2>5 DEF DeleteAccount
<1>17. ASSUME NEW t \in Tokens, Logout(t) PROVE IInv'
  BY <1>17 DEF Logout, Without, ReqOK
<1>18. CASE UNCHANGED vars
  BY <1>18 DEF vars, ReqOK
<1> QED
  BY <1>1, <1>2, <1>3, <1>4, <1>5, <1>6, <1>7, <1>8, <1>9, <1>10, <1>11, <1>12, <1>13,
     <1>14, <1>15, <1>16, <1>17, <1>18 DEF Next

\* Types.
THEOREM LoginInvariance == Spec => []IInv
BY InitIInv, NextIInv, PTL DEF Spec

THEOREM LoginTypeCorrect == Spec => []TypeOK
BY LoginInvariance, PTL DEF IInv

\* FindOrCreateUser never makes a second user of an address.
THEOREM LoginUserUnique == Spec => []OneUserPerAddress
BY LoginInvariance, PTL DEF IInv

\* A session's user exists, however deletions and logins overlap.
THEOREM LoginSessionsHaveUsers == Spec => []SessionsHaveUsers
BY LoginInvariance, PTL DEF IInv

\* A request fails only if its account was deleted while it was served.
THEOREM LoginFailsOnlyIfDeleted == Spec => []FailsOnlyIfDeleted
<1>1. IInv => FailsOnlyIfDeleted
  BY DEF IInv, ReqOK, FailsOnlyIfDeleted
<1> QED BY <1>1, LoginInvariance, PTL

LEMMA StepKeepsSessions ==
    ASSUME IInv, [Next]_vars, NEW t \in Tokens, Valid(t), t \notin DOMAIN sessions'
    PROVE  ~Retention /\ (Logout(t) \/ sessions[t].user \notin DOMAIN users')
<1>1. t \in DOMAIN sessions /\ sessions[t].left > 0
  BY DEF Valid
<1>2. sessions[t].left \in Int
  BY <1>1, NumbersAssumption DEF IInv, TypeOK
<1>3. ~Retention
  BY <1>1, <1>2 DEF Retention, Without
<1>4. ASSUME DOMAIN sessions \subseteq DOMAIN sessions' PROVE FALSE
  BY <1>1, <1>4
<1>5. ~Tick
  BY <1>4 DEF Tick
<1>6. ASSUME NEW r \in Requests, CreateSession(r) PROVE FALSE
  BY <1>4, <1>6 DEF CreateSession, Put
<1>7. ASSUME NEW r \in Requests, DeleteAccount(r) PROVE sessions[t].user \notin DOMAIN users'
  BY <1>1, <1>7 DEF DeleteAccount, Without
<1>8. ASSUME NEW q \in Tokens, Logout(q) PROVE Logout(t)
  BY <1>1, <1>8 DEF Logout, Without
<1>9. ASSUME sessions' = sessions PROVE FALSE
  BY <1>4, <1>9
<1> QED
  BY <1>3, <1>5, <1>6, <1>7, <1>8, <1>9
     DEF Next, vars, Cleanup, Restart, VerifyExpired, VerifyWrong, RequestPin, VerifyRight,
         Authenticate, Find, Insert, FindAgain, Respond, Cancelled

\* runRetention, CreateSession, logout, deleteAccount: a valid session ends by its
\* logout or with its account only, however many sessions there are.
THEOREM LoginSessionsKept == Spec => SessionsKept
<1>1. IInv /\ [Next]_vars =>
        [\A t \in Tokens : Valid(t) /\ t \notin DOMAIN sessions' =>
            ~Retention /\ (Logout(t) \/ sessions[t].user \notin DOMAIN users')]_vars
  BY StepKeepsSessions
<1> QED BY <1>1, LoginInvariance, PTL DEF Spec, SessionsKept

-----------------------------------------------------------------------------
(* Login implements OneTimeCode. *)

LEMMA CodeSame == entries' = entries => Code' = Code
BY DEF Code, Live

LEMMA PassSame == req' = req => Pass' = Pass
BY DEF Pass, HasPass

\* A session keeps its owner as long as its user is there.
LEMMA WhoseSame ==
    ASSUME SessionsHaveUsers, sessions' = sessions,
           \A u \in DOMAIN users : u \in DOMAIN users' /\ users'[u] = users[u]
    PROVE  Whose' = Whose
BY DEF SessionsHaveUsers, Whose, Open

LEMMA NothingWithout ==
    /\ Without(Code, {}) = Code
    /\ Without(Pass, {}) = Pass
    /\ Without(Whose, {}) = Whose
BY DEF Without, Code, Pass, Whose

LEMMA ForgetStep ==
    ASSUME NEW K \in SUBSET Keys, NEW R \in SUBSET Requests, NEW S \in SUBSET Tokens,
           Code' = Without(Code, K), Pass' = Without(Pass, R), Whose' = Without(Whose, S)
    PROVE  Promise!Next
BY DEF Promise!Next, Promise!Forget, Promise!Without, Without

\* A request that has no pass may do anything but get one.
LEMMA NoPassSame ==
    ASSUME NEW r,
           \A q : q # r => (q \in DOMAIN req' <=> q \in DOMAIN req),
           \A q \in DOMAIN req : q # r =>
              /\ req'[q].op = req[q].op /\ req'[q].at = req[q].at
              /\ req'[q].addr = req[q].addr /\ req'[q].pin = req[q].pin,
           r \notin HasPass, r \notin HasPass'
    PROVE  Pass' = Pass
<1>1. HasPass' = HasPass
  BY DEF HasPass
<1>2. \A q \in HasPass : q \in DOMAIN req /\ q # r
  BY DEF HasPass
<1> QED BY <1>1, <1>2 DEF Pass

\* A request with a pass that goes on keeps it.
LEMMA PassKept ==
    ASSUME NEW r \in HasPass, r \in HasPass', DOMAIN req' = DOMAIN req,
           \A q \in DOMAIN req : q # r => req'[q] = req[q],
           req'[r].addr = req[r].addr, req'[r].pin = req[r].pin
    PROVE  Pass' = Pass
<1>1. HasPass' = HasPass
  BY DEF HasPass
<1>2. \A q \in HasPass : q \in DOMAIN req
  BY DEF HasPass
<1> QED BY <1>1, <1>2 DEF Pass

\* A request that ends, or is answered, gives up its pass if it has one.
LEMMA PassLost ==
    ASSUME NEW r, r \notin HasPass',
           \A q : q # r => (q \in DOMAIN req' <=> q \in DOMAIN req),
           \A q \in DOMAIN req : q # r => req'[q] = req[q]
    PROVE  Pass' = Without(Pass, {r})
<1>1. HasPass' = HasPass \ {r}
  BY DEF HasPass
<1>2. \A q \in HasPass : q \in DOMAIN req
  BY DEF HasPass
<1> QED BY <1>1, <1>2 DEF Pass, Without

LEMMA StepKeepsPromise == IInv /\ [Next]_vars => [Promise!Next]_(Promise!vars)
<1> SUFFICES ASSUME IInv, [Next]_vars,
                    ~(Code' = Code /\ Pass' = Pass /\ Whose' = Whose)
             PROVE  Promise!Next
  BY DEF Promise!vars
<1> USE NumbersAssumption, NoneAssumption, LowerAssumption
<1>a. TypeOK /\ SessionsHaveUsers /\ \A r \in DOMAIN req : ReqOK(r)
  BY DEF IInv
<1>1. CASE Tick
  <2> DEFINE K == Keys \ Live'
             S == Tokens \ Open'
  <2>1. Code' = Without(Code, K)
    <3>1. Live' = Live \ K
      BY <1>1, <1>a DEF Tick, Less, Live, TypeOK
    <3>2. \A k \in Live' : entries'[k].pin = entries[k].pin /\ entries'[k].attempts = entries[k].attempts
      BY <1>1, <1>a DEF Tick, Live, TypeOK
    <3> QED BY <3>1, <3>2 DEF Code, Without
  <2>2. Whose' = Without(Whose, S)
    <3>1. Open' = Open \ S
      BY <1>1, <1>a DEF Tick, Less, Open, TypeOK
    <3>2. \A t \in Open' : users' = users /\ sessions'[t].user = sessions[t].user
      BY <1>1, <1>a DEF Tick, Open, TypeOK
    <3> QED BY <3>1, <3>2 DEF Whose, Without
  <2>3. Pass' = Without(Pass, {})
    BY <1>1, PassSame, NothingWithout DEF Tick
  <2> QED BY <2>1, <2>2, <2>3, ForgetStep
<1>2. CASE Cleanup
  <2>1. Code' = Code
    <3>1. Live' = Live /\ \A k \in Live : entries'[k] = entries[k]
      BY <1>2, <1>a DEF Cleanup, Without, Live, TypeOK
    <3> QED BY <3>1 DEF Code
  <2> QED BY <1>2, <1>a, <2>1, PassSame, WhoseSame DEF Cleanup
<1>3. CASE Retention
  <2>1. Whose' = Whose
    BY <1>3, <1>a DEF Retention, Without, Whose, Open, TypeOK
  <2> QED BY <1>3, <2>1, PassSame, CodeSame DEF Retention
<1>4. CASE Restart
  <2>1. Code' = Without(Code, Keys)
    BY <1>4, <1>a DEF Restart, Code, Live, Without, TypeOK
  <2>2. Pass' = Without(Pass, Requests)
    BY <1>4, <1>a DEF Restart, Pass, HasPass, Without, TypeOK
  <2>3. Whose' = Without(Whose, {})
    BY <1>4, <1>a, WhoseSame, NothingWithout DEF Restart
  <2> QED BY <2>1, <2>2, <2>3, ForgetStep
<1>5. ASSUME NEW k \in Keys, VerifyExpired(k) PROVE Promise!Next
  <2>1. Code' = Code
    <3>1. Live' = Live /\ \A j \in Live : entries'[j] = entries[j]
      BY <1>5, <1>a DEF VerifyExpired, Without, Live, TypeOK
    <3> QED BY <3>1 DEF Code
  <2> QED BY <1>5, <1>a, <2>1, PassSame, WhoseSame DEF VerifyExpired
<1>6. ASSUME NEW k \in Keys, NEW p \in Pins, VerifyWrong(k, p) PROVE Promise!Next
  <2>1. k \in Live /\ Live' = Live
    BY <1>6, <1>a DEF VerifyWrong, Live, TypeOK
  <2>2. Code' = [Code EXCEPT ![k].left = @ - 1]
    <3>1. \A j \in Live : /\ entries'[j].pin = entries[j].pin
                         /\ entries'[j].attempts = IF j = k THEN entries[k].attempts + 1
                                                    ELSE entries[j].attempts
      BY <1>6, <1>a DEF VerifyWrong, Live, TypeOK
    <3>2. \A j \in Live : entries[j].attempts \in Nat
      BY <1>a DEF Live, TypeOK
    <3>3. \A j \in Live : [pin |-> entries'[j].pin, left |-> MaxAttempts - entries'[j].attempts]
                          = IF j = k THEN [Code[j] EXCEPT !.left = @ - 1] ELSE Code[j]
      BY <3>1, <3>2 DEF Code
    <3>4. Code' = [j \in Live |-> IF j = k THEN [Code[j] EXCEPT !.left = @ - 1] ELSE Code[j]]
      BY <2>1, <3>3 DEF Code
    <3>5. DOMAIN Code = Live
      BY DEF Code
    <3> QED BY <2>1, <3>4, <3>5
  <2>3. Code[k].left > 0 /\ DOMAIN Code = Live
    BY <1>6, <1>a, <2>1 DEF VerifyWrong, Code, Live, TypeOK
  <2>4. Pass' = Pass /\ Whose' = Whose
    BY <1>6, <1>a, PassSame, WhoseSame DEF VerifyWrong
  <2> QED BY <2>1, <2>2, <2>3, <2>4 DEF Promise!Next, Promise!Miss
<1>7. ASSUME NEW r \in Requests, NEW a \in Addresses, RequestPin(r, a) PROVE Promise!Next
  <2>1. PICK p \in Pins : Store(Lower[a], p)
    BY <1>7 DEF RequestPin
  <2>2. Code' = Put(Code, Lower[a], [pin |-> p, left |-> MaxAttempts])
    <3>1. Live' = Live \cup {Lower[a]}
      BY <1>7, <2>1 DEF Store, Put, Live
    <3>2. \A k \in Live' : entries'[k] = IF k = Lower[a] THEN [pin |-> p, attempts |-> 0, left |-> PinExpiry]
                                          ELSE entries[k]
      BY <2>1, <3>1 DEF Store, Put, Live
    <3>3. \A k \in Live' : [pin |-> entries'[k].pin, left |-> MaxAttempts - entries'[k].attempts]
                            = IF k = Lower[a] THEN [pin |-> p, left |-> MaxAttempts] ELSE Code[k]
      BY <3>1, <3>2 DEF Code
    <3> QED BY <3>1, <3>3 DEF Code, Put
  <2>3. Pass' = Pass
    BY <1>7, <1>a, NoPassSame DEF RequestPin, Put, Request, HasPass
  <2>4. Whose' = Whose
    BY <1>7, <1>a, WhoseSame DEF RequestPin
  <2>5. Lower[a] \in Keys
    BY DEF Keys
  <2> QED BY <2>2, <2>3, <2>4, <2>5
        DEF Promise!Next, Promise!Issue, Promise!Put, Put
<1>8. ASSUME NEW r \in Requests, NEW a \in Addresses, NEW p \in Pins, VerifyRight(r, a, p)
      PROVE  Promise!Next
  <2> DEFINE k == Lower[a]
  <2>1. /\ k \in Live /\ DOMAIN Code = Live /\ Code[k].pin = p /\ Code[k].left > 0
        /\ r \notin HasPass /\ DOMAIN Pass = HasPass
    BY <1>8, <1>a DEF VerifyRight, Code, Live, Pass, HasPass, TypeOK
  <2>2. Code' = Without(Code, {k})
    BY <1>8 DEF VerifyRight, Code, Live, Without
  <2>3. Pass' = Put(Pass, r, [key |-> k, pin |-> p])
    <3>1. /\ DOMAIN req' = DOMAIN req \cup {r} /\ r \notin DOMAIN req
          /\ req'[r].op = "verify" /\ req'[r].at = "find" /\ req'[r].addr = a /\ req'[r].pin = p
          /\ \A q \in DOMAIN req : req'[q] = req[q]
      BY <1>8 DEF VerifyRight, Put, Request
    <3>2. HasPass' = HasPass \cup {r}
      BY <3>1 DEF HasPass
    <3>3. \A q \in HasPass : q \in DOMAIN req /\ q # r
      BY <3>1 DEF HasPass
    <3> QED BY <3>1, <3>2, <3>3 DEF Pass, Put
  <2>4. Whose' = Whose
    BY <1>8, <1>a, WhoseSame DEF VerifyRight
  <2>5. k \in Keys
    BY DEF Keys
  <2> QED BY <2>1, <2>2, <2>3, <2>4, <2>5
        DEF Promise!Next, Promise!Redeem, Promise!Put, Promise!Without, Put, Without
<1>9. ASSUME NEW r \in Requests, NEW t \in Tokens, Authenticate(r, t) PROVE Promise!Next
  <2>1. Pass' = Pass
    BY <1>9, NoPassSame DEF Authenticate, Put, Request, HasPass
  <2> QED BY <1>9, <1>a, <2>1, CodeSame, WhoseSame DEF Authenticate
<1>10. ASSUME NEW r \in Requests, r \in DOMAIN req, Found(r), req[r].at \in {"find", "again"},
              UNCHANGED <<entries, users, sessions>>
       PROVE  Promise!Next
  <2>1. PICK u : req' = [req EXCEPT ![r].user = u,
                           ![r].at = IF req[r].op = "request" THEN "done" ELSE "session"]
    BY <1>10 DEF Found
  <2>2. /\ req'[r].op = req[r].op /\ req'[r].addr = req[r].addr /\ req'[r].pin = req[r].pin
        /\ req'[r].at = IF req[r].op = "request" THEN "done" ELSE "session"
    BY <1>10, <1>a, <2>1 DEF TypeOK
  <2>3. DOMAIN req' = DOMAIN req /\ \A q \in DOMAIN req : q # r => req'[q] = req[q]
    BY <2>1
  <2>4. Pass' = Pass
    <3>1. CASE req[r].op = "verify"
      BY <1>10, <2>2, <2>3, <3>1, PassKept DEF HasPass
    <3>2. CASE req[r].op # "verify"
      BY <2>2, <2>3, <3>2, NoPassSame DEF HasPass
    <3> QED BY <3>1, <3>2
  <2> QED BY <1>10, <1>a, <2>4, CodeSame, WhoseSame
<1>11. ASSUME NEW r \in Requests, r \in DOMAIN req, req[r].at = "find", req' = Goto(r, "insert"),
              UNCHANGED <<entries, users, sessions>>
       PROVE  Promise!Next
  <2>1. Pass' = Pass
    <3>1. CASE req[r].op = "verify"
      BY <1>11, <1>a, <3>1, PassKept DEF HasPass, Goto, TypeOK
    <3>2. CASE req[r].op # "verify"
      BY <1>11, <1>a, <3>2, NoPassSame DEF HasPass, Goto, TypeOK
    <3> QED BY <3>1, <3>2
  <2> QED BY <1>11, <1>a, <2>1, CodeSame, WhoseSame
<1>12. ASSUME NEW r \in Requests, r \in DOMAIN req, req' = Goto(r, "failed"),
              UNCHANGED <<entries, users, sessions>>
       PROVE  Promise!Next
  <2>1. Pass' = Without(Pass, {r})
    BY <1>12, <1>a, PassLost DEF HasPass, Goto, TypeOK
  <2> QED BY <1>12, <1>a, <2>1, CodeSame, WhoseSame, NothingWithout, ForgetStep
<1>13. ASSUME NEW r \in Requests, Insert(r) PROVE Promise!Next
  <2>1. Pass' = Pass
    <3>1. CASE req[r].op = "verify"
      BY <1>13, <1>a, <3>1, PassKept DEF Insert, HasPass, Goto, TypeOK
    <3>2. CASE req[r].op # "verify"
      BY <1>13, <1>a, <3>2, NoPassSame DEF Insert, HasPass, Goto, TypeOK
    <3> QED BY <3>1, <3>2
  <2>2. \A u \in DOMAIN users : u \in DOMAIN users' /\ users'[u] = users[u]
    BY <1>13 DEF Insert, Put
  <2> QED BY <1>13, <1>a, <2>1, <2>2, CodeSame, WhoseSame DEF Insert
<1>14. ASSUME NEW r \in Requests, CreateSession(r), req[r].user \in DOMAIN users
       PROVE  Promise!Next
  <2>1. PICK t \in Tokens \ DOMAIN sessions :
           sessions' = Put(sessions, t, [user |-> req[r].user, left |-> SessionDuration])
    BY <1>14 DEF CreateSession
  <2>2. r \in DOMAIN req /\ req[r].at = "session" /\ req' = Goto(r, "done")
        /\ UNCHANGED <<entries, users>>
    BY <1>14 DEF CreateSession
  <2>3. r \in HasPass /\ users[req[r].user] = req[r].addr
    BY <1>14, <1>a, <2>2 DEF ReqOK, HasPass
  <2>4. Pass' = Without(Pass, {r})
    BY <1>a, <2>2, PassLost DEF HasPass, Goto, TypeOK
  <2>5. Whose' = Put(Whose, t, Lower[req[r].addr])
    <3>1. Open' = Open \cup {t} /\ t \notin Open
      BY <2>1 DEF Open, Put
    <3>2. \A s \in Open' : sessions'[s].user = IF s = t THEN req[r].user ELSE sessions[s].user
      BY <2>1, <3>1 DEF Open, Put
    <3> QED BY <2>2, <2>3, <3>1, <3>2 DEF Whose, Put
  <2>6. r \in DOMAIN Pass /\ Pass[r].key = Lower[req[r].addr] /\ t \notin DOMAIN Whose
    BY <2>1, <2>3 DEF Pass, Whose, Open
  <2> QED BY <2>2, <2>4, <2>5, <2>6, CodeSame
        DEF Promise!Next, Promise!SignIn, Promise!Put, Promise!Without, Put, Without
<1>15. ASSUME NEW r \in Requests, r \in DOMAIN req, req' = Without(req, {r}),
              UNCHANGED <<entries, users, sessions>>
       PROVE  Promise!Next
  <2>1. Pass' = Without(Pass, {r})
    BY <1>15, PassLost DEF HasPass, Without
  <2> QED BY <1>15, <1>a, <2>1, CodeSame, WhoseSame, NothingWithout, ForgetStep
<1>16. ASSUME NEW r \in Requests, DeleteAccount(r) PROVE Promise!Next
  <2> DEFINE S == {t \in DOMAIN sessions : sessions[t].user = req[r].user}
  <2>1. Whose' = Without(Whose, S)
    <3>1. /\ users' = Without(users, {req[r].user})
          /\ sessions' = Without(sessions, S)
      BY <1>16 DEF DeleteAccount
    <3>2. Open' = Open \ S
      BY <3>1 DEF Open, Without
    <3>3. \A t \in Open' : sessions'[t] = sessions[t] /\ users'[sessions[t].user] = users[sessions[t].user]
      BY <1>a, <3>1, <3>2 DEF SessionsHaveUsers, Open, Without
    <3> QED BY <3>2, <3>3 DEF Whose, Without
  <2>2. Pass' = Pass
    <3>1. r \notin HasPass /\ r \notin HasPass'
      BY <1>16, <1>a DEF DeleteAccount, HasPass, TypeOK
    <3>2. \A q \in DOMAIN req : q # r =>
              /\ req'[q].op = req[q].op /\ req'[q].at = req[q].at
              /\ req'[q].addr = req[q].addr /\ req'[q].pin = req[q].pin
      BY <1>16, <1>a DEF DeleteAccount, TypeOK
    <3>3. DOMAIN req' = DOMAIN req
      BY <1>16 DEF DeleteAccount
    <3> QED BY <3>1, <3>2, <3>3, NoPassSame
  <2>3. S \subseteq Tokens /\ Code' = Code
    BY <1>16, <1>a, CodeSame DEF DeleteAccount, TypeOK
  <2> HIDE DEF S
  <2> QED BY <2>1, <2>2, <2>3, NothingWithout, ForgetStep
<1>17. ASSUME NEW t \in Tokens, Logout(t) PROVE Promise!Next
  <2>1. Whose' = Without(Whose, {t})
    BY <1>17 DEF Logout, Without, Whose, Open
  <2> QED BY <1>17, <2>1, CodeSame, PassSame, NothingWithout, ForgetStep DEF Logout
<1>18. ASSUME UNCHANGED vars PROVE FALSE
  BY <1>18, <1>a, CodeSame, PassSame, WhoseSame DEF vars
<1>19. ASSUME NEW r \in Requests, Find(r) \/ FindAgain(r) PROVE Promise!Next
  BY <1>10, <1>11, <1>12, <1>19 DEF Find, FindAgain
<1>20. ASSUME NEW r \in Requests, CreateSession(r) PROVE Promise!Next
  BY <1>12, <1>14, <1>20 DEF CreateSession
<1>21. ASSUME NEW r \in Requests, Respond(r) \/ Cancelled(r) PROVE Promise!Next
  BY <1>15, <1>21 DEF Respond, Cancelled
<1> QED
  BY <1>1, <1>2, <1>3, <1>4, <1>5, <1>6, <1>7, <1>8, <1>9, <1>13, <1>16, <1>17, <1>18,
     <1>19, <1>20, <1>21 DEF Next

\* Logging in, with its clocks, tables, overlapping requests and restarts, is an
\* OneTimeCode: a session of an address only by a PIN stored for it, used once.
THEOREM LoginKeepsPromise == Spec => KeepsPromise
<1>1. Init => Promise!Init
  BY DEF Init, Promise!Init, Code, Live, Pass, HasPass, Whose, Open
<1>2. QED
  BY <1>1, LoginInvariance, StepKeepsPromise, PTL DEF Spec, KeepsPromise, Promise!Spec
=============================================================================
