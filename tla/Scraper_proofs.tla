--------------------------- MODULE Scraper_proofs ----------------------------
(* The invariants of ShiftStore, that Scraper is an instance of it, and that *)
(* the end of a script is reported.                                          *)
EXTENDS Scraper, FiniteSetTheorems, TLAPS

\* While its loop runs, the shifts before the current one are in the table; a
\* success is a loop that has ended.
Stored(a) ==
    /\ account /\ req[a].at \in {"loop", "answered"} =>
          \A j \in DOMAIN req[a].body :
              req[a].at = "answered" \/ j < req[a].i => Kept(req[a].body[j].id)
    /\ account /\ log[a] = "success" => req[a].at = "answered"

StoreInv == StoreTypeOK /\ \A a \in Attempts : Stored(a)

-----------------------------------------------------------------------------
LEMMA StoreInitOK == StoreInit => StoreInv
<1> SUFFICES ASSUME StoreInit PROVE StoreInv
  OBVIOUS
<1>1. NoRequest \in Request
  BY DEF NoRequest, Request
<1>2. DOMAIN shifts = {}
  BY DEF StoreInit
<1>3. \A a \in Attempts : req[a].at = "none" /\ log[a] = "none"
  BY DEF StoreInit, NoRequest
<1> QED BY <1>1, <1>2, <1>3 DEF StoreInit, StoreInv, StoreTypeOK, Stored

\* A step that only changes logs, and makes none successful
LEMMA LogChanges ==
    ASSUME StoreInv, UNCHANGED <<account, shifts, req, dropped>>, now' \in Nat,
           log' \in [Attempts -> {"none", "running", "success", "failure"}],
           \A a \in Attempts : log'[a] = "success" => log[a] = "success"
    PROVE  StoreInv'
<1>1. \A id : Kept(id)' <=> Kept(id)
  BY DEF Kept
<1>2. ASSUME NEW a \in Attempts PROVE Stored(a)'
  BY <1>1, <1>2 DEF StoreInv, Stored
<1> QED BY <1>2 DEF StoreInv, StoreTypeOK

LEMMA SubmitInv ==
    ASSUME StoreInv, NEW a \in Attempts, NEW body \in Seq(Entry), Submit(a, body)
    PROVE  StoreInv'
<1> DEFINE new == [at |-> "loop", body |-> body, i |-> 1]
<1>1. new \in Request
  BY DEF Request
<1>2. req' = [req EXCEPT ![a] = new] /\ UNCHANGED <<now, account, shifts, log, dropped>>
  BY DEF Submit, table
<1>3. req'[a] = new /\ \A b \in Attempts \ {a} : req'[b] = req[b]
  BY <1>2 DEF StoreInv, StoreTypeOK
<1>4. StoreTypeOK'
  BY <1>1, <1>2 DEF StoreInv, StoreTypeOK
<1>5. \A id : Kept(id)' <=> Kept(id)
  BY <1>2 DEF Kept
<1>6. ASSUME NEW b \in Attempts \ {a} PROVE Stored(b)'
  BY <1>2, <1>3, <1>5, <1>6 DEF StoreInv, Stored
<1>7. Stored(a)'
  <2>1. log'[a] # "success"
    BY <1>2 DEF Submit
  <2>2. req'[a].at = "loop" /\ req'[a].i = 1 /\ req'[a].body = body
    BY <1>3
  <2>3. \A j \in DOMAIN body : ~(j < 1)
    OBVIOUS
  <2> QED BY <2>1, <2>2, <2>3 DEF Stored
<1> QED BY <1>4, <1>6, <1>7 DEF StoreInv

\* The loop goes on behind the current shift, which is stored or cannot be read.
LEMMA AdvanceInv ==
    ASSUME StoreInv, NEW a \in Attempts, req[a].at = "loop", req[a].i \in DOMAIN req[a].body,
           req' = [req EXCEPT ![a].i = @ + 1], UNCHANGED <<now, account, log, dropped>>,
           DOMAIN shifts \subseteq DOMAIN shifts', DOMAIN shifts' \subseteq Ids \ Unreadable,
           \A id \in DOMAIN shifts' : shifts'[id] \in Int,
           account => Current(a) \in Unreadable \cup DOMAIN shifts'
    PROVE  StoreInv'
<1>1. req \in [Attempts -> Request]
  BY DEF StoreInv, StoreTypeOK
<1>2. /\ req'[a].at = "loop" /\ req'[a].body = req[a].body /\ req'[a].i = req[a].i + 1
      /\ \A b \in Attempts \ {a} : req'[b] = req[b]
  BY <1>1 DEF Request
<1>3. req[a].i \in Nat \ {0} /\ req[a].body \in Seq(Entry)
  BY <1>1 DEF Request
<1>4. req' \in [Attempts -> Request]
  BY <1>1, <1>3 DEF Request
<1>5. \A id : Kept(id) => Kept(id)'
  BY DEF Kept
<1>6. ASSUME NEW b \in Attempts \ {a} PROVE Stored(b)'
  BY <1>2, <1>5, <1>6 DEF StoreInv, Stored
<1>7. Stored(a)'
  <2>1. account => log[a] # "success"
    BY DEF StoreInv, Stored
  <2>2. ASSUME account, NEW j \in DOMAIN req[a].body, j < req[a].i + 1
        PROVE  Kept(req[a].body[j].id)'
    <3>1. j \in Nat
      BY <1>3
    <3>2. CASE j < req[a].i
      BY <1>5, <2>2, <3>2 DEF StoreInv, Stored
    <3>3. CASE j = req[a].i
      BY <2>2, <3>3 DEF Current, Kept
    <3> QED BY <1>3, <2>2, <3>1, <3>2, <3>3
  <2> QED BY <1>2, <2>1, <2>2 DEF Stored
<1> QED BY <1>4, <1>6, <1>7 DEF StoreInv, StoreTypeOK

LEMMA FinishInv == ASSUME StoreInv, NEW a \in Attempts, Finish(a) PROVE StoreInv'
<1>1. /\ req \in [Attempts -> Request]
      /\ log \in [Attempts -> {"none", "running", "success", "failure"}]
  BY DEF StoreInv, StoreTypeOK
<1>2. /\ req'[a].at = "answered" /\ req'[a].body = req[a].body
      /\ \A b \in Attempts \ {a} : req'[b] = req[b] /\ log'[b] = log[b]
  BY <1>1 DEF Finish, Request
<1>3. \A id : Kept(id)' <=> Kept(id)
  BY DEF Finish, Kept
<1>4. StoreTypeOK'
  <2>1. req' \in [Attempts -> Request]
    BY <1>1 DEF Finish, Request
  <2>2. log' \in [Attempts -> {"none", "running", "success", "failure"}]
    BY <1>1 DEF Finish
  <2> QED BY <2>1, <2>2 DEF Finish, StoreInv, StoreTypeOK
<1>5. ASSUME NEW b \in Attempts \ {a} PROVE Stored(b)'
  BY <1>2, <1>3, <1>5 DEF Finish, StoreInv, Stored
<1>6. Stored(a)'
  <2>1. req[a].body \in Seq(Entry) /\ req[a].i \in Nat \ {0}
    BY <1>1 DEF Request
  <2>2. \A j \in DOMAIN req[a].body : j < req[a].i
    BY <2>1 DEF Finish
  <2> QED BY <1>2, <1>3, <2>2 DEF Finish, StoreInv, Stored
<1> QED BY <1>4, <1>5, <1>6 DEF StoreInv

LEMMA CutInv == ASSUME StoreInv, NEW a \in Attempts, Cut(a) PROVE StoreInv'
<1> DEFINE new == [NoRequest EXCEPT !.at = "cut"]
<1>1. new \in Request /\ new.at = "cut"
  <2>1. new = [at |-> "cut", body |-> <<>>, i |-> 1]
    BY DEF NoRequest
  <2> HIDE DEF new
  <2>2. <<>> \in Seq(Entry) /\ 1 \in Nat \ {0}
    OBVIOUS
  <2> QED BY <2>1, <2>2 DEF Request
<1>2. req' = [req EXCEPT ![a] = new] /\ UNCHANGED <<now, account, shifts, log, dropped>>
  BY DEF Cut, table
<1> HIDE DEF new
<1>3. req'[a] = new /\ \A b \in Attempts \ {a} : req'[b] = req[b]
  BY <1>2 DEF StoreInv, StoreTypeOK
<1>4. StoreTypeOK'
  BY <1>1, <1>2 DEF StoreInv, StoreTypeOK
<1>5. \A id : Kept(id)' <=> Kept(id)
  BY <1>2 DEF Kept
<1>6. ASSUME NEW b \in Attempts \ {a} PROVE Stored(b)'
  BY <1>2, <1>3, <1>5, <1>6 DEF StoreInv, Stored
<1>7. Stored(a)'
  <2>1. account => log[a] # "success"
    BY DEF Cut, StoreInv, Stored
  <2> QED BY <1>1, <1>2, <1>3, <2>1 DEF Stored
<1> QED BY <1>4, <1>6, <1>7 DEF StoreInv

LEMMA RetentionInv == ASSUME StoreInv, Retention PROVE StoreInv'
<1>1. /\ UNCHANGED <<now, account, log, req>> /\ DOMAIN shifts' \subseteq DOMAIN shifts
      /\ \A id \in DOMAIN shifts' : shifts'[id] = shifts[id]
      /\ dropped' = dropped \cup (Rows \ Rows')
  BY DEF Retention
<1>2. Rows \subseteq Entry
  BY DEF Rows, Entry, StoreInv, StoreTypeOK
<1>3. StoreTypeOK'
  BY <1>1, <1>2 DEF StoreInv, StoreTypeOK
<1>4. ASSUME NEW id, Kept(id) PROVE Kept(id)'
  <2>1. CASE id \in DOMAIN shifts \ DOMAIN shifts'
    <3> DEFINE row == [id |-> id, week |-> shifts[id]]
    <3>1. row \in Rows \ Rows'
      BY <2>1 DEF Rows
    <3> QED BY <1>1, <3>1 DEF Kept
  <2> QED BY <1>1, <1>4, <2>1 DEF Kept
<1>5. ASSUME NEW a \in Attempts PROVE Stored(a)'
  BY <1>1, <1>4, <1>5 DEF StoreInv, Stored
<1> QED BY <1>3, <1>5 DEF StoreInv

LEMMA DeleteAccountInv == ASSUME StoreInv, DeleteAccount PROVE StoreInv'
<1>1. DOMAIN shifts' = {} /\ ~account'
  BY DEF DeleteAccount
<1> QED BY <1>1 DEF DeleteAccount, StoreInv, StoreTypeOK, Stored

LEMMA StoreNextOK == StoreInv /\ [StoreNext]_storeVars => StoreInv'
<1> SUFFICES ASSUME StoreInv, [StoreNext]_storeVars PROVE StoreInv'
  OBVIOUS
<1>1. log \in [Attempts -> {"none", "running", "success", "failure"}] /\ now \in Nat
  BY DEF StoreInv, StoreTypeOK
<1>2. ASSUME NEW a \in Attempts, NewLog(a), UNCHANGED <<now, account, shifts, req, dropped>>
      PROVE  StoreInv'
  BY <1>1, <1>2, LogChanges DEF NewLog
<1>3. ASSUME NEW a \in Attempts, ReportFailure(a),
             UNCHANGED <<now, account, shifts, req, dropped>>
      PROVE  StoreInv'
  BY <1>1, <1>3, LogChanges DEF ReportFailure
<1>4. ASSUME NEW a \in Attempts, NEW body \in Seq(Entry), Submit(a, body) PROVE StoreInv'
  BY <1>4, SubmitInv
<1>5. ASSUME NEW a \in Attempts, SkipShift(a) PROVE StoreInv'
  <2>1. /\ DOMAIN shifts \subseteq Ids \ Unreadable /\ \A id \in DOMAIN shifts : shifts[id] \in Int
    BY DEF StoreInv, StoreTypeOK
  <2> QED BY <1>5, <2>1, AdvanceInv DEF SkipShift, table
<1>6. ASSUME NEW a \in Attempts, Insert(a) PROVE StoreInv'
  <2> DEFINE e == req[a].body[req[a].i]
  <2>1. /\ DOMAIN shifts \subseteq Ids \ Unreadable /\ \A id \in DOMAIN shifts : shifts[id] \in Int
        /\ req[a].body \in Seq(Entry)
    BY DEF StoreInv, StoreTypeOK, Request
  <2>2. e \in Entry
    BY <1>6, <2>1 DEF Insert
  <2>3. e.id \in Ids /\ e.week \in Int /\ Current(a) = e.id
    BY <2>2 DEF Entry, Current
  <2> HIDE DEF e
  <2>4. shifts' = shifts \/ shifts' = WithRow(e.id, e.week)
    BY <1>6, <2>3 DEF Insert, e
  <2>5. /\ DOMAIN shifts \subseteq DOMAIN shifts' /\ DOMAIN shifts' \subseteq Ids \ Unreadable
        /\ \A id \in DOMAIN shifts' : shifts'[id] \in Int
    BY <1>6, <2>1, <2>3, <2>4 DEF WithRow, Insert
  <2>6. account => Current(a) \in DOMAIN shifts'
    BY <1>6, <2>3 DEF WithRow, Insert
  <2> QED BY <1>6, <2>5, <2>6, AdvanceInv DEF Insert
<1>7. ASSUME NEW a \in Attempts, Finish(a) PROVE StoreInv'
  BY <1>7, FinishInv
<1>8. ASSUME NEW a \in Attempts, Cut(a) PROVE StoreInv'
  BY <1>8, CutInv
<1>9. ASSUME NEW a \in Attempts, Reap(a) PROVE StoreInv'
  BY <1>1, <1>9, LogChanges DEF Reap
<1>10. CASE DeleteAccount
  BY <1>10, DeleteAccountInv
<1>11. CASE Retention
  BY <1>11, RetentionInv
<1>12. CASE Week
  BY <1>1, <1>12, LogChanges DEF Week, table
<1>13. CASE UNCHANGED storeVars
  BY <1>1, <1>13, LogChanges DEF storeVars, table
<1> QED
  BY <1>2, <1>3, <1>4, <1>5, <1>6, <1>7, <1>8, <1>9, <1>10, <1>11, <1>12, <1>13
  DEF StoreNext, Handler

LEMMA StoreInvMeans == StoreInv => StoreTypeOK /\ SuccessMeansStored
BY DEF StoreInv, Stored, SuccessMeansStored

\* ShiftStore, whatever its scripts send: a success means that what was sent is stored.
THEOREM StoreCorrect == StoreSpec => [](StoreTypeOK /\ SuccessMeansStored)
<1> QED BY StoreInitOK, StoreNextOK, StoreInvMeans, PTL DEF StoreSpec

-----------------------------------------------------------------------------
(* The script                                                              *)

WeekOf(clk) == [n : 0..clk, week : Int, ids : SUBSET Ids]

\* TypeOK for what is not the server's, with what it needs to stay true
ScriptTypeOK ==
    /\ portal \in [Ids -> Int] /\ changes \in 0..MaxChanges /\ moved \in BOOLEAN
    /\ pc \in Running \cup {"exited"} /\ cur \in Attempts \cup {NoAttempt}
    /\ pc \in Running => cur \in Attempts
    /\ page \in {"start", "sas", "push", "portal"} \cup Asking
    /\ {failed, warned, silent, ticked} \subseteq BOOLEAN
    /\ base \in 0..MaxWeek /\ now \in 0..MaxWeek

CaptureOK ==
    /\ clicks \in 0..(3 * WEEKS_EACH_DIRECTION)
    /\ coming \subseteq WeekOf(clicks) /\ weeks \subseteq WeekOf(clicks)
    /\ IsFiniteSet(coming) /\ IsFiniteSet(weeks)
    /\ captured \in Nat /\ captured + Cardinality(coming) <= clicks + 1
    /\ pc \notin {"capture", "post"} => captured = 0

\* An answered request, or a browser that is closed without an error, has ended the log.
EndsOK ==
    /\ \A a \in Attempts : req[a].at = "answered" => log[a] # "running"
    /\ pc = "close" /\ ~failed => log[cur] # "running"
    /\ EndReported

IInv == StoreInv /\ ScriptTypeOK /\ CaptureOK /\ EndsOK

LEMMA InitIInv == Init => IInv
<1> SUFFICES ASSUME Init PROVE IInv
  OBVIOUS
<1>1. StoreInv
  BY StoreInitOK DEF Init
<1>2. ScriptTypeOK
  <2>1. MaxWeek \in Nat /\ MaxChanges \in Nat /\ Schedule \in [Ids -> Int]
    BY ScraperAssumption
  <2>2. {failed, warned, silent, ticked} \subseteq BOOLEAN
    BY DEF Init
  <2>3. base \in 0..MaxWeek /\ now \in 0..MaxWeek /\ changes \in 0..MaxChanges
    BY <2>1 DEF Init, StoreInit
  <2>4. pc = "exited" /\ pc \notin Running
    BY DEF Init, Running, Browsing, SigningIn
  <2> QED BY <2>1, <2>2, <2>3, <2>4 DEF Init, ScriptTypeOK
<1>3. CaptureOK
  BY FS_EmptySet DEF Init, CaptureOK, WEEKS_EACH_DIRECTION
<1>4. \A a \in Attempts : req[a].at = "none"
  BY DEF Init, StoreInit, NoRequest
<1> QED BY <1>1, <1>2, <1>3, <1>4 DEF Init, EndsOK, EndReported, Ended, IInv

LEMMA ImageFinite ==
    ASSUME NEW S, IsFiniteSet(S), NEW T, NEW f \in [S -> T], \A t \in T : \E x \in S : f[x] = t
    PROVE  IsFiniteSet(T)
<1>1. f \in Surjection(S, T)
  BY DEF Surjection
<1> QED BY <1>1, FS_Surjection

LEMMA EntriesFinite ==
    ASSUME NEW ws, IsFiniteSet(ws), \A w \in ws : w.ids \subseteq Ids
    PROVE  IsFiniteSet(Entries(ws))
<1> DEFINE Times == {w.week : w \in ws}
           All == [id : Ids, week : Times]
<1>1. IsFiniteSet(Times)
  <2>1. /\ [w \in ws |-> w.week] \in [ws -> Times]
        /\ \A t \in Times : \E w \in ws : [v \in ws |-> v.week][w] = t
    OBVIOUS
  <2> HIDE DEF Times
  <2> QED BY <2>1, ImageFinite
<1>2. IsFiniteSet(Ids \X Times)
  BY <1>1, FS_Product, ScraperAssumption
<1>3. IsFiniteSet(All)
  <2> DEFINE f == [p \in Ids \X Times |-> [id |-> p[1], week |-> p[2]]]
  <2>1. f \in [Ids \X Times -> All]
    <3> HIDE DEF Times
    <3> QED OBVIOUS
  <2>2. \A r \in All : \E p \in Ids \X Times : f[p] = r
    <3> HIDE DEF Times
    <3> SUFFICES ASSUME NEW r \in All PROVE \E p \in Ids \X Times : f[p] = r
      OBVIOUS
    <3>1. <<r.id, r.week>> \in Ids \X Times
      OBVIOUS
    <3>2. f[<<r.id, r.week>>] = r
      BY <3>1
    <3> QED BY <3>1, <3>2
  <2> HIDE DEF f, All, Times
  <2> QED BY <1>2, <2>1, <2>2, ImageFinite
<1>4. Entries(ws) \subseteq All
  BY DEF Entries
<1> QED BY <1>3, <1>4, FS_Subset

\* What the weeks are merged into is a list of shifts.
LEMMA BodyOK ==
    ASSUME NEW ws, IsFiniteSet(ws), \A w \in ws : w.week \in Int /\ w.ids \subseteq Ids,
           NEW body \in InOrder(Entries(ws))
    PROVE  body \in Seq(Entry)
<1>1. Entries(ws) \subseteq Entry
  BY DEF Entries, Entry
<1>2. Cardinality(Entries(ws)) \in Nat
  BY EntriesFinite, FS_CardinalityType
<1>3. body \in [1..Cardinality(Entries(ws)) -> Entry]
  BY <1>1 DEF InOrder
<1> QED BY <1>2, <1>3

\* Every step is a step of ShiftStore, or leaves the server's tables alone.
LEMMA StoreStep == IInv /\ [Next]_vars => [StoreNext]_storeVars
<1> SUFFICES ASSUME IInv, Next PROVE StoreNext \/ UNCHANGED storeVars
  BY DEF vars
<1>1. ASSUME NEW a \in Attempts, NewLog(a), UNCHANGED <<now, account, shifts, req, dropped>>
      PROVE  StoreNext
  BY <1>1 DEF StoreNext
<1>2. CASE Step
  <2>1. CASE Post
    <3>1. cur \in Attempts
      BY <2>1 DEF Post, IInv, ScriptTypeOK, Running, Browsing
    <3>2. PICK body \in InOrder(Entries(weeks)) : Submit(cur, body)
      BY <2>1 DEF Post
    <3>3. body \in Seq(Entry)
      BY <3>2, BodyOK DEF IInv, CaptureOK, WeekOf
    <3> QED BY <3>1, <3>2, <3>3 DEF StoreNext
  <2>2. CASE Report
    BY <2>2 DEF Report, StoreNext, IInv, ScriptTypeOK, Running, Browsing
  <2>3. CASE ~Post /\ ~Report
    BY <1>2, <2>3 DEF Step, FetchCredentials, Login, Username, Authenticate, Bypass, Answer,
       Password, Home, Click, Trailing, Posted, Throw, Close, Silenced, World
  <2> QED BY <2>1, <2>2, <2>3
<1>3. CASE Server
  BY <1>3 DEF Server, StoreNext
<1>4. CASE NextWeek
  BY <1>4 DEF NextWeek, StoreNext
<1>5. CASE PortalChanges \/ PageMoves \/ Capture \/ ResponseLost
  BY <1>5 DEF PortalChanges, PageMoves, Capture, ResponseLost, World
<1>6. ASSUME NEW a \in Attempts, Start(a) \/ OtherStarts(a) PROVE StoreNext
  BY <1>1, <1>6 DEF Start, OtherStarts
<1>7. ASSUME NEW a \in Attempts, OtherPosts(a) PROVE StoreNext
  <2> DEFINE ws == {AtPortal(0, w) : w \in Window}
  <2>1. PICK body \in InOrder(Entries(ws)) : Submit(a, body)
    BY <1>7 DEF OtherPosts
  <2>2. base \in Int
    BY DEF IInv, ScriptTypeOK
  <2>3. IsFiniteSet(ws) /\ \A w \in ws : w.week \in Int /\ w.ids \subseteq Ids
    <3> DEFINE S == -WEEKS_EACH_DIRECTION..WEEKS_EACH_DIRECTION
    <3>1. IsFiniteSet(S)
      <4>1. -1 \in Int /\ 1 \in Int
        OBVIOUS
      <4> QED BY <4>1, FS_Interval DEF WEEKS_EACH_DIRECTION
    <3>2. IsFiniteSet(Window)
      <4>1. /\ [w \in S |-> base - w] \in [S -> Window]
            /\ \A t \in Window : \E x \in S : [w \in S |-> base - w][x] = t
        BY DEF Window
      <4> HIDE DEF S
      <4> QED BY <3>1, <4>1, ImageFinite
    <3>4. IsFiniteSet(ws)
      <4>1. /\ [w \in Window |-> AtPortal(0, w)] \in [Window -> ws]
            /\ \A t \in ws : \E x \in Window : [w \in Window |-> AtPortal(0, w)][x] = t
        OBVIOUS
      <4> HIDE DEF ws
      <4> QED BY <3>2, <4>1, ImageFinite
    <3>5. \A w \in Window : w \in Int
      BY <2>2 DEF Window, WEEKS_EACH_DIRECTION
    <3> QED BY <3>4, <3>5 DEF AtPortal
  <2> HIDE DEF ws
  <2>4. body \in Seq(Entry)
    BY <2>1, <2>3, BodyOK
  <2> QED BY <2>1, <2>4 DEF StoreNext
<1> QED BY <1>2, <1>3, <1>4, <1>5, <1>6, <1>7 DEF Next

-----------------------------------------------------------------------------
LEMMA ScriptTypeInv == IInv /\ [Next]_vars => ScriptTypeOK'
<1> SUFFICES ASSUME IInv, [Next]_vars PROVE ScriptTypeOK'
  OBVIOUS
<1>1. MaxWeek \in Nat /\ MaxChanges \in Nat
  BY ScraperAssumption
<1> USE DEF IInv, ScriptTypeOK, Running, Browsing, SigningIn, Asking, Go, World, untouched,
    storeVars, table
<1>2. CASE UNCHANGED vars
  BY <1>2 DEF vars, script
<1>3. CASE Step
  <2>1. UNCHANGED <<now, portal, changes, moved, cur>>
    BY <1>3 DEF Step, FetchCredentials, Login, Username, Authenticate, Bypass, Answer,
       Password, Home, Click, Trailing, Post, Submit, Posted, Throw, Close, Report, Silenced
  <2>2. UNCHANGED ticked /\ base' \in {base, now} /\ silent' \in {silent, TRUE}
    BY <1>3 DEF Step, FetchCredentials, Login, Username, Authenticate, Bypass, Answer,
       Password, Home, Click, Trailing, Post, Posted, Throw, Close, Report, Silenced
  <2>3. pc \in Running /\ pc' \in Running \cup {"exited"} /\ failed' \in {failed, TRUE, FALSE}
    BY <1>3 DEF Step, FetchCredentials, Login, Username, Authenticate, Bypass, Answer,
       Password, Home, Click, Trailing, Post, Posted, Throw, Close, Report, Silenced
  <2>4. page' \in {"start", "sas", "push", "portal"} \cup Asking
    BY <1>3 DEF Step, FetchCredentials, Login, Username, Authenticate, Bypass, Answer,
       Password, Home, Click, Trailing, Post, Posted, Throw, Close, Report, Silenced
  <2>5. warned' \in BOOLEAN
    <3>1. CASE Trailing
      <4>1. warned' = (captured < Expected)
        BY <3>1 DEF Trailing
      <4> QED BY <4>1
    <3>2. CASE ~Trailing
      <4>1. warned' \in {warned, FALSE}
        BY <3>2, <1>3
        DEF Step, FetchCredentials, Login, Username, Authenticate, Bypass, Answer,
           Password, Home, Click, Post, Posted, Throw, Close, Report, Silenced, capture
      <4> QED BY <4>1
    <3> QED BY <3>1, <3>2
  <2> QED BY <2>1, <2>2, <2>3, <2>4, <2>5
<1>4. CASE Server
  BY <1>4 DEF Server, Handler, SkipShift, Insert, Finish, Cut, Reap, DeleteAccount, Retention,
     script
<1>5. CASE NextWeek
  BY <1>1, <1>5 DEF NextWeek, Week, capture, Busy
<1>6. CASE PortalChanges
  <2>1. PICK id \in Ids : \E w \in {portal[id] + 1, Cancelled} : portal' = [portal EXCEPT ![id] = w]
    BY <1>6 DEF PortalChanges
  <2>2. PICK w \in {portal[id] + 1, Cancelled} : portal' = [portal EXCEPT ![id] = w]
    BY <2>1
  <2>3. portal' \in [Ids -> Int]
    <3>1. w \in Int
      BY DEF Cancelled
    <3> QED BY <2>2, <3>1
  <2> QED BY <1>1, <1>6, <2>3 DEF PortalChanges, script
<1>7. CASE PageMoves \/ Capture \/ ResponseLost
  BY <1>7 DEF PageMoves, Capture, ResponseLost, capture
<1>8. ASSUME NEW a \in Attempts, Start(a) PROVE ScriptTypeOK'
  BY <1>8 DEF Start
<1>9. ASSUME NEW a \in Attempts, OtherStarts(a) \/ OtherPosts(a) PROVE ScriptTypeOK'
  BY <1>9 DEF OtherStarts, OtherPosts, Submit, script
<1> QED BY <1>2, <1>3, <1>4, <1>5, <1>6, <1>7, <1>8, <1>9 DEF Next

LEMMA CaptureInv == IInv /\ [Next]_vars => CaptureOK'
<1> SUFFICES ASSUME IInv, [Next]_vars PROVE CaptureOK'
  OBVIOUS
<1> USE DEF CaptureOK, WEEKS_EACH_DIRECTION
<1>0. CaptureOK /\ portal \in [Ids -> Int] /\ base \in Int /\ now \in Int
  BY DEF IInv, ScriptTypeOK
<1>1. CASE UNCHANGED capture /\ (pc \in {"capture", "post"} => pc' = pc)
  BY <1>0, <1>1 DEF capture
<1>2. CASE Forget
  BY <1>2, FS_EmptySet DEF Forget
<1>3. \A n \in Nat, w \in Int : AtPortal(n, w) \in [n : {n}, week : {w}, ids : SUBSET Ids]
  BY DEF AtPortal
<1>4. Cardinality(coming) \in Nat /\ clicks \in Nat
  BY <1>0, FS_CardinalityType
<1>5. ASSUME NEW r \in coming, coming' = coming \ {r}, clicks' = clicks,
             weeks' \in {weeks, weeks \cup {r}}, captured' \in {captured, captured + 1},
             pc = "capture", pc' = pc
      PROVE  CaptureOK'
  <2>1. IsFiniteSet(coming') /\ Cardinality(coming') = Cardinality(coming) - 1
    BY <1>0, <1>5, FS_RemoveElement
  <2>2. IsFiniteSet(weeks')
    BY <1>0, <1>5, FS_AddElement
  <2>3. weeks' \subseteq WeekOf(clicks) /\ coming' \subseteq WeekOf(clicks)
    BY <1>0, <1>5
  <2> QED BY <1>0, <1>4, <1>5, <2>1, <2>2, <2>3
<1>6. CASE Capture
  BY <1>5, <1>6 DEF Capture, MergedWith
<1>7. CASE ResponseLost
  BY <1>5, <1>7 DEF ResponseLost
<1>8. CASE Home
  <2>1. /\ coming' = {AtPortal(0, now)} /\ UNCHANGED <<clicks, captured, weeks>>
        /\ captured = 0 /\ pc' = "capture"
    BY <1>0, <1>8 DEF Home, Go
  <2>2. IsFiniteSet(coming') /\ Cardinality(coming') = 1
    BY <2>1, FS_Singleton
  <2>3. AtPortal(0, now) \in WeekOf(clicks)
    BY <1>0, <1>3, <1>4 DEF WeekOf
  <2> QED BY <1>0, <1>4, <2>1, <2>2, <2>3
<1>9. CASE Click
  <2> DEFINE r == AtPortal(clicks + 1, Shown(clicks + 1))
  <2>1. /\ coming' = coming \cup {r} /\ clicks' = clicks + 1 /\ clicks < 3
        /\ UNCHANGED <<captured, weeks, pc>>
    BY <1>9 DEF Click
  <2>2. Shown(clicks + 1) \in Int
    BY <1>0, <1>4 DEF Shown
  <2>3. r \in WeekOf(clicks + 1)
    BY <1>3, <1>4, <2>2 DEF WeekOf
  <2> HIDE DEF r
  <2>4. IsFiniteSet(coming') /\ Cardinality(coming') <= Cardinality(coming) + 1
    BY <1>0, <1>4, <2>1, FS_AddElement
  <2>5. Cardinality(coming') \in Nat
    BY <2>4, FS_CardinalityType
  <2>6. WeekOf(clicks) \subseteq WeekOf(clicks + 1)
    BY <1>4 DEF WeekOf
  <2> QED BY <1>0, <1>4, <2>1, <2>3, <2>4, <2>5, <2>6
<1>10. CASE Trailing
  <2>1. coming' = {} /\ UNCHANGED <<clicks, captured, weeks>> /\ pc' = "post"
    BY <1>10 DEF Trailing, Go
  <2> QED BY <1>0, <1>4, <2>1, FS_EmptySet
<1>11. CASE Step
  <2>1. CASE Post \/ Throw \/ Silenced
    BY <1>2, <2>1 DEF Post, Throw, Silenced
  <2>2. CASE Step /\ ~Home /\ ~Click /\ ~Trailing /\ ~Post /\ ~Throw /\ ~Silenced
    BY <1>1, <2>2 DEF Step, FetchCredentials, Login, Username, Authenticate, Bypass, Answer,
       Password, Posted, Close, Report
  <2> QED BY <1>8, <1>9, <1>10, <1>11, <2>1, <2>2
<1>12. CASE Server \/ NextWeek \/ PortalChanges \/ PageMoves \/ UNCHANGED vars
  BY <1>1, <1>12 DEF Server, NextWeek, PortalChanges, PageMoves, vars, script, capture
<1>13. ASSUME NEW a \in Attempts, Start(a) \/ OtherStarts(a) \/ OtherPosts(a) PROVE CaptureOK'
  BY <1>1, <1>2, <1>13 DEF Start, OtherStarts, OtherPosts, script, capture
<1> QED BY <1>6, <1>7, <1>11, <1>12, <1>13 DEF Next

-----------------------------------------------------------------------------
\* The log of an answered request has ended, and only NewLog makes a log running.
LEMMA StoreEnds ==
    ASSUME StoreTypeOK, [StoreNext]_storeVars,
           \A a \in Attempts : req[a].at = "answered" => log[a] # "running"
    PROVE  /\ \A a \in Attempts : req'[a].at = "answered" => log'[a] # "running"
           /\ \A a \in Attempts : log'[a] = "running" => log[a] = "running" \/ NewLog(a)
<1>1. /\ log \in [Attempts -> {"none", "running", "success", "failure"}]
      /\ req \in [Attempts -> Request]
  BY DEF StoreTypeOK
<1> DEFINE Goal == /\ \A a \in Attempts : req'[a].at = "answered" => log'[a] # "running"
                   /\ \A a \in Attempts : log'[a] = "running" => log[a] = "running" \/ NewLog(a)
<1>2. ASSUME NEW a \in Attempts, NewLog(a), UNCHANGED req PROVE Goal
  BY <1>1, <1>2 DEF NewLog
<1>3. ASSUME NEW a \in Attempts, ReportFailure(a) \/ Reap(a), UNCHANGED req PROVE Goal
  BY <1>1, <1>3 DEF ReportFailure, Reap
<1>4. ASSUME NEW a \in Attempts, NEW body \in Seq(Entry), Submit(a, body) PROVE Goal
  BY <1>1, <1>4 DEF Submit, table
<1>5. ASSUME NEW a \in Attempts, SkipShift(a) \/ Insert(a) PROVE Goal
  <2>1. UNCHANGED log /\ req' = [req EXCEPT ![a].i = @ + 1]
    BY <1>5 DEF SkipShift, Insert, table
  <2>2. \A b \in Attempts : req'[b].at = req[b].at
    BY <1>1, <2>1 DEF Request
  <2> QED BY <2>1, <2>2
<1>6. ASSUME NEW a \in Attempts, Finish(a) PROVE Goal
  <2>1. \A b \in Attempts : log'[b] # "running" \/ (b # a /\ log'[b] = log[b])
    BY <1>1, <1>6 DEF Finish
  <2>2. \A b \in Attempts \ {a} : req'[b] = req[b]
    BY <1>1, <1>6 DEF Finish
  <2> QED BY <2>1, <2>2
<1>7. ASSUME NEW a \in Attempts, Cut(a) PROVE Goal
  <2> DEFINE new == [NoRequest EXCEPT !.at = "cut"]
  <2>1. req' = [req EXCEPT ![a] = new] /\ UNCHANGED log
    BY <1>7 DEF Cut, table
  <2>2. new.at = "cut"
    BY DEF NoRequest
  <2> HIDE DEF new
  <2> QED BY <1>1, <2>1, <2>2
<1>8. ASSUME DeleteAccount PROVE Goal
  BY <1>1, <1>8 DEF DeleteAccount
<1>9. ASSUME Retention \/ Week \/ UNCHANGED storeVars PROVE Goal
  BY <1>9 DEF Retention, Week, storeVars, table
<1> HIDE DEF Goal
<1>10. Goal
  <2>1. ASSUME NEW a \in Attempts, NewLog(a), UNCHANGED <<now, account, shifts, req, dropped>>
        PROVE  Goal
    BY <1>2, <2>1
  <2>2. ASSUME NEW a \in Attempts, ReportFailure(a),
               UNCHANGED <<now, account, shifts, req, dropped>>
        PROVE  Goal
    BY <1>3, <2>2
  <2>3. ASSUME NEW a \in Attempts, Reap(a) PROVE Goal
    BY <1>3, <2>3 DEF Reap
  <2> QED BY <1>4, <1>5, <1>6, <1>7, <1>8, <1>9, <2>1, <2>2, <2>3 DEF StoreNext, Handler
<1> QED BY <1>10 DEF Goal

LEMMA EndsInv == IInv /\ [Next]_vars => EndsOK'
<1> SUFFICES ASSUME IInv, [Next]_vars PROVE EndsOK'
  OBVIOUS
<1> DEFINE Over == log[cur] # "running"
<1>1. /\ \A a \in Attempts : req'[a].at = "answered" => log'[a] # "running"
      /\ \A a \in Attempts : log'[a] = "running" => log[a] = "running" \/ NewLog(a)
  BY StoreStep, StoreEnds DEF IInv, StoreInv, EndsOK
<1>2. /\ pc \in Running => cur \in Attempts
      /\ cur \in Attempts \cup {NoAttempt} /\ NoAttempt \notin Attempts
  BY ScraperAssumption DEF IInv, ScriptTypeOK
<1>3. /\ pc = "close" /\ ~failed => Over
      /\ pc = "exited" /\ cur # NoAttempt /\ ~silent => Over
      /\ \A a \in Attempts : req[a].at = "answered" => log[a] # "running"
  BY DEF IInv, EndsOK, EndReported, Ended
\* It is enough to follow the log of the script's own attempt.
<1>4. SUFFICES /\ pc' = "close" /\ ~failed' => log'[cur'] # "running"
               /\ pc' = "exited" /\ cur' # NoAttempt /\ ~silent' => log'[cur'] # "running"
  BY <1>1 DEF EndsOK, EndReported, Ended
<1>5. ASSUME ~NewLog(cur), UNCHANGED cur, cur # NoAttempt, Over PROVE log'[cur'] # "running"
  BY <1>1, <1>2, <1>5
<1>6. CASE Step
  <2> USE DEF Go, untouched, World, Running, Browsing, SigningIn
  <2>1. CASE Posted
    BY <1>2, <1>3, <2>1 DEF Posted, storeVars, table
  <2>2. CASE Report
    BY <1>2, <2>2 DEF Report, ReportFailure, IInv, StoreInv, StoreTypeOK
  <2>3. CASE Close
    BY <1>2, <1>3, <2>3 DEF Close, storeVars, table
  <2>4. CASE Throw \/ Silenced
    BY <2>4 DEF Throw, Silenced
  <2>5. CASE Step /\ ~Posted /\ ~Report /\ ~Close /\ ~Throw /\ ~Silenced
    BY <2>5 DEF Step, FetchCredentials, Login, Username, Authenticate, Bypass, Answer,
       Password, Home, Click, Trailing, Post
  <2> QED BY <1>6, <2>1, <2>2, <2>3, <2>4, <2>5 DEF Step
<1>7. CASE Server \/ NextWeek \/ UNCHANGED vars
  <2>1. UNCHANGED <<pc, cur, failed, silent>>
    BY <1>7 DEF Server, NextWeek, vars, script
  <2>2. \A a \in Attempts : log'[a] = "running" => log[a] = "running"
    BY <1>7 DEF Server, NextWeek, vars, storeVars, table, Week, Handler, SkipShift, Insert,
       Finish, Cut, Reap, DeleteAccount, Retention, IInv, StoreInv, StoreTypeOK
  <2> QED BY <1>2, <1>3, <2>1, <2>2 DEF Running
<1>8. CASE PortalChanges \/ PageMoves \/ Capture \/ ResponseLost
  BY <1>3, <1>8 DEF PortalChanges, PageMoves, Capture, ResponseLost, World, storeVars, table,
     script, untouched
<1>9. ASSUME NEW a \in Attempts, Start(a)
      PROVE  /\ pc' = "close" /\ ~failed' => log'[cur'] # "running"
             /\ pc' = "exited" /\ cur' # NoAttempt /\ ~silent' => log'[cur'] # "running"
  BY <1>9 DEF Start
<1>10. ASSUME NEW a \in Attempts, OtherStarts(a) \/ OtherPosts(a)
       PROVE  /\ pc' = "close" /\ ~failed' => log'[cur'] # "running"
              /\ pc' = "exited" /\ cur' # NoAttempt /\ ~silent' => log'[cur'] # "running"
  BY <1>10 DEF OtherStarts, OtherPosts, script
<1> QED BY <1>6, <1>7, <1>8, <1>9, <1>10 DEF Next

-----------------------------------------------------------------------------
LEMMA NextIInv == IInv /\ [Next]_vars => IInv'
<1> SUFFICES ASSUME IInv, [Next]_vars PROVE IInv'
  OBVIOUS
<1>1. StoreInv'
  BY StoreStep, StoreNextOK DEF IInv
<1> QED BY <1>1, ScriptTypeInv, CaptureInv, EndsInv DEF IInv

THEOREM Invariance == Spec => []IInv
<1> QED BY InitIInv, NextIInv, PTL DEF Spec

LEMMA IInvMeans == IInv => TypeOK /\ SuccessMeansStored /\ EndReported
BY StoreInvMeans DEF IInv, StoreInv, ScriptTypeOK, CaptureOK, EndsOK, WeekOf, TypeOK

\* The types, and that no more responses are captured than weeks were asked for.
THEOREM TypeCorrect == Spec => []TypeOK
<1> QED BY Invariance, IInvMeans, PTL

\* What a success means, for the bodies that the script really sends.
THEOREM SuccessCorrect == Spec => []SuccessMeansStored
<1> QED BY Invariance, IInvMeans, PTL

\* A script that ends leaves an ended log, wherever it threw.
THEOREM EndCorrect == Spec => []EndReported
<1> QED BY Invariance, IInvMeans, PTL

\* The scraper implements ShiftStore: its server only takes the steps of that module.
THEOREM StoreRefined == Spec => StoreSpec
<1>1. Init => StoreInit
  BY DEF Init
<1> QED BY <1>1, Invariance, StoreStep, PTL DEF Spec, StoreSpec
=============================================================================
