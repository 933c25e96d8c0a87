--------------------------- MODULE Schedule_proofs ---------------------------
(* What a success finds of the schedule, and that what retention deletes does *)
(* not come back, from the invariants of Scraper_proofs.                      *)
EXTENDS Scraper_proofs

Late == IF ticked THEN 1 ELSE 0

\* No scrape that is still under way has seen, or sent, a week that is older than
\* the one before the week of its schedule page, which itself is at most Late ago.
RecentWeeks ==
    /\ pc \in Running => base + Late >= now
    /\ \A w \in coming \cup weeks : w.week >= base - 1
    /\ pc \notin {"capture", "post"} => coming \cup weeks = {}
    /\ \A a \in Attempts : Open(a) =>
          \A j \in DOMAIN req[a].body : req[a].body[j].week + 1 + Late >= now

\* Retention deletes only what no such scrape could send.
OldDropped == \A e \in dropped : e.week < now - KeepAge

\* The clicks before the responses that were captured
Sources(N) ==
    /\ N \subseteq 0..clicks /\ captured = Cardinality(N)
    /\ \A r \in coming : r.n \notin N
    /\ \A n \in N : \E v \in weeks : v.week = Shown(n)

\* Each click has at most one response, of the week it asked for.
CaptureFinds ==
    pc \in {"capture", "post"} =>
        /\ \A r \in coming \cup weeks :
              r.week = Shown(r.n) /\ (~moved => r.ids = {id \in Ids : portal[id] = r.week})
        /\ \A r, s \in coming : r.n = s.n => r = s
        /\ \E N \in SUBSET (0..clicks) : Sources(N)
        /\ pc = "post" /\ ~warned => captured >= Expected

\* The shifts of the week of the page and of a neighbour are in the request.
Found ==
    \E w \in {base - 1, base + 1} : \A id \in Ids : portal[id] \in Window \ {w} =>
        \E j \in DOMAIN req[cur].body : req[cur].body[j].id = id

BodyFinds ==
    /\ pc \in Running \ {"posted", "close", "report"} => req[cur].at = "none"
    /\ cur \in Attempts =>
          (req[cur].at \in {"loop", "answered"} /\ ~moved /\ ~warned /\ ~silent => Found)

SInv == RecentWeeks /\ OldDropped /\ CaptureFinds /\ BodyFinds

-----------------------------------------------------------------------------
(* Requests                                                                *)

\* A request that is sent was there before, with the same shifts.
RequestKept(a) ==
    /\ req'[a].at \in {"loop", "answered"} =>
          req[a].at \in {"loop", "answered"} /\ req'[a].body = req[a].body
    /\ req'[a].at = "loop" => req[a].at = "loop"
    /\ req[a].at = "none" => req'[a].at = "none"

LEMMA ServerRequests == ASSUME IInv, Server, NEW a \in Attempts PROVE RequestKept(a)
<1>1. req \in [Attempts -> Request]
  BY DEF IInv, StoreInv, StoreTypeOK
<1>2. CASE \E b \in Attempts : SkipShift(b) \/ Insert(b) \/ Finish(b)
  <2>1. PICK b \in Attempts : SkipShift(b) \/ Insert(b) \/ Finish(b)
    BY <1>2
  <2>2. CASE SkipShift(b) \/ Insert(b)
    <3>1. req' = [req EXCEPT ![b].i = @ + 1]
      BY <2>2 DEF SkipShift, Insert
    <3>2. req'[a].at = req[a].at /\ req'[a].body = req[a].body
      BY <1>1, <3>1 DEF Request
    <3> QED BY <3>2 DEF RequestKept
  <2>3. CASE Finish(b)
    BY <1>1, <2>3 DEF Finish, RequestKept, Request
  <2> QED BY <2>1, <2>2, <2>3
<1>3. CASE \E b \in Attempts : Cut(b)
  <2>1. PICK b \in Attempts : Cut(b)
    BY <1>3
  <2> DEFINE new == [NoRequest EXCEPT !.at = "cut"]
  <2>2. req' = [req EXCEPT ![b] = new] /\ req[b].at = "loop"
    BY <2>1 DEF Cut
  <2>3. new.at = "cut"
    BY DEF NoRequest
  <2> HIDE DEF new
  <2> QED BY <1>1, <2>2, <2>3 DEF RequestKept
<1>4. CASE UNCHANGED req
  BY <1>4 DEF RequestKept
<1> QED BY <1>2, <1>3, <1>4 DEF Server, Handler, Reap, DeleteAccount, Retention

LEMMA RequestSteps ==
    ASSUME IInv, [Next]_vars, NEW a \in Attempts
    PROVE  (Post /\ a = cur) \/ OtherPosts(a) \/ RequestKept(a)
<1>1. req \in [Attempts -> Request]
  BY DEF IInv, StoreInv, StoreTypeOK
<1>2. ASSUME NEW b, b # a, \E body : Submit(b, body) PROVE RequestKept(a)
  BY <1>1, <1>2 DEF Submit, RequestKept
<1>3. CASE Step
  <2>1. CASE Post
    BY <1>2, <2>1 DEF Post
  <2>2. CASE ~Post
    <3>1. UNCHANGED req
      BY <1>3, <2>2 DEF Step, FetchCredentials, Login, Username, Authenticate, Bypass, Answer,
         Password, Home, Click, Trailing, Posted, Throw, Close, Report, Silenced, World, storeVars
    <3> QED BY <3>1 DEF RequestKept
  <2> QED BY <2>1, <2>2
<1>4. CASE Server
  BY <1>4, ServerRequests
<1>5. ASSUME NEW b \in Attempts, OtherPosts(b) PROVE OtherPosts(a) \/ RequestKept(a)
  BY <1>2, <1>5 DEF OtherPosts
<1>6. CASE UNCHANGED req
  BY <1>6 DEF RequestKept
<1>7. CASE NextWeek \/ PortalChanges \/ PageMoves \/ Capture \/ ResponseLost \/ UNCHANGED vars
  BY <1>6, <1>7 DEF NextWeek, Week, PortalChanges, PageMoves, Capture, ResponseLost, World,
     storeVars, vars
<1>8. ASSUME NEW b \in Attempts, Start(b) \/ OtherStarts(b) PROVE RequestKept(a)
  <2>1. UNCHANGED req
    BY <1>8 DEF Start, OtherStarts
  <2> QED BY <2>1 DEF RequestKept
<1> QED BY <1>3, <1>4, <1>5, <1>7, <1>8 DEF Next

\* What is sent is as recent as the weeks it is made of.
LEMMA BodyWeeks ==
    ASSUME NEW ws, NEW k \in Int, \A w \in ws : w.week >= k, NEW body \in InOrder(Entries(ws)),
           NEW j \in DOMAIN body
    PROVE  body[j].week >= k
<1>1. body[j] \in Entries(ws)
  BY DEF InOrder
<1>2. PICK w \in ws : \E id \in w.ids : body[j] = [id |-> id, week |-> w.week]
  BY <1>1 DEF Entries
<1> QED BY <1>2

-----------------------------------------------------------------------------
(* Weeks                                                                   *)

LEMMA RecentStep == IInv /\ RecentWeeks /\ [Next]_vars => RecentWeeks'
<1> SUFFICES ASSUME IInv, RecentWeeks, [Next]_vars PROVE RecentWeeks'
  OBVIOUS
<1> DEFINE Recent(a) == \A j \in DOMAIN req[a].body : req[a].body[j].week + 1 + Late >= now
           Mine == /\ pc \in Running => base + Late >= now
                   /\ \A w \in coming \cup weeks : w.week >= base - 1
                   /\ pc \notin {"capture", "post"} => coming \cup weeks = {}
<1>0. /\ now \in Int /\ base \in Int /\ Late \in {0, 1} /\ ticked \in BOOLEAN
      /\ clicks \in Nat /\ req \in [Attempts -> Request]
      /\ \A a \in Attempts : \A j \in DOMAIN req[a].body : req[a].body[j].week \in Int
  <2>1. /\ now \in Int /\ base \in Int /\ ticked \in BOOLEAN /\ clicks \in Nat
        /\ req \in [Attempts -> Request]
    BY DEF IInv, StoreInv, StoreTypeOK, ScriptTypeOK, CaptureOK
  <2>2. ASSUME NEW a \in Attempts, NEW j \in DOMAIN req[a].body
        PROVE  req[a].body[j].week \in Int
    <3>1. req[a].body \in Seq(Entry)
      BY <2>1 DEF Request
    <3>2. req[a].body[j] \in Entry
      BY <3>1
    <3> QED BY <3>2 DEF Entry
  <2> QED BY <2>1, <2>2 DEF Late
<1>1. Mine /\ \A a \in Attempts : Open(a) => Recent(a)
  BY DEF RecentWeeks
<1> HIDE DEF Mine, Recent
<1>2. SUFFICES Mine' /\ \A a \in Attempts : Open(a)' => Recent(a)'
  BY DEF RecentWeeks, Mine, Recent
\* The script
<1>3. Mine'
  <2> USE DEF Go, untouched, World, storeVars, Running, Browsing, SigningIn
  <2>1. CASE UNCHANGED <<now, ticked, base>> /\ UNCHANGED <<coming, weeks>>
             /\ (pc' \in Running => pc \in Running) /\ (pc \in {"capture", "post"} => pc' = pc)
    BY <1>1, <2>1 DEF Mine, Late
  <2>2. CASE Forget /\ UNCHANGED <<now, ticked, base>> /\ pc \in Running
    BY <1>1, <2>2 DEF Forget, Mine, Late
  <2>3. CASE Home
    BY <1>0, <1>1, <2>3 DEF Home, Mine, Late, AtPortal
  <2>4. CASE Click
    <3> DEFINE r == AtPortal(clicks + 1, Shown(clicks + 1))
    <3>1. clicks + 1 \in 1..3
      BY <1>0, <2>4 DEF Click, WEEKS_EACH_DIRECTION
    <3>2. r.week >= base - 1
      BY <1>0, <3>1 DEF AtPortal, Shown, WEEKS_EACH_DIRECTION
    <3>3. coming' = coming \cup {r} /\ UNCHANGED <<now, ticked, base, weeks, pc>>
          /\ pc = "capture"
      BY <2>4 DEF Click
    <3> HIDE DEF r
    <3> QED BY <1>1, <3>2, <3>3 DEF Mine, Late
  <2>5. CASE Trailing
    BY <1>1, <2>5 DEF Trailing, Mine, Late
  <2>6. CASE Step
    <3>1. CASE Post \/ Throw \/ Silenced
      BY <2>2, <3>1 DEF Post, Submit, table, Throw, Silenced
    <3>2. CASE FetchCredentials \/ Login \/ Username \/ Authenticate \/ Bypass \/ Answer \/ Password
      BY <2>1, <3>2 DEF FetchCredentials, Login, Username, Authenticate, Bypass, Answer,
         Password, capture
    <3>3. CASE Posted \/ Close \/ Report
      BY <2>1, <3>3 DEF Posted, Close, Report, capture
    <3> QED BY <2>3, <2>4, <2>5, <2>6, <3>1, <3>2, <3>3 DEF Step
  <2>7. CASE Server
    BY <2>1, <2>7 DEF Server, Handler, SkipShift, Insert, Finish, Cut, Reap, DeleteAccount,
       Retention, script
  <2>8. CASE NextWeek
    <3>1. now' = now + 1 /\ UNCHANGED <<pc, coming, weeks, base>>
      BY <2>8 DEF NextWeek, Week, capture
    <3>2. pc \in Running => Late = 0 /\ Late' = 1
      BY <2>8 DEF NextWeek, Busy, Late
    <3> QED BY <1>0, <1>1, <3>1, <3>2 DEF Mine
  <2>9. CASE PortalChanges \/ PageMoves \/ UNCHANGED vars
    BY <2>1, <2>9 DEF PortalChanges, PageMoves, capture, vars, script
  <2>10. CASE Capture \/ ResponseLost
    BY <1>1, <2>10 DEF Capture, ResponseLost, MergedWith, Mine, Late
  <2>11. ASSUME NEW a \in Attempts, Start(a) PROVE Mine'
    BY <1>0, <2>11 DEF Start, Forget, Mine, Late
  <2>12. ASSUME NEW a \in Attempts, OtherStarts(a) \/ OtherPosts(a) PROVE Mine'
    BY <2>1, <2>12 DEF OtherStarts, OtherPosts, Submit, script
  <2> QED BY <2>6, <2>7, <2>8, <2>9, <2>10, <2>11, <2>12 DEF Next
\* The requests
<1>4. ASSUME NEW a \in Attempts, Open(a)' PROVE Recent(a)'
  <2>1. CASE Post /\ a = cur
    <3>1. PICK body \in InOrder(Entries(weeks)) : Submit(a, body)
      BY <2>1 DEF Post
    <3>2. req'[a].body = body /\ UNCHANGED <<now, ticked>>
      BY <1>0, <2>1, <3>1 DEF Submit, Post, untouched
    <3>3. \A w \in weeks : w.week >= base - 1
      BY <1>1 DEF Mine
    <3>4. base + Late >= now
      BY <1>1, <2>1 DEF Mine, Post, Running, Browsing
    <3>5. \A j \in DOMAIN body : body[j].week >= base - 1
      BY <1>0, <3>1, <3>3, BodyWeeks
    <3>6. body \in Seq(Entry)
      BY <3>1, BodyOK DEF IInv, CaptureOK, WeekOf
    <3>7. ASSUME NEW j \in DOMAIN body PROVE body[j].week \in Int
      <4>1. body[j] \in Entry
        BY <3>6
      <4> QED BY <4>1 DEF Entry
    <3> QED BY <1>0, <3>2, <3>4, <3>5, <3>7 DEF Recent, Late
  <2>2. CASE OtherPosts(a)
    <3> DEFINE ws == {AtPortal(0, w) : w \in Window}
    <3>1. PICK body \in InOrder(Entries(ws)) : Submit(a, body)
      BY <2>2 DEF OtherPosts
    <3>2. req'[a].body = body /\ UNCHANGED <<now, ticked>>
      BY <1>0, <2>2, <3>1 DEF Submit, OtherPosts, script
    <3>3. \A w \in ws : w.week >= base - 1
      BY <1>0 DEF AtPortal, Window, WEEKS_EACH_DIRECTION
    <3> HIDE DEF ws
    <3>4. base + Late >= now
      BY <1>1, <2>2 DEF Mine, OtherPosts, Running, Browsing
    <3>5. \A j \in DOMAIN body : body[j].week >= base - 1
      BY <1>0, <3>1, <3>3, BodyWeeks
    <3>6. body = req'[a].body /\ req' \in [Attempts -> Request]
      BY <3>2, NextIInv DEF IInv, StoreInv, StoreTypeOK
    <3>7. body \in Seq(Entry)
      BY <3>6 DEF Request
    <3>8. ASSUME NEW j \in DOMAIN body PROVE body[j].week \in Int
      <4>1. body[j] \in Entry
        BY <3>7
      <4> QED BY <4>1 DEF Entry
    <3> QED BY <1>0, <3>2, <3>4, <3>5, <3>8 DEF Recent, Late
  <2>3. CASE RequestKept(a)
    <3>1. Open(a) /\ req'[a].body = req[a].body
      BY <1>4, <2>3 DEF RequestKept, Open
    <3>2. CASE NextWeek
      <4>1. now' = now + 1 /\ UNCHANGED base /\ Late = 0 /\ Late' = 1
        BY <3>1, <3>2 DEF NextWeek, Week, Busy, Late
      <4> QED BY <1>0, <1>1, <3>1, <4>1 DEF Recent
    <3>3. CASE \E b \in Attempts : Start(b)
      BY <1>0, <1>1, <3>1, <3>3 DEF Start, Recent, Late
    <3>4. CASE UNCHANGED <<now, ticked>>
      BY <1>1, <3>1, <3>4 DEF Recent, Late
    <3>5. CASE ~NextWeek /\ ~\E b \in Attempts : Start(b)
      <4> USE DEF World, storeVars, script, untouched
      <4>1. CASE Step
        BY <3>4, <4>1 DEF Step, FetchCredentials, Login, Username, Authenticate, Bypass, Answer,
           Password, Home, Click, Trailing, Post, Submit, Posted, Throw, Close, Report, Silenced
      <4>2. CASE Server
        BY <3>4, <4>2 DEF Server, Handler, SkipShift, Insert, Finish, Cut, Reap, DeleteAccount,
           Retention
      <4>3. CASE PortalChanges \/ PageMoves \/ Capture \/ ResponseLost \/ UNCHANGED vars
        BY <3>4, <4>3 DEF PortalChanges, PageMoves, Capture, ResponseLost, vars
      <4>4. ASSUME NEW b \in Attempts, OtherStarts(b) \/ OtherPosts(b)
            PROVE  UNCHANGED <<now, ticked>>
        BY <4>4 DEF OtherStarts, OtherPosts, Submit
      <4> QED BY <3>4, <3>5, <4>1, <4>2, <4>3, <4>4 DEF Next
    <3> QED BY <3>2, <3>3, <3>5
  <2> QED BY <2>1, <2>2, <2>3, RequestSteps
<1> QED BY <1>3, <1>4

LEMMA OldStep == IInv /\ OldDropped /\ [Next]_vars => OldDropped'
<1> SUFFICES ASSUME IInv, OldDropped, [Next]_vars PROVE OldDropped'
  OBVIOUS
<1>0. /\ now \in Int /\ KeepAge \in Int /\ \A id \in DOMAIN shifts : shifts[id] \in Int
      /\ \A e \in dropped : e.week \in Int
  BY AgesAssumption DEF IInv, StoreInv, StoreTypeOK, Entry
<1>1. CASE Retention
  <2>1. ASSUME NEW e \in Rows \ Rows' PROVE e.week < now - KeepAge
    <3>1. PICK id \in DOMAIN shifts : e = [id |-> id, week |-> shifts[id]]
      BY DEF Rows
    <3>2. id \notin DOMAIN shifts'
      <4> SUFFICES ASSUME id \in DOMAIN shifts' PROVE FALSE
        OBVIOUS
      <4>1. shifts'[id] = shifts[id]
        BY <1>1 DEF Retention
      <4> QED BY <2>1, <3>1, <4>1 DEF Rows
    <3> QED BY <1>0, <1>1, <3>1, <3>2 DEF Retention
  <2> QED BY <1>1, <2>1 DEF Retention, OldDropped
<1>2. CASE Week
  BY <1>0, <1>2 DEF Week, OldDropped
<1>3. CASE UNCHANGED <<now, dropped>>
  BY <1>3 DEF OldDropped
<1>4. CASE StoreNext /\ ~Retention /\ ~Week
  BY <1>3, <1>4 DEF StoreNext, Submit, Handler, SkipShift, Insert, Finish, Cut, Reap,
     DeleteAccount
<1> QED BY <1>1, <1>2, <1>3, <1>4, StoreStep DEF storeVars

-----------------------------------------------------------------------------
(* Only Insert adds a row, for a request that is open.                     *)
LEMMA NoRevival ==
    ASSUME FeedAge >= WEEKS_EACH_DIRECTION, IInv, RecentWeeks, OldDropped, [Next]_vars,
           NEW e \in dropped, e.id \in DOMAIN shifts' \ DOMAIN shifts
    PROVE  shifts'[e.id] # e.week
<1>0. /\ now \in Int /\ Late \in {0, 1} /\ KeepAge \in Int /\ KeepAge >= 2 /\ e.week \in Int
      /\ e.week < now - KeepAge
  BY AgesAssumption DEF IInv, StoreInv, StoreTypeOK, Entry, WEEKS_EACH_DIRECTION, Late, OldDropped
<1>1. PICK a \in Attempts : Insert(a)
  BY StoreStep DEF StoreNext, storeVars, table, Handler, NewLog, ReportFailure, Submit,
     SkipShift, Finish, Cut, Reap, DeleteAccount, Retention, Week
<1> DEFINE new == req[a].body[req[a].i]
<1>2. new.week + 1 + Late >= now
  BY <1>1 DEF Insert, RecentWeeks, Open
<1>3. new.week \in Int
  <2>1. req[a].body \in Seq(Entry)
    BY DEF IInv, StoreInv, StoreTypeOK, Request
  <2>2. new \in Entry
    BY <1>1, <2>1 DEF Insert
  <2> QED BY <2>2 DEF Entry
<1> HIDE DEF new
<1>4. shifts' = WithRow(Current(a), new.week)
  BY <1>1 DEF Insert, new
<1>5. shifts'[e.id] = new.week
  BY <1>4 DEF WithRow
<1> QED BY <1>0, <1>2, <1>3, <1>5

-----------------------------------------------------------------------------
(* Captures                                                                *)

LEMMA CaptureFindsStep ==
    IInv /\ RecentWeeks /\ CaptureFinds /\ [Next]_vars => CaptureFinds'
<1> SUFFICES ASSUME IInv, RecentWeeks, CaptureFinds, [Next]_vars PROVE CaptureFinds'
  OBVIOUS
<1> DEFINE Truly(r) ==
             r.week = Shown(r.n) /\ (~moved => r.ids = {id \in Ids : portal[id] = r.week})
           Page == /\ \A r \in coming \cup weeks : Truly(r)
                   /\ \A r, s \in coming : r.n = s.n => r = s
                   /\ \E N \in SUBSET (0..clicks) : Sources(N)
           Enough == pc = "post" /\ ~warned => captured >= Expected
<1>0. /\ clicks \in Nat /\ coming \subseteq WeekOf(clicks) /\ captured \in Nat
      /\ base \in Int /\ now \in Int
  BY DEF IInv, CaptureOK, ScriptTypeOK
<1>1. pc \in {"capture", "post"} => Page /\ Enough
  BY DEF CaptureFinds
<1>2. SUFFICES ASSUME pc' \in {"capture", "post"} PROVE Page' /\ Enough'
  BY DEF CaptureFinds
<1> HIDE DEF Page, Enough
<1> USE DEF Go, untouched, World, storeVars
<1>3. CASE UNCHANGED <<capture, base, portal, moved>> /\ pc' = pc
  BY <1>1, <1>2, <1>3 DEF capture, Page, Enough, Sources, Shown
<1>4. CASE Home
  <2>1. /\ pc' = "capture" /\ base' = now /\ coming' = {AtPortal(0, now)}
        /\ UNCHANGED <<clicks, captured, weeks, portal, moved>>
    BY <1>4 DEF Home
  <2>2. weeks = {} /\ captured = 0
    BY <1>4 DEF Home, RecentWeeks, IInv, CaptureOK
  <2>3. \A r : r = AtPortal(0, now) => Truly(r)'
    BY <1>0, <2>1 DEF AtPortal, Shown, WEEKS_EACH_DIRECTION
  <2>4. Sources({})'
    BY <1>0, <2>1, <2>2, FS_EmptySet DEF Sources
  <2>5. {} \in SUBSET (0..clicks')
    OBVIOUS
  <2>6. \A r \in coming' \cup weeks' : Truly(r)'
    BY <2>1, <2>2, <2>3
  <2> HIDE DEF Truly
  <2>7. \A r, s \in coming' : r = s
    BY <2>1
  <2> QED BY <2>1, <2>4, <2>5, <2>6, <2>7 DEF Page, Enough
<1>5. CASE Click
  <2> DEFINE r == AtPortal(clicks + 1, Shown(clicks + 1))
  <2>1. /\ pc = "capture" /\ pc' = "capture" /\ clicks' = clicks + 1 /\ coming' = coming \cup {r}
        /\ UNCHANGED <<captured, weeks, portal, moved, base>>
    BY <1>5 DEF Click
  <2>2. \A n : Shown(n)' = Shown(n)
    BY <2>1 DEF Shown
  <2>3. r.n = clicks + 1 /\ \A q : q = r => Truly(q)'
    BY <2>1, <2>2 DEF AtPortal
  <2>4. \A q \in coming : q.n \in 0..clicks
    BY <1>0 DEF WeekOf
  <2> HIDE DEF r
  <2>5. \A q \in coming \cup weeks : Truly(q)'
    BY <1>1, <2>1, <2>2 DEF Page
  <2>6. \A q, s \in coming' : q.n = s.n => q = s
    BY <1>0, <1>1, <2>1, <2>3, <2>4 DEF Page
  <2>7. PICK N \in SUBSET (0..clicks) : Sources(N)
    BY <1>1, <2>1 DEF Page
  <2>8. N \subseteq 0..clicks' /\ clicks + 1 \notin N
    BY <1>0, <2>1
  <2>9. Sources(N)'
    BY <2>1, <2>2, <2>3, <2>7, <2>8 DEF Sources
  <2> HIDE DEF Truly
  <2> QED BY <2>1, <2>3, <2>5, <2>6, <2>8, <2>9 DEF Page, Enough
<1>6. ASSUME NEW r \in coming, coming' = coming \ {r}, pc = "capture", pc' = "capture",
             UNCHANGED <<clicks, portal, moved, base>>,
             \/ UNCHANGED <<captured, weeks>>
             \/ captured' = captured + 1 /\ weeks' = MergedWith(weeks, r)
      PROVE  Page' /\ Enough'
  <2>1. \A n : Shown(n)' = Shown(n)
    BY <1>6 DEF Shown
  <2>2. weeks \subseteq weeks' /\ weeks' \subseteq weeks \cup {r}
    BY <1>6 DEF MergedWith
  <2>3. \A q \in coming \cup weeks : Truly(q) /\ Truly(q)'
    BY <1>1, <1>6, <2>1 DEF Page
  <2>4. PICK N \in SUBSET (0..clicks) : Sources(N)
    BY <1>1, <1>6 DEF Page
  <2>5. ASSUME UNCHANGED <<captured, weeks>> PROVE \E M \in SUBSET (0..clicks') : Sources(M)'
    <3>1. Sources(N)' /\ N \in SUBSET (0..clicks')
      BY <1>6, <2>1, <2>4, <2>5 DEF Sources
    <3> QED BY <3>1
  <2>6. ASSUME captured' = captured + 1, weeks' = MergedWith(weeks, r)
        PROVE  \E M \in SUBSET (0..clicks') : Sources(M)'
    <3>1. r.n \in 0..clicks /\ r.n \notin N /\ r.week = Shown(r.n)
      BY <1>0, <1>6, <2>3, <2>4 DEF WeekOf, Sources
    <3>2. \E v \in weeks' : v.week = Shown(r.n)
      BY <2>6, <3>1 DEF MergedWith
    <3>3. captured' = Cardinality(N \cup {r.n})
      <4>1. IsFiniteSet(N)
        <5>1. IsFiniteSet(0..clicks)
          BY <1>0, FS_Interval
        <5> QED BY <5>1, FS_Subset
      <4> QED BY <2>4, <2>6, <3>1, <4>1, FS_AddElement DEF Sources
    <3>4. \A q \in coming' : q.n # r.n
      BY <1>1, <1>6 DEF Page
    <3>5. N \cup {r.n} \in SUBSET (0..clicks')
      BY <1>6, <3>1
    <3>6. \A n \in N : \E v \in weeks' : v.week = Shown(n)
      BY <2>2, <2>4 DEF Sources
    <3>7. Sources(N \cup {r.n})'
      BY <1>6, <2>1, <2>4, <3>2, <3>3, <3>4, <3>5, <3>6 DEF Sources
    <3> QED BY <3>5, <3>7
  <2>7. \E M \in SUBSET (0..clicks') : Sources(M)'
    BY <1>6, <2>5, <2>6
  <2>8. \A q \in coming' \cup weeks' : Truly(q)'
    BY <1>6, <2>2, <2>3
  <2>9. \A q, s \in coming' : q.n = s.n => q = s
    BY <1>1, <1>6 DEF Page
  <2> HIDE DEF Truly
  <2> QED BY <1>6, <2>7, <2>8, <2>9 DEF Page, Enough
<1>7. CASE Trailing
  <2>1. /\ pc = "capture" /\ coming' = {} /\ warned' = (captured < Expected)
        /\ UNCHANGED <<clicks, captured, weeks, portal, moved, base>>
    BY <1>7 DEF Trailing
  <2>2. \A n : Shown(n)' = Shown(n)
    BY <2>1 DEF Shown
  <2>3. PICK N \in SUBSET (0..clicks) : Sources(N)
    BY <1>1, <2>1 DEF Page
  <2>4. Sources(N)' /\ N \in SUBSET (0..clicks')
    BY <2>1, <2>2, <2>3 DEF Sources
  <2>5. \A r \in weeks : Truly(r)'
    BY <1>1, <2>1, <2>2 DEF Page
  <2>6. Page'
    <3> HIDE DEF Truly
    <3> QED BY <2>1, <2>4, <2>5 DEF Page
  <2>7. ~warned' => captured >= Expected
    <3>1. ~(captured < Expected) => captured >= Expected
      BY <1>0 DEF Expected, WEEKS_EACH_DIRECTION
    <3> QED BY <2>1, <3>1
  <2> QED BY <2>1, <2>6, <2>7 DEF Enough
<1>8. CASE Step
  <2>1. CASE FetchCredentials \/ Login \/ Username \/ Authenticate \/ Bypass \/ Answer \/ Password
    BY <1>2, <2>1 DEF FetchCredentials, Login, Username, Authenticate, Bypass, Answer, Password
  <2>2. CASE Post \/ Posted \/ Throw \/ Close \/ Report \/ Silenced
    BY <1>2, <2>2 DEF Post, Posted, Throw, Close, Report, Silenced
  <2> QED BY <1>4, <1>5, <1>7, <1>8, <2>1, <2>2 DEF Step
<1>9. CASE Server \/ NextWeek \/ UNCHANGED vars
  <2>1. UNCHANGED <<capture, base, portal, moved, pc>>
    BY <1>9 DEF Server, NextWeek, script, vars, capture
  <2> QED BY <1>3, <2>1
<1>10. CASE PortalChanges
  <2>1. moved' = TRUE /\ UNCHANGED <<pc, clicks, coming, captured, weeks, warned, base>>
    BY <1>10 DEF PortalChanges, script
  <2> QED BY <1>1, <1>2, <2>1 DEF Page, Enough, Sources, Shown
<1>11. CASE PageMoves
  BY <1>2, <1>11 DEF PageMoves, SigningIn
<1>12. CASE Capture
  <2>1. PICK r \in coming : /\ coming' = coming \ {r}
                            /\ captured' = captured + 1 /\ weeks' = MergedWith(weeks, r)
    BY <1>12 DEF Capture
  <2> QED BY <1>6, <1>12, <2>1 DEF Capture
<1>13. CASE ResponseLost
  BY <1>6, <1>13 DEF ResponseLost
<1>14. ASSUME NEW a \in Attempts, Start(a) PROVE FALSE
  BY <1>2, <1>14 DEF Start
<1>15. ASSUME NEW a \in Attempts, OtherStarts(a) \/ OtherPosts(a) PROVE FALSE
  BY <1>2, <1>15 DEF OtherStarts, OtherPosts, script
<1> QED BY <1>8, <1>9, <1>10, <1>11, <1>12, <1>13, <1>14, <1>15 DEF Next

-----------------------------------------------------------------------------
(* What is sent                                                            *)

LEMMA ThreeOfFour ==
    ASSUME NEW N \in SUBSET (0..3), Cardinality(N) >= 3, NEW m \in 0..3, NEW n \in 0..3, m # n
    PROVE  m \in N \/ n \in N
<1> DEFINE Rest == ((0..3) \ {m}) \ {n}
<1> SUFFICES ASSUME m \notin N, n \notin N PROVE FALSE
  OBVIOUS
<1>1. IsFiniteSet(0..3) /\ Cardinality(0..3) = 4
  <2>1. 0 \in Int /\ 3 \in Int /\ (IF 0 > 3 THEN 0 ELSE 3 - 0 + 1) = 4
    OBVIOUS
  <2> QED BY <2>1, FS_Interval
<1>2. IsFiniteSet((0..3) \ {m}) /\ Cardinality((0..3) \ {m}) = 3
  BY <1>1, FS_RemoveElement
<1>3. n \in (0..3) \ {m}
  OBVIOUS
<1>4. IsFiniteSet(Rest) /\ Cardinality(Rest) = 2
  BY <1>2, <1>3, FS_RemoveElement
<1>5. N \in SUBSET Rest
  OBVIOUS
<1> HIDE DEF Rest
<1>6. Cardinality(N) <= 2 /\ Cardinality(N) \in Nat
  BY <1>4, <1>5, FS_Subset, FS_CardinalityType
<1> QED BY <1>6

\* Three captures are of the week of the page, which is asked for twice, and of a
\* neighbour.
LEMMA ThreeCaptures ==
    ASSUME IInv, CaptureFinds, pc = "post", ~warned
    PROVE  /\ \E v \in weeks : v.week = base
           /\ \E w \in {base - 1, base + 1} : \E v \in weeks : v.week = w
<1>1. PICK N \in SUBSET (0..clicks) : Sources(N)
  BY DEF CaptureFinds
<1>2. clicks \in 0..3 /\ base \in Int /\ captured \in Nat
  BY DEF IInv, CaptureOK, ScriptTypeOK, WEEKS_EACH_DIRECTION
<1>3. N \in SUBSET (0..3) /\ Cardinality(N) >= 3
  BY <1>1, <1>2 DEF CaptureFinds, Sources, Expected, WEEKS_EACH_DIRECTION
<1>4. /\ Shown(0) = base /\ Shown(1) = base - 1 /\ Shown(2) = base /\ Shown(3) = base + 1
  BY <1>2 DEF Shown, WEEKS_EACH_DIRECTION
<1>5. \A n \in N : \E v \in weeks : v.week = Shown(n)
  BY <1>1 DEF Sources
<1>6. 0 \in N \/ 2 \in N
  BY <1>3, ThreeOfFour
<1>7. 1 \in N \/ 3 \in N
  BY <1>3, ThreeOfFour
<1> QED BY <1>4, <1>5, <1>6, <1>7

\* The body is an enumeration of the entries, so none is left out.
LEMMA NoneLeftOut ==
    ASSUME NEW E, IsFiniteSet(E), NEW body \in InOrder(E), NEW e \in E
    PROVE  \E j \in DOMAIN body : body[j] = e
<1> DEFINE n == Cardinality(E)
<1>1. n \in Nat
  BY FS_CardinalityType
<1>2. IsFiniteSet(1..n) /\ Cardinality(1..n) = n
  BY <1>1, FS_Interval
<1>3. body \in [1..n -> E] /\ \A i, j \in 1..n : i < j => body[i] # body[j]
  BY DEF InOrder
<1> HIDE DEF n
<1>4. ASSUME NEW i \in 1..n, NEW j \in 1..n, body[i] = body[j] PROVE i = j
  BY <1>1, <1>3, <1>4
<1>5. body \in Injection(1..n, E)
  BY <1>3, <1>4 DEF Injection, IsInjective
<1>6. body \in Surjection(1..n, E)
  BY <1>2, <1>5, FS_Injection DEF n
<1> QED BY <1>3, <1>6 DEF Surjection

LEMMA PostFinds ==
    ASSUME IInv, CaptureFinds, Post, ~warned, ~moved
    PROVE  Found'
<1>1. PICK body \in InOrder(Entries(weeks)) : Submit(cur, body)
  BY DEF Post
<1>2. /\ pc = "post" /\ cur \in Attempts /\ base \in Int /\ req \in [Attempts -> Request]
      /\ IsFiniteSet(weeks) /\ \A w \in weeks : w.ids \subseteq Ids
  BY DEF Post, IInv, StoreInv, StoreTypeOK, ScriptTypeOK, CaptureOK, WeekOf, Running, Browsing
<1>3. cur' = cur /\ req'[cur].body = body /\ UNCHANGED <<base, portal>>
  BY <1>1, <1>2 DEF Post, Submit, untouched
<1>4. IsFiniteSet(Entries(weeks))
  BY <1>2, EntriesFinite
<1>5. ASSUME NEW v \in weeks, NEW id \in Ids, portal[id] = v.week
      PROVE  \E j \in DOMAIN body : body[j].id = id
  <2>1. id \in v.ids
    BY <1>2, <1>5 DEF CaptureFinds
  <2> DEFINE e == [id |-> id, week |-> v.week]
  <2>2. e \in Entries(weeks)
    BY <2>1 DEF Entries
  <2>3. e.id = id
    OBVIOUS
  <2> HIDE DEF e
  <2> QED BY <1>4, <2>2, <2>3, NoneLeftOut
<1>6. PICK u \in {base - 1, base + 1} : \E v \in weeks : v.week = u
  BY <1>2, ThreeCaptures
<1>7. PICK w \in {base - 1, base + 1} : w # u
  BY <1>2
<1>8. Window \ {w} = {base, u}
  BY <1>2, <1>6, <1>7 DEF Window, WEEKS_EACH_DIRECTION
<1>9. \A id \in Ids : portal[id] \in Window \ {w} => \E j \in DOMAIN body : body[j].id = id
  BY <1>2, <1>5, <1>6, <1>8, ThreeCaptures
<1>10. Window' = Window
  BY <1>3 DEF Window
<1> QED BY <1>3, <1>7, <1>9, <1>10 DEF Found

LEMMA BodyFindsStep == IInv /\ CaptureFinds /\ BodyFinds /\ [Next]_vars => BodyFinds'
<1> SUFFICES ASSUME IInv, CaptureFinds, BodyFinds, [Next]_vars PROVE BodyFinds'
  OBVIOUS
<1> DEFINE Before == pc \in Running \ {"posted", "close", "report"}
           Sent == req[cur].at \in {"loop", "answered"} /\ ~moved /\ ~warned /\ ~silent
<1>0. /\ Before => req[cur].at = "none"
      /\ cur \in Attempts => (Sent => Found)
      /\ pc \in Running => cur \in Attempts
  BY DEF BodyFinds, IInv, ScriptTypeOK
<1>1. SUFFICES /\ Before' => req'[cur'].at = "none"
               /\ cur' \in Attempts => (Sent' => Found')
  BY DEF BodyFinds
\* The step leaves the attempt, and perhaps what its request says of the portal.
<1>2. ASSUME UNCHANGED cur, cur \in Attempts => RequestKept(cur), Before' => Before,
             Sent /\ Sent' => UNCHANGED <<base, portal>>,
             cur \in Attempts /\ req[cur].at \in {"loop", "answered"} /\ Sent' => Sent
      PROVE  /\ Before' => req'[cur'].at = "none"
             /\ cur' \in Attempts => (Sent' => Found')
  <2>1. Before' => req'[cur'].at = "none"
    BY <1>0, <1>2 DEF RequestKept
  <2>2. ASSUME cur \in Attempts, Sent' PROVE Found'
    <3>1. req[cur].at \in {"loop", "answered"} /\ req'[cur].body = req[cur].body
      BY <1>2, <2>2 DEF RequestKept
    <3>2. Sent
      BY <1>2, <2>2, <3>1
    <3>3. Found /\ UNCHANGED <<base, portal, cur>>
      BY <1>0, <1>2, <2>2, <3>2
    <3> QED BY <3>1, <3>3 DEF Found, Window
  <2> QED BY <1>2, <2>1, <2>2
<1>3. cur \in Attempts => RequestKept(cur) \/ Post
  BY RequestSteps DEF OtherPosts
<1> USE DEF Go, untouched, World, storeVars, Running, Browsing, SigningIn
<1>4. CASE Post
  <2>1. /\ pc' = "posted" /\ cur' = cur /\ cur \in Attempts
        /\ UNCHANGED <<moved, warned, silent>>
    BY <1>0, <1>4 DEF Post
  <2>2. ~Before'
    BY <2>1
  <2>3. Sent' => Found'
    BY <1>4, <2>1, PostFinds
  <2> QED BY <2>2, <2>3
<1>5. CASE Home \/ Trailing
  <2>1. /\ cur \in Attempts /\ UNCHANGED <<cur, req>> /\ req[cur].at = "none"
    BY <1>0, <1>5 DEF Home, Trailing
  <2> QED BY <2>1
<1>6. CASE Silenced
  BY <1>6 DEF Silenced
<1>7. CASE FetchCredentials \/ Login \/ Username \/ Authenticate \/ Bypass \/ Answer \/ Password
  <2>1. UNCHANGED <<cur, base, portal, moved, warned, silent, req>> /\ (Before' => Before)
    BY <1>7 DEF FetchCredentials, Login, Username, Authenticate, Bypass, Answer, Password, capture
  <2>2. cur \in Attempts => RequestKept(cur)
    BY <2>1 DEF RequestKept
  <2> QED BY <1>2, <2>1, <2>2
<1>8. CASE Click \/ Posted \/ Throw \/ Close \/ Report
  <2>1. UNCHANGED <<cur, base, portal, moved, warned, silent, req>> /\ (Before' => Before)
    BY <1>8 DEF Click, Posted, Throw, Close, Report, capture
  <2>2. cur \in Attempts => RequestKept(cur)
    BY <2>1 DEF RequestKept
  <2> QED BY <1>2, <2>1, <2>2
<1>9. CASE Server \/ NextWeek \/ UNCHANGED vars
  <2>1. UNCHANGED <<cur, base, portal, moved, warned, silent, pc>>
    BY <1>9 DEF Server, NextWeek, script, vars, capture
  <2>2. ~Post \/ ~Before'
    BY DEF Post
  <2>3. cur \in Attempts => RequestKept(cur)
    <3>1. ~Post
      BY <2>1 DEF Post
    <3> QED BY <1>3, <3>1
  <2> QED BY <1>2, <2>1, <2>3
<1>10. CASE PortalChanges
  <2>1. UNCHANGED <<cur, pc, req>> /\ ~Sent'
    BY <1>10 DEF PortalChanges, script
  <2> QED BY <1>0, <2>1
<1>11. CASE PageMoves \/ Capture \/ ResponseLost
  <2>1. UNCHANGED <<cur, base, portal, moved, warned, silent, req, pc>>
    BY <1>11 DEF PageMoves, Capture, ResponseLost, capture
  <2>2. cur \in Attempts => RequestKept(cur)
    BY <2>1 DEF RequestKept
  <2> QED BY <1>2, <2>1, <2>2
<1>12. ASSUME NEW a \in Attempts, Start(a)
       PROVE  /\ Before' => req'[cur'].at = "none"
              /\ cur' \in Attempts => (Sent' => Found')
  <2>1. cur' = a /\ UNCHANGED req /\ req[a].at = "none"
    BY <1>12 DEF Start, NewLog
  <2> QED BY <2>1
<1>13. ASSUME NEW a \in Attempts, OtherStarts(a) \/ OtherPosts(a)
       PROVE  /\ Before' => req'[cur'].at = "none"
              /\ cur' \in Attempts => (Sent' => Found')
  <2>1. UNCHANGED <<cur, base, portal, moved, warned, silent, pc>>
    BY <1>13 DEF OtherStarts, OtherPosts, script
  <2>2. cur \in Attempts => RequestKept(cur)
    <3>1. ~Post
      BY <2>1 DEF Post
    <3> QED BY <1>3, <3>1
  <2> QED BY <1>2, <2>1, <2>2
<1> QED
  BY <1>4, <1>5, <1>6, <1>7, <1>8, <1>9, <1>10, <1>11, <1>12, <1>13 DEF Next, Step

-----------------------------------------------------------------------------
LEMMA InitSInv == Init => SInv
<1> SUFFICES ASSUME Init PROVE SInv
  OBVIOUS
<1>1. \A a \in Attempts : req[a].at = "none"
  BY DEF Init, StoreInit, NoRequest
<1>2. pc = "exited" /\ coming = {} /\ weeks = {} /\ dropped = {} /\ cur \notin Attempts
  BY ScraperAssumption DEF Init, StoreInit
<1> QED BY <1>1, <1>2 DEF SInv, RecentWeeks, OldDropped, CaptureFinds, BodyFinds, Running,
       Browsing, SigningIn, Open

LEMMA NextSInv == IInv /\ SInv /\ [Next]_vars => SInv'
BY RecentStep, OldStep, CaptureFindsStep, BodyFindsStep DEF SInv

\* A script that has ended in success has sent what it found, and that is stored.
LEMMA SInvMeans == IInv /\ SInv => SuccessFindsSchedule
<1> SUFFICES ASSUME IInv, SInv, Ended, account, log[cur] = "success", ~moved, ~warned
             PROVE  \E w \in {base - 1, base + 1} :
                        \A id \in Ids : portal[id] \in Window \ {w} => Kept(id)
  BY DEF SuccessFindsSchedule
<1>1. cur \in Attempts /\ ~silent
  BY DEF Ended, IInv, ScriptTypeOK
<1>2. req[cur].at = "answered" /\ \A j \in DOMAIN req[cur].body : Kept(req[cur].body[j].id)
  BY <1>1 DEF IInv, StoreInv, Stored
<1>3. Found
  BY <1>1, <1>2 DEF SInv, BodyFinds
<1> QED BY <1>2, <1>3 DEF Found

\* A success means that the schedule was found: the readable shifts of the current
\* week and of a neighbour are in the table, whatever was captured in which order.
THEOREM ScheduleFound == Spec => []SuccessFindsSchedule
<1> QED BY InitIInv, NextIInv, InitSInv, NextSInv, SInvMeans, PTL DEF Spec

\* What retention deletes does not come back, when shifts are kept two weeks or more.
THEOREM RetentionIsFinal == ASSUME FeedAge >= WEEKS_EACH_DIRECTION PROVE Spec => NeverRevived
<1>1. IInv /\ SInv /\ [Next]_vars =>
          [\A e \in dropped : e.id \in DOMAIN shifts' \ DOMAIN shifts => shifts'[e.id] # e.week]_vars
  BY NoRevival DEF SInv
<1> QED BY <1>1, InitIInv, NextIInv, InitSInv, NextSInv, PTL DEF Spec, NeverRevived
=============================================================================
