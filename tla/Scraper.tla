------------------------------ MODULE Scraper ------------------------------
(***************************************************************************)
(* scraper/scrape.js against the portal and against the server's shifts    *)
(* (ShiftStore): one user whose scrapes run one after the other, with one  *)
(* that may overlap. A step of the script is what it does between two      *)
(* awaits; every await may throw.                                          *)
(*                                                                         *)
(* The portal is external: it shows one week at a time, and answers each   *)
(* change of the week with a response that may be late, overtaken or lost. *)
(***************************************************************************)
EXTENDS ShiftStore, FiniteSets

CONSTANTS
    NoAttempt,
    Schedule,               \* the first one: id -> week
    MaxWeek, MaxChanges     \* bounds

ASSUME ScraperAssumption ==
    /\ NoAttempt \notin Attempts /\ IsFiniteSet(Ids) /\ Schedule \in [Ids -> Int]
    /\ MaxWeek \in Nat /\ MaxChanges \in Nat

VARIABLES
    portal,     \* the schedule: id -> week, or Cancelled
    changes,    \* how often it has changed
    pc, cur,    \* the script's next step, and its attempt
    page,       \* where the browser is
    failed,     \* the browser is closed because of an exception
    clicks,     \* on the buttons of the schedule page
    coming,     \* responses under way, with the clicks before each
    captured,   \* length of capturedWeeks
    weeks,      \* what mergeScheduleData will make of them
    warned,     \* "Warning: expected ... weeks"
    base,       \* the week of the schedule page when it was loaded
    ticked,     \* history: a week has begun since it, or a request still open, started
    moved,      \* history: the portal has changed since
    silent      \* history: it was killed, or its last call was lost

script == <<pc, cur, page, failed, clicks, coming, captured, weeks, warned, base, ticked, silent>>
vars == <<storeVars, portal, changes, moved, script>>

Cancelled == -100
WEEKS_EACH_DIRECTION == 1
Expected == 2 * WEEKS_EACH_DIRECTION + 1

Asking == {"question", "password"}      \* pages with a password field
SigningIn == {"login", "username", "authenticate", "bypass", "answer", "password", "home"}
Browsing == SigningIn \cup {"capture", "post", "posted"}
Running == Browsing \cup {"credentials", "close", "report"}
Open(a) == req[a].at = "loop"

untouched == <<cur, base, ticked, silent>>
capture == <<clicks, coming, captured, weeks, warned>>
World == UNCHANGED <<storeVars, portal, changes, moved>>
Forget == clicks' = 0 /\ coming' = {} /\ captured' = 0 /\ weeks' = {}
Go(next) == pc' = next /\ UNCHANGED failed

Init ==
    /\ StoreInit
    /\ portal = Schedule /\ changes = 0 /\ moved = FALSE
    /\ pc = "exited" /\ cur = NoAttempt /\ page = "start" /\ failed = FALSE /\ clicks = 0
    /\ coming = {} /\ captured = 0 /\ weeks = {} /\ warned = FALSE /\ base = 0 /\ ticked = FALSE
    /\ silent = FALSE

-----------------------------------------------------------------------------
(* Data helpers                                                            *)

\* A week as the portal answers it.
AtPortal(n, w) == [n |-> n, week |-> w, ids |-> {id \in Ids : portal[id] = w}]

\* mergeScheduleData: of the days captured twice the first version counts.
MergedWith(ws, w) == IF \E v \in ws : v.week = w.week THEN ws ELSE ws \cup {w}

\* extractShifts of the days in order, which here is the order of the weeks.
Entries(ws) == UNION {{[id |-> id, week |-> w.week] : id \in w.ids} : w \in ws}

InOrder(entries) ==
    {s \in [1..Cardinality(entries) -> entries] :
        \A i, j \in DOMAIN s : i < j => s[i] # s[j] /\ s[i].week <= s[j].week}

Window == {base - w : w \in -WEEKS_EACH_DIRECTION..WEEKS_EACH_DIRECTION}

-----------------------------------------------------------------------------
(* The portal *)

\* A shift is put off by a week, or cancelled.
PortalChanges ==
    /\ changes < MaxChanges /\ changes' = changes + 1
    /\ \E id \in Ids \ Unreadable : \E w \in {portal[id] + 1, Cancelled} :
          portal[id] # Cancelled /\ portal' = [portal EXCEPT ![id] = w]
    /\ moved' = TRUE
    /\ UNCHANGED <<storeVars, script>>

\* A late redirect to the sign-in, or the user approves the push notification.
PageMoves ==
    /\ pc \in SigningIn
    /\ \/ page = "start" /\ page' = "sas"
       \/ page = "push" /\ page' = "portal"
    /\ World /\ UNCHANGED <<pc, failed, capture, untouched>>

\* Mutant: two listeners capture each response.
CaptureTwice ==
    /\ pc = "capture"
    /\ \E r \in coming :
          /\ coming' = coming \ {r}
          /\ captured' = captured + 2 /\ weeks' = MergedWith(weeks, r)
    /\ World /\ UNCHANGED <<pc, failed, page, clicks, warned, untouched>>

\* The listener gets a response, reads its body and captures the week; those that
\* come after the weeks were merged make no difference ...
Capture ==
    /\ pc = "capture"
    /\ \E r \in coming :
          /\ coming' = coming \ {r}
          /\ captured' = captured + 1 /\ weeks' = MergedWith(weeks, r)
    /\ World /\ UNCHANGED <<pc, failed, page, clicks, warned, untouched>>

\* ... unless the portal answers with an error or the body cannot be read.
ResponseLost ==
    /\ pc = "capture"
    /\ \E r \in coming : coming' = coming \ {r}
    /\ World /\ UNCHANGED <<pc, failed, page, clicks, captured, weeks, warned, untouched>>

-----------------------------------------------------------------------------
(* The script *)

\* The scheduler starts a container for a new attempt.
Start(a) ==
    /\ pc = "exited" /\ NewLog(a)
    /\ pc' = "credentials" /\ cur' = a /\ page' = "start" /\ failed' = FALSE
    /\ Forget /\ warned' = FALSE /\ base' = now
    /\ ticked' = (ticked /\ \E b \in Attempts : Open(b)) /\ moved' = FALSE /\ silent' = FALSE
    /\ UNCHANGED <<now, account, shifts, req, dropped, portal, changes>>

\* fetchCredentials, and the launch of the browser.
FetchCredentials ==
    /\ pc = "credentials"
    /\ \/ log[cur] = "running" /\ Go("login")
       \/ Go("report")
    /\ World /\ UNCHANGED <<page, capture, untouched>>

\* Step 1: LOGIN_URL is loaded, and its redirects are followed or not yet. The
\* title that was read in vain is the empty one.
Login ==
    /\ pc = "login" /\ page' \in {"start", "sas"}
    /\ Go("username") \/ Go("authenticate")
    /\ World /\ UNCHANGED <<capture, untouched>>

\* typeInto, submitForm
Username ==
    /\ pc = "username" /\ page = "sas"
    /\ page' \in {"sas", "push", "portal"} /\ Go("authenticate")
    /\ World /\ UNCHANGED <<capture, untouched>>

\* Step 2: pollUntil sees the domain, or the bypass, or its time is over.
Authenticate ==
    /\ pc = "authenticate"
    /\ \/ Go("home")
       \/ page = "push" /\ Go("bypass")
    /\ World /\ UNCHANGED <<page, capture, untouched>>

\* The link is clicked if it is still there.
Bypass ==
    /\ pc = "bypass" /\ Go("answer")
    /\ page' = IF page = "push" THEN "question" ELSE page
    /\ World /\ UNCHANGED <<capture, untouched>>

\* findSecurityAnswer falls back to the first one, which may be wrong.
Answer ==
    /\ pc = "answer" /\ page \in Asking
    /\ page' \in Asking /\ Go("password")
    /\ World /\ UNCHANGED <<capture, untouched>>

\* The password goes into whatever password field is visible.
Password ==
    /\ pc = "password" /\ page \in Asking
    /\ page' \in (IF page = "password" THEN Asking \cup {"portal"} ELSE Asking) /\ Go("home")
    /\ World /\ UNCHANGED <<capture, untouched>>

\* Step 3: the schedule page, which only a user who is signed in gets, asks for
\* the current week.
Home ==
    /\ pc = "home" /\ page = "portal" /\ Go("capture")
    /\ base' = now /\ coming' = {AtPortal(0, now)}
    /\ World /\ UNCHANGED <<page, clicks, captured, weeks, warned, cur, ticked, silent>>

\* Step 4: one click back, the others forth. A click does not need the response of
\* the one before: any response, or none for eight seconds, ends the wait.
Shown(n) == IF n <= WEEKS_EACH_DIRECTION THEN base - n ELSE base + n - 2 * WEEKS_EACH_DIRECTION

Click ==
    /\ pc = "capture" /\ clicks < 3 * WEEKS_EACH_DIRECTION
    /\ clicks' = clicks + 1 /\ coming' = coming \cup {AtPortal(clicks + 1, Shown(clicks + 1))}
    /\ World /\ UNCHANGED <<pc, failed, page, captured, weeks, warned, untouched>>

\* Mutant: the week that is shown twice is counted once.
CountsDistinct ==
    /\ pc = "capture" /\ clicks = 3 * WEEKS_EACH_DIRECTION
    /\ Go("post") /\ warned' = (captured < Expected - 1)
    /\ coming' = {}
    /\ World /\ UNCHANGED <<page, clicks, captured, weeks, untouched>>

\* pollUntil sees the expected number of weeks, or its time is over.
Trailing ==
    /\ pc = "capture" /\ clicks = 3 * WEEKS_EACH_DIRECTION
    /\ Go("post") /\ warned' = (captured < Expected)
    /\ coming' = {}
    /\ World /\ UNCHANGED <<page, clicks, captured, weeks, untouched>>

\* Step 5: the weeks are merged and sent.
Post ==
    /\ pc = "post" /\ Go("posted")
    /\ \E body \in InOrder(Entries(weeks)) : Submit(cur, body)
    /\ Forget /\ UNCHANGED <<portal, changes, moved, page, warned, untouched>>

Posted ==
    /\ pc = "posted" /\ req[cur].at = "answered" /\ Go("close")
    /\ World /\ UNCHANGED <<page, capture, untouched>>

\* An await throws: a wait or the browser timed out, a call was rejected, or its
\* answer is lost. The finally block closes the browser.
Throw ==
    /\ pc \in Browsing /\ pc' = "close" /\ failed' = TRUE
    /\ Forget /\ World /\ UNCHANGED <<page, warned, untouched>>

\* The browser is closed, or cannot be, which is an error too.
Close ==
    /\ pc = "close"
    /\ (pc' = "exited" /\ ~failed) \/ pc' = "report"
    /\ failed' = FALSE
    /\ World /\ UNCHANGED <<page, capture, untouched>>

\* Mutant: there is nothing to report before there is a page.
ReportAfterBrowsing ==
    /\ pc = "report" /\ Go("exited")
    /\ IF page = "start" THEN UNCHANGED log ELSE ReportFailure(cur)
    /\ page' = "start"
    /\ UNCHANGED <<now, account, shifts, req, dropped, portal, changes, moved, capture, untouched>>

\* run().catch: the failure is reported ...
Report ==
    /\ pc = "report" /\ Go("exited") /\ ReportFailure(cur)
    /\ page' = "start"
    /\ UNCHANGED <<now, account, shifts, req, dropped, portal, changes, moved, capture, untouched>>

\* ... or the report is lost, or the reaper kills the container.
Silenced ==
    /\ pc \in Running /\ pc' = "exited" /\ silent' = TRUE
    /\ failed' = FALSE /\ warned' = FALSE /\ page' = "start" /\ Forget
    /\ World /\ UNCHANGED <<cur, base, ticked>>

Step == \/ FetchCredentials \/ Login \/ Username \/ Authenticate \/ Bypass \/ Answer \/ Password
        \/ Home \/ Click \/ Trailing \/ Post \/ Posted \/ Throw \/ Close \/ Report \/ Silenced

-----------------------------------------------------------------------------
(* The server, and a scrape of the same user that overlaps and posts while *)
(* this one does                                                           *)

Server ==
    /\ \/ \E a \in Attempts : Handler(a) \/ Cut(a) \/ Reap(a)
       \/ DeleteAccount \/ Retention
    /\ UNCHANGED <<portal, changes, moved, script>>

OtherStarts(a) ==
    /\ pc = "posted" /\ a # cur /\ NewLog(a)
    /\ UNCHANGED <<now, account, shifts, req, dropped, portal, changes, moved, script>>

OtherPosts(a) ==
    /\ pc = "posted" /\ a # cur
    /\ \E body \in InOrder(Entries({AtPortal(0, w) : w \in Window})) : Submit(a, body)
    /\ UNCHANGED <<portal, changes, moved, script>>

\* A script and its request are over within minutes: the waits end, and the reaper
\* kills what is left after scrapeTimeout.
Busy == pc \in Running \/ \E a \in Attempts : Open(a)

NextWeek ==
    /\ now < MaxWeek /\ (Busy => ~ticked)
    /\ Week /\ ticked' = Busy
    /\ UNCHANGED <<portal, changes, moved, pc, cur, page, failed, capture, base, silent>>

Next ==
    \/ Step \/ Server \/ NextWeek \/ PortalChanges \/ PageMoves \/ Capture \/ ResponseLost
    \/ \E a \in Attempts : Start(a) \/ OtherStarts(a) \/ OtherPosts(a)

Spec == Init /\ [][Next]_vars

-----------------------------------------------------------------------------
TypeOK ==
    /\ StoreTypeOK
    /\ portal \in [Ids -> Int] /\ changes \in 0..MaxChanges /\ moved \in BOOLEAN
    /\ pc \in Running \cup {"exited"} /\ cur \in Attempts \cup {NoAttempt}
    /\ page \in {"start", "sas", "push", "portal"} \cup Asking
    /\ {failed, warned, silent, ticked} \subseteq BOOLEAN
    /\ clicks \in 0..(3 * WEEKS_EACH_DIRECTION) /\ base \in 0..MaxWeek
    /\ coming \cup weeks \subseteq [n : 0..clicks, week : Int, ids : SUBSET Ids]
    /\ captured \in Nat /\ captured + Cardinality(coming) <= clicks + 1

Ended == pc = "exited" /\ cur # NoAttempt /\ ~silent

\* run: when a scrape succeeds and nothing moved on the portal meanwhile, every
\* readable shift of the current week is in the table, and those of at most one
\* neighbour are missing unless the log has the warning.
SuccessFindsSchedule ==
    Ended /\ account /\ log[cur] = "success" /\ ~moved /\ ~warned =>
        \E w \in {base - 1, base + 1} : \A id \in Ids : portal[id] \in Window \ {w} => Kept(id)

\* run, run().catch: a script that ends leaves its log successful or failed,
\* wherever it threw, unless it was killed or its report lost.
EndReported == Ended => log[cur] # "running"

\* runRetention: what it deletes does not come back: no scrape still sees it.
NeverRevived ==
    [][\A e \in dropped : e.id \in DOMAIN shifts' \ DOMAIN shifts => shifts'[e.id] # e.week]_vars

\* "Your schedule will stay up to date automatically."
FeedFollowsPortal ==
    Ended /\ log[cur] = "success" /\ ~moved =>
        \A j \in DOMAIN req[cur].body :
            LET e == req[cur].body[j] IN e.id \in Feed => shifts[e.id] = e.week
=============================================================================
