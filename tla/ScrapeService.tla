--------------------------- MODULE ScrapeService ---------------------------
(***************************************************************************)
(* The life of a scrape: internal/scraper/service.go (the scheduler, the   *)
(* goroutines that start containers, the reaper), the callback handlers of *)
(* cmd/app/handlers_scrape_callback.go and the container they talk to      *)
(* (scraper/scrape.js), with the handlers that store credentials, delete   *)
(* an account or trigger a scrape by hand.                                 *)
(*                                                                         *)
(* The database has one connection (database/sqlite.go), so each statement *)
(* is atomic and one action performs at most one writing statement.        *)
(* Between two statements anything may happen: a goroutine, a handler and  *)
(* the reaper act on what they read earlier.                               *)
(*                                                                         *)
(* Time is abstracted: a schedule in the future may become due at any      *)
(* moment, and the reaper's cutoff selects any set of running logs.        *)
(***************************************************************************)
EXTENDS Naturals, FiniteSets

CONSTANTS
    Users,          \* the user ids
    NoUser,         \* the user of an unused slot
    Attempts,       \* slots; one holds one scrape_logs id, its goroutine,
                    \* its container and its callback request
    NoAttempt,      \* no entry of the reaper's snapshot is being processed
    MaxRetries,     \* maxRetries
    MaxConcurrent,  \* maxConcurrentScrapes, the capacity of the channel sem
    MaxCrashes      \* bound: crashes of the server

ASSUME NoUserAssumption == NoUser \notin Users
ASSUME NoAttemptAssumption == NoAttempt \notin Attempts
ASSUME AttemptsAssumption == IsFiniteSet(Attempts)
ASSUME NumbersAssumption ==
    /\ MaxRetries \in Nat /\ MaxConcurrent \in Nat \ {0}
    /\ MaxCrashes \in Nat

VARIABLES
    users,      \* rows of table users; a deleted id is never issued again
    creds,      \* users with a row in starbucks_credentials
    writing,    \* users whose writeCredentials is between its two INSERTs
    cut,        \* history: users without a schedule whose last request was cut there
    schedule,   \* scrape_schedule.next_scrape_at: "none" is no row
    att,        \* the attempts
    sem,        \* length of the channel sem
    pc,         \* where the scheduler's goroutine is
    todo,       \* the reaper's snapshot (stale): entries not yet done
    known,      \* those of the snapshot with a container_id
    cur,        \* the snapshot entry the reaper is working on
    crashes

vars == <<users, creds, writing, cut, schedule, att, sem, pc, todo, known, cur, crashes>>
reaper == <<todo, known, cur>>
tables == <<users, creds, writing, cut>>

-----------------------------------------------------------------------------
(* Attempts                                                                *)

\* Steps of the goroutine; in all but the first two it holds a place in sem.
Holding == {"insert", "create", "record", "start", "mark", "marked"}
Goroutine == {"idle", "waiting"} \cup Holding

\* started: fetching credentials; closing: shifts sent; failing: reports an error
Alive == {"started", "browsing", "closing", "failing"}

Attempt == [user : Users \cup {NoUser}, auto : BOOLEAN, retry : 0..MaxRetries,
            polled : BOOLEAN,    \* processDueScrapes waits for its goroutine
            go : Goroutine,
            row : {"none", "running", "success", "failure"},
            cid : BOOLEAN,       \* container_id IS NOT NULL
            fetched : BOOLEAN,   \* credentials_fetched_at IS NOT NULL
            ctr : {"none"} \cup Alive,
            cb : {"none", "creds", "shifts", "shiftsMarked", "fail", "failMarked"}]

NewAttempt(u, auto, retry, polled, go) ==
    [user |-> u, auto |-> auto, retry |-> retry, polled |-> polled, go |-> go,
     row |-> "none", cid |-> FALSE, fetched |-> FALSE, ctr |-> "none", cb |-> "none"]

Blank == NewAttempt(NoUser, FALSE, 0, FALSE, "idle")

\* Nothing in this component reads the log of such an attempt again.
Over(r) == r.go = "idle" /\ r.row # "running" /\ r.ctr = "none" /\ r.cb = "none"

\* The slots whose attempts are over become free, except those the reaper's
\* snapshot S still names.
Tidy(f, S) == [a \in Attempts |-> IF a \notin S /\ Over(f[a]) THEN Blank ELSE f[a]]
Free(f, S) == {a \in Attempts \ S : f[a] = Blank}

Update(a, r) == att' = Tidy([att EXCEPT ![a] = r], todo)

Holders == {a \in Attempts : att[a].go \in Holding}

-----------------------------------------------------------------------------
Init ==
    /\ users = Users
    /\ creds = {} /\ writing = {} /\ cut = {}
    /\ schedule = [u \in Users |-> "none"]
    /\ att = [a \in Attempts |-> Blank]
    /\ sem = 0
    /\ pc = "idle" /\ todo = {} /\ known = {} /\ cur = NoAttempt
    /\ crashes = 0

\* Mutant: PRAGMA foreign_keys is off.
NoForeignKey(u) == TRUE

\* The foreign key users(id) of every other table.
ForeignKey(u) == u \in users

\* Mutant: the comparison is off by one.
RetryOnceMore(r) == r.auto /\ r.retry <= MaxRetries

\* An automatic attempt is retried up to maxRetries times.
MayRetry(r) == r.auto /\ r.retry < MaxRetries

\* Mutant: ScheduleNext updates no row.
AdvanceNothing(u) == schedule

\* ScheduleNext is an UPDATE: without a row it does nothing.
Advance(u) == IF schedule[u] = "none" THEN schedule ELSE [schedule EXCEPT ![u] = "later"]

\* TriggerScrape: a goroutine that first waits for a place in sem.
TriggerScrape(u) == \E b \in Free(att, todo) :
    att' = [att EXCEPT ![b] = NewAttempt(u, FALSE, 0, FALSE, "waiting")]

\* HandleScrapeFailure for attempt a, in the state where the attempts are f
\* and the snapshot is S: an automatic attempt is retried by a new goroutine,
\* any other one is rescheduled, as is one whose log is gone.
HandleScrapeFailure(a, f, S) ==
    IF f[a].row # "none" /\ MayRetry(f[a])
    THEN LET g == Tidy(f, S)
         IN  /\ \E b \in Free(g, S) :
                  att' = [g EXCEPT ![b] =
                            NewAttempt(f[a].user, TRUE, f[a].retry + 1, FALSE, "waiting")]
             /\ schedule' = schedule
    ELSE att' = Tidy(f, S) /\ schedule' = Advance(f[a].user)

-----------------------------------------------------------------------------
(* Requests of users and of the admin                                      *)

\* writeCredentials: the upsert of the credentials. The foreign key rejects it
\* once the account is gone.
StoreCredentials(u) ==
    /\ ForeignKey(u)
    /\ creds' = creds \cup {u} /\ writing' = writing \cup {u}
    /\ UNCHANGED <<users, cut, schedule, att, sem, pc, reaper, crashes>>

Unscheduled(U) == {u \in U : schedule[u] = "none"}

\* The request goes on after its first INSERT.
GoOn(u) == u \in writing /\ writing' = writing \ {u} /\ cut' = cut \ {u}

\* Mutant: the schedule is updated, not inserted.
UpdateAndTrigger(u) ==
    /\ GoOn(u)
    /\ schedule' = IF schedule[u] = "none" THEN schedule ELSE [schedule EXCEPT ![u] = "due"]
    /\ TriggerScrape(u)
    /\ UNCHANGED <<users, creds, sem, pc, reaper, crashes>>

\* ... then the upsert of the schedule, whose error is ignored, and the trigger.
ScheduleAndTrigger(u) ==
    /\ GoOn(u)
    /\ schedule' = IF ForeignKey(u) THEN [schedule EXCEPT ![u] = "due"] ELSE schedule
    /\ TriggerScrape(u)
    /\ UNCHANGED <<users, creds, sem, pc, reaper, crashes>>

\* The browser disconnects in between: the request's context is cancelled, the
\* schedule's upsert fails, and the scrape is triggered all the same.
WriteCancelled(u) ==
    /\ u \in writing
    /\ writing' = writing \ {u} /\ cut' = cut \cup Unscheduled({u})
    /\ TriggerScrape(u)
    /\ UNCHANGED <<users, creds, schedule, sem, pc, reaper, crashes>>

\* deleteAccount: DELETE FROM users, and ON DELETE CASCADE.
DeleteAccount(u) ==
    /\ u \in users
    /\ users' = users \ {u} /\ creds' = creds \ {u} /\ cut' = cut \ {u}
    /\ schedule' = [schedule EXCEPT ![u] = "none"]
    /\ att' = Tidy([a \in Attempts |->
                      IF att[a].user = u THEN [att[a] EXCEPT !.row = "none"] ELSE att[a]], todo)
    /\ UNCHANGED <<writing, sem, pc, reaper, crashes>>

\* adminTriggerScrape does not look the user up.
AdminTrigger(u) ==
    /\ TriggerScrape(u)
    /\ UNCHANGED <<tables, schedule, sem, pc, reaper, crashes>>

-----------------------------------------------------------------------------
(* The scheduler: RunScheduler, processDueScrapes, reapTimedOutContainers  *)

BecomesDue(u) ==
    /\ schedule[u] = "later"
    /\ schedule' = [schedule EXCEPT ![u] = "due"]
    /\ UNCHANGED <<tables, att, sem, pc, reaper, crashes>>

DueUsers == {u \in Users : schedule[u] = "due"}

\* The tick: a goroutine for each due user. next_scrape_at stays as it is.
PollDue ==
    /\ pc = "idle" /\ pc' = "wait"
    /\ \E slot \in [DueUsers -> Free(att, todo)] :
          /\ \A u, v \in DueUsers : slot[u] = slot[v] => u = v
          /\ att' = [a \in Attempts |->
                       IF \E u \in DueUsers : slot[u] = a
                       THEN NewAttempt(CHOOSE u \in DueUsers : slot[u] = a,
                                       TRUE, 0, TRUE, "waiting")
                       ELSE att[a]]
    /\ UNCHANGED <<tables, schedule, sem, reaper, crashes>>

\* The query fails: nothing is started at this tick.
PollFails ==
    /\ pc = "idle" /\ pc' = "wait"
    /\ UNCHANGED <<tables, schedule, att, sem, reaper, crashes>>

\* The reaper's SELECT found the logs S.
Snapshot(S) ==
    /\ todo' = S /\ known' = {a \in S : att[a].cid}
    /\ pc' = IF S = {} THEN "idle" ELSE "reap"
    /\ UNCHANGED <<tables, schedule, att, sem, cur, crashes>>

\* Mutant: processDueScrapes returns without wg.Wait.
ReapWithoutWait(S) ==
    /\ pc = "wait"
    /\ S \subseteq {a \in Attempts : att[a].row = "running"}
    /\ Snapshot(S)

\* Mutant: the snapshot leaves out logs without a container id.
ReapKnownOnly(S) ==
    /\ pc = "wait"
    /\ \A a \in Attempts : att[a].polled => att[a].go = "idle"
    /\ S \subseteq {a \in Attempts : att[a].row = "running" /\ att[a].cid}
    /\ Snapshot(S)

\* wg.Wait, then the SELECT of the running logs older than scrapeTimeout.
ReapQuery(S) ==
    /\ pc = "wait"
    /\ \A a \in Attempts : att[a].polled => att[a].go = "idle"
    /\ S \subseteq {a \in Attempts : att[a].row = "running"}
    /\ Snapshot(S)

\* ContainerKill, if the snapshot had a container id. Its error is dropped: the
\* container may live on, and the reaper goes on all the same.
ReapKill(a) ==
    /\ pc = "reap" /\ a \in todo
    /\ pc' = "mark" /\ cur' = a
    /\ \/ a \in known /\ att' = [att EXCEPT ![a].ctr = "none"]
       \/ att' = att
    /\ UNCHANGED <<tables, schedule, sem, todo, known, crashes>>

\* UPDATE ... SET status = 'failure' WHERE id = ?, whatever the status is now.
ReapMark ==
    /\ pc = "mark" /\ pc' = "handle"
    /\ att' = [att EXCEPT ![cur].row = IF @ = "none" THEN @ ELSE "failure"]
    /\ UNCHANGED <<tables, schedule, sem, reaper, crashes>>

ReapHandle ==
    /\ pc = "handle"
    /\ todo' = todo \ {cur} /\ known' = known \ {cur} /\ cur' = NoAttempt
    /\ pc' = IF todo' = {} THEN "idle" ELSE "reap"
    /\ HandleScrapeFailure(cur, att, todo \ {cur})
    /\ UNCHANGED <<tables, sem, crashes>>

-----------------------------------------------------------------------------
(* The goroutine of an attempt: scrapeForUser, runScrapeContainer          *)

Acquire(a) ==
    /\ att[a].go = "waiting" /\ sem < MaxConcurrent
    /\ sem' = sem + 1
    /\ att' = [att EXCEPT ![a].go = "insert"]
    /\ UNCHANGED <<tables, schedule, pc, reaper, crashes>>

\* Mutant: the early return keeps its place in sem.
KeepPlace(a) ==
    /\ att[a].go = "insert"
    /\ IF ForeignKey(att[a].user)
       THEN att' = [att EXCEPT ![a].go = "create", ![a].row = "running"]
       ELSE Update(a, [att[a] EXCEPT !.go = "idle"])
    /\ UNCHANGED <<tables, schedule, sem, pc, reaper, crashes>>

\* INSERT INTO scrape_logs; the foreign key rejects a deleted user, and the
\* goroutine returns.
InsertLog(a) ==
    /\ att[a].go = "insert"
    /\ IF ForeignKey(att[a].user)
       THEN /\ att' = [att EXCEPT ![a].go = "create", ![a].row = "running"]
            /\ sem' = sem
       ELSE /\ Update(a, [att[a] EXCEPT !.go = "idle"])
            /\ sem' = sem - 1
    /\ UNCHANGED <<tables, schedule, pc, reaper, crashes>>

\* Mutant: the container is started without recording its id.
StartUnrecorded(a) ==
    /\ att[a].go = "create"
    /\ \E next \in {"start", "mark"} : att' = [att EXCEPT ![a].go = next]
    /\ UNCHANGED <<tables, schedule, sem, pc, reaper, crashes>>

\* pullImage and ContainerCreate.
CreateContainer(a) ==
    /\ att[a].go = "create"
    /\ \E next \in {"record", "mark"} : att' = [att EXCEPT ![a].go = next]
    /\ UNCHANGED <<tables, schedule, sem, pc, reaper, crashes>>

RecordContainer(a) ==
    /\ att[a].go = "record"
    /\ att' = [att EXCEPT ![a].go = "start", ![a].cid = (att[a].row # "none")]
    /\ UNCHANGED <<tables, schedule, sem, pc, reaper, crashes>>

\* ContainerStart; the goroutine ends and gives its place back.
StartContainer(a) ==
    /\ att[a].go = "start"
    /\ att' = [att EXCEPT ![a].go = "idle", ![a].ctr = "started"]
    /\ sem' = sem - 1
    /\ UNCHANGED <<tables, schedule, pc, reaper, crashes>>

StartFails(a) ==
    /\ att[a].go = "start"
    /\ att' = [att EXCEPT ![a].go = "mark"]
    /\ UNCHANGED <<tables, schedule, sem, pc, reaper, crashes>>

\* UPDATE ... SET status = 'failure' after runScrapeContainer returned an error.
MarkStartFailure(a) ==
    /\ att[a].go = "mark"
    /\ att' = [att EXCEPT ![a].go = "marked", ![a].row = IF @ = "none" THEN @ ELSE "failure"]
    /\ UNCHANGED <<tables, schedule, sem, pc, reaper, crashes>>

\* The recursive call: the same goroutine, with its place in sem, goes on with
\* a new log.
RetryStart(a) ==
    /\ att[a].go = "marked"
    /\ MayRetry(att[a])
    /\ LET g == Tidy([att EXCEPT ![a].go = "idle"], todo)
       IN  \E b \in Free(g, todo) :
              att' = [g EXCEPT ![b] = NewAttempt(att[a].user, TRUE, att[a].retry + 1,
                                                 att[a].polled, "insert")]
    /\ UNCHANGED <<tables, schedule, sem, pc, reaper, crashes>>

GiveUpStart(a) ==
    /\ att[a].go = "marked"
    /\ ~MayRetry(att[a])
    /\ schedule' = Advance(att[a].user)
    /\ sem' = sem - 1
    /\ Update(a, [att[a] EXCEPT !.go = "idle"])
    /\ UNCHANGED <<tables, pc, reaper, crashes>>

-----------------------------------------------------------------------------
(* The container and the callback handlers it calls. A handler may outlive  *)
(* its container: the reaper kills the container while a request is served. *)

\* GET credentials: the SELECT of the running log and LoadCredentials, or an
\* error that makes the scraper report a failure.
FetchCredentials(a) ==
    /\ att[a].ctr = "started" /\ att[a].cb = "none"
    /\ IF att[a].row = "running" /\ ~att[a].fetched /\ att[a].user \in creds
       THEN att' = [att EXCEPT ![a].cb = "creds"]
       ELSE att' = [att EXCEPT ![a].ctr = "failing"]
    /\ UNCHANGED <<tables, schedule, sem, pc, reaper, crashes>>

\* A request is answered: its container, if it still lives, goes on with ctr.
Answered(r, ctr) == [r EXCEPT !.cb = "none", !.ctr = IF @ = "none" THEN @ ELSE ctr]

ServeCredentials(a) ==
    /\ att[a].cb = "creds"
    /\ Update(a, [Answered(att[a], "browsing") EXCEPT !.fetched = (att[a].row # "none")])
    /\ UNCHANGED <<tables, schedule, sem, pc, reaper, crashes>>

\* POST shifts: the SELECT of the running log; 404 makes the scraper fail.
PostShifts(a) ==
    /\ att[a].ctr = "browsing" /\ att[a].cb = "none"
    /\ att' = IF att[a].row = "running"
              THEN [att EXCEPT ![a].cb = "shifts"]
              ELSE [att EXCEPT ![a].ctr = "failing"]
    /\ UNCHANGED <<tables, schedule, sem, pc, reaper, crashes>>

\* The shifts' INSERTs and UPDATE ... SET status = 'success' WHERE id = ?.
MarkSuccess(a) ==
    /\ att[a].cb = "shifts"
    /\ att' = [att EXCEPT ![a].cb = "shiftsMarked", ![a].row = IF @ = "none" THEN @ ELSE "success"]
    /\ UNCHANGED <<tables, schedule, sem, pc, reaper, crashes>>

FinishShifts(a) ==
    /\ att[a].cb = "shiftsMarked"
    /\ schedule' = Advance(att[a].user)
    /\ Update(a, Answered(att[a], "closing"))
    /\ UNCHANGED <<tables, sem, pc, reaper, crashes>>

\* Any error in run(): a page that does not load, or browser.close() after the
\* shifts were sent.
ScrapeError(a) ==
    /\ att[a].ctr \in {"started", "browsing", "closing"} /\ att[a].cb = "none"
    /\ att' = [att EXCEPT ![a].ctr = "failing"]
    /\ UNCHANGED <<tables, schedule, sem, pc, reaper, crashes>>

\* POST failure: the SELECT of the running log. Whatever the answer, the script
\* then calls process.exit: an answered report ends the container.
PostFailure(a) ==
    /\ att[a].ctr = "failing" /\ att[a].cb = "none"
    /\ att' = IF att[a].row = "running"
              THEN [att EXCEPT ![a].cb = "fail"]
              ELSE Tidy([att EXCEPT ![a].ctr = "none"], todo)
    /\ UNCHANGED <<tables, schedule, sem, pc, reaper, crashes>>

MarkReportedFailure(a) ==
    /\ att[a].cb = "fail"
    /\ att' = [att EXCEPT ![a].cb = "failMarked", ![a].row = IF @ = "none" THEN @ ELSE "failure"]
    /\ UNCHANGED <<tables, schedule, sem, pc, reaper, crashes>>

FinishFailure(a) ==
    /\ att[a].cb = "failMarked"
    /\ HandleScrapeFailure(a, [att EXCEPT ![a] = Answered(@, "none")], todo)
    /\ UNCHANGED <<tables, sem, pc, reaper, crashes>>

\* Mutant: a report that does not bind is handled as a failure, and the log stays.
RejectAndRetry(a) ==
    /\ att[a].cb \in {"shifts", "fail"}
    /\ IF att[a].cb = "shifts"
       THEN Update(a, Answered(att[a], "failing")) /\ schedule' = schedule
       ELSE HandleScrapeFailure(a, [att EXCEPT ![a] = Answered(@, "none")], todo)
    /\ UNCHANGED <<tables, sem, pc, reaper, crashes>>

\* A body that does not bind (over the size limit, wrong types): 400, and the
\* log stays running.
RejectBody(a) ==
    /\ att[a].cb \in {"shifts", "fail"}
    /\ Update(a, Answered(att[a], IF att[a].cb = "shifts" THEN "failing" ELSE "none"))
    /\ UNCHANGED <<tables, schedule, sem, pc, reaper, crashes>>

\* The container is dead, so the request's context is cancelled and the
\* handler's remaining statements fail.
CallbackAborted(a) ==
    /\ att[a].cb # "none" /\ att[a].ctr = "none"
    /\ Update(a, [att[a] EXCEPT !.cb = "none"])
    /\ UNCHANGED <<tables, schedule, sem, pc, reaper, crashes>>

\* The end of the script, or of a container that crashes or runs out of memory.
ContainerExits(a) ==
    /\ att[a].ctr # "none"
    /\ Update(a, [att[a] EXCEPT !.ctr = "none"])
    /\ UNCHANGED <<tables, schedule, sem, pc, reaper, crashes>>

-----------------------------------------------------------------------------
\* The server dies and is started again: its goroutines, its handlers and the
\* channel are gone, the database and the containers stay. A container whose
\* request was lost sees an error.
Crash ==
    /\ crashes < MaxCrashes /\ crashes' = crashes + 1
    /\ writing' = {} /\ cut' = cut \cup Unscheduled(writing) /\ sem' = 0
    /\ pc' = "idle" /\ todo' = {} /\ known' = {} /\ cur' = NoAttempt
    /\ att' = Tidy([a \in Attempts |->
                      [att[a] EXCEPT !.go = "idle", !.cb = "none",
                         !.ctr = IF att[a].cb = "none" \/ @ = "none" THEN @
                                 ELSE IF @ = "failing" THEN "none" ELSE "failing"]], {})
    /\ UNCHANGED <<users, creds, schedule>>

Scheduler == PollDue \/ PollFails \/ (\E S \in SUBSET Attempts : ReapQuery(S))
                \/ (\E a \in Attempts : ReapKill(a)) \/ ReapMark \/ ReapHandle

Starter(a) == Acquire(a) \/ InsertLog(a) \/ CreateContainer(a) \/ RecordContainer(a)
                \/ StartContainer(a) \/ StartFails(a) \/ MarkStartFailure(a)
                \/ RetryStart(a) \/ GiveUpStart(a)

Handler(a) == ServeCredentials(a) \/ MarkSuccess(a) \/ FinishShifts(a)
                \/ MarkReportedFailure(a) \/ FinishFailure(a) \/ RejectBody(a)
                \/ CallbackAborted(a)

Container(a) == FetchCredentials(a) \/ PostShifts(a) \/ ScrapeError(a)
                \/ PostFailure(a) \/ ContainerExits(a)

Request(u) == StoreCredentials(u) \/ ScheduleAndTrigger(u) \/ WriteCancelled(u)
                \/ DeleteAccount(u) \/ AdminTrigger(u)

Next == \/ Scheduler \/ Crash
        \/ \E a \in Attempts : Starter(a) \/ Handler(a) \/ Container(a)
        \/ \E u \in Users : Request(u) \/ BecomesDue(u)

Spec == Init /\ [][Next]_vars

-----------------------------------------------------------------------------
(* Fairness                                                                *)

\* A handler's last statement, after which the user's schedule is put off.
PutOff(a) == (FinishShifts(a) \/ FinishFailure(a)) /\ schedule' # schedule

\* The server's goroutines are scheduled and their statements and docker calls
\* return; the ticker fires for ever. The due query does not fail for ever, a
\* log that stays running gets older than the cutoff, and a container does not
\* die every time just before its outcome is put into the schedule. Nothing is
\* assumed of users, of crashes or of the containers.
Fairness ==
    /\ WF_vars(Scheduler)
    /\ SF_vars(\E a \in Attempts : PutOff(a))
    /\ \A a \in Attempts :
          /\ SF_vars(\E S \in SUBSET Attempts : a \in S /\ ReapQuery(S))
          /\ WF_vars(Starter(a)) /\ WF_vars(Handler(a))

\* A scraper whose log is not running any more comes to its end: all the waits
\* of scrape.js have timeouts. Only because the slots of the model are finitely
\* many do the liveness properties below need it.
ScraperEnds == \A a \in Attempts :
    WF_vars(att[a].row # "running" /\ att[a].cb = "none" /\ ContainerExits(a))

FairSpec == Spec /\ Fairness /\ SF_vars(PollDue)

-----------------------------------------------------------------------------
(* Safety                                                                  *)

TypeOK ==
    /\ {users, creds, writing, cut} \subseteq SUBSET Users
    /\ schedule \in [Users -> {"none", "due", "later"}]
    /\ att \in [Attempts -> Attempt]
    /\ sem \in Nat
    /\ pc \in {"idle", "wait", "reap", "mark", "handle"}
    /\ todo \subseteq Attempts /\ known \subseteq todo
    /\ cur \in Attempts \cup {NoAttempt}
    /\ crashes \in 0..MaxCrashes

\* Nothing of a deleted account is left or comes back, although handlers, the
\* goroutines and the reaper go on with ids they read before the deletion.
NoOrphanRows == \A u \in Users \ users :
    /\ u \notin creds /\ schedule[u] = "none"
    /\ \A a \in Attempts : att[a].user = u => att[a].row = "none"

\* Whoever has credentials is in the schedule, through deletions, overlapping
\* saves, retries and reapings, unless the request that saved them is between its
\* two statements or was cut there. The next complete request repairs that.
ScheduledUnlessCut == \A u \in creds \ (writing \cup cut) : schedule[u] # "none"

\* sem counts the goroutines between acquire and release on every path of
\* scrapeForUser (its early return, its recursion), and at most
\* maxConcurrentScrapes of them start containers at a time.
SemaphoreAccounting == sem = Cardinality(Holders) /\ sem <= MaxConcurrent

\* A live container of a running log can be found by its recorded id: the id is
\* written before the container is started.
KillableContainer == \A a \in Attempts :
    att[a].row = "running" /\ att[a].ctr # "none" => att[a].cid

\* The reaper misses no container of the scheduler's own tick: when it fails the
\* log of such an attempt, it has tried to kill the container, if there is one,
\* and no goroutine will start one later, through retries in the same goroutine
\* too. Without wg.Wait it would miss some; a kill that docker refuses leaves the
\* container alive.
ReaperMissesNone ==
    pc \in {"mark", "handle"} /\ att[cur].polled =>
        att[cur].go = "idle" /\ (att[cur].ctr # "none" => cur \in known)

-----------------------------------------------------------------------------
(* The promise                                                             *)

\* What the promise speaks of, of an attempt.
Job(r) == [user |-> r.user, auto |-> r.auto, retry |-> r.retry,
           log |-> r.row, handed |-> r.fetched]

Promise == INSTANCE ScrapeJob WITH
    Slots <- Attempts,
    job <- [a \in Attempts |-> Job(att[a])]

\* Goroutines, callbacks, the reaper with its stale snapshot, deletions and
\* crashes together keep the promise of ScrapeJob: whatever they do is what a
\* scrape may do there, or nothing.
KeepsPromise == Promise!Spec

-----------------------------------------------------------------------------
(* Liveness                                                                *)

\* No log stays running for ever: the reaper resolves what no callback does,
\* also after a crash, a lost or rejected report or a hung container.
RunningIsResolved == \A a \in Attempts :
    att[a].row = "running" ~> att[a].row # "running"

\* A due user is scraped until an outcome puts the schedule off, through failed
\* starts, retries of the goroutine, of a handler and of the reaper, kills that
\* docker refuses, a crash and lost requests.
DueIsServed == \A u \in Users : schedule[u] = "due" ~> schedule[u] # "due"

-----------------------------------------------------------------------------
(* What comments and the README say, and the code does not do               *)

\* README.md: "Scrapes run automatically every 16-24 hours". The schedule is
\* put off only at the end of a scrape, so a later tick starts another one.
OneAutomaticScrape == \A a, b \in Attempts :
    /\ att[a].polled /\ att[a].row = "running"
    /\ att[b].polled /\ att[b].row = "running"
    /\ att[a].user = att[b].user /\ att[a].retry = att[b].retry
    => a = b

\* reapTimedOutContainers "marks their logs failed", of containers that run too
\* long; the UPDATE also fails a log that succeeded since the snapshot.
SuccessIsFinal == [][\A a \in Attempts :
    att[a].row = "success" => att'[a].row # "failure"]_vars

\* reapTimedOutContainers "kills containers running longer than scrapeTimeout";
\* it finds them by their running logs, and the log of a deleted user is gone.
ContainerEnds == \A a \in Attempts : att[a].ctr # "none" ~> att[a].ctr = "none"
=============================================================================
