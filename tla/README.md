# Verification of Starbies Schedule Sync

TLA+ modules that model the program in `src/`, TLC configurations that check
them on small instances, and TLAPS proofs for all instances.

## 1. The system

A Go server (`cmd/app`, `internal/`) with one SQLite database, a single-page
web client (`web/`), and a scraper (`scraper/scrape.js`) that the server runs
as a Docker container per scrape.

| Component | State | Operations | Talks to |
|---|---|---|---|
| Scrape orchestration `internal/scraper/service.go` | channel `sem` (3 places), tables `scrape_logs`, `scrape_schedule`; goroutines of running starts; `lastPull` | `RunScheduler` (tick: `processDueScrapes`, then `reapTimedOutContainers`; hourly `runRetention`), `TriggerScrape`, `scrapeForUser`, `runScrapeContainer`, `HandleScrapeFailure`, `ScheduleNext`, `LoadCredentials` | Docker, database |
| Callbacks `cmd/app/handlers_scrape_callback.go` | `scrape_logs`, `shifts`, `scrape_schedule` | `scrapeGetCredentials`, `scrapeSubmitShifts`, `scrapeSubmitFailure` | called by the container; call `LoadCredentials`, `ScheduleNext`, `HandleScrapeFailure` |
| Scraper `scraper/scrape.js` | a browser, its page, captured weeks | `run` from sign-in to `postJSON`, its error path, `mergeScheduleData`, `extractShifts` | HTTP to the callbacks, the scheduling portal |
| Credentials and accounts `cmd/app/handlers_credentials.go`, `crypto_helpers.go` | `starbucks_credentials`, `user_deks`, `scrape_schedule`, `users` | `writeCredentials`, `deleteAccount`, `getOrCreateDEK` | `TriggerScrape`, envelope encryption |
| Admin `cmd/app/handlers_admin.go` | none | `adminTriggerScrape`, two queries | `TriggerScrape` |
| Rate limiter `internal/auth/ratelimit.go` | `requests`: timestamps per key | `Allow`, `sweep` | login, credential and feed routes |
| Login `internal/auth/pin.go`, `session.go`, `cmd/app/server.go` | PIN entries in memory, `sessions`, `users` | `Store`, `Verify`, `cleanup`, `CreateSession`, `GetSessionUser`, `DeleteSession`, `FindOrCreateUser` | mail, rate limiter |
| Envelope encryption `internal/crypto/envelope.go` | the master key | `GenerateDEK`, `WrapDEK`, `UnwrapDEK`, `Encrypt`, `Decrypt` | pure |
| Calendar feed `internal/calendar/ics.go`, `handlers_calendar.go` | none | `serveICS` | `shifts` |
| Status and settings `handlers_scrape_status.go`, `handlers_settings.go` | `users.timezone` | `scrapeStatus`, `onboardingStatus`, `updateTimezone` | polled by the client |
| Web client `web/src` | the user and `onboarded` of `App`, `icsUrl` and `config` cached by `api`, `returnPath` in the session storage, each page's state, the onboarding page's interval | the guards, `request` with its redirects, the handlers, effects and continuations of the pages | the server's API |

What is hard here is concurrency over the database. There is one connection, so
each statement is atomic, but the program uses no transactions: a handler, a
starting goroutine and the reaper each run several statements, and act on what
they read before. The server may be restarted at any time, which loses its
goroutines and keeps the database and the containers. Containers die, hang and
lose their requests. The full list of hazards, with the lines where they bite
and the properties that cover them, is in `PROJECT.json`.

What makes each component correct:

- *Scrape orchestration, callbacks, container*: every running scrape gets an
  outcome; due users are scraped until one has; places in `sem` are not lost;
  the reaper knows the container of what it fails; a deletion is final; shifts come only from
  a container that got credentials.
- *Rate limiter*: at most `limit` requests are allowed in a window; a sweep
  forgets nothing that counts.
- *Login*: a session only after the PIN mailed to that address, once, before it
  expires, within the allowed attempts.
- *Credentials*: what is stored can be opened with the key that is stored; a
  scrape key hands credentials out once.
- *Scraper and shifts*: a script that ends has reported; a success means that what
  was sent is stored, and that what was sent is what the portal shows; what
  retention has deleted stays deleted.
- *Onboarding*: the client shows the outcome of the scrape it waits for, and
  comes to an end.
- *Web client*: the pages show the data of the user who is signed in; redirects lead
  back to the page that was asked for; a message says what is the case; no page waits
  for ever; a sign-out is noticed.

## 2. Modules

| Module | What it is |
|---|---|
| `ScrapeService` | the scheduler, the starting goroutines, the reaper, the callback handlers, the container, and the handlers that store credentials, delete an account or trigger a scrape |
| `ScrapeJob` | abstract: what scraping promises a user; `ScrapeService` implements it |
| `ScrapeService_proofs` | the inductive invariant of `ScrapeService` and the proofs, with the refinement |
| `MCScrapeService` | its instances: symmetry, and the start and steps of the liveness runs |
| `RateLimiter` | the sliding window of `internal/auth/ratelimit.go` |
| `RateLimiter_proofs` | its inductive invariant and the proofs |
| `MCRateLimiter` | its instances: symmetry |
| `Login` | the PIN store, the sessions, `FindOrCreateUser` and the handlers around them |
| `OneTimeCode` | abstract: what a one-time code promises; `Login` implements it |
| `Login_proofs` | the inductive invariant of `Login` and the proofs, with the refinement |
| `MCLogin` | its instance: two spellings of one address, symmetry |
| `CredentialVault` | `writeCredentials`, `getOrCreateDEK`, `LoadCredentials`, `deleteAccount` and the envelope encryption |
| `CredentialStore` | abstract: what storing credentials promises; `CredentialVault` implements it |
| `CredentialVault_proofs` | the inductive invariant of `CredentialVault` and the proofs, with the refinement |
| `MCCredentialVault` | its instance: symmetry |
| `ShiftStore` | the server's side of the shifts: `scrapeSubmitShifts` statement by statement, retention, deletion, the feed |
| `Scraper` | extends `ShiftStore` with `scrape.js`, step by step between its awaits, with the portal, and with a scrape of the same user that overlaps |
| `Scraper_proofs` | the inductive invariants of `ShiftStore` and `Scraper` and the proofs, with `Scraper` as an implementation of `ShiftStore` |
| `Schedule_proofs` | a second inductive invariant of `Scraper`, on weeks and captures, and the proofs of what a success finds and that retention is final |
| `MCScraper` | its instances: a schedule, and two constraints on the order of independent steps |
| `Onboarding` | the onboarding page's polling, with the queries it makes, and the server's scrapes as its environment |
| `Onboarding_proofs` | its inductive invariant and the proofs |
| `MCOnboarding` | its instance |
| `WebClient` | one tab: `App` with its guards, `lib/api`, the pages Login, Settings, Dashboard and Admin, and the footer of every page, against the server's answers |
| `WebClient_proofs` | its inductive invariants and the proofs |
| `MCWebClient` | its instance |
| `Maps` | maps with one entry put in or some taken out; tables and Go maps are such |

`ScrapeService` and `CredentialVault` both contain `writeCredentials` and
`deleteAccount`: the first with what they do to the schedule and the scrapes, the
second with what they do to keys and ciphertexts. `ScrapeService` and `Scraper` both
contain a scrape: the first with many attempts, the scheduler, the reaper and crashes,
and the script as little more than its calls; the second with one script in detail,
the data it collects, and the server reduced to the log and the shifts. `Onboarding`
has the page that polls in detail; in `WebClient` it is a page that may report a success.

### ScrapeService

One *attempt* (an element of `Attempts`) is a row of `scrape_logs` together with
what works on it: the goroutine that starts it, its container, and the callback
request of that container which the server is serving.

| State | In the code |
|---|---|
| `users`, `creds`, `schedule` | tables `users`, `starbucks_credentials`, `scrape_schedule` (`"later"`/`"due"`: `next_scrape_at` is in the future or has passed) |
| `writing` | requests between the two upserts of `writeCredentials` |
| `cut` | history: users without a schedule whose last such request was cut there |
| `att[a].row, .cid, .fetched, .retry, .auto, .user` | the columns `status`, `container_id`, `credentials_fetched_at`, `retry_count`, `is_auto`, `user_id`; row `"none"` is no row |
| `att[a].go` | the goroutine's next statement in `scrapeForUser` and `runScrapeContainer` |
| `att[a].polled` | `processDueScrapes` waits for this goroutine |
| `att[a].ctr` | the container: `started`, `browsing` (has credentials), `closing` (shifts sent), `failing` (will report) |
| `att[a].cb` | the handler's next statement |
| `sem` | the length of the channel |
| `pc`, `todo`, `known`, `cur` | the scheduler's goroutine; `todo` and `known` are the reaper's snapshot, stale as soon as it is taken |

| Actions | In the code |
|---|---|
| `StoreCredentials`, `ScheduleAndTrigger`, `WriteCancelled` | the statements of `writeCredentials` |
| `DeleteAccount`, `AdminTrigger` | `deleteAccount`, `adminTriggerScrape` |
| `PollDue`, `PollFails` | `processDueScrapes` up to `wg.Wait` |
| `ReapQuery`, `ReapKill`, `ReapMark`, `ReapHandle` | `wg.Wait`, then `reapTimedOutContainers` |
| `Acquire` ... `GiveUpStart` | `scrapeForUser`, `runScrapeContainer`, with the recursion |
| `FetchCredentials`, `ServeCredentials` | `scrapeGetCredentials` |
| `PostShifts`, `MarkSuccess`, `FinishShifts` | `scrapeSubmitShifts` |
| `PostFailure`, `MarkReportedFailure`, `FinishFailure` | `scrapeSubmitFailure` |
| `RejectBody`, `CallbackAborted` | a body that does not bind; a context cancelled because the container is gone |
| `ScrapeError`, `ContainerExits` | the script's error path; the end of the container for any reason |
| `Crash` | the server's process ends and is started again |

Abstractions:

- *Time.* A schedule in the future may become due at any moment, and the
  reaper's cutoff selects any set of running logs. Both allow more than the code.
- *Finished attempts.* A slot whose attempt has no goroutine, no container, no
  request and no running log becomes blank: nothing in this component reads such
  a log again. A slot that the reaper's snapshot names is kept. So the history of
  logs, and `runRetention` that cleans it, are not in this module.
- *Slots.* A new attempt needs a free slot. The code has no such bound; runs and
  proofs are for any finite number of attempts in flight.
- *Merged statements.* `pullImage` and `ContainerCreate` are one step that may
  fail; the reading statements before a handler's first write are one step.
  Failures of single statements are modelled where the code's reaction matters:
  foreign keys, cancelled contexts, the due query, rejected bodies.
- *The script.* Page navigation either succeeds or throws.

What all this promises is `ScrapeJob`, a page of TLA+ without goroutines, containers,
requests, the reaper, its snapshot and crashes: a *job* has a user, a number of retries,
whether it is automatic, whether credentials were handed out, and a log. A job begins
only for an account that exists; the credentials are handed out once; it succeeds only with them; it
is retried only after an outcome (or when its account is gone), and at most `MaxRetries`
times; the user's date is put off only after an outcome; a running log is not forgotten.
`Promise` at the end of `ScrapeService` maps each attempt to its job by leaving out
`go`, `ctr`, `cb`, `cid` and `polled`. `ScrapeJob` admits what section 6 says of the
code: a job may get two outcomes, of which the last stays (item 2), and a user who is
due gets a job at each poll (item 1).

### RateLimiter

| State | In the code |
|---|---|
| `now` | `time.Now()`, in units of the clock; `Tick` lets it pass |
| `requests[k]` | `rl.requests`; `<<>>` is a key that is not in the map |
| `key[p]`, `at[p]` | the call of `Allow` of goroutine `p` between its clock reading and the lock |
| `sweeping` | the clock reading of the sweep that waits for the lock |
| `granted[k]` | history: the clock readings of the allowed requests, in the order of the lock |

`ReadClock`, then `Deny` or `Grant`, are `Allow`; `SweepRead`, then `Sweep`, are
`sweep`. Each lock section is one step. Both functions read the clock before they
take the lock, so timestamps may be recorded out of order, while the pruning loop
and the sweep read the list as if it were sorted. `MaxSkew` is the longest time a
request waits for the lock; the sweep's wait is not bounded. With `MaxSkew = 0` the
timestamps are sorted and the properties say what the code's comments say.

### Login

| State | In the code |
|---|---|
| `entries[k]` | `PinStore.entries`, by lowercased address: the PIN, the attempts, the time left |
| `users[u]`, `sessions[t]` | tables `users` (the address of each id) and `sessions` (user, time left) |
| `req[r]` | a request that is served: which handler, its next statement, what it holds |
| `req[r].raced` | history: its account was deleted while it was served |

| Actions | In the code |
|---|---|
| `RequestPin` | `requestPin` up to `Store`, a lock section |
| `VerifyExpired`, `VerifyWrong`, `VerifyRight` | the outcomes of `Verify`, a lock section, in `verifyPin`; exhausted attempts change nothing |
| `Find`, `Insert`, `FindAgain` | the three statements of `FindOrCreateUser` |
| `CreateSession`, `Respond` | the rest of `verifyPin` (`requestPin` responds after the lookup) |
| `Cancelled`, `Restart` | the client is gone; the server is restarted, which loses the PINs |
| `Authenticate`, `DeleteAccount`, `Logout` | `authMiddleware` with `deleteAccount`; `logout` |
| `Cleanup`, `Retention`, `Tick` | the PIN store's cleanup; the sessions in `runRetention`; time |

Deadlines are times left, so the clock has no bound: `Tick` takes one unit from
each. Users' ids, tokens and requests are slots; an id is not reused while a request
holds it, since the code's ids are random. A mail changes no state and is not
modelled: any PIN may be typed. The database compares addresses as they are typed
while the PIN store lowercases them, so both spellings are in the model.

### CredentialVault

| State | In the code |
|---|---|
| `users`, `deks`, `creds` | tables `users`, `user_deks`, `starbucks_credentials`; a sealed value is the key and what it seals |
| `req[r]` | a request of `writeCredentials` or `scrapeGetCredentials`, its next statement, the data key it holds |
| `req[r].cause` | history: a reason to fail that came from outside |

| Actions | In the code |
|---|---|
| `WriteCredentials`, `Look`, `Generate`, `Store`, `End` | `writeCredentials`: after authentication, the SELECT and the INSERT of `getOrCreateDEK`, the upsert, the response |
| `LoadCredentials`, `LoadKey`, `OpenCredentials` | `scrapeGetCredentials` and the two statements of `LoadCredentials` |
| `CreateUser`, `DeleteAccount`, `Restart` | `FindOrCreateUser`; `deleteAccount` with the cascades; a restart |

`credentialRL` lets one save of a user start per 30 seconds, which does not keep
two from overlapping when one is slow, so the model has no limit. The three sealed
fields are one. AES-GCM is taken as given: what was sealed with a key is opened by
that key only, and a generated key is new.

### Onboarding

| State | In the code |
|---|---|
| `logs`, `stored` | the user's `scrape_logs` in the order of `scrapeStatus`, each with the save whose credentials it uses; how many saves are stored |
| `saving`, `loading` | the save, the query on mount, that are under way |
| `step`, `timer`, `awaiting`, `elapsed`, `shown` | `step`, `pollRef`, `awaitingNewScrapeRef`, the time since `scrapeStartRef`, `scrapeResult` |
| `onboarded` | `App`'s flag, which opens the dashboard |
| `asked`, `answers` | polls without an answer; answers under way, in the order of the server's reads |
| `mine`, `excuse` | history: the save that the page waits for; a reason why an earlier result may appear |

| Actions | In the code |
|---|---|
| `Mounted`, `Leave`, `Enter` | the effect on mount and its cleanup; coming back |
| `Submit`, `Saved`, `SaveFails`, `Retry` | `handleSubmit` before and after its await; `handleRetry` |
| `Poll`, `Return`, `PollLost` | the interval's callback before and after its await |
| `Answer`, `SaveStored` | `scrapeStatus`; the upsert of `writeCredentials` |
| `ScrapeStarts`, `ScrapeEnds`, `Retention` | what `ScrapeService` and `runRetention` do to the logs, at any time |

The four outcomes of a poll (`Skip`, `GoOn`, `Result`, `TimesOut`) are the branches
of the callback in their order. The interval fires every three seconds whether or
not the poll before was answered, so answers overtake each other. Only one save is
under way at a time (`credentialRL` rejects a second one within 30 seconds), and a
visit begins when the callbacks of the one before are done. The mount query's read
and callback are one step: nothing else of the page happens between them but
`Leave`, with which they commute. `ScrapeEnds` lets a later mark overwrite an earlier
one, in either direction, as callbacks and the reaper do.

### ShiftStore and Scraper

Time is counted in weeks, and a shift's time is the week it is in: retention, the feed
and the portal's pages are all by the week or coarser.

| State | In the code |
|---|---|
| `account`, `shifts`, `log` | the user's row; table `shifts`, id to time; `scrape_logs.status` |
| `req[a]` | the request that submits the shifts of attempt `a`, and the shift whose turn it is |
| `portal`, `changes` | external: the schedule that the portal shows |
| `pc`, `cur`, `page`, `failed` | the script's next step, its attempt, where its browser is, and that an exception is on its way |
| `clicks`, `coming`, `captured`, `weeks`, `warned` | the buttons clicked; responses under way; how many were captured and what `mergeScheduleData` makes of them; whether the log has the warning |
| `base`, `ticked` | the week when the schedule page was loaded; whether a week has begun since the script, or a request that is still open, started |
| `dropped`, `moved`, `silent` | history: what retention has deleted; whether the portal changed; whether the script was killed or its report lost |

| Actions | In the code |
|---|---|
| `Submit`, `SkipShift`, `Insert`, `Finish`, `Cut` | `scrapeSubmitShifts`: the loop with one statement per shift, then the log; `Cut` ends it anywhere, by a lost connection or a crash |
| `NewLog`, `ReportFailure`, `Reap` | what `scrapeForUser`, `scrapeSubmitFailure` and the reaper do to the log |
| `DeleteAccount`, `Retention`, `Week` | `deleteAccount` with its cascade; the shifts of `runRetention`; time |
| `FetchCredentials`, `Login` ... `Home` | `run`, steps 1 to 3: each step may leave the browser on any page the code allows for |
| `Click`, `Capture`, `ResponseLost`, `Trailing` | step 4 and the listener: responses are captured in any order, or not at all |
| `Post`, `Posted`, `Throw`, `Close`, `Report`, `Silenced` | step 5, the `finally` block, `run().catch`, `SIGKILL` |
| `OtherStarts`, `OtherPosts` | a second scrape of the user, which posts while the first waits for its answer |
| `PortalChanges`, `PageMoves` | external: a shift is moved or cancelled; a late redirect, a push notification is approved |

The portal answers each click on a week with that week as it is at the time of the
click. `mergeScheduleData` keeps, per day, what was captured first; days are
weeks here, as the portal never answers with part of a week. The order in which
`extractShifts` emits shifts of one week is free, as the days in it are not told apart.
`parseShiftTime` is the set `Unreadable` of the ids whose times it rejects. A script
and its request are over within minutes, so at most one week begins meanwhile, also when
a script that was killed leaves its request open and the next one has started.

### WebClient

| State | In the code |
|---|---|
| `session`, `success`, `creds` | the server's: whose session the cookie names, who has a successful scrape, whether it holds the credentials that the page sent last |
| `user`, `onboarded`, `route` | `App`'s state and the location |
| `cache`, `config`, `returnPath`, `leaving` | `icsUrl` and `config` of `lib/api`, promises that `App` and the pages share; `returnPath` in the session storage; a location assigned to `window.location` and not loaded yet |
| `page` | the state of the mounted page: step, what is under way, message, data |
| `calls` | each request: what it asks, its outcome, and whether the page that sent it is still mounted |
| `troubles`, `due`, `foreign` | a bound; history: the page a load should end at, or that the bot barrier has overtaken it; whether the session is not the one this tab has started |

| Actions | In the code |
|---|---|
| `SignIn`, `WrongPin`, `SignOut`, `Serve` | the handlers, with `authMiddleware` and `adminMiddleware` |
| `Fails`, `Barred` | an error of the network or the server before or after it has acted; the bot barrier's page in place of the answer |
| `Configured`, `Unconfigured` | the answer to `config`, or an error or the bot barrier in its place; `request` and its continuation in one, as nothing but the promise depends on it |
| `Deliver` | a request's continuation: `request` with its redirects, then what awaits it: `Boot` (`App`'s effect), `LoginPage`, `DashboardPage`, `AdminPage`, `SettingsPage` |
| `Unload`, `TypeUrl` | the tab is loaded anew, at the location assigned or typed; requests not yet served may still be |
| `Navigate` | `navigate` and the guards (`Resolve`) |
| `RequestPin` ... `Trigger` | the pages' handlers up to their await |
| `Elsewhere`, `ScrapeSucceeds`, `Onboarded` | another tab signs in or out; a scrape succeeds; the onboarding page reports it |

A handler is split at its `await`: in between, the user may leave the page, and its
continuation sets no state of the page that is shown then, but still redirects,
navigates and fills the cache. `page` tells buttons that are enabled from those that
are not, as the JSX does (`LoginOffers` and so on); the texts typed are left out, and so
is the address: any user's PIN may be verified.

`App`'s effect waits for `config` and `me` (`Boot`), and each page's footer asks for `config`
when it mounts (`Ask`): pages that load something first show it when they have
loaded (`Footer`). A promise that failed is dropped, so the next footer asks again. The onboarding page
has loaded when its query on mount has settled, here `read`.

## 3. Runs

Two slots let any two attempts overlap: of the same user, an attempt and its
retry, an automatic and a manual one. The hazards listed all involve at most two
attempts, one scheduler and one crash.

| Run | Instance | What it shows |
|---|---|---|
| `scrape_safety` | 1 user, 2 slots, 1 retry, 1 place, 1 crash; full `Spec`; slots are symmetric | the safety properties, and that `ScrapeService` implements `ScrapeJob` |
| `scrape_live` | the same numbers; `LiveSpec` | every running log is resolved; every due user is served, through retries, refused kills and a crash |
| `scrape_overlap`, `scrape_success_lost`, `scrape_ghost` | 1 user, 1 to 3 slots | counterexamples, see section 6 |
| `rate_skew` | 1 key, 3 goroutines, limit 2, window 3, skew 1, 8 ticks; goroutines are symmetric | the limit per window, and the reason of every denial, up to what the skew costs |
| `login` | 2 requests at once; two addresses, one spelled in two ways; 2 PINs, 2 ids, 1 token, 1 attempt, deadlines of one unit; PINs, ids and requests are symmetric | the invariants of the tables, `SessionsKept`, and that `Login` implements `OneTimeCode` |
| `vault` | 2 users, 3 requests at once, 2 inputs, 4 data keys; all symmetric | stored credentials can be opened, nothing outlives its account, and `CredentialVault` implements `CredentialStore` |
| `onboard` | 2 saves, 2 logs, 2 polls in flight | the page is consistent, an earlier result has one of three causes, polling ends |
| `web_client` | 2 users, one an admin; the user acts while at most one request is under way; 1 trouble | the dashboard is the user's own; redirects lead back; messages are true; whatever a page waits for is under way, so no page waits for ever; a sign-out is noticed |
| `schedule_sync` | 2 attempts; a shift of last week, one of this and one of the next that the server cannot read; 2 weeks pass; 1 change of the portal | what a success means, in the table and for the portal; every end is reported; retention is final |
| `schedule_stale` | the same, no week passes | counterexample, see section 6 |

The clocks of the rate limiter's runs pass the window more than twice, so
timestamps are recorded, leave the window and are forgotten by either function.
The bounds of `WindowLimit` and `DenialJustified` are sharp: at skew 1, TLC
violates both when they are one tick tighter. Keys do not interact in the code,
so one is enough; that the limit is exact without skew is left to the proof, which
holds for skew 0 as for any other.

In `login`, one unit of time is enough for a PIN or a session to expire at any
moment, or not; two requests overlap in each pair of the handlers' statements; one
address has two spellings and one has not. Ids are not reused while they are held,
and two of them let an account be deleted and created anew under a request. One
token is enough for every way a session can end; that a login does not end another
session is left to the proof of `SessionsKept`. In
`vault`, three requests let two saves race for the first data key while a third
loads, and four keys let each hold one beside the stored one. In `onboard`, the second save
follows a failure of the first; one log is of an earlier scrape and one of the new
one, in either order, and two polls are enough to overtake each other.

In `scrape_safety`, `ScheduledUnlessCut` is about the two statements of
`writeCredentials` against overlapping saves, deletions and cancellations: credentials
without a schedule come only from a cut, which the next complete save repairs.

In `web_client`, two users are enough for data of the wrong one, and an admin and a
non-admin for the guards. A trouble is a request that failed, a session changed by another
tab, or a request that outlives the page's load and is served after it; two of these
at once make the run too large. The bot barrier costs one trouble, and may then answer any
other request until the tab leaves for it, also that of the footer of a page that `App` has fallen
back to meanwhile. `MaxCalls` bounds when the user acts, not how many requests there
are, and counts `config`: the pages' effects and the user's click make up to five others.

In `schedule_sync`, the first attempt may leave rows, a failure or a success for the
second, which overlaps it or follows it. Two weeks pass the age of retention (two)
and of the feed (one) for the earliest shift. Two action constraints keep the run
within minutes. `ScriptAlone`: while the script signs in, captures or closes, it reads
nothing of the server, and the server's step might as well come before or
after; so the server waits, but for the clock and the portal during the capture. `OneMoves`: only
one of the shifts changes at the portal. `NeverRevived` is what `KeepAge > FeedAge`
and the weeks on the portal give together; the run has one choice of ages, the theorem
`RetentionIsFinal` any with a feed of a week or more.

`LiveSpec` starts with stored credentials and a due schedule, and has no manual
triggers. A failed attempt may be retried twice, by its handler and by the reaper, so in
that run a tick starts an attempt only when both slots are free (`Tick`), and is like one
whose query failed otherwise; attempts overlap there through retries, and through ticks
in `scrape_safety`. Slots are not declared symmetric where liveness is checked.

Every property of a passing run has a mutant in `PROJECT.json`: a plausible bug,
written in the module next to the definition it replaces, that makes TLC find a
violation.

### Fairness

- `WF(Scheduler)`, `WF(Starter(a))`, `WF(Handler(a))`: goroutines run, statements
  and Docker calls return. The calls have no time-out in the code; a call that
  hangs stops the scheduler (a hazard no property covers).
- `SF(PollDue)`, in `LiveSpec` `SF(Tick)`: the due query does not fail at every tick.
- `SF` of a `ReapQuery` that includes `a`: a log that stays running gets older
  than `scrapeTimeout`. Strong, because the scheduler is at that point only once
  per tick.
- `SF(PutOff)`: a container does not die each time just before its handler's last
  statement. Without it `DueIsServed` is false: an outcome would be recorded at
  every tick and never reach the schedule.
- `ScraperEnds`, in `LiveSpec` only: a container whose log is resolved ends.
  Needed because the model's slots are finitely many; `ContainerEnds` shows what
  is true without it.

- In `WebClient`: requests, that for `config` too, are answered or fail, their continuations run, and a location
  that was assigned is loaded (one `WF` of them all: each such step leads on to
  finitely many others). `Restless` excuses a user who acts for ever, since acts may
  always come before an answer.
- In `Onboarding`: time passes, the interval fires, the mount query is answered or
  fails (`WF`), and not every poll is lost (`SF` of `Answer` and `Return`).

Nothing is assumed of users, crashes, or containers of running logs; `Scraper` is
checked for safety only, and states no fairness.

## 4. Proofs

`ScrapeService_proofs` proves, for any sets of users and slots, any number of
retries, places and crashes, that `Spec` implies `[]TypeOK`,
`[]SemaphoreAccounting`, `[]ReaperMissesNone`, `[]NoOrphanRows`, `[]ScheduledUnlessCut`,
`[]KillableContainer`, and `ScrapeJob`'s specification under the mapping
(`ScrapesKeepPromise`). Two consequences of the promise are also stated as theorems:
`[]CredentialsBeforeSuccess`, and the action property `ScheduleAdvancesOnOutcome`, that
a date is put off only for a user with an attempt that ended. The assumptions are those of `ScrapeService`:
`Attempts` is finite, `NoUser` and `NoAttempt` are no elements, the numbers are
naturals and `MaxConcurrent > 0`.

The invariant `IInv` adds to the checked properties:

- `AttemptOK`, about one attempt and the accounts. A container of a log has its
  id; whoever posts shifts has got credentials; whoever is about to retry or
  reschedule has a log that is not running; a log is there from its INSERT until
  its account is deleted. The properties alone are not inductive: `success`
  implies `fetched` only because a container that browses has `fetched` set.
- `SnapshotOK`, about the stale snapshot. An attempt of the tick that is named in
  it has no starting goroutine, and if its container is not known it has none.
  This holds when the snapshot is taken, because of `wg.Wait`, and stays true
  because a goroutine that has ended starts nothing and the slot is not reused.

The argument: every action but `DeleteAccount` and `ReapQuery` is a *slot step*
(`SlotSteps`): a slot keeps its attempt, is given to a fresh one (not if the
snapshot names it), or its attempt *continues*. Slot steps preserve both parts
(`SlotStepsPreserve`, `SnapshotStays`). `LocalStep`, `SpawnStep` and
`HandledStep` show it of the three shapes that actions have, and give the new set
of holders, from which the `Place...` lemmas get the count. The schedule's
property needs `ScheduleMoves`: wherever the code calls `ScheduleNext`, the
attempt has an outcome or the account is gone. `IInv` was model-checked before it
was proved.

The refinement needs the same invariant. A step that changes no job is a stutter
(`SilentStep`), and one that changes the log of one is an outcome (`OutcomeStep`). That
an outcome is there before a retry or a new date is `HasOutcome`, which `AttemptOK`
gives for goroutines and handlers, and the snapshot's `pc = "handle"` for the reaper;
that credentials are handed out once needs a conjunct of its own, a request that may hand
them out is the first one. A slot that `Tidy` blanks is a job `Forgotten`: it has no
running log (`TidyForgets`). A crash forgets jobs too: goroutines before their INSERT
are lost with their jobs, and nothing with a running log is.

`RateLimiter_proofs` proves, for any keys, goroutines, limit above 0, window, skew
and end of the clock, that `Spec` implies `[]TypeOK`, `[]WindowLimit` and
`DenialJustified`. The list of a key alone says nothing of the requests it has
forgotten, so the invariant relates it to the history (`KeyOK`): the list is a
suffix of `granted[k]`; what is not in it is outside the window of every later
clock reading, up to the skew; two entries are out of order by at most the skew;
and any `Limit + 1` entries are apart as `WindowLimit` says. A grant appends to
both; the entry `Limit` places before it is either forgotten, hence old, or would
still be counted, and then the list is too long to grant.

`Login_proofs` proves, for any addresses and lowercasing, PINs, ids, tokens,
requests, and any positive attempts and deadlines, `[]TypeOK`,
`[]OneUserPerAddress`, `[]FailsOnlyIfDeleted`, the action property `SessionsKept`, that
every session is of a user who exists (`SessionsHaveUsers`, part of the invariant, without
which the mapping would have sessions of nobody), and that `Spec` implies `OneTimeCode`'s under the mapping at the end of `Login`: an entry is
a code as long as it has not expired, a request has a pass from `VerifyRight` to
its session, and a session is open while it is valid. The invariant adds to the
properties what a request knows (`ReqOK`): the user it has found still has its
address, or its account was deleted while it was served; and one that looks again
finds a user, or was raced. Without the former the session of a request could be
of another address than its pass. The id of a request cannot come back under
another address because no request's id is given to a new user.

`CredentialVault_proofs` proves, for any users, requests, inputs and keys,
`[]TypeOK`, `[]StoredOpens`, `[]NothingOutlivesAccount`, `[]FailsOnlyForCause`, and
that `Spec` implies `CredentialStore`'s. The invariant adds what a request knows:
a request that has a key holds the stored one, or its account is gone; one that is
about to generate a key after another was stored has a cause to fail. With it, an
upsert that is not rejected seals with the stored key, and a save that has lost the race for the
first key fails instead of sealing with its own.

`Scraper_proofs` proves, for any attempts, ids, readable or not, ages of the feed and
retention, schedules of the portal and bounds, that `ShiftStore`'s `StoreSpec` implies
its types and `SuccessMeansStored` for every list of shifts that may be sent, by any
number of requests that overlap (`StoreCorrect`); that `Scraper`'s `Spec` implies
`StoreSpec` (`StoreRefined`): all that the script, the portal and the overlapping scrape
do to the tables are `ShiftStore`'s steps; and that it implies `[]TypeOK`,
`[]SuccessMeansStored` and `[]EndReported`. The invariant of the store (`Stored`): while
the loop of a request runs, the shifts before the current one are in the table or were
dropped by retention, and a log of an account that exists is successful only if its loop
has ended. For the script it adds that a capture counts no more responses than were
asked for, and that whoever is past its call to the server has a log that is not running.

`Schedule_proofs` adds to that invariant (`SInv`), for the same constants, and proves
`[]SuccessFindsSchedule` and, if a shift stays in the feed for a week or more and hence
longer in the table, `NeverRevived`. For the former, every response is of the week that
its click asked for, no click has two, and the count of captures is that of the clicks
they come from (`Sources`): three of the four are of the page's week, which was asked
for twice, and of at least one neighbour. `mergeScheduleData` keeps these weeks, the body
of the request enumerates all their shifts (`NoneLeftOut`), and a success has stored
it. For the latter, whatever a script has captured or a request still has to insert
(`RecentWeeks`) is no older than a week before the script's page, and the clock at most a week
ahead of it; what was dropped is older than `KeepAge` (`OldDropped`), which is two or more.

`Onboarding_proofs` proves, for any number of saves, logs and polls, `[]TypeOK`,
`[]PageIsConsistent` and `[]OldResultHasCause`. The last one needs the order of the
answers (`Traced`). While the page waits for its scrape, a running log or answer is of
the new scrape, and behind an answer that is new all are; from the first new answer on,
every answer is new. `Return` of the first answer keeps this, and of a later one is an
excuse. `Quiet` says that nothing else happens before the query on mount is answered.

`WebClient_proofs` proves, for any number of users, admins, requests and troubles,
`[]TypeOK`, `[]FeedIsOwn`, `[]SignedOutShowsNothing`, `[]ComesBack`,
`[]UpdatedMeansStored`, `[]WaitIsAnswered` and `[]SignOutReaches`. The assumption is that App's `Unknown` and `NoUser` and the two
states of the cache are no users, and that admins are users. The invariant has four parts.

- `TabOK` says who has made each request: what a mounted page still waits for is
  something that this page sends (`Sends`), nobody waits for the link without a pending
  cache, and before App knows its user there is one request of its effect and nothing else.
- `Own`, unless the session is foreign: the chain of a sign-in or a load, every answer with
  data, the cache and what the dashboard has loaded are all of one user, and that user's
  session is the cookie's or has ended. A dashboard that mounted without a session has no
  shifts, and none are coming: the session cannot return without a sign-in, for which
  App must have forgotten its user.
- `SettingsOK`: while an update is under way the button is disabled, so at most one is
  awaited; a message of success, or an answer that will become one, is about credentials
  that the server holds.
- `Arrives`: while a page is due, the location or the saved path is that page, and no
  answer of the load has failed. It has to say where each of the two redirects, the
  bot barrier's and the one back, has got to, and that a barrier which comes again before the
  tab has left for it saves the same page, or else the page is due no more (`Hides`).

A request that is answered or refused (`SettleCalls`, `RefusedInv`) changes one record of `calls`; the answer to `config` none (`ConfigInv`); a
continuation that renders nothing removes it and may send the next (`ContinueInv`); a page
that mounts takes the waiting requests of the one before from it (`MountInv`). `IInv` was
model-checked before it was proved. The values of `config` are an invariant of their own
(`ConfigOK`).

Two more invariants stand on `IInv`, each with a lemma for every kind of step.

- `Waits`, for `WaitIsAnswered`: while a dashboard or the admin page is busy, something of
  what it loads is missing, and for each missing part a request is under way (`Missing`,
  `Coming`). That one request is under way is not inductive, since it may be answered
  while another part is still missing. The link may come with a request of an earlier
  dashboard, which is why `Waits` also says that a pending cache has one. A page whose account is
  being deleted waits for its request or for the reload.
- `Known`, for `SignOutReaches`: as long as nothing has gone wrong, App's user has a session,
  or a request is under way whose answer tells App, or the tab is about to be loaded
  anew. When the answer to a sign-out comes, `handleLogout` leads to a page that asks the
  server: its requests are the next witnesses. Answered without a session, they redirect; one
  that was answered before the session ended leaves the others, or the sign-out itself, under way.
  `Known` says that App without a user shows only pages
  that ask nothing (`OnlyLogin`), that no continuation has been lost, and that `calls` is
  finite, since a load counts the requests it leaves behind.

The invariants give what is under way; that it arrives is fairness, and stays with TLC
(`NeverStuck`, `SignOutIsSeen`).

Only model-checked is liveness, which TLAPS does not prove under fairness.

## 5. What is done, and what could follow

The modules were built in this order, each with its proofs: `ScrapeService`,
`RateLimiter`, `Login` with `OneTimeCode`, `CredentialVault` with `CredentialStore`,
`Onboarding`, `ShiftStore` and `Scraper`, `WebClient`; then `ScrapeJob` for `ScrapeService`.
What could follow:

- Times with zones, for `parseShiftTime`, `updateTimezone` and the feed's text.
- A dashboard's and `App`'s view of a scrape's outcome, that is, `WebClient` over
  `ScrapeService`'s logs instead of `ScrapeSucceeds`.

## 6. Where the code differs from what it says

1. *Overlapping automatic scrapes* (`scrape_overlap`). `processDueScrapes` leaves
   `next_scrape_at` alone until an outcome, so the tick of the next minute starts
   another scrape of a user whose first still runs.
2. *A success turned into a failure* (`scrape_success_lost`). The reaper's UPDATE
   does not look at the status.
3. *Containers nobody kills* (`scrape_ghost`). The reaper finds containers by
   their running logs, and a container can outlive its running log: its account is
   deleted, the log is resolved before the start, or the kill failed and the reaper marked
   the log all the same (`service.go:264` drops the error).
4. *A feed that does not follow* (`schedule_stale`). Shifts are inserted with
   `ON CONFLICT ... DO NOTHING` (`handlers_scrape_callback.go:138`): the first version
   of a shift stays, however often it is scraped again, although "Your schedule will stay up
   to date automatically" (`CalendarTutorial.tsx:45`). A cancelled shift stays too.

More that no run shows:

- `writeCredentials` stores credentials and schedule in two statements and ignores the
  error of the second (`handlers_credentials.go:88`): a request that is cut in between
  leaves credentials that are never scraped (`WriteCancelled`). `README.md:10` says
  "Scrapes run automatically every 16-24 hours." `ScheduledUnlessCut` shows that this is
  the only way.
- A page that has seen no running scrape for four minutes accepts whatever the latest
  log says (`Onboarding.tsx:73`), although `awaitingNewScrapeRef` "prevents latching onto
  the previous scrape result". `OldResultHasCause` lists the other two ways: an earlier
  scrape that still runs, and an answer that is late.
- `HandleScrapeFailure` does not look at the status either, so in the window of item 2 a
  success is also retried.
- `Allow` reads the clock before it waits for the lock (`ratelimit.go:39`), so of
  `Limit + 1` requests of one window all may pass, and the sweep (line 87) looks at the
  last timestamp only, which may not be the newest; `WindowLimit` bounds what both cost,
  and is exact without a wait.
- The scraper warns when fewer weeks were captured than expected, but counts responses,
  and the current week is shown twice: one missing week of the two neighbours goes unnoticed
  (`scrape.js:378`). `SuccessFindsSchedule` says so.
- A failure to close the browser after a successful scrape is reported as a failure of
  the scrape; the handler accepts it only for a running log, so it changes nothing.
- `handleLogout` tells the server and navigates, and leaves `App` believing that the user is
  signed in, until the dashboard's first request is answered 401 (`SignOutIsSeen`).
- `handleBotBarrier` saves the path the tab shows, whatever is saved already (`api.ts:65`). If
  the barrier meets both requests of `App`'s load, `App` falls back to `/login` before the
  tab has left; that page's footer asks for `config` again, as a failure is not cached
  (`AppFooter.tsx:10`, `api.ts:58`), and meets it too: `/login` is saved over the page asked for, and
  the user does not come back to it. The same holds for a barrier on the way back, at `/`. `ComesBack`
  excepts these, and no others.
- A wrong PIN is answered 401, and `request` reloads the tab for any 401 (`api.ts:83`): the
  page's own message is not seen.
- `Privacy.tsx:83` says that the calendar link can be regenerated; no handler does.

Hazards left out of the list in `PROJECT.json` because others there are like them: two
PINs that are mailed in another order than they were stored (`server.go:231`); the
retry that ignores the status it reads along (`service.go:213`); an admin's overlapping
loads, the older shown last (`Admin.tsx:78`); the address that is edited while its PIN is
requested (`Login.tsx:22`); success logs that retention deletes, so
that `onboardingStatus` takes a user whose last week failed for a new one (`service.go:281`).

## 7. Not modelled

- *Time zones and texts of times*: `parseShiftTime` and `GenerateICS` convert between
  formats; here a time is a week or unreadable.
- *The pull cache* (`pullImage`): it decides how long a start takes and nothing else.
- *Screenshots, log lines and error texts*, and that retention clears screenshots.
- *Docker, the mail server, the portal, React and the browser*: as their environment, with
  any answer the code allows for. AES-GCM is taken as given.
- *Migrations and start-up*: they run once, before the server serves.
- *Queries that only feed pages* (`adminUsers`, `adminScrapeLogs`, `userScrapeLogs`), and
  the components that show what they are given, apart from who gets an answer and
  whether the page waits for it.
- *The development login* (`App.tsx:39`): `/api/config` (`server.go:72`) never answers with `dev_mode`,
  and no handler serves `/api/auth/dev-login`.
- *Calls that hang for ever* (Docker's have no time-out), a second request with the same
  scrape key, and containers that are created and never start: hazards without a
  property, with the reason in `PROJECT.json`.
