----------------------------- MODULE WebClient ------------------------------
(***************************************************************************)
(* A tab of web/src against the server: App with its guards, lib/api, and  *)
(* the pages Login, Settings, Dashboard and Admin. Onboarding is a page    *)
(* here that may report a success; what it does is in its own module.      *)
(*                                                                         *)
(* A request is a call of api: it is served, its outcome may be lost or    *)
(* replaced by the bot barrier's page, and its continuation runs in the    *)
(* tab when it is delivered, whatever page is shown by then. Other tabs    *)
(* may change the session that the cookie names.                           *)
(***************************************************************************)
EXTENDS Integers, FiniteSets

CONSTANTS
    Users, Admins,
    Unknown, NoUser,            \* App's user: undefined, null
    MaxCalls, MaxTroubles       \* bounds

ASSUME ClientAssumption ==
    /\ Admins \subseteq Users /\ Unknown # NoUser
    /\ {Unknown, NoUser, "none", "pending"} \cap Users = {}
    /\ {MaxCalls, MaxTroubles} \subseteq Nat

VARIABLES
    session,    \* server: the user whose session the cookie names
    success,    \* server: the users with a successful scrape
    creds,      \* the credentials that it holds: what the mounted page has sent last,
                \* something older, or an older update that was stored after it
    route,      \* window.location.pathname
    user, onboarded,
    cache,      \* api's cached icsUrl: none, pending or its owner
    config,     \* api's cached config: none, pending or done
    returnPath, \* in sessionStorage
    leaving,    \* the location that was assigned to window.location.href
    page,       \* the mounted page's state
    calls,      \* the requests under way
    troubles,   \* how many requests were lost or outlived their page, sessions changed elsewhere
    due,        \* history: the page that a load should show, or overtaken
    foreign     \* history: the session changed other than by one sign-in here

server == <<session, success, creds>>
app == <<user, onboarded, cache, config>>
place == <<route, returnPath, leaving, due>>
vars == <<server, app, place, troubles, page, calls, foreign>>

Routes == {"/", "/privacy", "/login", "/setup", "/dashboard", "/settings", "/admin"}
Schedule == {"schedule", "ics"}
Overview == {"adminLogs", "adminUsers"}
Kinds == Schedule \cup Overview \cup
    {"me", "timezone", "status", "requestPin", "verify", "read", "update", "delete", "logout",
     "trigger", "timer"}

\* A call: the page that was mounted waits for it, the tab, or nobody any more.
Call(kind, who) == [kind |-> kind, who |-> who, out |-> "sent", for |-> "page"]

Sent(kind) == Call(kind, NoUser)

\* useState of a page that mounts; one that loads data is busy.
Fresh(r) ==
    [step |-> "email", busy |-> r \in {"/dashboard", "/admin"}, deleting |-> FALSE,
     result |-> "none", shows |-> {}, sched |-> NoUser,
     have |-> IF r = "/dashboard" /\ cache \in Users THEN {"ics"} ELSE {},
     ics |-> IF r = "/dashboard" /\ cache \in Users THEN cache ELSE NoUser,
     anon |-> r = "/dashboard" /\ session = NoUser]     \* history: it mounts without a session

\* The requests of its effect.
Effect(r) ==
    CASE r = "/dashboard" -> {"schedule"} \cup (IF cache = "none" THEN {"ics"} ELSE {})
      [] r = "/admin" -> Overview
      [] r \in {"/settings", "/setup"} -> {"read"}
      [] OTHER -> {}

\* App's routes: where the guards lead a user who goes to r.
Resolve(r, u, on) ==
    LET home == IF on THEN "/dashboard" ELSE "/setup"
        away == {"/login", "/dashboard"} \cup (IF on THEN {} ELSE {"/settings"})
                   \cup (IF u \in Admins THEN {} ELSE {"/admin"})
    IN  IF u = NoUser THEN IF r \in {"/", "/privacy"} THEN r ELSE "/login"
        ELSE IF r \in away THEN home ELSE r

Init ==
    /\ session = NoUser /\ success \in SUBSET Users /\ creds = "older"
    /\ route = "/" /\ user = Unknown /\ onboarded = FALSE /\ cache = "none"
    /\ config = "pending" /\ returnPath = "none" /\ leaving = "none" /\ due = "none"
    /\ page = Fresh("/") /\ calls = {Sent("me")}
    /\ troubles = 0 /\ foreign = FALSE

-----------------------------------------------------------------------------
(* The server and the network *)

Settle(c, new) ==
    calls' = (calls \ {c}) \cup (IF c.for = "nobody" THEN {} ELSE {new})

Unserved(c) == c \in calls /\ c.out = "sent"

\* verifyPin with the right PIN, and with a wrong one.
SignIn(c) ==
    /\ Unserved(c) /\ c.kind = "verify"
    /\ session' = c.who /\ Settle(c, [c EXCEPT !.out = "ok"])
    /\ foreign' = (foreign \/ session # NoUser \/ user # NoUser \/ c.for = "nobody"
                     \/ \E d \in calls \ {c} : d.kind \in {"verify", "status"})
    /\ due' = "none"
    /\ UNCHANGED <<success, creds, app, route, returnPath, leaving, troubles, page>>

WrongPin(c) ==
    /\ Unserved(c) /\ c.kind = "verify" /\ Settle(c, [c EXCEPT !.out = "401"])
    /\ UNCHANGED <<server, app, place, troubles, page, foreign>>

\* logout needs no session, and deleteAccount ends it.
SignOut(c) ==
    /\ Unserved(c) /\ (c.kind = "logout" \/ (c.kind = "delete" /\ session # NoUser))
    /\ success' = IF c.kind = "delete" THEN success \ {session} ELSE success
    /\ session' = NoUser /\ Settle(c, [c EXCEPT !.out = "ok"])
    /\ due' = "none"
    /\ UNCHANGED <<creds, app, route, returnPath, leaving, troubles, page, foreign>>

\* The other handlers; authMiddleware answers 401 without a session, and
\* adminMiddleware refuses a user who is no admin.
Answered(c) ==
    IF c.kind = "requestPin" THEN [c EXCEPT !.out = "ok"]
    ELSE IF session = NoUser THEN [c EXCEPT !.out = "401"]
    ELSE IF c.kind \in Overview \cup {"trigger"} /\ session \notin Admins
         THEN [c EXCEPT !.out = "fail"]
    ELSE IF c.kind = "status" THEN [c EXCEPT !.out = IF session \in success THEN "yes" ELSE "ok"]
    ELSE IF c.kind \in Schedule \cup {"me"} THEN [c EXCEPT !.out = "ok", !.who = session]
    ELSE [c EXCEPT !.out = "ok"]

Serve(c) ==
    /\ Unserved(c) /\ c.kind \notin {"verify", "logout"} /\ (c.kind = "delete" => session = NoUser)
    /\ Settle(c, Answered(c))
    /\ creds' = IF c.kind # "update" \/ session = NoUser THEN creds
                ELSE IF c.for = "page" THEN "sent"
                ELSE IF creds = "sent" THEN "overtaken" ELSE creds
    /\ UNCHANGED <<session, success, app, place, troubles, page, foreign>>

\* Each lost request costs one, but the bot barrier, once it stands, does until the
\* tab leaves for it.
Trouble == troubles < MaxTroubles /\ troubles' = troubles + 1
Barrier == Trouble \/ (leaving = "/" /\ troubles' = troubles)

\* An error of the network or the server, before or after it has acted.
Fails(c) ==
    /\ c \in calls /\ c.kind # "timer" /\ Trouble
    /\ Settle(c, [c EXCEPT !.out = "fail"]) /\ due' = "none"
    /\ UNCHANGED <<server, app, route, returnPath, leaving, page, foreign>>

\* The bot barrier's page in place of the answer.
Barred(c) ==
    /\ Unserved(c) /\ c.kind # "timer" /\ Barrier
    /\ Settle(c, [c EXCEPT !.out = "barrier"])
    /\ UNCHANGED <<server, app, place, page, foreign>>

ScrapeSucceeds ==
    /\ session # NoUser /\ session \notin success /\ success' = success \cup {session}
    /\ due' = "none"
    /\ UNCHANGED <<session, creds, app, route, returnPath, leaving, troubles, page,
                   calls, foreign>>

\* Another tab signs in or out.
Elsewhere ==
    /\ troubles < MaxTroubles /\ troubles' = troubles + 1
    /\ \E u \in Users \cup {NoUser} : u # session /\ session' = u
    /\ foreign' = TRUE /\ due' = "none"
    /\ UNCHANGED <<success, creds, app, route, returnPath, leaving, page, calls>>

-----------------------------------------------------------------------------
(* Pages *)

\* The promise of config is shared by App's effect and every page's footer, and kept
\* unless it fails. A page that still loads has no footer.
Ask == IF config = "none" THEN "pending" ELSE config
Loads(r) == r \in {"/dashboard", "/admin", "/setup"}

\* The footer of the mounted page, when it has loaded
Footer == config' = IF page.busy /\ ~page'.busy THEN Ask ELSE config

\* The page r mounts: callbacks of the one before set no state any more.
Mount(r, cs) ==
    /\ page' = Fresh(r) /\ creds' = "older"
    /\ calls' = {[c EXCEPT !.for = IF @ = "page" THEN "tab" ELSE @] : c \in cs}
                   \cup {Sent(k) : k \in Effect(r)}
    /\ cache' = IF "ics" \in Effect(r) THEN "pending" ELSE cache
    /\ config' = IF Loads(r) THEN config ELSE Ask

\* navigate(r), with the calls cs left
Goto(r, cs) ==
    LET to == Resolve(r, user, onboarded)
    IN  /\ route' = to
        /\ IF r = route THEN calls' = cs /\ UNCHANGED <<page, cache, config, creds>>
           ELSE Mount(to, cs)

\* A full load: a request that the server has not seen may still reach it.
Effective == {"verify", "update", "logout", "delete"}

Load(r) ==
    /\ route' = r /\ user' = Unknown /\ onboarded' = FALSE /\ cache' = "none"
    /\ config' = "pending" /\ leaving' = "none" /\ page' = Fresh("/") /\ foreign' = FALSE
    /\ \E kept \in SUBSET {c \in calls : c.out = "sent" /\ c.kind \in Effective} :
          /\ calls' = {Sent("me")} \cup {[c EXCEPT !.for = "nobody"] : c \in kept}
          /\ troubles' = troubles + Cardinality(kept) /\ troubles' <= MaxTroubles
    /\ creds' = "older" /\ UNCHANGED <<session, success, returnPath>>

\* The location assigned by a redirect; due is known after the bot barrier.
Unload ==
    /\ leaving # "none" /\ Load(leaving)
    /\ due' = IF leaving = "/" THEN due ELSE leaving

At(r) == user # Unknown /\ route = r

\* The user acts once the tab has rendered something, with few requests under way.
Free ==
    /\ user # Unknown /\ leaving = "none"
    /\ Cardinality(calls) <= IF config = "pending" THEN MaxCalls - 1 ELSE MaxCalls

\* The user types an address.
TypeUrl(r) ==
    /\ Load(r)
    /\ due' = IF returnPath \in {"none", "/"} THEN r ELSE "none"

\* A link, a button or the browser's history: the guards allow any page.
Navigate(r) ==
    /\ r # route
    /\ Goto(r, calls) /\ due' = "none"
    /\ UNCHANGED <<session, success, user, onboarded, returnPath, leaving, troubles, foreign>>

\* An event handler, until its await: the page's state p, and a call.
Handler(p, c) ==
    /\ page' = p /\ calls' = calls \cup {c}
    /\ due' = "none"
    /\ UNCHANGED <<session, success, app, route, returnPath, leaving, troubles, foreign>>

\* What the pages render: the buttons that are enabled ...
LoginOffers ==
    (IF page.busy THEN {} ELSE {IF page.step = "email" THEN "Send PIN" ELSE "Sign in"})
        \cup (IF page.step = "pin" THEN {"Use a different email"} ELSE {})

FormOffers == IF page.busy THEN {} ELSE {"Update credentials"}

SettingsOffers ==
    FormOffers \cup {"Sign out"} \cup (IF page.deleting THEN {} ELSE {"Delete my account"})

AdminOffers == IF page.busy THEN {} ELSE {"Scrape now"}

\* ... and whose shifts and link the dashboard shows.
DashboardShows ==
    IF page.busy THEN {} ELSE {IF k = "ics" THEN page.ics ELSE page.sched : k \in page.shows}

\* Login: handleRequestPin, handleVerifyPin, and back to the first step
RequestPin ==
    /\ At("/login") /\ "Send PIN" \in LoginOffers
    /\ Handler([page EXCEPT !.busy = TRUE, !.result = "none"], Sent("requestPin"))
    /\ UNCHANGED creds

VerifyPin ==
    /\ At("/login") /\ "Sign in" \in LoginOffers
    /\ \E u \in Users :
          Handler([page EXCEPT !.busy = TRUE, !.result = "none"], Call("verify", u))
    /\ UNCHANGED creds

DifferentEmail ==
    /\ At("/login") /\ "Use a different email" \in LoginOffers
    /\ page' = [page EXCEPT !.step = "email", !.result = "none"]
    /\ UNCHANGED <<server, app, place, troubles, calls, foreign>>

\* Mutant: the message of the update before stays.
UpdateKeepsResult ==
    /\ At("/settings") /\ "Update credentials" \in SettingsOffers /\ creds' = "older"
    /\ Handler([page EXCEPT !.busy = TRUE], Sent("update"))

\* Settings: handleUpdateCredentials, handleDeleteAccount, handleLogout
UpdateCredentials ==
    /\ At("/settings") /\ "Update credentials" \in SettingsOffers /\ creds' = "older"
    /\ Handler([page EXCEPT !.busy = TRUE, !.result = "none"], Sent("update"))

DeleteAccount ==
    /\ At("/settings") /\ "Delete my account" \in SettingsOffers
    /\ Handler([page EXCEPT !.deleting = TRUE], Sent("delete"))
    /\ UNCHANGED creds

Logout ==
    /\ At("/settings") /\ "Sign out" \in SettingsOffers
    /\ Handler(page, Sent("logout"))
    /\ UNCHANGED creds

\* Admin: trigger
Trigger ==
    /\ At("/admin") /\ "Scrape now" \in AdminOffers
    /\ Handler(page, Sent("trigger"))
    /\ UNCHANGED creds

\* Onboarding: onScrapeSuccess
Onboarded ==
    /\ At("/setup") /\ session \in success /\ onboarded' = TRUE
    /\ UNCHANGED <<server, user, cache, config, place, troubles, page, calls, foreign>>

-----------------------------------------------------------------------------
(* The continuations. request throws unless the outcome is Ok; before it does, a *)
(* 401 and the bot barrier assign window.location.                               *)

Ok(c) == c.out \in {"ok", "yes"}
Rest(c) == calls \ {c}

\* Mutant: the path is not saved.
HiddenForGood(c) == returnPath

\* handleBotBarrier
Hidden(c) == IF c.out = "barrier" THEN route ELSE returnPath

\* Mutant: a 401 only throws.
RedirectNoMore(c) == leaving' = IF c.out = "barrier" THEN "/" ELSE leaving

\* What it assigns: the page that counts is the last one
Redirect(c) ==
    leaving' = CASE c.out = "barrier" -> "/"
                 [] c.out = "401" /\ c.kind # "me" -> "/login"
                 [] OTHER -> leaving

\* setOnboarded and setUser. When the routes are rendered for the first time,
\* ReturnPathRedirect leads to the page that the bot barrier has hidden; a guard's
\* redirect comes after it.
Render(u, on, c) ==
    LET own == Resolve(route, u, on)
        back == user = Unknown /\ Hidden(c) \notin {"none", "/", route}
        goal == IF back /\ own = route THEN Resolve(Hidden(c), u, on) ELSE own
    IN  /\ user' = u /\ onboarded' = on /\ route' = goal /\ Redirect(c)
        /\ returnPath' = IF back THEN "none" ELSE Hidden(c)
        /\ IF user # Unknown /\ goal = route
           THEN calls' = Rest(c) /\ UNCHANGED <<page, cache, config, creds>>
           ELSE Mount(goal, Rest(c))

\* Mutant: it loses the user.
ThenNobody(c, kind) == calls' = Rest(c) \cup {[Sent(kind) EXCEPT !.for = "tab"]}

\* The next call of a chain that the tab goes on with
Then(c, kind) == calls' = Rest(c) \cup {[Call(kind, c.who) EXCEPT !.for = "tab"]}

\* App's effect: Promise.all of config and me. The barrier's page has its effect at
\* once; what me gave is used when config has settled too.
Boot(c) ==
    \/ /\ c.kind = "me" /\ c.out = "barrier" /\ calls' = Rest(c) \cup {[c EXCEPT !.out = "fail"]}
       /\ returnPath' = Hidden(c) /\ Redirect(c) /\ UNCHANGED <<app, route, page, creds>>
    \/ /\ c.kind = "me" /\ config # "pending" /\ c.out \in {"401", "fail"}
       /\ Render(NoUser, FALSE, c)
    \/ /\ c.kind = "me" /\ config # "pending" /\ Ok(c)
       /\ (Then(c, "timezone") \/ Then(c, "status"))
       /\ returnPath' = Hidden(c) /\ Redirect(c) /\ UNCHANGED <<app, route, page, creds>>
    \/ /\ c.kind = "timezone" /\ Then(c, "status")
       /\ returnPath' = Hidden(c) /\ Redirect(c) /\ UNCHANGED <<app, route, page, creds>>
    \/ c.kind = "status" /\ Render(c.who, c.out = "yes", c)

\* setState(p), if the page that called is still mounted
Set(c, p) == page' = IF c.for = "page" THEN p ELSE page

\* Mutant: the finally block is missing.
PinNotRequested(c) ==
    /\ c.kind = "requestPin" /\ calls' = Rest(c)
    /\ Set(c, IF Ok(c) THEN [page EXCEPT !.busy = FALSE, !.step = "pin"]
              ELSE [page EXCEPT !.result = "error"])

\* handleRequestPin
PinRequested(c) ==
    /\ c.kind = "requestPin" /\ calls' = Rest(c)
    /\ Set(c, IF Ok(c) THEN [page EXCEPT !.busy = FALSE, !.step = "pin"]
              ELSE [page EXCEPT !.busy = FALSE, !.result = "error"])

\* handleVerifyPin
LoginPage(c) ==
    /\ \/ PinRequested(c)
       \/ /\ c.kind = "verify"
          /\ IF Ok(c) THEN Then(c, "status") ELSE calls' = Rest(c)
          /\ Set(c, [page EXCEPT !.busy = FALSE, !.result = IF Ok(c) THEN @ ELSE "error"])
    /\ UNCHANGED <<app, route, creds>>

\* Mutant: each on its own.
LoadedEach(p, k, needs, ok) ==
    LET have == p.have \cup (IF ok THEN {k} ELSE {})
    IN  [p EXCEPT !.have = have, !.busy = @ /\ ok /\ ~(needs \subseteq have), !.shows = have]

\* Promise.all of what a page loads: all of it, or the first error.
Loaded(p, k, needs, ok) ==
    LET have == p.have \cup (IF ok THEN {k} ELSE {})
    IN  [p EXCEPT !.have = have, !.busy = @ /\ ok /\ ~(needs \subseteq have),
                  !.shows = IF needs \subseteq have THEN needs ELSE {}]

\* The effect of Dashboard. The promise of the link is shared by its mounts, and
\* kept unless it fails.
DashboardPage(c) ==
    /\ \/ /\ c.kind = "schedule"
          /\ Set(c, [Loaded(page, c.kind, Schedule, Ok(c)) EXCEPT !.sched = c.who])
          /\ UNCHANGED cache
       \/ /\ c.kind = "ics"
          /\ page' = IF route = "/dashboard" /\ user # Unknown
                     THEN [Loaded(page, c.kind, Schedule, Ok(c)) EXCEPT !.ics = c.who] ELSE page
          /\ cache' = IF Ok(c) THEN c.who ELSE "none"
    /\ Footer /\ calls' = Rest(c) /\ UNCHANGED <<user, onboarded, route, creds>>

\* load and trigger of Admin, whose timer outlives it
AdminPage(c) ==
    /\ \/ /\ c.kind \in Overview /\ calls' = Rest(c)
          /\ Set(c, Loaded(page, c.kind, Overview, Ok(c)))
       \/ /\ c.kind = "trigger" /\ page' = page
          /\ calls' = Rest(c) \cup (IF Ok(c) THEN {[c EXCEPT !.kind = "timer"]} ELSE {})
       \/ /\ c.kind = "timer" /\ page' = page
          /\ calls' = Rest(c) \cup {[Sent(k) EXCEPT !.for = c.for] : k \in Overview}
    /\ Footer /\ UNCHANGED <<user, onboarded, cache, route, creds>>

\* Mutant: App is told, and nothing reloads the tab.
LoggedOutTold(c) ==
    IF Ok(c)
    THEN user' = NoUser /\ onboarded' = FALSE /\ route' = "/login" /\ Mount("/login", Rest(c))
    ELSE calls' = Rest(c) /\ UNCHANGED <<app, route, page, creds>>

\* handleLogout, whose user App still knows: the guards lead from the login page
\* back to the dashboard, whose first request is answered 401.
LoggedOut(c) ==
    /\ IF Ok(c) THEN Goto("/login", Rest(c))
       ELSE calls' = Rest(c) /\ UNCHANGED <<route, page, cache, config, creds>>
    /\ UNCHANGED <<user, onboarded>>

\* handleUpdateCredentials, handleDeleteAccount; what is only listed, or shows the footer
\* of the onboarding page
SettingsPage(c) ==
    \/ /\ c.kind = "update" /\ calls' = Rest(c)
       /\ Set(c, [page EXCEPT !.busy = FALSE, !.result = IF Ok(c) THEN "success" ELSE "error"])
       /\ Redirect(c) /\ UNCHANGED <<app, route, creds>>
    \/ /\ c.kind = "delete" /\ calls' = Rest(c)
       /\ Set(c, [page EXCEPT !.deleting = Ok(c)])
       /\ IF Ok(c) THEN leaving' = "/login" ELSE Redirect(c)
       /\ UNCHANGED <<app, route, creds>>
    \/ c.kind = "logout" /\ LoggedOut(c) /\ Redirect(c)
    \/ /\ c.kind = "read" /\ calls' = Rest(c) /\ Redirect(c)
       /\ config' = IF route = "/setup" /\ c.for = "page" THEN Ask ELSE config
       /\ UNCHANGED <<user, onboarded, cache, route, page, creds>>

\* The page that was hidden first counts, whatever page the tab shows until it leaves:
\* the barrier that comes again on another page, or on the way back, overtakes it.
Hides ==
    IF due \in {"none", route} \/ (leaving = "none" /\ user # Unknown) THEN route ELSE "overtaken"

Deliver(c) ==
    /\ c \in calls /\ c.out # "sent"
    /\ \/ Boot(c)
       \/ /\ LoginPage(c) \/ DashboardPage(c) \/ AdminPage(c)
          /\ Redirect(c) /\ returnPath' = Hidden(c)
       \/ SettingsPage(c) /\ returnPath' = Hidden(c)
    /\ due' = IF c.out = "barrier" THEN Hides
              ELSE IF c.kind = "logout" THEN "none" ELSE due
    /\ UNCHANGED <<session, success, troubles, foreign>>

\* The answer to config, which needs no session, and its continuation
Configured ==
    /\ config = "pending" /\ config' = "done"
    /\ UNCHANGED <<server, user, onboarded, cache, place, troubles, page, calls, foreign>>

\* An error, and the bot barrier, in place of it
Unconfigured ==
    /\ config = "pending" /\ config' = "none"
    /\ \/ Trouble /\ UNCHANGED place
       \/ Barrier /\ returnPath' = route /\ leaving' = "/" /\ due' = Hides /\ route' = route
    /\ UNCHANGED <<server, user, onboarded, cache, page, calls, foreign>>

-----------------------------------------------------------------------------
Network == \E c \in calls : SignIn(c) \/ WrongPin(c) \/ SignOut(c) \/ Serve(c)
Script == \E c \in calls : Deliver(c)

UserActs ==
    /\ Free
    /\ \/ \E r \in Routes : TypeUrl(r) \/ Navigate(r)
       \/ RequestPin \/ VerifyPin \/ DifferentEmail \/ UpdateCredentials \/ DeleteAccount
       \/ Logout \/ Trigger

Next ==
    \/ Network \/ (\E c \in calls : Fails(c) \/ Barred(c)) \/ ScrapeSucceeds \/ Elsewhere
    \/ Configured \/ Unconfigured \/ Script \/ Unload \/ Onboarded
    \/ UserActs

\* Every request ends, with an answer or an error, and the tab runs.
Fairness == WF_vars(Network \/ Configured \/ Script \/ Unload)

Spec == Init /\ [][Next]_vars /\ Fairness

-----------------------------------------------------------------------------
TypeOK ==
    /\ session \in Users \cup {NoUser} /\ success \subseteq Users
    /\ creds \in {"older", "sent", "overtaken"}
    /\ route \in Routes /\ user \in Users \cup {Unknown, NoUser}
    /\ cache \in Users \cup {"none", "pending"} /\ returnPath \in Routes \cup {"none"}
    /\ leaving \in {"none", "/", "/login"} /\ due \in Routes \cup {"none", "overtaken"}
    /\ config \in {"none", "pending", "done"}
    /\ {onboarded, foreign, page.busy, page.deleting} \subseteq BOOLEAN
    /\ \A c \in calls :
          /\ c.kind \in Kinds /\ c.for \in {"page", "tab", "nobody"}
          /\ c.out \in {"sent", "ok", "yes", "401", "fail", "barrier"}
          /\ c.kind \in {"timezone", "status"} => c.who \in Users

\* api's cache and handleLogout: the shifts and the calendar link on the dashboard
\* are both of the user App knows, whoever has signed in before, unless a session
\* was started elsewhere or by a sign-in that overlaps another.
FeedIsOwn == At("/dashboard") /\ ~foreign => DashboardShows \subseteq {user}

\* The dashboard that is mounted after a sign-out, before the first 401 reloads the
\* tab, shows nothing: not even the link that the cache still holds.
SignedOutShowsNothing == At("/dashboard") /\ page.anon /\ ~foreign => DashboardShows = {}

\* "set both atomically so OnboardingGuard doesn't see stale onboarded=false", and
\* handleBotBarrier: a signed-in user gets the page that was asked for, or the one that
\* the bot barrier hid first, and no redirect leads to another, whichever requests of the
\* page and of App's load meet it. The exception is the barrier that comes again on a
\* page that App has fallen back to, or on the way back: it saves that page instead.
ComesBack == user \in Users /\ leaving = "none" /\ due \in Routes =>
    route = Resolve(due, user, session \in success)

\* handleUpdateCredentials: "Credentials updated successfully." is shown for the
\* credentials that the server holds, unless an older update was stored after them.
UpdatedMeansStored == At("/settings") /\ page.result = "success" => creds # "older"

Waiting == user = Unknown \/ page.busy \/ page.deleting

\* What a page that is busy waits for.
Needs(r) ==
    CASE r = "/login" -> {"requestPin", "verify"}
      [] r = "/dashboard" -> Schedule
      [] r = "/admin" -> Overview
      [] r = "/settings" -> {"update"}
      [] OTHER -> {}

\* The same at each moment: for whatever a page waits, a request is under way whose
\* continuation the page or the tab runs. The link's may be one that an earlier
\* dashboard has sent.
WaitIsAnswered ==
    /\ user = Unknown => \E c \in calls : c.kind \in {"me", "timezone", "status"}
    /\ user # Unknown /\ page.busy => \E c \in calls :
          c.kind \in Needs(route) /\ (c.for = "page" \/ c.kind = "ics")
    /\ page.deleting => leaving # "none" \/ \E c \in calls : c.kind = "delete" /\ c.for = "page"

\* An answer that makes App forget its user, or a request that gets one if there is
\* no session.
Tells(c) ==
    \/ c.out = "401" \/ (c.out = "ok" /\ c.kind \in {"logout", "delete"})
    \/ c.out = "sent" /\ c.kind \notin {"requestPin", "verify", "timer"}

\* While App still knows a user whose session has ended, something is under way that
\* ends this: handleLogout leads to a page that asks the server.
SignOutReaches ==
    user \in Users /\ session = NoUser /\ troubles = 0 =>
        leaving # "none" \/ \E c \in calls : Tells(c)

Restless == []<><<UserActs>>_vars

\* The finally blocks and catches: no page says for ever that it is loading or
\* saving, unless the user clicks on for ever.
NeverStuck == []<>~Waiting \/ Restless

\* request's redirect: App learns of a sign-out although handleLogout does not tell
\* it, unless a request fails or another session starts.
SignOutIsSeen ==
    \/ (\E c \in calls : c.kind = "logout" /\ c.out = "ok")
            ~> (user = NoUser \/ session # NoUser \/ troubles > 0)
    \/ Restless
=============================================================================
