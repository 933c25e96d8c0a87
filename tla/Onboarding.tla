----------------------------- MODULE Onboarding -----------------------------
(***************************************************************************)
(* The page of web/src/pages/Onboarding.tsx against cmd/app's              *)
(* scrapeStatus and onboardingStatus: a user saves credentials and the     *)
(* page polls for the result of the scrape they start.                     *)
(*                                                                         *)
(* One user and one page. Each callback of the page is a step, and so is   *)
(* each query of the server; responses may be late, reordered or lost. The *)
(* polls are sent by an interval that does not wait for the one before.    *)
(***************************************************************************)
EXTENDS Integers, Sequences, SequencesExt

CONSTANTS
    MaxSaves, MaxLogs, MaxPolls     \* bounds

ASSUME BoundsAssumption == {MaxSaves, MaxLogs, MaxPolls} \subseteq Nat \ {0}

VARIABLES
    logs,       \* scrape_logs of the user, in the order of scrapeStatus: the
                \* latest is last; which save's credentials each is for
    stored,     \* how many saves the server has stored
    saving,     \* the save that is under way
    loading,    \* the query on mount is not answered
    step, onboarded,
    timer,      \* pollRef is set
    awaiting,   \* awaitingNewScrapeRef
    elapsed,    \* since scrapeStartRef: 0, 1 past SLOW_, 2 past TIMEOUT_THRESHOLD
    asked,      \* how many polls the server has not answered
    answers,    \* its answers under way to the page, in the order of its reads
    shown,      \* scrapeResult: the save its log is for, or None
    mine,       \* the save that the page waits for
    excuse      \* history: why an earlier result may be shown for this save

server == <<logs, stored>>
page == <<step, loading, onboarded, timer, awaiting, elapsed, shown, mine>>
polls == <<asked, answers>>
vars == <<server, saving, page, polls, excuse>>

None == -1

\* What scrapeStatus answers.
Status == IF logs = <<>> THEN [status |-> "null", for |-> None] ELSE Last(logs)

HasSuccess == \E i \in DOMAIN logs : logs[i].status = "success"

Init ==
    /\ \E s \in {"running", "success", "failure"} :
          logs \in {<<>>, <<[status |-> s, for |-> 0]>>}
    /\ stored = 0 /\ saving = "no"
    /\ step = "loading" /\ loading = TRUE /\ onboarded = HasSuccess
    /\ timer = FALSE /\ awaiting = FALSE /\ elapsed = 0
    /\ asked = 0 /\ answers = <<>> /\ shown = None /\ mine = 0 /\ excuse = FALSE

-----------------------------------------------------------------------------
(* The server: scrapes start and end as ScrapeService says, at any moment. *)

\* scrapeForUser inserts a log; one that starts within the second of the latest
\* may come before it in the order of started_at.
ScrapeStarts ==
    /\ Len(logs) < MaxLogs
    /\ LET new == [status |-> "running", for |-> stored]
       IN  logs' = Append(logs, new) \/ (logs # <<>> /\ logs' = InsertAt(logs, Len(logs), new))
    /\ UNCHANGED <<stored, saving, page, polls, excuse>>

\* A callback or the reaper: the one that comes second overwrites the other's mark.
ScrapeEnds ==
    /\ \E i \in DOMAIN logs, s \in {"success", "failure"} :
          logs[i].status # s /\ logs' = [logs EXCEPT ![i].status = s]
    /\ UNCHANGED <<stored, saving, page, polls, excuse>>

\* runRetention deletes logs that ended days ago, before this visit.
Retention ==
    /\ step = "left" /\ ~timer /\ saving = "no"
    /\ \E i \in DOMAIN logs : logs[i].status # "running" /\ logs' = RemoveAt(logs, i)
    /\ UNCHANGED <<stored, saving, page, polls, excuse>>

\* Mutant: a save is stored once more when its response is slow.
StoreAgain ==
    /\ saving # "no" /\ saving' = "stored" /\ stored' = stored + 1
    /\ UNCHANGED <<logs, page, polls, excuse>>

\* writeCredentials stores what the page has sent.
SaveStored ==
    /\ saving = "sent" /\ saving' = "stored" /\ stored' = stored + 1
    /\ UNCHANGED <<logs, page, polls, excuse>>

\* scrapeStatus reads for a poll.
Answer ==
    /\ asked > 0 /\ asked' = asked - 1
    /\ answers' = Append(answers, Status)
    /\ UNCHANGED <<server, saving, page, excuse>>

-----------------------------------------------------------------------------
(* The page *)

\* setStep, which has no effect once the page was left.
Show(s) == step' = IF step = "left" THEN step ELSE s

\* startPolling, for the save n.
StartPolling(n) == Show("scraping") /\ timer' = TRUE /\ elapsed' = 0 /\ mine' = n

\* The user comes back, in the same app or by loading it anew.
Enter ==
    /\ step = "left" /\ ~timer /\ ~loading /\ saving = "no" /\ polls = <<0, <<>>>>
    /\ step' = "loading" /\ loading' = TRUE
    /\ awaiting' = FALSE /\ elapsed' = 0 /\ shown' = None /\ mine' = 0 /\ excuse' = FALSE
    /\ onboarded' \in {onboarded, HasSuccess, FALSE}
    /\ UNCHANGED <<server, saving, timer, polls>>

\* The effect on mount: a running scrape is waited for.
Mounted ==
    /\ loading /\ loading' = FALSE
    /\ \/ Status.status = "running" /\ StartPolling(Status.for) /\ awaiting' = FALSE
       \/ Show("form") /\ UNCHANGED <<timer, elapsed, mine, awaiting>>
    /\ UNCHANGED <<server, saving, onboarded, shown, polls, excuse>>

\* The effect's cleanup.
Leave ==
    /\ step # "left" /\ step' = "left" /\ timer' = FALSE
    /\ UNCHANGED <<server, saving, loading, onboarded, awaiting, elapsed, shown, mine, polls, excuse>>

Wait ==
    /\ elapsed < 2 /\ elapsed' = elapsed + 1
    /\ UNCHANGED <<server, saving, step, loading, onboarded, timer, awaiting, shown, mine, polls, excuse>>

\* What each card offers.
Card == CASE step = "form" -> "submit" [] step = "failure" -> "retry" [] OTHER -> "wait"

\* handleSubmit, until its await.
Submit ==
    /\ Card = "submit" /\ saving = "no" /\ stored < MaxSaves
    /\ saving' = "sent"
    /\ UNCHANGED <<server, page, polls, excuse>>

\* Mutant: the page accepts any result.
SavedUnaware ==
    /\ saving = "stored" /\ saving' = "no"
    /\ StartPolling(stored) /\ awaiting' = FALSE
    /\ excuse' = (polls # <<0, <<>>>> \/ \E i \in DOMAIN logs :
                     logs[i].status = "running" /\ logs[i].for < stored)
    /\ UNCHANGED <<server, loading, onboarded, shown, polls>>

\* handleSubmit, after it. An earlier scrape that still runs, or a poll that is
\* still out, may be taken for the new one.
Saved ==
    /\ saving = "stored" /\ saving' = "no"
    /\ StartPolling(stored) /\ awaiting' = TRUE
    /\ excuse' = (polls # <<0, <<>>>> \/ \E i \in DOMAIN logs :
                     logs[i].status = "running" /\ logs[i].for < stored)
    /\ UNCHANGED <<server, loading, onboarded, shown, polls>>

\* The save was rejected, or its response is lost.
SaveFails ==
    /\ saving # "no" /\ saving' = "no"
    /\ UNCHANGED <<server, page, polls, excuse>>

\* handleRetry
Retry ==
    /\ Card = "retry" /\ step' = "form" /\ shown' = None
    /\ UNCHANGED <<server, saving, loading, onboarded, timer, awaiting, elapsed, mine, polls, excuse>>

\* The interval's callback, until its await.
Poll ==
    /\ timer /\ asked + Len(answers) < MaxPolls
    /\ asked' = asked + 1
    /\ UNCHANGED <<server, saving, page, answers, excuse>>

\* A request or a response is lost: the page ignores it.
PollLost ==
    /\ \/ asked > 0 /\ asked' = asked - 1 /\ answers' = answers
       \/ asked' = asked /\ \E i \in DOMAIN answers : answers' = RemoveAt(answers, i)
    /\ UNCHANGED <<server, saving, page, excuse>>

\* The callback goes on, and the status is not accepted ...
Skips(st) == awaiting /\ st # "running" /\ elapsed < 2

Skip(p) == Skips(p.status) /\ UNCHANGED page

\* ... or is not final ...
GoOn(p) ==
    /\ ~Skips(p.status) /\ p.status \notin {"success", "failure"} /\ elapsed < 2
    /\ awaiting' = FALSE
    /\ UNCHANGED <<step, loading, onboarded, timer, elapsed, shown, mine>>

\* Mutant: stopPolling is forgotten.
ResultKeepsPolling(p) ==
    /\ ~Skips(p.status) /\ p.status \in {"success", "failure"}
    /\ awaiting' = FALSE
    /\ Show(p.status) /\ shown' = p.for
    /\ onboarded' = (onboarded \/ p.status = "success")
    /\ UNCHANGED <<loading, timer, elapsed, mine>>

\* ... or is the result ...
Result(p) ==
    /\ ~Skips(p.status) /\ p.status \in {"success", "failure"}
    /\ awaiting' = FALSE /\ timer' = FALSE
    /\ Show(p.status) /\ shown' = p.for
    /\ onboarded' = (onboarded \/ p.status = "success")
    /\ UNCHANGED <<loading, elapsed, mine>>

\* Mutant: there is no time limit.
NoTimeout(p) == p.status \notin {"success", "failure"} /\ elapsed = 2 /\ UNCHANGED page

\* ... or it took too long.
TimesOut(p) ==
    /\ p.status \notin {"success", "failure"} /\ elapsed = 2
    /\ awaiting' = FALSE /\ timer' = FALSE
    /\ Show("failure") /\ shown' = None
    /\ UNCHANGED <<loading, onboarded, elapsed, mine>>

\* The callback gets the answer i, which has overtaken an older one if i > 1. A
\* page that has waited too long takes whatever the latest log says.
Return(i) ==
    /\ i \in DOMAIN answers
    /\ LET p == answers[i] IN Skip(p) \/ GoOn(p) \/ Result(p) \/ TimesOut(p)
    /\ answers' = RemoveAt(answers, i)
    /\ excuse' = (excuse \/ i > 1 \/ (awaiting /\ elapsed = 2))
    /\ UNCHANGED <<server, saving, asked>>

Next ==
    \/ ScrapeStarts \/ ScrapeEnds \/ Retention \/ SaveStored
    \/ Enter \/ Mounted \/ Leave \/ Wait \/ Submit \/ Saved \/ SaveFails \/ Retry
    \/ Poll \/ Answer \/ PollLost \/ \E i \in 1..MaxPolls : Return(i)

\* Time passes, the interval fires, and not every poll is lost.
Fairness ==
    /\ WF_vars(Wait) /\ WF_vars(Poll) /\ WF_vars(Mounted)
    /\ SF_vars(Answer)
    /\ SF_vars(\E i \in 1..MaxPolls : Return(i))

Spec == Init /\ [][Next]_vars /\ Fairness

-----------------------------------------------------------------------------
TypeOK ==
    /\ logs \in Seq([status : {"running", "success", "failure"}, for : 0..MaxSaves])
    /\ Len(logs) <= MaxLogs /\ stored \in 0..MaxSaves
    /\ saving \in {"no", "sent", "stored"}
    /\ step \in {"left", "loading", "form", "scraping", "success", "failure"}
    /\ {loading, onboarded, timer, awaiting, excuse} \subseteq BOOLEAN
    /\ elapsed \in 0..2 /\ mine \in 0..MaxSaves /\ shown \in 0..MaxSaves \cup {None}
    /\ answers \in Seq([status : {"null", "running", "success", "failure"},
                        for : 0..MaxSaves \cup {None}])
    /\ asked \in Nat /\ asked + Len(answers) <= MaxPolls

\* startPolling, stopPolling: the page shows the spinner exactly while its interval
\* runs, whatever late callbacks do, and "View your schedule" leads to a
\* dashboard that App lets the user see.
PageIsConsistent == step # "left" =>
    /\ timer <=> step = "scraping"
    /\ step = "success" => onboarded

IsResult == step \in {"success", "failure"} /\ shown # None

\* awaitingNewScrapeRef: an earlier scrape's result is shown for the last save only
\* if that scrape still ran when the save was acknowledged, a response was late or
\* overtaken, or the page had waited for the four minutes.
OldResultHasCause == IsResult /\ shown < mine => excuse

\* The interval always comes to an end, even one started after the page was left.
PollingEnds == timer ~> ~timer
=============================================================================
