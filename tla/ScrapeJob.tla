----------------------------- MODULE ScrapeJob -----------------------------
(***************************************************************************)
(* What scraping promises, without goroutines, containers, requests, the   *)
(* reaper and crashes: a user's schedule is put off only for a scrape that *)
(* has an outcome; a scrape is retried only when it has one, and at most   *)
(* MaxRetries times; it succeeds only with the credentials, which it gets  *)
(* once; and it is not forgotten while its log says that it runs.          *)
(***************************************************************************)
EXTENDS Functions

CONSTANTS Users, NoUser, Slots, MaxRetries

VARIABLES
    users,      \* the accounts
    schedule,   \* of each user: "none", "due" or "later"
    job         \* the scrapes

vars == <<users, schedule, job>>

NewJob(u, auto, retry) ==
    [user |-> u, auto |-> auto, retry |-> retry, log |-> "none", handed |-> FALSE]

NoJob == NewJob(NoUser, FALSE, 0)

Ended(j) == j.log \in {"success", "failure"}

Free(f) == {a \in Slots : f[a] = NoJob}

\* The jobs f without some, of which no log is running.
Forgotten(f) == {[a \in Slots |-> IF a \in S THEN NoJob ELSE f[a]] :
                    S \in SUBSET {a \in Slots : f[a].log # "running"}}

PutOff(u) == [v \in Users |-> IF v = u /\ schedule[v] = "due" THEN "later" ELSE schedule[v]]

Init == /\ users = Users
        /\ schedule = [u \in Users |-> "none"]
        /\ job = [a \in Slots |-> NoJob]

Trigger(u) ==
    /\ \E a \in Free(job) : job' = [job EXCEPT ![a] = NewJob(u, FALSE, 0)]
    /\ schedule' = schedule \/ (u \in users /\ schedule' = [schedule EXCEPT ![u] = "due"])
    /\ UNCHANGED users

BecomesDue(u) ==
    /\ schedule[u] = "later" /\ schedule' = [schedule EXCEPT ![u] = "due"]
    /\ UNCHANGED <<users, job>>

\* A job for each user who is due.
Poll ==
    /\ \E S \in SUBSET Free(job) : \E who \in Bijection(S, {u \in Users : schedule[u] = "due"}) :
          job' = [a \in Slots |-> IF a \in S THEN NewJob(who[a], TRUE, 0) ELSE job[a]]
    /\ UNCHANGED <<users, schedule>>

Begin(a) ==
    /\ job[a].user \in users /\ job[a].log = "none"
    /\ job' = [job EXCEPT ![a].log = "running"]
    /\ UNCHANGED <<users, schedule>>

HandOut(a) ==
    /\ job[a].log # "none" /\ ~job[a].handed
    /\ job' \in Forgotten([job EXCEPT ![a].handed = TRUE])
    /\ UNCHANGED <<users, schedule>>

\* Two outcomes may be found of a job; the last one counts.
Succeed(a) ==
    /\ job[a].handed /\ job[a].log # "none"
    /\ job' = [job EXCEPT ![a].log = "success"]
    /\ UNCHANGED <<users, schedule>>

Fail(a) ==
    /\ job[a].log # "none"
    /\ job' = [job EXCEPT ![a].log = "failure"]
    /\ UNCHANGED <<users, schedule>>

Retry(a) ==
    /\ job[a].auto /\ job[a].retry < MaxRetries
    /\ Ended(job[a]) \/ job[a].user \notin users
    /\ \E f \in Forgotten(job) : \E b \in Free(f) :
          job' = [f EXCEPT ![b] = NewJob(job[a].user, TRUE, job[a].retry + 1)]
    /\ UNCHANGED <<users, schedule>>

Finish(a) ==
    /\ Ended(job[a])
    /\ schedule' = PutOff(job[a].user)
    /\ job' \in Forgotten(job)
    /\ UNCHANGED users

Forget == job' \in Forgotten(job) /\ UNCHANGED <<users, schedule>>

\* Nothing of an account is left when it is deleted.
Delete(u) ==
    /\ users' = users \ {u}
    /\ schedule' = [schedule EXCEPT ![u] = "none"]
    /\ job' \in Forgotten([a \in Slots |->
                   [job[a] EXCEPT !.log = IF job[a].user = u THEN "none" ELSE @]])

Next == \/ Poll \/ Forget
        \/ \E u \in Users : Trigger(u) \/ BecomesDue(u) \/ Delete(u)
        \/ \E a \in Slots : Begin(a) \/ HandOut(a) \/ Succeed(a) \/ Fail(a)
                              \/ Retry(a) \/ Finish(a)

Spec == Init /\ [][Next]_vars
=============================================================================
