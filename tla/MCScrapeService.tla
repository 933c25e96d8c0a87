-------------------------- MODULE MCScrapeService --------------------------
(* Small instances of ScrapeService for TLC.                               *)
EXTENDS ScrapeService, TLC

\* Users and slots are interchangeable; for runs without liveness only.
Symmetry == Permutations(Users) \cup Permutations(Attempts)

\* Bound of the runs that check liveness: all users have saved credentials, and
\* may delete their accounts; no scrape is triggered by hand any more.
LiveInit ==
    /\ users = Users
    /\ creds = Users /\ writing = {} /\ cut = {}
    /\ schedule = [u \in Users |-> "due"]
    /\ att = [a \in Attempts |-> Blank]
    /\ sem = 0
    /\ pc = "idle" /\ todo = {} /\ known = {} /\ cur = NoAttempt
    /\ crashes = 0

\* Bound: a tick starts an attempt only when all slots are free, so that every
\* retry finds one; until then it is as if the query had failed.
Tick == PollDue /\ (DueUsers = {} \/ Free(att, todo) = Attempts)

LiveNext ==
    \/ Tick \/ PollFails \/ (\E S \in SUBSET Attempts : ReapQuery(S))
    \/ (\E a \in Attempts : ReapKill(a)) \/ ReapMark \/ ReapHandle \/ Crash
    \/ \E a \in Attempts : Starter(a) \/ Handler(a) \/ Container(a)
    \/ \E u \in Users : BecomesDue(u) \/ DeleteAccount(u)

LiveSpec == LiveInit /\ [][LiveNext]_vars /\ Fairness /\ SF_vars(Tick) /\ ScraperEnds

=============================================================================
