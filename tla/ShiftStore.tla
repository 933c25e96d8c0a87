----------------------------- MODULE ShiftStore -----------------------------
(***************************************************************************)
(* The shifts of one user on the server: scrapeSubmitShifts of             *)
(* cmd/app/handlers_scrape_callback.go, the shifts part of runRetention,   *)
(* deleteAccount, and the feed.                                            *)
(*                                                                         *)
(* Statements are atomic, handlers are not. Time is counted in weeks, and  *)
(* a shift's time is the week it is in.                                    *)
(***************************************************************************)
EXTENDS Integers, Sequences

CONSTANTS
    Attempts,           \* scrapes: rows of scrape_logs with their keys
    Ids,                \* shift_id_ext
    Unreadable,         \* those whose times parseShiftTime rejects
    FeedAge, KeepAge    \* of a shift in the feed, and in the table

ASSUME UnreadableAssumption == Unreadable \subseteq Ids
ASSUME AgesAssumption == FeedAge \in Nat /\ KeepAge \in Nat /\ FeedAge < KeepAge

VARIABLES
    now,
    account,    \* the user exists
    shifts,     \* table: id -> the week of the row
    log,        \* status in scrape_logs
    req,        \* the request that submits the shifts of an attempt
    dropped     \* history: the rows that retention has deleted

table == <<account, shifts, log>>
storeVars == <<now, table, req, dropped>>

\* body: the shifts sent, i: the one whose turn it is.
NoRequest == [at |-> "none", body |-> <<>>, i |-> 1]

StoreInit ==
    /\ now = 0 /\ account = TRUE /\ shifts = <<>>
    /\ log = [a \in Attempts |-> "none"]
    /\ req = [a \in Attempts |-> NoRequest]
    /\ dropped = {}

-----------------------------------------------------------------------------
\* scrapeForUser inserts the log; ScrapeService has the rest.
NewLog(a) ==
    /\ account /\ log[a] = "none" /\ req[a].at = "none"
    /\ log' = [log EXCEPT ![a] = "running"]

\* The reaper fails the log, with a snapshot from before a success perhaps.
Reap(a) ==
    /\ log[a] \in {"running", "success"}
    /\ log' = [log EXCEPT ![a] = "failure"]
    /\ UNCHANGED <<now, account, shifts, req, dropped>>

\* scrapeSubmitShifts: the key is valid and the body binds.
Submit(a, body) ==
    /\ log[a] = "running" /\ req[a].at = "none"
    /\ req' = [req EXCEPT ![a] = [at |-> "loop", body |-> body, i |-> 1]]
    /\ UNCHANGED <<now, table, dropped>>

Current(a) == req[a].body[req[a].i].id

WithRow(id, week) == [i \in DOMAIN shifts \cup {id} |-> IF i = id THEN week ELSE shifts[i]]

\* A shift whose times cannot be parsed is skipped ...
SkipShift(a) ==
    /\ req[a].at = "loop" /\ req[a].i \in DOMAIN req[a].body
    /\ Current(a) \in Unreadable
    /\ req' = [req EXCEPT ![a].i = @ + 1]
    /\ UNCHANGED <<now, table, dropped>>

\* ... and the others are inserted, ON CONFLICT DO NOTHING; without an account that
\* fails. The count of new rows, which only the log shows, is left out.
Insert(a) ==
    /\ req[a].at = "loop" /\ req[a].i \in DOMAIN req[a].body
    /\ Current(a) \notin Unreadable
    /\ shifts' = IF ~account \/ Current(a) \in DOMAIN shifts THEN shifts
                 ELSE WithRow(Current(a), req[a].body[req[a].i].week)
    /\ req' = [req EXCEPT ![a].i = @ + 1]
    /\ UNCHANGED <<now, account, log, dropped>>

\* The log becomes successful, whatever has become of it, and the answer is sent.
Finish(a) ==
    /\ req[a].at = "loop" /\ req[a].i \notin DOMAIN req[a].body
    /\ log' = [log EXCEPT ![a] = IF @ = "none" THEN @ ELSE "success"]
    /\ req' = [req EXCEPT ![a].at = "answered"]
    /\ UNCHANGED <<now, account, shifts, dropped>>

\* Mutant: the last statement does not use the request's context.
CutMarksSuccess(a) ==
    /\ req[a].at = "loop"
    /\ log' = [log EXCEPT ![a] = IF @ = "none" THEN @ ELSE "success"]
    /\ req' = [req EXCEPT ![a] = [req[a] EXCEPT !.at = "cut"]]
    /\ UNCHANGED <<now, account, shifts, dropped>>

\* The connection is gone, or the server crashes: every later statement fails.
Cut(a) ==
    /\ req[a].at = "loop"
    /\ req' = [req EXCEPT ![a] = [NoRequest EXCEPT !.at = "cut"]]
    /\ UNCHANGED <<now, table, dropped>>

\* scrapeSubmitFailure
ReportFailure(a) == log' = [log EXCEPT ![a] = IF @ = "running" THEN "failure" ELSE @]

Handler(a) == SkipShift(a) \/ Insert(a) \/ Finish(a)

\* deleteAccount, with the cascades.
DeleteAccount ==
    /\ account /\ account' = FALSE /\ shifts' = <<>>
    /\ log' = [a \in Attempts |-> "none"]
    /\ UNCHANGED <<now, req, dropped>>

Rows == {[id |-> id, week |-> shifts[id]] : id \in DOMAIN shifts}

\* Mutant: the retention age is the feed's.
FeedRetention ==
    /\ \E id \in DOMAIN shifts : shifts[id] <= now - FeedAge
    /\ shifts' = [id \in {i \in DOMAIN shifts : shifts[i] > now - FeedAge} |-> shifts[id]]
    /\ dropped' = dropped \cup (Rows \ Rows')
    /\ UNCHANGED <<now, account, log, req>>

\* runRetention
Retention ==
    /\ \E id \in DOMAIN shifts : shifts[id] < now - KeepAge
    /\ shifts' = [id \in {i \in DOMAIN shifts : shifts[i] >= now - KeepAge} |-> shifts[id]]
    /\ dropped' = dropped \cup (Rows \ Rows')
    /\ UNCHANGED <<now, account, log, req>>

Week ==
    /\ now' = now + 1
    /\ UNCHANGED <<table, req, dropped>>

\* queryUserShifts: what the feed and the dashboard show.
Feed == {id \in DOMAIN shifts : shifts[id] > now - FeedAge}

Entry == [id : Ids, week : Int]

StoreNext ==
    \/ \E a \in Attempts : \/ NewLog(a) /\ UNCHANGED <<now, account, shifts, req, dropped>>
                           \/ ReportFailure(a) /\ UNCHANGED <<now, account, shifts, req, dropped>>
                           \/ \E body \in Seq(Entry) : Submit(a, body)
                           \/ Handler(a) \/ Cut(a) \/ Reap(a)
    \/ DeleteAccount \/ Retention \/ Week

StoreSpec == StoreInit /\ [][StoreNext]_storeVars

-----------------------------------------------------------------------------
Request == [at : {"none", "loop", "answered", "cut"}, body : Seq(Entry),
            i : Nat \ {0}]

StoreTypeOK ==
    /\ now \in Nat /\ account \in BOOLEAN
    /\ DOMAIN shifts \subseteq Ids \ Unreadable
    /\ \A id \in DOMAIN shifts : shifts[id] \in Int
    /\ log \in [Attempts -> {"none", "running", "success", "failure"}]
    /\ req \in [Attempts -> Request]
    /\ dropped \subseteq Entry

Kept(id) == id \in Unreadable \cup DOMAIN shifts \cup {e.id : e \in dropped}

\* scrapeSubmitShifts: a scrape is marked successful only when every shift it sent
\* is in the table, or was until retention: a request that was cut, a deleted
\* account or another scrape's request never leave a success with rows missing.
SuccessMeansStored == \A a \in Attempts : account /\ log[a] = "success" =>
    \A j \in DOMAIN req[a].body : Kept(req[a].body[j].id)
=============================================================================
