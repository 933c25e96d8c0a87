----------------------- MODULE ScrapeService_proofs -----------------------
(***************************************************************************)
(* Proofs of the safety properties of ScrapeService, for any number of     *)
(* users, of concurrent attempts, of retries and of crashes.               *)
(*                                                                         *)
(* The inductive invariant has four parts. AttemptOK is about one attempt  *)
(* and the users table, and every action but deleteAccount and Crash       *)
(* changes one attempt only (a "local step"), up to attempts that are over *)
(* and become blank. SnapshotOK relates the reaper's stale snapshot to the *)
(* attempts it names; it survives because a slot named there is not reused.*)
(* SemaphoreAccounting counts the goroutines. TablesOK and                 *)
(* ScheduledUnlessCut are about the tables alone. The last section shows   *)
(* that each step is one of ScrapeJob's or hides from it.                  *)
(***************************************************************************)
EXTENDS ScrapeService, FiniteSetTheorems, TLAPS

Launched == {"create", "record", "start", "mark", "marked"}

\* What holds of an attempt r at any time, given the accounts U.
AttemptOK(r, U) ==
    \* before its INSERT an attempt has no log, no container and no request
    /\ r.go \in {"waiting", "insert"} => r.row = "none" /\ r.ctr = "none" /\ r.cb = "none"
    \* the container's id is recorded before the container is started
    /\ r.row # "none" /\ (r.ctr # "none" \/ r.go = "start") => r.cid
    \* the script browses and posts shifts with the credentials it was given
    /\ r.row # "none" /\ (\/ r.ctr = "browsing" \/ r.cb \in {"shifts", "shiftsMarked"}
                          \/ r.row = "success") => r.fetched
    \* a request that may hand out the credentials is the first one
    /\ r.cb = "creds" => ~r.fetched
    \* whoever is about to retry or reschedule has an outcome
    /\ r.go = "marked" \/ r.cb \in {"shiftsMarked", "failMarked"} => r.row # "running"
    \* a log is there from its INSERT until the account is deleted
    /\ r.user \in U /\ (r.go \in Launched \/ r.ctr # "none" \/ r.cb # "none") => r.row # "none"
    /\ r.user \notin U => r.row = "none"

\* What holds of an entry a of the reaper's snapshot: its log is there unless
\* the account was deleted, and an attempt of the tick was started before the
\* snapshot was taken, so that its container is known or it has none.
EntryOK(a) ==
    /\ att[a].user \in users => att[a].row # "none"
    /\ att[a].polled => att[a].go = "idle" /\ (a \notin known => att[a].ctr = "none")

SnapshotOK ==
    /\ \A a \in todo : EntryOK(a)
    /\ pc \in {"mark", "handle"} => cur \in todo
    /\ ReaperMissesNone
    /\ pc = "handle" => att[cur].row # "running"

TablesOK == \A u \in Users \ users : u \notin creds /\ schedule[u] = "none"

AttemptsOK == \A a \in Attempts : AttemptOK(att[a], users)

IInv == /\ TypeOK /\ TablesOK /\ ScheduledUnlessCut
        /\ AttemptsOK /\ SnapshotOK /\ SemaphoreAccounting

-----------------------------------------------------------------------------
(* Steps, slot by slot                                                     *)

\* An attempt that waits for its place in sem, or an empty slot.
Fresh == {r \in Attempt : /\ r.go \in {"idle", "waiting", "insert"}
                          /\ r.row = "none" /\ r.ctr = "none" /\ r.cb = "none"}

\* r is a later state of the attempt p.
Continues(p, r) ==
    /\ r \in Attempt /\ AttemptOK(r, users)
    /\ r.user = p.user /\ r.polled = p.polled
    /\ r.row = "none" => p.row = "none"
    /\ r.row = "running" => p.row \in {"none", "running"}
    /\ p.go = "idle" => r.go = "idle" /\ (p.ctr = "none" => r.ctr = "none")

\* What the slot b may do in a step: a slot in S, the part of the snapshot that
\* is not done yet, keeps its attempt.
SlotStep(b, S) == \/ att'[b] = att[b]
                  \/ b \notin S /\ att'[b] \in Fresh
                  \/ Continues(att[b], att'[b])

SlotSteps(S) == /\ att' = [b \in Attempts |-> att'[b]]
                /\ \A b \in Attempts : SlotStep(b, S)

\* The goroutines in sem once the attempt of slot a is r.
HoldersWith(a, r) == (Holders \ {a}) \cup (IF r.go \in Holding THEN {a} ELSE {})

\* A blank slot is fresh.
LEMMA BlankIsFresh == Blank \in Fresh
BY NumbersAssumption DEF Blank, NewAttempt, Fresh, Attempt, Goroutine, Holding

\* Slot steps preserve the invariants of the attempts and of the snapshot's
\* entries.
LEMMA SlotStepsPreserve ==
    ASSUME TypeOK, AttemptsOK, NEW S, S \subseteq todo, \A a \in S : EntryOK(a),
           SlotSteps(S), UNCHANGED users
    PROVE  /\ att' \in [Attempts -> Attempt]
           /\ AttemptsOK'
           /\ \A a \in S : /\ att'[a].user \in users => att'[a].row # "none"
                           /\ att'[a].polled => /\ att'[a].go = "idle"
                                                /\ a \notin known => att'[a].ctr = "none"
<1>1. \A b \in Attempts : att'[b] \in Attempt /\ AttemptOK(att'[b], users)
  <2> SUFFICES ASSUME NEW b \in Attempts
               PROVE  att'[b] \in Attempt /\ AttemptOK(att'[b], users)
    OBVIOUS
  <2>1. CASE att'[b] = att[b]
    BY <2>1 DEF TypeOK, AttemptsOK
  <2>2. CASE att'[b] \in Fresh
    BY <2>2 DEF Fresh, AttemptOK, Launched
  <2>3. CASE Continues(att[b], att'[b])
    BY <2>3 DEF Continues
  <2> QED BY <2>1, <2>2, <2>3 DEF SlotSteps, SlotStep
<1>2. att' \in [Attempts -> Attempt] /\ AttemptsOK'
  BY <1>1 DEF SlotSteps, AttemptsOK
<1>3. ASSUME NEW a \in S
      PROVE  /\ att'[a].user \in users => att'[a].row # "none"
             /\ att'[a].polled => /\ att'[a].go = "idle"
                                  /\ a \notin known => att'[a].ctr = "none"
  BY <1>3 DEF TypeOK, SlotSteps, SlotStep, EntryOK, Continues
<1> QED BY <1>2, <1>3

\* If the scheduler does not move either, its snapshot stays right.
LEMMA SnapshotStays ==
    ASSUME TypeOK, AttemptsOK, SnapshotOK, SlotSteps(todo), UNCHANGED <<users, pc, reaper>>
    PROVE  SnapshotOK'
<1>1. \A a \in todo : EntryOK(a)'
  BY SlotStepsPreserve DEF SnapshotOK, EntryOK, reaper
<1>2. ReaperMissesNone'
  BY <1>1 DEF SnapshotOK, EntryOK, ReaperMissesNone, SlotSteps, SlotStep, Continues, TypeOK, reaper
<1>3. (pc = "handle" => att[cur].row # "running")'
  BY DEF SnapshotOK, EntryOK, SlotSteps, SlotStep, Continues, TypeOK, reaper, AttemptsOK, AttemptOK
<1> QED BY <1>1, <1>2, <1>3 DEF SnapshotOK, reaper

-----------------------------------------------------------------------------
(* The actions of goroutines, handlers and containers as slot steps        *)

\* att with the attempt of slot a replaced by r, tidied or not.
Replaced(a, r) == att' = [att EXCEPT ![a] = r] \/ Update(a, r)

\* Replacing one attempt by a later state of it is a slot step everywhere.
LEMMA LocalStep ==
    ASSUME TypeOK, NEW a \in Attempts, NEW r, Continues(att[a], r), Replaced(a, r)
    PROVE  SlotSteps(todo) /\ Holders' = HoldersWith(a, r)
<1> DEFINE f == [att EXCEPT ![a] = r]
<1>1. f \in [Attempts -> Attempt]
  BY DEF TypeOK, Continues
<1>2. CASE att' = f
  <2>1. SlotSteps(todo)
    BY <1>1, <1>2 DEF SlotSteps, SlotStep, TypeOK
  <2>2. Holders' = HoldersWith(a, r)
    BY <1>1, <1>2 DEF Holders, HoldersWith, TypeOK
  <2> QED BY <2>1, <2>2
<1>3. CASE att' = Tidy(f, todo)
  <2>1. \A b \in Attempts : /\ att'[b] = f[b] \/ (b \notin todo /\ att'[b] = Blank)
                            /\ att' = [c \in Attempts |-> att'[c]]
    BY <1>1, <1>3 DEF Tidy
  <2>2. SlotSteps(todo)
    BY <2>1, BlankIsFresh DEF SlotSteps, SlotStep, TypeOK
  <2>3. \A b \in Attempts : att'[b].go = f[b].go
    BY <1>1, <1>3 DEF Tidy, Over, Blank, NewAttempt
  <2>4. Holders' = HoldersWith(a, r)
    BY <2>3 DEF Holders, HoldersWith, TypeOK
  <2> QED BY <2>2, <2>4
<1> QED BY <1>2, <1>3 DEF Replaced, Update

\* Starting a fresh attempt n in a free slot b, after a local step or none.
LEMMA SpawnStep ==
    ASSUME TypeOK, NEW S, NEW a \in Attempts, NEW r, Continues(att[a], r),
           NEW g, g = [att EXCEPT ![a] = r] \/ g = Tidy([att EXCEPT ![a] = r], S),
           NEW b \in Free(g, S), NEW n \in Fresh, att' = [g EXCEPT ![b] = n]
    PROVE  /\ SlotSteps(S)
           /\ Holders' = HoldersWith(a, r) \cup (IF n.go \in Holding THEN {b} ELSE {})
           /\ b \notin HoldersWith(a, r)
<1> DEFINE f == [att EXCEPT ![a] = r]
<1>1. f \in [Attempts -> Attempt] /\ att \in [Attempts -> Attempt]
  BY DEF TypeOK, Continues
<1>2. /\ g \in [Attempts -> Attempt]
      /\ \A c \in Attempts : g[c] = f[c] \/ (c \notin S /\ g[c] = Blank)
  BY <1>1, BlankIsFresh DEF Tidy, Fresh
<1>3. \A c \in Attempts : g[c].go = f[c].go
  BY <1>1 DEF Tidy, Over, Blank, NewAttempt
<1>4. att' = [c \in Attempts |-> att'[c]]
  BY <1>2
<1>5. \A c \in Attempts : SlotStep(c, S)
  <2> SUFFICES ASSUME NEW c \in Attempts PROVE SlotStep(c, S)
    OBVIOUS
  <2>1. CASE c = b
    BY <2>1, <1>2 DEF Free, SlotStep
  <2>2. CASE c # b
    <3>1. att'[c] = g[c]
      BY <2>2, <1>2
    <3> QED BY <3>1, <1>1, <1>2, BlankIsFresh DEF SlotStep
  <2> QED BY <2>1, <2>2
<1>6. b \in Attempts /\ f[b].go = "idle"
  BY <1>3 DEF Free, Blank, NewAttempt
<1>7. Holders' = HoldersWith(a, r) \cup (IF n.go \in Holding THEN {b} ELSE {})
  BY <1>1, <1>2, <1>3, <1>6 DEF Holders, HoldersWith, Holding
<1>8. b \notin HoldersWith(a, r)
  BY <1>1, <1>6 DEF Holders, HoldersWith, Holding
<1> QED BY <1>4, <1>5, <1>7, <1>8 DEF SlotSteps

\* HandleScrapeFailure after a local step: a retry in a free slot, or none.
LEMMA HandledStep ==
    ASSUME TypeOK, NEW S, NEW a \in Attempts, NEW r, Continues(att[a], r),
           HandleScrapeFailure(a, [att EXCEPT ![a] = r], S)
    PROVE  SlotSteps(S) /\ Holders' = HoldersWith(a, r)
<1> DEFINE f == [att EXCEPT ![a] = r]
           g == Tidy(f, S)
           n == NewAttempt(r.user, TRUE, r.retry + 1, FALSE, "waiting")
<1>1. f \in [Attempts -> Attempt] /\ f[a] = r /\ r \in Attempt
  BY DEF TypeOK, Continues
<1>2. CASE f[a].row # "none" /\ MayRetry(f[a])
  <2>1. n \in Fresh /\ n.go \notin Holding
    BY <1>1, <1>2, NumbersAssumption
    DEF MayRetry, NewAttempt, Fresh, Attempt, Goroutine, Holding
  <2>2. PICK b \in Free(g, S) : att' = [g EXCEPT ![b] = n]
    BY <1>1, <1>2 DEF HandleScrapeFailure
  <2>3. g = f \/ g = Tidy(f, S)
    OBVIOUS
  <2> HIDE DEF g, n
  <2>4. /\ SlotSteps(S)
        /\ Holders' = HoldersWith(a, r) \cup (IF n.go \in Holding THEN {b} ELSE {})
    BY <2>1, <2>2, <2>3, SpawnStep
  <2> QED BY <2>1, <2>4
<1>3. CASE ~(f[a].row # "none" /\ MayRetry(f[a]))
  <2>1. att' = Tidy(f, S)
    BY <1>3 DEF HandleScrapeFailure
  <2>2. /\ att' = [c \in Attempts |-> att'[c]]
        /\ \A b \in Attempts : att'[b] = f[b] \/ (b \notin S /\ att'[b] = Blank)
    BY <1>1, <2>1 DEF Tidy
  <2>3. SlotSteps(S)
    BY <2>2, BlankIsFresh DEF SlotSteps, SlotStep, TypeOK
  <2>4. \A b \in Attempts : att'[b].go = f[b].go
    BY <1>1, <2>1 DEF Tidy, Over, Blank, NewAttempt
  <2>5. Holders' = HoldersWith(a, r)
    BY <2>4 DEF Holders, HoldersWith, TypeOK
  <2> QED BY <2>3, <2>5
<1> QED BY <1>2, <1>3

-----------------------------------------------------------------------------
(* Places in sem                                                           *)

LEMMA HoldersFinite == IsFiniteSet(Holders) /\ Cardinality(Holders) \in Nat
BY AttemptsAssumption, FS_Subset, FS_CardinalityType DEF Holders

\* A step that neither takes nor gives back a place.
LEMMA PlaceKept ==
    ASSUME NEW a \in Attempts, NEW r, r.go \in Holding <=> att[a].go \in Holding
    PROVE  HoldersWith(a, r) = Holders
BY DEF Holders, HoldersWith

\* s.sem <- struct{}{}
LEMMA PlaceTaken ==
    ASSUME SemaphoreAccounting, NEW a \in Attempts, NEW r, a \notin Holders,
           r.go \in Holding, Holders' = HoldersWith(a, r), sem < MaxConcurrent, sem' = sem + 1
    PROVE  SemaphoreAccounting'
<1>1. Holders' = Holders \cup {a}
  BY DEF HoldersWith
<1>2. Cardinality(Holders') = Cardinality(Holders) + 1
  BY <1>1, HoldersFinite, FS_AddElement
<1> QED BY <1>2, HoldersFinite, NumbersAssumption DEF SemaphoreAccounting

\* <-s.sem
LEMMA PlaceGiven ==
    ASSUME SemaphoreAccounting, NEW a \in Attempts, NEW r, a \in Holders,
           r.go \notin Holding, Holders' = HoldersWith(a, r), sem' = sem - 1
    PROVE  SemaphoreAccounting' /\ sem' \in Nat
<1>1. Holders' = Holders \ {a}
  BY DEF HoldersWith
<1>2. Cardinality(Holders') = Cardinality(Holders) - 1
  BY <1>1, HoldersFinite, FS_RemoveElement
<1>3. IsFiniteSet(Holders') /\ Cardinality(Holders') \in Nat
  BY <1>1, HoldersFinite, FS_Subset, FS_CardinalityType
<1> QED BY <1>2, <1>3, HoldersFinite, NumbersAssumption DEF SemaphoreAccounting

\* The recursive call of scrapeForUser goes on with the place of its caller.
LEMMA PlacePassed ==
    ASSUME SemaphoreAccounting, NEW a \in Attempts, NEW r, a \in Holders, r.go \notin Holding,
           NEW b, b \notin HoldersWith(a, r), Holders' = HoldersWith(a, r) \cup {b}, sem' = sem
    PROVE  SemaphoreAccounting'
<1>1. HoldersWith(a, r) = Holders \ {a}
  BY DEF HoldersWith
<1>2. /\ Cardinality(Holders \ {a}) = Cardinality(Holders) - 1
      /\ IsFiniteSet(Holders \ {a}) /\ Cardinality(Holders \ {a}) \in Nat
  BY HoldersFinite, FS_RemoveElement, FS_Subset, FS_CardinalityType
<1>3. Cardinality(Holders') = Cardinality(Holders \ {a}) + 1
  BY <1>1, <1>2, FS_AddElement
<1> QED BY <1>2, <1>3, HoldersFinite DEF SemaphoreAccounting

LEMMA PlacesKept ==
    ASSUME SemaphoreAccounting, Holders' = Holders, sem' = sem
    PROVE  SemaphoreAccounting'
BY DEF SemaphoreAccounting

-----------------------------------------------------------------------------
(* Starters, handlers and containers                                       *)

\* scrapeForUser and runScrapeContainer.
LEMMA StarterSteps ==
    ASSUME TypeOK, AttemptsOK, SemaphoreAccounting, NEW a \in Attempts, Starter(a)
    PROVE  SlotSteps(todo) /\ SemaphoreAccounting'
<1> att[a] \in Attempt /\ AttemptOK(att[a], users)
  BY DEF TypeOK, AttemptsOK
<1>1. CASE Acquire(a)
  <2> DEFINE r == [att[a] EXCEPT !.go = "insert"]
  <2>1. Continues(att[a], r)
    BY <1>1 DEF Acquire, Continues, AttemptOK, Attempt, Goroutine, Holding, Alive, Launched
  <2>2. Replaced(a, r)
    BY <1>1 DEF Acquire, Replaced, Update, TypeOK
  <2>3. a \notin Holders /\ r.go \in Holding /\ sem < MaxConcurrent /\ sem' = sem + 1
    BY <1>1 DEF Acquire, Holding, Holders, Attempt
  <2> QED BY <2>1, <2>2, <2>3, LocalStep, PlaceTaken
<1>2. CASE InsertLog(a)
  <2>1. CASE ForeignKey(att[a].user)
    <3> DEFINE r == [att[a] EXCEPT !.go = "create", !.row = "running"]
    <3>1. Continues(att[a], r)
      BY <1>2, <2>1 DEF InsertLog, ForeignKey, Continues, AttemptOK, Attempt, Goroutine, Holding, Alive, Launched
    <3>2. Replaced(a, r)
      BY <1>2, <2>1 DEF InsertLog, Replaced, TypeOK
    <3>3. r.go \in Holding <=> att[a].go \in Holding
      BY <1>2 DEF InsertLog, Holding, Attempt
    <3> QED BY <3>1, <3>2, <3>3, <1>2, <2>1, LocalStep, PlaceKept, PlacesKept DEF InsertLog
  <2>2. CASE ~ForeignKey(att[a].user)
    <3> DEFINE r == [att[a] EXCEPT !.go = "idle"]
    <3>1. Continues(att[a], r)
      BY <1>2, <2>2 DEF InsertLog, ForeignKey, Continues, AttemptOK, Attempt, Goroutine, Holding, Alive, Launched
    <3>2. Replaced(a, r)
      BY <1>2, <2>2 DEF InsertLog, Replaced
    <3>3. a \in Holders /\ r.go \notin Holding /\ sem' = sem - 1
      BY <1>2, <2>2 DEF InsertLog, Holding, Holders, Attempt
    <3> QED BY <3>1, <3>2, <3>3, LocalStep, PlaceGiven
  <2> QED BY <2>1, <2>2
<1>3. CASE CreateContainer(a)
  <2> PICK next \in {"record", "mark"} : att' = [att EXCEPT ![a].go = next]
    BY <1>3 DEF CreateContainer
  <2> DEFINE r == [att[a] EXCEPT !.go = next]
  <2>1. Continues(att[a], r)
    BY <1>3 DEF CreateContainer, Continues, AttemptOK, Attempt, Goroutine, Holding, Alive, Launched
  <2>2. Replaced(a, r)
    BY DEF Replaced, TypeOK
  <2>3. r.go \in Holding <=> att[a].go \in Holding
    BY <1>3 DEF CreateContainer, Holding, Attempt, Answered
  <2> QED BY <2>1, <2>2, <2>3, <1>3, LocalStep, PlaceKept, PlacesKept DEF CreateContainer
<1>4. CASE RecordContainer(a)
  <2> DEFINE r == [att[a] EXCEPT !.go = "start", !.cid = (att[a].row # "none")]
  <2>1. Continues(att[a], r)
    BY <1>4 DEF RecordContainer, Continues, AttemptOK, Attempt, Goroutine, Holding, Alive, Launched
  <2>2. Replaced(a, r)
    BY <1>4 DEF RecordContainer, Replaced, Update, TypeOK
  <2>3. r.go \in Holding <=> att[a].go \in Holding
    BY <1>4 DEF RecordContainer, Holding, Attempt, Answered
  <2> QED BY <2>1, <2>2, <2>3, <1>4, LocalStep, PlaceKept, PlacesKept DEF RecordContainer
<1>5. CASE StartContainer(a)
  <2> DEFINE r == [att[a] EXCEPT !.go = "idle", !.ctr = "started"]
  <2>1. Continues(att[a], r)
    BY <1>5 DEF StartContainer, Continues, AttemptOK, Attempt, Goroutine, Holding, Alive, Launched
  <2>2. Replaced(a, r)
    BY <1>5 DEF StartContainer, Replaced, Update, TypeOK
  <2>3. a \in Holders /\ r.go \notin Holding /\ sem' = sem - 1
    BY <1>5 DEF StartContainer, Holding, Holders, Attempt
  <2> QED BY <2>1, <2>2, <2>3, LocalStep, PlaceGiven
<1>6. CASE StartFails(a)
  <2> DEFINE r == [att[a] EXCEPT !.go = "mark"]
  <2>1. Continues(att[a], r)
    BY <1>6 DEF StartFails, Continues, AttemptOK, Attempt, Goroutine, Holding, Alive, Launched
  <2>2. Replaced(a, r)
    BY <1>6 DEF StartFails, Replaced, Update, TypeOK
  <2>3. r.go \in Holding <=> att[a].go \in Holding
    BY <1>6 DEF StartFails, Holding, Attempt, Answered
  <2> QED BY <2>1, <2>2, <2>3, <1>6, LocalStep, PlaceKept, PlacesKept DEF StartFails
<1>7. CASE MarkStartFailure(a)
  <2> DEFINE r == [att[a] EXCEPT !.go = "marked", !.row = IF @ = "none" THEN @ ELSE "failure"]
  <2>1. Continues(att[a], r)
    BY <1>7 DEF MarkStartFailure, Continues, AttemptOK, Attempt, Goroutine, Holding, Alive, Launched
  <2>2. Replaced(a, r)
    BY <1>7 DEF MarkStartFailure, Replaced, Update, TypeOK
  <2>3. r.go \in Holding <=> att[a].go \in Holding
    BY <1>7 DEF MarkStartFailure, Holding, Attempt, Answered
  <2> QED BY <2>1, <2>2, <2>3, <1>7, LocalStep, PlaceKept, PlacesKept DEF MarkStartFailure
<1>8. CASE RetryStart(a)
  <2> DEFINE r == [att[a] EXCEPT !.go = "idle"]
             g == Tidy([att EXCEPT ![a] = r], todo)
             n == NewAttempt(att[a].user, TRUE, att[a].retry + 1, att[a].polled, "insert")
  <2>1. Continues(att[a], r)
    BY <1>8 DEF RetryStart, Continues, AttemptOK, Attempt, Goroutine, Holding, Alive, Launched
  <2>2. n \in Fresh /\ n.go \in Holding
    BY <1>8, NumbersAssumption
    DEF RetryStart, MayRetry, NewAttempt, Fresh, Attempt, Goroutine, Holding
  <2>3. [att EXCEPT ![a].go = "idle"] = [att EXCEPT ![a] = r]
    BY DEF TypeOK
  <2>4. PICK b \in Free(g, todo) : att' = [g EXCEPT ![b] = n]
    BY <1>8, <2>3 DEF RetryStart
  <2>5. a \in Holders /\ r.go \notin Holding /\ sem' = sem
    BY <1>8 DEF RetryStart, Holding, Holders, Attempt
  <2>6. g = [att EXCEPT ![a] = r] \/ g = Tidy([att EXCEPT ![a] = r], todo)
    OBVIOUS
  <2> HIDE DEF r, g, n
  <2>7. /\ SlotSteps(todo) /\ b \notin HoldersWith(a, r)
        /\ Holders' = HoldersWith(a, r) \cup (IF n.go \in Holding THEN {b} ELSE {})
    BY <2>1, <2>2, <2>4, <2>6, SpawnStep
  <2> QED BY <2>2, <2>5, <2>7, PlacePassed
<1>9. CASE GiveUpStart(a)
  <2> DEFINE r == [att[a] EXCEPT !.go = "idle"]
  <2>1. Continues(att[a], r)
    BY <1>9 DEF GiveUpStart, Continues, AttemptOK, Attempt, Goroutine, Holding, Alive, Launched
  <2>2. Replaced(a, r)
    BY <1>9 DEF GiveUpStart, Replaced, Update, TypeOK
  <2>3. a \in Holders /\ r.go \notin Holding /\ sem' = sem - 1
    BY <1>9 DEF GiveUpStart, Holding, Holders, Attempt
  <2> QED BY <2>1, <2>2, <2>3, LocalStep, PlaceGiven
<1> QED BY <1>1, <1>2, <1>3, <1>4, <1>5, <1>6, <1>7, <1>8, <1>9 DEF Starter

\* The callback handlers.
LEMMA HandlerSteps ==
    ASSUME TypeOK, AttemptsOK, SemaphoreAccounting, NEW a \in Attempts, Handler(a)
    PROVE  SlotSteps(todo) /\ SemaphoreAccounting'
<1> att[a] \in Attempt /\ AttemptOK(att[a], users)
  BY DEF TypeOK, AttemptsOK
<1>1. CASE ServeCredentials(a)
  <2> DEFINE r == [Answered(att[a], "browsing") EXCEPT !.fetched = (att[a].row # "none")]
  <2>1. Continues(att[a], r)
    BY <1>1 DEF ServeCredentials, Continues, AttemptOK, Attempt, Goroutine, Holding, Alive, Launched, Answered
  <2>2. Replaced(a, r)
    BY <1>1 DEF ServeCredentials, Replaced, Update, TypeOK, Answered
  <2>3. r.go \in Holding <=> att[a].go \in Holding
    BY <1>1 DEF ServeCredentials, Holding, Attempt, Answered
  <2> QED BY <2>1, <2>2, <2>3, <1>1, LocalStep, PlaceKept, PlacesKept DEF ServeCredentials
<1>2. CASE MarkSuccess(a)
  <2> DEFINE r == [att[a] EXCEPT !.cb = "shiftsMarked", !.row = IF @ = "none" THEN @ ELSE "success"]
  <2>1. Continues(att[a], r)
    BY <1>2 DEF MarkSuccess, Continues, AttemptOK, Attempt, Goroutine, Holding, Alive, Launched
  <2>2. Replaced(a, r)
    BY <1>2 DEF MarkSuccess, Replaced, Update, TypeOK
  <2>3. r.go \in Holding <=> att[a].go \in Holding
    BY <1>2 DEF MarkSuccess, Holding, Attempt, Answered
  <2> QED BY <2>1, <2>2, <2>3, <1>2, LocalStep, PlaceKept, PlacesKept DEF MarkSuccess
<1>3. CASE FinishShifts(a)
  <2> DEFINE r == Answered(att[a], "closing")
  <2>1. Continues(att[a], r)
    BY <1>3 DEF FinishShifts, Continues, AttemptOK, Attempt, Goroutine, Holding, Alive, Launched, Answered
  <2>2. Replaced(a, r)
    BY <1>3 DEF FinishShifts, Replaced, Update, TypeOK, Answered
  <2>3. r.go \in Holding <=> att[a].go \in Holding
    BY <1>3 DEF FinishShifts, Holding, Attempt, Answered
  <2> QED BY <2>1, <2>2, <2>3, <1>3, LocalStep, PlaceKept, PlacesKept DEF FinishShifts
<1>4. CASE MarkReportedFailure(a)
  <2> DEFINE r == [att[a] EXCEPT !.cb = "failMarked", !.row = IF @ = "none" THEN @ ELSE "failure"]
  <2>1. Continues(att[a], r)
    BY <1>4 DEF MarkReportedFailure, Continues, AttemptOK, Attempt, Goroutine, Holding, Alive, Launched
  <2>2. Replaced(a, r)
    BY <1>4 DEF MarkReportedFailure, Replaced, Update, TypeOK
  <2>3. r.go \in Holding <=> att[a].go \in Holding
    BY <1>4 DEF MarkReportedFailure, Holding, Attempt, Answered
  <2> QED BY <2>1, <2>2, <2>3, <1>4, LocalStep, PlaceKept, PlacesKept DEF MarkReportedFailure
<1>5. CASE FinishFailure(a)
  <2> DEFINE r == Answered(att[a], "none")
  <2>1. Continues(att[a], r)
    BY <1>5 DEF FinishFailure, Answered, Continues, AttemptOK, Attempt, Goroutine, Holding, Alive, Launched
  <2>2. [att EXCEPT ![a] = Answered(@, "none")] = [att EXCEPT ![a] = r]
    BY DEF TypeOK
  <2>3. HandleScrapeFailure(a, [att EXCEPT ![a] = r], todo)
    BY <1>5, <2>2 DEF FinishFailure
  <2>4. r.go \in Holding <=> att[a].go \in Holding
    BY DEF Answered, Attempt
  <2> QED BY <2>1, <2>3, <2>4, <1>5, HandledStep, PlaceKept, PlacesKept DEF FinishFailure
<1>6. CASE RejectBody(a)
  <2> DEFINE r == Answered(att[a], IF att[a].cb = "shifts" THEN "failing" ELSE "none")
  <2>1. Continues(att[a], r)
    BY <1>6 DEF RejectBody, Continues, AttemptOK, Attempt, Goroutine, Holding, Alive, Launched, Answered
  <2>2. Replaced(a, r)
    BY <1>6 DEF RejectBody, Replaced, Update, TypeOK, Answered
  <2>3. r.go \in Holding <=> att[a].go \in Holding
    BY <1>6 DEF RejectBody, Holding, Attempt, Answered
  <2> QED BY <2>1, <2>2, <2>3, <1>6, LocalStep, PlaceKept, PlacesKept DEF RejectBody
<1>7. CASE CallbackAborted(a)
  <2> DEFINE r == [att[a] EXCEPT !.cb = "none"]
  <2>1. Continues(att[a], r)
    BY <1>7 DEF CallbackAborted, Continues, AttemptOK, Attempt, Goroutine, Holding, Alive, Launched
  <2>2. Replaced(a, r)
    BY <1>7 DEF CallbackAborted, Replaced, Update, TypeOK
  <2>3. r.go \in Holding <=> att[a].go \in Holding
    BY <1>7 DEF CallbackAborted, Holding, Attempt, Answered
  <2> QED BY <2>1, <2>2, <2>3, <1>7, LocalStep, PlaceKept, PlacesKept DEF CallbackAborted
<1> QED BY <1>1, <1>2, <1>3, <1>4, <1>5, <1>6, <1>7 DEF Handler

\* The container.
LEMMA ContainerSteps ==
    ASSUME TypeOK, AttemptsOK, SemaphoreAccounting, NEW a \in Attempts, Container(a)
    PROVE  SlotSteps(todo) /\ SemaphoreAccounting'
<1> att[a] \in Attempt /\ AttemptOK(att[a], users)
  BY DEF TypeOK, AttemptsOK
<1>1. CASE FetchCredentials(a)
  <2> DEFINE r == IF att[a].row = "running" /\ ~att[a].fetched /\ att[a].user \in creds
                  THEN [att[a] EXCEPT !.cb = "creds"] ELSE [att[a] EXCEPT !.ctr = "failing"]
  <2>1. Continues(att[a], r)
    BY <1>1 DEF FetchCredentials, Continues, AttemptOK, Attempt, Goroutine, Holding, Alive, Launched
  <2>2. Replaced(a, r)
    BY <1>1 DEF FetchCredentials, Replaced, Update, TypeOK
  <2>3. r.go \in Holding <=> att[a].go \in Holding
    BY <1>1 DEF FetchCredentials, Holding, Attempt, Answered
  <2> QED BY <2>1, <2>2, <2>3, <1>1, LocalStep, PlaceKept, PlacesKept DEF FetchCredentials
<1>2. CASE PostShifts(a)
  <2> DEFINE r == IF att[a].row = "running" THEN [att[a] EXCEPT !.cb = "shifts"]
                  ELSE [att[a] EXCEPT !.ctr = "failing"]
  <2>1. Continues(att[a], r)
    BY <1>2 DEF PostShifts, Continues, AttemptOK, Attempt, Goroutine, Holding, Alive, Launched
  <2>2. Replaced(a, r)
    BY <1>2 DEF PostShifts, Replaced, Update, TypeOK
  <2>3. r.go \in Holding <=> att[a].go \in Holding
    BY <1>2 DEF PostShifts, Holding, Attempt, Answered
  <2> QED BY <2>1, <2>2, <2>3, <1>2, LocalStep, PlaceKept, PlacesKept DEF PostShifts
<1>3. CASE ScrapeError(a)
  <2> DEFINE r == [att[a] EXCEPT !.ctr = "failing"]
  <2>1. Continues(att[a], r)
    BY <1>3 DEF ScrapeError, Continues, AttemptOK, Attempt, Goroutine, Holding, Alive, Launched
  <2>2. Replaced(a, r)
    BY <1>3 DEF ScrapeError, Replaced, Update, TypeOK
  <2>3. r.go \in Holding <=> att[a].go \in Holding
    BY <1>3 DEF ScrapeError, Holding, Attempt, Answered
  <2> QED BY <2>1, <2>2, <2>3, <1>3, LocalStep, PlaceKept, PlacesKept DEF ScrapeError
<1>4. CASE PostFailure(a)
  <2> DEFINE r == IF att[a].row = "running" THEN [att[a] EXCEPT !.cb = "fail"]
                  ELSE [att[a] EXCEPT !.ctr = "none"]
  <2>1. Continues(att[a], r)
    BY <1>4 DEF PostFailure, Continues, AttemptOK, Attempt, Goroutine, Holding, Alive, Launched
  <2>2. Replaced(a, r)
    BY <1>4 DEF PostFailure, Replaced, Update, TypeOK
  <2>3. r.go \in Holding <=> att[a].go \in Holding
    BY <1>4 DEF PostFailure, Holding, Attempt, Answered
  <2> QED BY <2>1, <2>2, <2>3, <1>4, LocalStep, PlaceKept, PlacesKept DEF PostFailure
<1>5. CASE ContainerExits(a)
  <2> DEFINE r == [att[a] EXCEPT !.ctr = "none"]
  <2>1. Continues(att[a], r)
    BY <1>5 DEF ContainerExits, Continues, AttemptOK, Attempt, Goroutine, Holding, Alive, Launched
  <2>2. Replaced(a, r)
    BY <1>5 DEF ContainerExits, Replaced, Update, TypeOK
  <2>3. r.go \in Holding <=> att[a].go \in Holding
    BY <1>5 DEF ContainerExits, Holding, Attempt, Answered
  <2> QED BY <2>1, <2>2, <2>3, <1>5, LocalStep, PlaceKept, PlacesKept DEF ContainerExits
<1> QED BY <1>1, <1>2, <1>3, <1>4, <1>5 DEF Container

-----------------------------------------------------------------------------
(* Requests, the scheduler and the crash                                   *)

LEMMA TriggerStep ==
    ASSUME TypeOK, AttemptsOK, SemaphoreAccounting, NEW u \in Users, TriggerScrape(u), sem' = sem
    PROVE  SlotSteps(todo) /\ SemaphoreAccounting'
<1> DEFINE n == NewAttempt(u, FALSE, 0, FALSE, "waiting")
<1>1. PICK b \in Free(att, todo) : att' = [att EXCEPT ![b] = n]
  BY DEF TriggerScrape
<1>2. n \in Fresh /\ n.go \notin Holding
  BY NumbersAssumption DEF NewAttempt, Fresh, Attempt, Goroutine, Holding
<1>3. b \in Attempts \ todo /\ att[b].go \notin Holding
  BY <1>1 DEF Free, Blank, NewAttempt, Holding
<1> HIDE DEF n
<1>4. SlotSteps(todo)
  BY <1>1, <1>2, <1>3 DEF SlotSteps, SlotStep, TypeOK
<1>5. Holders' = Holders
  BY <1>1, <1>2, <1>3 DEF Holders, TypeOK
<1> QED BY <1>4, <1>5, PlacesKept

\* ON DELETE CASCADE takes the logs away; what goes on with them finds none.
LEMMA DeleteStep ==
    ASSUME TypeOK, AttemptsOK, SnapshotOK, SemaphoreAccounting, NEW u \in Users, DeleteAccount(u)
    PROVE  att' \in [Attempts -> Attempt] /\ AttemptsOK' /\ SnapshotOK' /\ SemaphoreAccounting'
<1> DEFINE f == [a \in Attempts |-> IF att[a].user = u THEN [att[a] EXCEPT !.row = "none"]
                                    ELSE att[a]]
<1>1. f \in [Attempts -> Attempt] /\ att' = Tidy(f, todo)
  BY DEF DeleteAccount, TypeOK, Attempt
<1>2. /\ att' = [b \in Attempts |-> att'[b]]
      /\ \A b \in Attempts : att'[b] = f[b] \/ (b \notin todo /\ att'[b] = Blank)
  BY <1>1 DEF Tidy
<1>3. ASSUME NEW b \in Attempts
      PROVE  att'[b] \in Attempt /\ AttemptOK(att'[b], users')
  <2>1. att[b] \in Attempt /\ AttemptOK(att[b], users) /\ users' = users \ {u}
    BY DEF TypeOK, AttemptsOK, DeleteAccount
  <2>2. CASE att'[b] = f[b]
    BY <2>1, <2>2 DEF AttemptOK, Attempt
  <2>3. CASE att'[b] = Blank
    BY <2>3, BlankIsFresh DEF Fresh, AttemptOK, Launched
  <2> QED BY <1>2, <2>2, <2>3
<1>4. \A b \in todo : /\ att'[b].user = att[b].user /\ att'[b].polled = att[b].polled
                      /\ att'[b].go = att[b].go /\ att'[b].ctr = att[b].ctr
                      /\ att'[b].row \in {att[b].row, "none"}
                      /\ att'[b].row = "none" => att[b].row = "none" \/ att[b].user = u
  BY <1>2 DEF TypeOK, Attempt
<1>5. SnapshotOK'
  BY <1>4 DEF SnapshotOK, EntryOK, ReaperMissesNone, TypeOK, DeleteAccount, reaper
<1>6. \A b \in Attempts : att'[b].go = f[b].go /\ f[b].go = att[b].go
  BY <1>1 DEF Tidy, Over, Blank, NewAttempt, TypeOK, Attempt
<1>7. Holders' = Holders
  BY <1>6 DEF Holders
<1> QED BY <1>2, <1>3, <1>5, <1>7, PlacesKept DEF AttemptsOK, DeleteAccount

\* The tick starts fresh attempts in free slots.
LEMMA PollStep ==
    ASSUME TypeOK, AttemptsOK, SnapshotOK, SemaphoreAccounting, PollDue
    PROVE  SlotSteps(todo) /\ SemaphoreAccounting' /\ SnapshotOK'
<1> DEFINE n(u) == NewAttempt(u, TRUE, 0, TRUE, "waiting")
<1>1. PICK slot \in [DueUsers -> Free(att, todo)] :
        att' = [a \in Attempts |-> IF \E u \in DueUsers : slot[u] = a
                                   THEN n(CHOOSE u \in DueUsers : slot[u] = a) ELSE att[a]]
  BY DEF PollDue
<1>2. \A u \in DueUsers : n(u) \in Fresh /\ n(u).go = "waiting"
  BY NumbersAssumption DEF DueUsers, NewAttempt, Fresh, Attempt, Goroutine, Holding
<1> HIDE DEF n
<1>3. ASSUME NEW b \in Attempts
      PROVE  \/ att'[b] = att[b]
             \/ /\ b \in Free(att, todo)
                /\ att'[b] \in Fresh /\ att'[b].go = "waiting"
  <2>1. CASE \E u \in DueUsers : slot[u] = b
    <3> DEFINE v == CHOOSE u \in DueUsers : slot[u] = b
    <3>1. v \in DueUsers /\ slot[v] = b
      BY <2>1
    <3>2. att'[b] = n(v)
      BY <1>1, <2>1
    <3> HIDE DEF v
    <3> QED BY <1>2, <3>1, <3>2
  <2>2. CASE ~ \E u \in DueUsers : slot[u] = b
    BY <1>1, <2>2
  <2> QED BY <2>1, <2>2
<1>4. SlotSteps(todo)
  BY <1>1, <1>3 DEF SlotSteps, SlotStep, Free
<1>5. \A b \in Attempts : att'[b].go \in Holding <=> att[b].go \in Holding
  BY <1>3 DEF Free, Blank, NewAttempt, Holding
<1>6. Holders' = Holders
  BY <1>5 DEF Holders
<1>7. UNCHANGED <<users, reaper>> /\ pc' = "wait"
  BY DEF PollDue, tables
<1>8. \A c \in todo : EntryOK(c)'
  BY <1>4, <1>7, SlotStepsPreserve DEF SnapshotOK, EntryOK, reaper
<1>9. SnapshotOK'
  BY <1>7, <1>8 DEF SnapshotOK, ReaperMissesNone, reaper
<1> QED BY <1>4, <1>6, <1>9, PlacesKept DEF PollDue

\* ReapKill and ReapMark work on the snapshot entry cur' and leave the rest.
LEMMA ReapStep ==
    ASSUME TypeOK, AttemptsOK, SnapshotOK, SemaphoreAccounting,
           (\E a \in Attempts : ReapKill(a)) \/ ReapMark
    PROVE  SlotSteps(todo) /\ SemaphoreAccounting' /\ SnapshotOK'
<1>1. CASE \E a \in Attempts : ReapKill(a)
  <2>1. PICK a \in Attempts : ReapKill(a)
    BY <1>1
  <2>r. PICK r \in {att[a], [att[a] EXCEPT !.ctr = "none"]} :
          att' = [att EXCEPT ![a] = r] /\ (a \notin known => r = att[a])
    BY <2>1 DEF ReapKill, TypeOK
  <2>2. att[a] \in Attempt /\ AttemptOK(att[a], users)
    BY DEF TypeOK, AttemptsOK
  <2>3. Continues(att[a], r)
    BY <2>2 DEF Continues, AttemptOK, Attempt, Goroutine, Holding, Alive, Launched
  <2>4. att' = [att EXCEPT ![a] = r]
    BY <2>r
  <2>5. r.go = att[a].go
    BY <2>2, <2>r DEF Attempt
  <2>6. SlotSteps(todo) /\ Holders' = Holders
    BY <2>3, <2>4, <2>5, LocalStep, PlaceKept DEF Replaced
  <2>7. \A c \in todo : EntryOK(c)'
    BY <2>1, <2>6, SlotStepsPreserve DEF ReapKill, SnapshotOK, EntryOK, tables
  <2>8. ReaperMissesNone'
    BY <2>1, <2>2, <2>4 DEF ReapKill, SnapshotOK, EntryOK, ReaperMissesNone, TypeOK, Attempt
  <2> QED BY <2>1, <2>6, <2>7, <2>8, PlacesKept DEF ReapKill, SnapshotOK
<1>2. CASE ReapMark
  <2> DEFINE r == [att[cur] EXCEPT !.row = IF @ = "none" THEN @ ELSE "failure"]
  <2>1. cur \in todo /\ cur \in Attempts
    BY <1>2 DEF SnapshotOK, ReapMark, TypeOK
  <2>2. att[cur] \in Attempt /\ AttemptOK(att[cur], users)
    BY <2>1 DEF TypeOK, AttemptsOK
  <2>3. Continues(att[cur], r)
    BY <2>2 DEF Continues, AttemptOK, Attempt, Goroutine, Holding, Alive, Launched
  <2>4. att' = [att EXCEPT ![cur] = r]
    BY <1>2 DEF ReapMark, TypeOK
  <2>5. r.go = att[cur].go
    BY <2>2 DEF Attempt
  <2>6. SlotSteps(todo) /\ Holders' = Holders
    BY <2>1, <2>3, <2>4, <2>5, LocalStep, PlaceKept DEF Replaced
  <2>7. \A c \in todo : EntryOK(c)'
    BY <1>2, <2>6, SlotStepsPreserve DEF ReapMark, SnapshotOK, EntryOK, tables, reaper
  <2>8. att'[cur].ctr = att[cur].ctr /\ att'[cur].polled = att[cur].polled /\ att'[cur].row # "running"
    BY <2>1, <2>2, <2>4 DEF TypeOK, Attempt
  <2> QED BY <1>2, <2>1, <2>6, <2>7, <2>8, PlacesKept DEF ReapMark, SnapshotOK, ReaperMissesNone, reaper
<1> QED BY <1>1, <1>2

\* The retry may take the slot of another attempt that is over, not one that
\* the rest of the snapshot names.
LEMMA ReapHandleStep ==
    ASSUME TypeOK, AttemptsOK, SnapshotOK, SemaphoreAccounting, ReapHandle
    PROVE  SlotSteps(todo') /\ SemaphoreAccounting' /\ SnapshotOK'
<1> DEFINE S == todo \ {cur}
<1>1. cur \in todo /\ cur \in Attempts /\ att[cur] \in Attempt
  BY DEF ReapHandle, SnapshotOK, TypeOK
<1>2. Continues(att[cur], att[cur])
  BY <1>1 DEF Continues, AttemptsOK
<1>3. att = [att EXCEPT ![cur] = att[cur]]
  BY DEF TypeOK
<1>4. HandleScrapeFailure(cur, [att EXCEPT ![cur] = att[cur]], S)
  BY <1>3 DEF ReapHandle
<1>5. SlotSteps(S) /\ Holders' = Holders
  BY <1>1, <1>2, <1>4, HandledStep, PlaceKept
<1>6. S \subseteq todo /\ (\A c \in S : EntryOK(c)) /\ users' = users
  BY DEF SnapshotOK, ReapHandle, tables
<1>7. todo' = S /\ \A c \in todo' : EntryOK(c)'
  <2>1. todo' = S /\ known' = known \ {cur}
    BY DEF ReapHandle
  <2> HIDE DEF S
  <2>2. \A c \in S : /\ att'[c].user \in users => att'[c].row # "none"
                     /\ att'[c].polled => /\ att'[c].go = "idle"
                                          /\ c \notin known => att'[c].ctr = "none"
    BY <1>5, <1>6, SlotStepsPreserve
  <2> USE DEF S
  <2> QED BY <1>6, <2>1, <2>2 DEF EntryOK
<1>8. pc' \in {"idle", "reap"}
  BY DEF ReapHandle
<1> QED BY <1>5, <1>7, <1>8, PlacesKept DEF ReapHandle, SnapshotOK, ReaperMissesNone

\* wg.Wait is over, so every attempt of the tick that runs has recorded its
\* container.
LEMMA ReapQueryStep ==
    ASSUME TypeOK, AttemptsOK, NEW S \in SUBSET Attempts, ReapQuery(S)
    PROVE  SnapshotOK'
<1>1. ASSUME NEW a \in S PROVE EntryOK(a)'
  <2>1. att[a] \in Attempt /\ AttemptOK(att[a], users) /\ att[a].row = "running"
    BY DEF TypeOK, AttemptsOK, ReapQuery
  <2>2. att' = att /\ users' = users /\ known' = {c \in S : att[c].cid}
    BY DEF ReapQuery, Snapshot, tables
  <2>3. att[a].polled => att[a].go = "idle"
    BY DEF ReapQuery
  <2> QED BY <2>1, <2>2, <2>3 DEF AttemptOK, EntryOK, Attempt
<1>2. todo' = S /\ pc' \in {"idle", "reap"}
  BY DEF ReapQuery, Snapshot
<1> QED BY <1>1, <1>2 DEF SnapshotOK, ReaperMissesNone

\* A restart: nothing of the snapshot and of the goroutines is left.
LEMMA CrashStep ==
    ASSUME TypeOK, AttemptsOK, SemaphoreAccounting, Crash
    PROVE  SlotSteps({}) /\ SemaphoreAccounting' /\ SnapshotOK'
<1> DEFINE f == [a \in Attempts |->
                   [att[a] EXCEPT !.go = "idle", !.cb = "none",
                      !.ctr = IF att[a].cb = "none" \/ @ = "none" THEN @
                              ELSE IF @ = "failing" THEN "none" ELSE "failing"]]
<1>1. att' = Tidy(f, {})
  BY DEF Crash
<1>2. ASSUME NEW b \in Attempts
      PROVE  att'[b] \in {f[b], Blank} /\ Continues(att[b], f[b]) /\ att'[b].go = "idle"
  <2>1. att[b] \in Attempt /\ AttemptOK(att[b], users)
    BY DEF TypeOK, AttemptsOK
  <2> DEFINE c == IF att[b].cb = "none" \/ att[b].ctr = "none" THEN att[b].ctr
                  ELSE IF att[b].ctr = "failing" THEN "none" ELSE "failing"
  <2>2. /\ c \in {"none"} \cup Alive /\ (c # "none" => att[b].ctr # "none")
        /\ c = "browsing" => att[b].ctr = "browsing"
    BY <2>1 DEF Attempt, Alive
  <2>3. f[b] = [att[b] EXCEPT !.go = "idle", !.cb = "none", !.ctr = c]
    OBVIOUS
  <2> HIDE DEF c, f
  <2>4. Continues(att[b], f[b]) /\ f[b].go = "idle"
    BY <2>1, <2>2, <2>3 DEF Continues, AttemptOK, Attempt, Goroutine, Holding, Launched
  <2>5. att'[b] \in {f[b], Blank}
    BY <1>1 DEF Tidy
  <2> QED BY <2>4, <2>5 DEF Blank, NewAttempt
<1>3. att' = [b \in Attempts |-> att'[b]]
  BY <1>1 DEF Tidy
<1>4. SlotSteps({})
  BY <1>2, <1>3, BlankIsFresh DEF SlotSteps, SlotStep
<1>5. Holders' = {}
  BY <1>2 DEF Holders, Holding
<1>6. SemaphoreAccounting'
  <2>1. Cardinality(Holders') = 0
    BY <1>5, FS_EmptySet
  <2>2. sem' = 0
    BY DEF Crash
  <2> QED BY <2>1, <2>2, NumbersAssumption DEF SemaphoreAccounting
<1>7. SnapshotOK'
  BY DEF Crash, SnapshotOK, ReaperMissesNone
<1> QED BY <1>4, <1>6, <1>7

-----------------------------------------------------------------------------
(* The schedule                                                            *)

\* ScheduleNext creates no row and moves no one else's.
LEMMA AdvanceMoves ==
    ASSUME TypeOK, NEW u
    PROVE  /\ Advance(u) \in [Users -> {"none", "due", "later"}]
           /\ \A v \in Users : /\ schedule[v] = "none" <=> Advance(u)[v] = "none"
                               /\ v # u => Advance(u)[v] = schedule[v]
BY DEF Advance, TypeOK

\* The attempt a has an outcome, unless its account is gone.
HasOutcome(a) == att[a].user \in users => att[a].row \in {"success", "failure"}

\* Wherever the code calls ScheduleNext, the attempt has an outcome.
LEMMA ScheduleMoves ==
    ASSUME IInv, Next
    PROVE  \/ UNCHANGED <<users, schedule>>
           \/ UNCHANGED users /\ \E a \in Attempts : HasOutcome(a) /\ schedule' = Advance(att[a].user)
           \/ \E u \in Users : BecomesDue(u) \/ ScheduleAndTrigger(u) \/ DeleteAccount(u)
<1>1. CASE Scheduler
  <2>1. CASE ReapHandle
    <3>1. cur \in Attempts /\ EntryOK(cur) /\ att[cur] \in Attempt /\ att[cur].row # "running"
      BY <2>1 DEF IInv, SnapshotOK, TypeOK, ReapHandle
    <3>2. HasOutcome(cur)
      BY <3>1 DEF EntryOK, HasOutcome, Attempt
    <3>3. schedule' = schedule \/ schedule' = Advance(att[cur].user)
      BY <2>1 DEF ReapHandle, HandleScrapeFailure
    <3> QED BY <2>1, <3>1, <3>2, <3>3 DEF ReapHandle, tables
  <2> QED BY <1>1, <2>1 DEF Scheduler, PollDue, PollFails, ReapQuery, Snapshot, ReapKill, ReapMark, tables
<1>2. CASE Crash
  BY <1>2 DEF Crash
<1>3. ASSUME NEW a \in Attempts, Starter(a) \/ Handler(a) \/ Container(a)
      PROVE  \/ UNCHANGED <<users, schedule>>
             \/ UNCHANGED users /\ HasOutcome(a) /\ schedule' = Advance(att[a].user)
  <2>1. att[a] \in Attempt /\ AttemptOK(att[a], users)
    BY DEF IInv, TypeOK, AttemptsOK
  <2>2. CASE GiveUpStart(a)
    BY <2>1, <2>2 DEF GiveUpStart, tables, HasOutcome, AttemptOK, Attempt, Launched
  <2>3. CASE FinishShifts(a)
    BY <2>1, <2>3 DEF FinishShifts, tables, HasOutcome, AttemptOK, Attempt
  <2>4. CASE FinishFailure(a)
    <3>1. HasOutcome(a)
      BY <2>1, <2>4 DEF FinishFailure, HasOutcome, AttemptOK, Attempt
    <3>2. [att EXCEPT ![a] = Answered(@, "none")][a].user = att[a].user
      BY <2>1 DEF IInv, TypeOK, Answered, Attempt
    <3>3. schedule' = schedule \/ schedule' = Advance(att[a].user)
      BY <2>4, <3>2 DEF FinishFailure, HandleScrapeFailure
    <3> QED BY <2>4, <3>1, <3>3 DEF FinishFailure, tables
  <2>5. CASE \/ Starter(a) /\ ~GiveUpStart(a)
             \/ Handler(a) /\ ~FinishShifts(a) /\ ~FinishFailure(a)
             \/ Container(a)
    BY <2>5 DEF tables, Starter, Acquire, InsertLog, CreateContainer, RecordContainer, StartContainer,
           StartFails, MarkStartFailure, RetryStart, Handler, ServeCredentials, MarkSuccess,
           MarkReportedFailure, RejectBody, CallbackAborted, Container, FetchCredentials, PostShifts,
           ScrapeError, PostFailure, ContainerExits
  <2> QED BY <1>3, <2>2, <2>3, <2>4, <2>5
<1>4. ASSUME NEW u \in Users, Request(u)
      PROVE  UNCHANGED <<users, schedule>> \/ ScheduleAndTrigger(u) \/ DeleteAccount(u)
  BY <1>4 DEF Request, StoreCredentials, WriteCancelled, AdminTrigger, tables
<1> QED BY <1>1, <1>2, <1>3, <1>4 DEF Next

\* A due schedule is put off only with an outcome.
LEMMA AdvancesOnOutcome ==
    ASSUME IInv, Next, NEW u \in Users, schedule[u] = "due", schedule'[u] = "later"
    PROVE  \E a \in Attempts : att[a].user = u /\ att[a].row \in {"success", "failure"}
<1>1. u \in users
  BY DEF IInv, TablesOK
<1>2. ASSUME NEW a \in Attempts, HasOutcome(a), schedule' = Advance(att[a].user)
      PROVE  att[a].user = u /\ att[a].row \in {"success", "failure"}
  BY <1>1, <1>2, AdvanceMoves DEF IInv, HasOutcome
<1>3. ~ \E v \in Users : BecomesDue(v) \/ ScheduleAndTrigger(v) \/ DeleteAccount(v)
  BY DEF IInv, TypeOK, BecomesDue, ScheduleAndTrigger, DeleteAccount
<1> QED BY <1>2, <1>3, ScheduleMoves

-----------------------------------------------------------------------------
(* The tables and the control state                                        *)

\* No deleted account has a schedule, ...
ScheduleOK == /\ schedule \in [Users -> {"none", "due", "later"}]
              /\ \A u \in Users \ users : schedule[u] = "none"

LEMMA ScheduleStep ==
    ASSUME IInv, Next
    PROVE  ScheduleOK'
<1>1. ASSUME NEW u \in Users, BecomesDue(u) \/ ScheduleAndTrigger(u) \/ DeleteAccount(u)
      PROVE  ScheduleOK'
  BY <1>1 DEF ScheduleOK, IInv, TypeOK, TablesOK, BecomesDue, ScheduleAndTrigger, DeleteAccount,
         ForeignKey, tables
<1>2. ASSUME UNCHANGED users, NEW a \in Attempts, schedule' = Advance(att[a].user)
      PROVE  ScheduleOK'
  BY <1>2, AdvanceMoves DEF ScheduleOK, IInv, TablesOK
<1>3. ASSUME UNCHANGED <<users, schedule>>
      PROVE  ScheduleOK'
  BY <1>3 DEF ScheduleOK, IInv, TypeOK, TablesOK
<1> QED BY <1>1, <1>2, <1>3, ScheduleMoves

\* ... and no credentials.
CredsOK == /\ {users, creds, writing, cut} \subseteq SUBSET Users
           /\ \A u \in Users \ users : u \notin creds

LEMMA CredsStep ==
    ASSUME IInv, Next
    PROVE  CredsOK'
<1> USE DEF IInv, TypeOK, TablesOK, CredsOK, tables, Unscheduled, GoOn
<1>1. CASE Scheduler
  BY <1>1 DEF Scheduler, PollDue, PollFails, ReapQuery, Snapshot, ReapKill, ReapMark, ReapHandle
<1>2. CASE Crash
  BY <1>2 DEF Crash
<1>3. ASSUME NEW a \in Attempts, Starter(a)
      PROVE  CredsOK'
  BY <1>3 DEF Starter, Acquire, InsertLog, CreateContainer, RecordContainer, StartContainer,
         StartFails, MarkStartFailure, RetryStart, GiveUpStart
<1>4. ASSUME NEW a \in Attempts, Handler(a)
      PROVE  CredsOK'
  BY <1>4 DEF Handler, ServeCredentials, MarkSuccess, FinishShifts, MarkReportedFailure,
         FinishFailure, RejectBody, CallbackAborted
<1>5. ASSUME NEW a \in Attempts, Container(a)
      PROVE  CredsOK'
  BY <1>5 DEF Container, FetchCredentials, PostShifts, ScrapeError, PostFailure, ContainerExits
<1>6. ASSUME NEW u \in Users, Request(u) \/ BecomesDue(u)
      PROVE  CredsOK'
  BY <1>6 DEF Request, StoreCredentials, ScheduleAndTrigger, WriteCancelled, DeleteAccount,
         AdminTrigger, BecomesDue, ForeignKey
<1> QED BY <1>1, <1>2, <1>3, <1>4, <1>5, <1>6 DEF Next

\* ... and whoever has credentials has a schedule, or was cut.
LEMMA ScheduledStep ==
    ASSUME IInv, Next
    PROVE  ScheduledUnlessCut'
<1>a. TypeOK /\ TablesOK /\ ScheduledUnlessCut
  BY DEF IInv
<1>1. ASSUME UNCHANGED tables
      PROVE  ScheduledUnlessCut'
  <2>1. \A v \in creds : schedule'[v] = "none" => schedule[v] = "none"
    <3> SUFFICES ASSUME NEW v \in creds, schedule'[v] = "none" PROVE schedule[v] = "none"
      OBVIOUS
    <3>1. v \in Users /\ v \in users
      BY <1>a DEF TypeOK, TablesOK
    <3>2. ASSUME NEW u \in Users, BecomesDue(u) \/ ScheduleAndTrigger(u) \/ DeleteAccount(u)
          PROVE  schedule[v] = "none"
      BY <1>a, <1>1, <3>1, <3>2
      DEF BecomesDue, ScheduleAndTrigger, DeleteAccount, tables, GoOn, TypeOK
    <3> QED BY <1>a, <3>1, <3>2, ScheduleMoves, AdvanceMoves
  <2> QED BY <1>1, <1>a, <2>1 DEF ScheduledUnlessCut, tables
<1>2. CASE Scheduler
  BY <1>1, <1>2 DEF Scheduler, PollDue, PollFails, ReapQuery, Snapshot, ReapKill, ReapMark, ReapHandle
<1>3. CASE Crash
  BY <1>a, <1>3 DEF Crash, ScheduledUnlessCut, Unscheduled
<1>4. ASSUME NEW a \in Attempts, Starter(a) \/ Handler(a) \/ Container(a)
      PROVE  ScheduledUnlessCut'
  BY <1>1, <1>4 DEF Starter, Acquire, InsertLog, CreateContainer, RecordContainer, StartContainer,
         StartFails, MarkStartFailure, RetryStart, GiveUpStart,
         Handler, ServeCredentials, MarkSuccess, FinishShifts, MarkReportedFailure,
         FinishFailure, RejectBody, CallbackAborted,
         Container, FetchCredentials, PostShifts, ScrapeError, PostFailure, ContainerExits
<1>5. ASSUME NEW u \in Users, Request(u) \/ BecomesDue(u)
      PROVE  ScheduledUnlessCut'
  <2>1. CASE StoreCredentials(u)
    BY <1>a, <2>1 DEF StoreCredentials, ScheduledUnlessCut
  <2>2. CASE ScheduleAndTrigger(u)
    BY <1>a, <2>2 DEF ScheduleAndTrigger, GoOn, ForeignKey, ScheduledUnlessCut, TypeOK, TablesOK
  <2>3. CASE WriteCancelled(u)
    BY <1>a, <2>3 DEF WriteCancelled, Unscheduled, ScheduledUnlessCut
  <2>4. CASE DeleteAccount(u)
    BY <1>a, <2>4 DEF DeleteAccount, ScheduledUnlessCut, TypeOK
  <2>5. CASE AdminTrigger(u) \/ BecomesDue(u)
    BY <1>1, <2>5 DEF AdminTrigger, BecomesDue
  <2> QED BY <1>5, <2>1, <2>2, <2>3, <2>4, <2>5 DEF Request
<1> QED BY <1>2, <1>3, <1>4, <1>5 DEF Next

\* The scheduler's place in its loop, its snapshot and the crash counter.
ControlOK == /\ pc \in {"idle", "wait", "reap", "mark", "handle"}
             /\ todo \subseteq Attempts /\ known \subseteq todo
             /\ cur \in Attempts \cup {NoAttempt}
             /\ crashes \in 0..MaxCrashes

LEMMA ControlStep ==
    ASSUME IInv, Next
    PROVE  ControlOK'
<1> USE DEF IInv, TypeOK, ControlOK, reaper
<1>1. CASE Scheduler
  BY <1>1 DEF Scheduler, PollDue, PollFails, ReapQuery, Snapshot, ReapKill, ReapMark, ReapHandle
<1>2. CASE Crash
  <2>1. crashes' \in 0..MaxCrashes
    <3>1. crashes < MaxCrashes /\ crashes' = crashes + 1
      BY <1>2 DEF Crash
    <3> QED BY <3>1, NumbersAssumption
  <2>2. pc' = "idle" /\ todo' = {} /\ known' = {} /\ cur' = NoAttempt
    BY <1>2 DEF Crash
  <2> QED BY <2>1, <2>2
<1>3. ASSUME NEW a \in Attempts, Starter(a)
      PROVE  ControlOK'
  BY <1>3 DEF Starter, Acquire, InsertLog, CreateContainer, RecordContainer, StartContainer,
         StartFails, MarkStartFailure, RetryStart, GiveUpStart
<1>4. ASSUME NEW a \in Attempts, Handler(a)
      PROVE  ControlOK'
  BY <1>4 DEF Handler, ServeCredentials, MarkSuccess, FinishShifts, MarkReportedFailure,
         FinishFailure, RejectBody, CallbackAborted
<1>5. ASSUME NEW a \in Attempts, Container(a)
      PROVE  ControlOK'
  BY <1>5 DEF Container, FetchCredentials, PostShifts, ScrapeError, PostFailure, ContainerExits
<1>6. ASSUME NEW u \in Users, Request(u) \/ BecomesDue(u)
      PROVE  ControlOK'
  BY <1>6 DEF Request, StoreCredentials, ScheduleAndTrigger, WriteCancelled, DeleteAccount,
         AdminTrigger, BecomesDue
<1> QED BY <1>1, <1>2, <1>3, <1>4, <1>5, <1>6 DEF Next

\* The attempts, the snapshot and sem.
WorkOK == att \in [Attempts -> Attempt] /\ AttemptsOK /\ SnapshotOK /\ SemaphoreAccounting

LEMMA AttemptsStep ==
    ASSUME IInv, Next
    PROVE  WorkOK'
<1> TypeOK /\ AttemptsOK /\ SnapshotOK /\ SemaphoreAccounting
  BY DEF IInv
<1>1. ASSUME SlotSteps(todo), UNCHANGED <<users, pc, reaper>>, SemaphoreAccounting'
      PROVE  WorkOK'
  BY <1>1, SlotStepsPreserve, SnapshotStays DEF SnapshotOK, WorkOK
<1>2. ASSUME NEW S, S \subseteq todo, SlotSteps(S), UNCHANGED users,
             SnapshotOK', SemaphoreAccounting'
      PROVE  WorkOK'
  BY <1>2, SlotStepsPreserve DEF SnapshotOK, WorkOK
<1>3. ASSUME UNCHANGED <<users, att, sem>>, SnapshotOK'
      PROVE  WorkOK'
  BY <1>3, PlacesKept DEF TypeOK, AttemptsOK, Holders, WorkOK
<1>4. CASE Scheduler
  <2>1. CASE PollDue
    BY <2>1, PollStep, <1>2 DEF PollDue, tables
  <2>2. CASE PollFails
    <3>1. SnapshotOK'
      BY <2>2 DEF PollFails, SnapshotOK, EntryOK, ReaperMissesNone, reaper, tables
    <3> QED BY <2>2, <3>1, <1>3 DEF PollFails, tables
  <2>3. ASSUME NEW S \in SUBSET Attempts, ReapQuery(S)
        PROVE  WorkOK'
    BY <2>3, ReapQueryStep, <1>3 DEF ReapQuery, Snapshot, tables
  <2>4. CASE (\E a \in Attempts : ReapKill(a)) \/ ReapMark
    BY <2>4, ReapStep, <1>2 DEF ReapKill, ReapMark, tables
  <2>5. CASE ReapHandle
    BY <2>5, ReapHandleStep, <1>2 DEF ReapHandle, tables
  <2> QED BY <1>4, <2>1, <2>2, <2>3, <2>4, <2>5 DEF Scheduler
<1>5. CASE Crash
  BY <1>5, CrashStep, <1>2 DEF Crash
<1>6. ASSUME NEW a \in Attempts, Starter(a)
      PROVE  WorkOK'
  <2>1. UNCHANGED <<users, pc, reaper>>
    BY <1>6 DEF Starter, Acquire, InsertLog, CreateContainer, RecordContainer, StartContainer,
           StartFails, MarkStartFailure, RetryStart, GiveUpStart, tables
  <2> QED BY <1>6, <2>1, StarterSteps, <1>1
<1>7. ASSUME NEW a \in Attempts, Handler(a)
      PROVE  WorkOK'
  <2>1. UNCHANGED <<users, pc, reaper>>
    BY <1>7 DEF Handler, ServeCredentials, MarkSuccess, FinishShifts, MarkReportedFailure,
           FinishFailure, RejectBody, CallbackAborted, tables
  <2> QED BY <1>7, <2>1, HandlerSteps, <1>1
<1>8. ASSUME NEW a \in Attempts, Container(a)
      PROVE  WorkOK'
  <2>1. UNCHANGED <<users, pc, reaper>>
    BY <1>8 DEF Container, FetchCredentials, PostShifts, ScrapeError, PostFailure, ContainerExits,
           tables
  <2> QED BY <1>8, <2>1, ContainerSteps, <1>1
<1>9. ASSUME NEW u \in Users, Request(u) \/ BecomesDue(u)
      PROVE  WorkOK'
  <2>1. CASE DeleteAccount(u)
    BY <2>1, DeleteStep DEF WorkOK
  <2>2. CASE ScheduleAndTrigger(u) \/ WriteCancelled(u) \/ AdminTrigger(u)
    BY <2>2, TriggerStep, <1>1 DEF ScheduleAndTrigger, WriteCancelled, AdminTrigger, tables
  <2>3. CASE StoreCredentials(u) \/ BecomesDue(u)
    <3>1. UNCHANGED <<users, att, sem, pc, reaper>>
      BY <2>3 DEF StoreCredentials, BecomesDue, tables
    <3>2. SnapshotOK'
      BY <3>1 DEF SnapshotOK, EntryOK, ReaperMissesNone, reaper
    <3> QED BY <3>1, <3>2, <1>3
  <2> QED BY <1>9, <2>1, <2>2, <2>3 DEF Request
<1> QED
  BY <1>4, <1>5, <1>6, <1>7, <1>8, <1>9 DEF Next

-----------------------------------------------------------------------------
(* The refinement of ScrapeJob                                             *)

Jobs(f) == [a \in Attempts |-> Job(f[a])]

\* A step the promise knows, or none.
KeptStep == [Promise!Next]_(Promise!vars)

\* An empty slot holds no job.
LEMMA FreeJobs ==
    ASSUME NEW f, NEW S, NEW b \in Free(f, S)
    PROVE  b \in Attempts /\ b \in Promise!Free(Jobs(f))
<1>1. b \in Attempts /\ f[b] = Blank
  BY DEF Free
<1>2. Job(Blank) = Promise!NoJob
  BY DEF Job, Blank, NewAttempt, Promise!NoJob, Promise!NewJob
<1>3. Jobs(f)[b] = Promise!NoJob
  BY <1>1, <1>2 DEF Jobs
<1> QED BY <1>1, <1>3 DEF Promise!Free

\* Attempts that are over are jobs that may be forgotten.
LEMMA TidyForgets ==
    ASSUME NEW f, NEW S
    PROVE  Jobs(Tidy(f, S)) \in Promise!Forgotten(Jobs(f))
<1> DEFINE F == {a \in Attempts : a \notin S /\ Over(f[a])}
<1>1. F \in SUBSET {a \in Attempts : Jobs(f)[a].log # "running"}
  BY DEF Over, Jobs, Job
<1>2. Jobs(Tidy(f, S)) = [a \in Attempts |-> IF a \in F THEN Promise!NoJob ELSE Jobs(f)[a]]
  BY DEF Jobs, Job, Tidy, Blank, NewAttempt, Promise!NoJob, Promise!NewJob
<1> HIDE DEF F
<1> QED BY <1>1, <1>2 DEF Promise!Forgotten

\* Nothing need be forgotten.
LEMMA NothingForgotten ==
    ASSUME NEW f
    PROVE  Jobs(f) \in Promise!Forgotten(Jobs(f))
<1>1. Jobs(f) = [a \in Attempts |-> IF a \in {} THEN Promise!NoJob ELSE Jobs(f)[a]]
  BY DEF Jobs
<1>2. {} \in SUBSET {a \in Attempts : Jobs(f)[a].log # "running"}
  OBVIOUS
<1> DEFINE J == Jobs(f)
<1> HIDE DEF J
<1>3. \E S \in SUBSET {a \in Attempts : J[a].log # "running"} :
         J = [a \in Attempts |-> IF a \in S THEN Promise!NoJob ELSE J[a]]
  <2> WITNESS {} \in SUBSET {a \in Attempts : J[a].log # "running"}
  <2> QED BY <1>1 DEF J
<1> QED BY <1>3 DEF Promise!Forgotten, J

\* The jobs after one attempt has changed.
LEMMA OneJob ==
    ASSUME TypeOK, NEW a \in Attempts, NEW r
    PROVE  Jobs([att EXCEPT ![a] = r]) = [Jobs(att) EXCEPT ![a] = Job(r)]
BY DEF TypeOK, Jobs

\* An attempt that changes only in what the promise does not speak of.
LEMMA SameJob ==
    ASSUME TypeOK, NEW a \in Attempts, NEW r, Job(r) = Job(att[a])
    PROVE  Jobs([att EXCEPT ![a] = r]) = Jobs(att)
<1>1. Jobs(att) = [Jobs(att) EXCEPT ![a] = Job(r)]
  BY DEF Jobs
<1> QED BY <1>1, OneJob

\* A step that changes such an attempt, tidied or not, is one that forgets.
LEMMA SilentStep ==
    ASSUME TypeOK, NEW a \in Attempts, NEW r, Job(r) = Job(att[a]), Replaced(a, r),
           UNCHANGED <<users, schedule>>
    PROVE  KeptStep
<1>1. Jobs(att') \in Promise!Forgotten(Jobs(att))
  <2>1. CASE att' = [att EXCEPT ![a] = r]
    BY <2>1, SameJob, NothingForgotten
  <2>2. CASE Update(a, r)
    BY <2>2, SameJob, TidyForgets DEF Update
  <2> QED BY <2>1, <2>2 DEF Replaced
<1> QED BY <1>1 DEF KeptStep, Promise!Next, Promise!Forget, Jobs

\* An outcome is written to a log, if it is still there.
LEMMA OutcomeStep ==
    ASSUME TypeOK, NEW a \in Attempts, NEW r, NEW outcome \in {"success", "failure"},
           Job(r) = [Job(att[a]) EXCEPT !.log = IF @ = "none" THEN @ ELSE outcome],
           outcome = "success" /\ att[a].row # "none" => att[a].fetched,
           att' = [att EXCEPT ![a] = r], UNCHANGED <<users, schedule>>
    PROVE  KeptStep
<1>1. Jobs(att') = [Jobs(att) EXCEPT ![a] = Job(r)]
  BY OneJob
<1>a. Jobs(att)[a] = Job(att[a])
  BY DEF Jobs
<1>2. CASE att[a].row = "none"
  <2>1. Job(r) = Job(att[a])
    BY <1>2 DEF Job
  <2> QED BY <2>1, SilentStep DEF Replaced
<1>3. CASE att[a].row # "none"
  <2>1. Jobs(att') = [Jobs(att) EXCEPT ![a].log = outcome]
    BY <1>1, <1>a, <1>3 DEF Job
  <2>2. Promise!Succeed(a) \/ Promise!Fail(a)
    BY <1>a, <1>3, <2>1 DEF Jobs, Job, Promise!Succeed, Promise!Fail
  <2> QED BY <2>2 DEF KeptStep, Promise!Next
<1> QED BY <1>2, <1>3

\* ScheduleNext puts a due user off, and moves no one else.
LEMMA AdvancePutsOff ==
    ASSUME TypeOK, NEW u
    PROVE  Advance(u) = Promise!PutOff(u)
BY DEF TypeOK, Advance, Promise!PutOff

\* A schedule that is put off where HasOutcome holds.
LEMMA FinishStep ==
    ASSUME TypeOK, TablesOK, NEW a \in Attempts, HasOutcome(a), UNCHANGED users,
           schedule' = Advance(att[a].user), Jobs(att') \in Promise!Forgotten(Jobs(att))
    PROVE  KeptStep
<1>1. CASE att[a].row \in {"success", "failure"}
  <2>1. Promise!Finish(a)
    BY <1>1, AdvancePutsOff DEF Jobs, Job, Promise!Finish, Promise!Ended
  <2> QED BY <2>1 DEF KeptStep, Promise!Next
<1>2. CASE att[a].user \notin users
  <2>1. schedule' = schedule
    BY <1>2 DEF TablesOK, TypeOK, Advance
  <2> QED BY <2>1 DEF KeptStep, Promise!Next, Promise!Forget, Jobs
<1> QED BY <1>1, <1>2 DEF HasOutcome

\* A retry, in a slot that is free once attempts that are over are forgotten.
LEMMA RetryStep ==
    ASSUME TypeOK, NEW a \in Attempts, HasOutcome(a), MayRetry(att[a]),
           NEW g, Jobs(g) \in Promise!Forgotten(Jobs(att)), NEW S, NEW b \in Free(g, S),
           NEW n, Job(n) = Promise!NewJob(att[a].user, TRUE, att[a].retry + 1),
           g = [c \in Attempts |-> g[c]], att' = [g EXCEPT ![b] = n],
           UNCHANGED <<users, schedule>>
    PROVE  KeptStep
<1>1. Jobs(att') = [Jobs(g) EXCEPT ![b] = Job(n)]
  BY DEF Jobs
<1>2. b \in Promise!Free(Jobs(g))
  BY FreeJobs
<1>3. /\ Jobs(att)[a].auto /\ Jobs(att)[a].retry < MaxRetries
      /\ Promise!Ended(Jobs(att)[a]) \/ Jobs(att)[a].user \notin users
  BY DEF Jobs, Job, MayRetry, HasOutcome, Promise!Ended
<1>4. Job(n) = Promise!NewJob(Jobs(att)[a].user, TRUE, Jobs(att)[a].retry + 1)
  BY DEF Jobs, Job
<1>5. Promise!Retry(a)
  BY <1>1, <1>2, <1>3, <1>4 DEF Promise!Retry, Jobs
<1> QED BY <1>5 DEF KeptStep, Promise!Next

\* HandleScrapeFailure of an attempt with an outcome retries it or puts its
\* user's schedule off.
LEMMA HandledKeeps ==
    ASSUME TypeOK, TablesOK, NEW a \in Attempts, HasOutcome(a), UNCHANGED users,
           NEW r, r \in Attempt, Job(r) = Job(att[a]), NEW S,
           HandleScrapeFailure(a, [att EXCEPT ![a] = r], S)
    PROVE  KeptStep
<1> DEFINE f == [att EXCEPT ![a] = r]
           g == Tidy(f, S)
           n == NewAttempt(r.user, TRUE, r.retry + 1, FALSE, "waiting")
<1>1. /\ f[a] = r /\ r.user = att[a].user /\ r.retry = att[a].retry
      /\ r.row = att[a].row /\ r.auto = att[a].auto
  BY DEF TypeOK, Job
<1>2. Jobs(g) \in Promise!Forgotten(Jobs(att))
  <2>1. Jobs(f) = Jobs(att)
    BY SameJob
  <2>2. Jobs(g) \in Promise!Forgotten(Jobs(f))
    BY TidyForgets
  <2> QED BY <2>1, <2>2
<1>a. g = [c \in Attempts |-> g[c]]
  BY DEF Tidy
<1>3. CASE f[a].row # "none" /\ MayRetry(f[a])
  <2>1. PICK b \in Free(g, S) : att' = [g EXCEPT ![b] = n]
    BY <1>1, <1>3 DEF HandleScrapeFailure
  <2>2. schedule' = schedule /\ MayRetry(att[a])
    BY <1>1, <1>3 DEF HandleScrapeFailure, MayRetry
  <2>3. Job(n) = Promise!NewJob(att[a].user, TRUE, att[a].retry + 1)
    BY <1>1 DEF Job, NewAttempt, Promise!NewJob
  <2> HIDE DEF g, n
  <2> QED BY <1>2, <1>a, <2>1, <2>2, <2>3, RetryStep
<1>4. CASE ~(f[a].row # "none" /\ MayRetry(f[a]))
  <2>1. att' = g /\ schedule' = Advance(att[a].user)
    BY <1>1, <1>4 DEF HandleScrapeFailure
  <2> HIDE DEF g
  <2> QED BY <1>2, <2>1, FinishStep
<1> QED BY <1>3, <1>4

\* scrapeForUser and runScrapeContainer.
LEMMA StarterKeeps ==
    ASSUME IInv, NEW a \in Attempts, Starter(a)
    PROVE  KeptStep
<1>a. TypeOK /\ TablesOK /\ att[a] \in Attempt /\ AttemptOK(att[a], users)
  BY DEF IInv, TypeOK, AttemptsOK
<1>b. UNCHANGED users
  BY DEF Starter, Acquire, InsertLog, CreateContainer, RecordContainer, StartContainer,
     StartFails, MarkStartFailure, RetryStart, GiveUpStart, tables
<1>1. ASSUME NEW r, Job(r) = Job(att[a]), Replaced(a, r), schedule' = schedule
      PROVE  KeptStep
  BY <1>1, <1>a, <1>b, SilentStep
<1>2. CASE Acquire(a)
  <2> DEFINE r == [att[a] EXCEPT !.go = "insert"]
  <2>1. Job(r) = Job(att[a]) /\ Replaced(a, r) /\ schedule' = schedule
    BY <1>2, <1>a DEF Acquire, Replaced, Job, Attempt, TypeOK
  <2> QED BY <2>1, <1>1
<1>3. CASE InsertLog(a) /\ ForeignKey(att[a].user)
  <2> DEFINE r == [att[a] EXCEPT !.go = "create", !.row = "running"]
  <2>1. att' = [att EXCEPT ![a] = r] /\ Job(r) = [Job(att[a]) EXCEPT !.log = "running"]
    <3>1. att' = [att EXCEPT ![a] = r]
      BY <1>3, <1>a DEF InsertLog, TypeOK
    <3>2. Job(r) = [Job(att[a]) EXCEPT !.log = "running"]
      BY <1>a DEF Job, Attempt
    <3> QED BY <3>1, <3>2
  <2>2. Jobs(att') = [Jobs(att) EXCEPT ![a] = Job(r)]
    BY <2>1, <1>a, OneJob
  <2>3. Jobs(att') = [Jobs(att) EXCEPT ![a].log = "running"]
    BY <2>1, <2>2 DEF Jobs
  <2>4. Jobs(att)[a].user \in users /\ Jobs(att)[a].log = "none"
    BY <1>3, <1>a DEF InsertLog, ForeignKey, AttemptOK, Jobs, Job
  <2>5. Promise!Begin(a)
    BY <1>3, <1>b, <2>3, <2>4 DEF InsertLog, Promise!Begin, Jobs
  <2> QED BY <2>5 DEF KeptStep, Promise!Next
<1>4. CASE InsertLog(a) /\ ~ForeignKey(att[a].user)
  <2> DEFINE r == [att[a] EXCEPT !.go = "idle"]
  <2>1. Job(r) = Job(att[a]) /\ Replaced(a, r) /\ schedule' = schedule
    BY <1>4, <1>a DEF InsertLog, Replaced, Job, Attempt
  <2> QED BY <2>1, <1>1
<1>5. CASE CreateContainer(a)
  <2> PICK next \in {"record", "mark"} : att' = [att EXCEPT ![a].go = next]
    BY <1>5 DEF CreateContainer
  <2> DEFINE r == [att[a] EXCEPT !.go = next]
  <2>1. Job(r) = Job(att[a]) /\ Replaced(a, r) /\ schedule' = schedule
    BY <1>5, <1>a DEF CreateContainer, Replaced, Job, Attempt, TypeOK
  <2> QED BY <2>1, <1>1
<1>6. CASE RecordContainer(a)
  <2> DEFINE r == [att[a] EXCEPT !.go = "start", !.cid = (att[a].row # "none")]
  <2>1. Job(r) = Job(att[a]) /\ Replaced(a, r) /\ schedule' = schedule
    BY <1>6, <1>a DEF RecordContainer, Replaced, Job, Attempt, TypeOK
  <2> QED BY <2>1, <1>1
<1>7. CASE StartContainer(a)
  <2> DEFINE r == [att[a] EXCEPT !.go = "idle", !.ctr = "started"]
  <2>1. Job(r) = Job(att[a]) /\ Replaced(a, r) /\ schedule' = schedule
    BY <1>7, <1>a DEF StartContainer, Replaced, Job, Attempt, TypeOK
  <2> QED BY <2>1, <1>1
<1>8. CASE StartFails(a)
  <2> DEFINE r == [att[a] EXCEPT !.go = "mark"]
  <2>1. Job(r) = Job(att[a]) /\ Replaced(a, r) /\ schedule' = schedule
    BY <1>8, <1>a DEF StartFails, Replaced, Job, Attempt, TypeOK
  <2> QED BY <2>1, <1>1
<1>9. CASE MarkStartFailure(a)
  <2> DEFINE r == [att[a] EXCEPT !.go = "marked", !.row = IF @ = "none" THEN @ ELSE "failure"]
  <2>1. att' = [att EXCEPT ![a] = r] /\ schedule' = schedule
    BY <1>9, <1>a DEF MarkStartFailure, TypeOK
  <2>2. Job(r) = [Job(att[a]) EXCEPT !.log = IF @ = "none" THEN @ ELSE "failure"]
    BY <1>a DEF Job, Attempt
  <2> HIDE DEF r
  <2> QED BY <2>1, <2>2, <1>a, <1>b, OutcomeStep
<1>10. CASE RetryStart(a)
  <2> DEFINE r == [att[a] EXCEPT !.go = "idle"]
             f == [att EXCEPT ![a] = r]
             g == Tidy(f, todo)
             n == NewAttempt(att[a].user, TRUE, att[a].retry + 1, att[a].polled, "insert")
  <2>1. f = [att EXCEPT ![a].go = "idle"] /\ Job(r) = Job(att[a])
    BY <1>a DEF TypeOK, Attempt, Job
  <2>2. PICK b \in Free(g, todo) : att' = [g EXCEPT ![b] = n]
    BY <1>10, <2>1 DEF RetryStart
  <2>3. Jobs(f) = Jobs(att)
    BY <1>a, <2>1, SameJob
  <2>4. Jobs(g) \in Promise!Forgotten(Jobs(f))
    BY TidyForgets
  <2>5. g = [c \in Attempts |-> g[c]]
    BY DEF Tidy
  <2>6. Job(n) = Promise!NewJob(att[a].user, TRUE, att[a].retry + 1)
    BY DEF Job, NewAttempt, Promise!NewJob
  <2>7. HasOutcome(a) /\ MayRetry(att[a]) /\ UNCHANGED <<users, schedule>>
    BY <1>10, <1>a, <1>b DEF RetryStart, HasOutcome, AttemptOK, Launched, Attempt
  <2> HIDE DEF f, g, n
  <2> QED BY <1>a, <2>2, <2>3, <2>4, <2>5, <2>6, <2>7, RetryStep
<1>11. CASE GiveUpStart(a)
  <2> DEFINE r == [att[a] EXCEPT !.go = "idle"]
             f == [att EXCEPT ![a] = r]
  <2>1. Job(r) = Job(att[a]) /\ att' = Tidy(f, todo) /\ schedule' = Advance(att[a].user)
    BY <1>11, <1>a DEF GiveUpStart, Update, Job, Attempt
  <2>2. HasOutcome(a)
    BY <1>11, <1>a DEF GiveUpStart, HasOutcome, AttemptOK, Launched, Attempt
  <2>3. Jobs(f) = Jobs(att)
    BY <1>a, <2>1, SameJob
  <2> HIDE DEF f
  <2>4. Jobs(att') \in Promise!Forgotten(Jobs(att))
    BY <2>1, <2>3, TidyForgets
  <2> QED BY <1>a, <1>b, <2>1, <2>2, <2>4, FinishStep
<1> QED
  BY <1>2, <1>3, <1>4, <1>5, <1>6, <1>7, <1>8, <1>9, <1>10, <1>11 DEF Starter

\* The callback handlers.
LEMMA HandlerKeeps ==
    ASSUME IInv, NEW a \in Attempts, Handler(a)
    PROVE  KeptStep
<1>a. TypeOK /\ TablesOK /\ att[a] \in Attempt /\ AttemptOK(att[a], users)
  BY DEF IInv, TypeOK, AttemptsOK
<1>b. UNCHANGED users
  BY DEF Handler, ServeCredentials, MarkSuccess, FinishShifts, MarkReportedFailure,
     FinishFailure, RejectBody, CallbackAborted, tables
<1>1. ASSUME NEW r, Job(r) = Job(att[a]), Replaced(a, r), schedule' = schedule
      PROVE  KeptStep
  BY <1>1, <1>a, <1>b, SilentStep
<1>2. CASE ServeCredentials(a)
  <2> DEFINE r == [Answered(att[a], "browsing") EXCEPT !.fetched = (att[a].row # "none")]
             f == [att EXCEPT ![a] = r]
  <2>1. ~att[a].fetched /\ att' = Tidy(f, todo) /\ schedule' = schedule
    BY <1>2, <1>a DEF ServeCredentials, AttemptOK, Update
  <2>2. CASE att[a].row = "none"
    <3>1. Job(r) = Job(att[a])
      BY <1>a, <2>1, <2>2 DEF Job, Answered, Attempt
    <3> HIDE DEF r
    <3> QED BY <2>1, <3>1, <1>1 DEF Replaced, Update
  <2>3. CASE att[a].row # "none"
    <3>1. Job(r) = [Job(att[a]) EXCEPT !.handed = TRUE]
      <4>1. /\ r.user = att[a].user /\ r.auto = att[a].auto /\ r.retry = att[a].retry
            /\ r.row = att[a].row /\ r.fetched = TRUE
        BY <1>a, <2>3 DEF Answered, Attempt
      <4>2. Job(r) = [user |-> att[a].user, auto |-> att[a].auto, retry |-> att[a].retry,
                      log |-> att[a].row, handed |-> TRUE]
        BY <4>1 DEF Job
      <4> DEFINE k == [Job(att[a]) EXCEPT !.handed = TRUE]
      <4>3. /\ k.user = att[a].user /\ k.auto = att[a].auto /\ k.retry = att[a].retry
            /\ k.log = att[a].row /\ k.handed = TRUE
            /\ DOMAIN k = {"user", "auto", "retry", "log", "handed"}
            /\ k = [x \in DOMAIN k |-> k[x]]
        BY DEF Job
      <4> HIDE DEF k, r
      <4>4. k = [user |-> att[a].user, auto |-> att[a].auto, retry |-> att[a].retry,
                 log |-> att[a].row, handed |-> TRUE]
        BY <4>3
      <4> QED BY <4>2, <4>4 DEF k
    <3>2. Jobs(f) = [Jobs(att) EXCEPT ![a] = Job(r)]
      BY <1>a, OneJob
    <3>3. Jobs(f) = [Jobs(att) EXCEPT ![a].handed = TRUE]
      BY <3>1, <3>2 DEF Jobs
    <3> HIDE DEF f
    <3>4. Jobs(att') \in Promise!Forgotten([Jobs(att) EXCEPT ![a].handed = TRUE])
      BY <2>1, <3>3, TidyForgets
    <3>5. Promise!HandOut(a)
      BY <1>b, <2>1, <2>3, <3>4 DEF Promise!HandOut, Jobs, Job
    <3> QED BY <3>5 DEF KeptStep, Promise!Next
  <2> QED BY <2>2, <2>3
<1>3. CASE MarkSuccess(a)
  <2> DEFINE r == [att[a] EXCEPT !.cb = "shiftsMarked", !.row = IF @ = "none" THEN @ ELSE "success"]
  <2>1. att' = [att EXCEPT ![a] = r] /\ schedule' = schedule
    BY <1>3, <1>a DEF MarkSuccess, TypeOK
  <2>2. Job(r) = [Job(att[a]) EXCEPT !.log = IF @ = "none" THEN @ ELSE "success"]
    BY <1>a DEF Job, Attempt
  <2>3. att[a].row # "none" => att[a].fetched
    BY <1>3, <1>a DEF MarkSuccess, AttemptOK
  <2> HIDE DEF r
  <2> QED BY <2>1, <2>2, <2>3, <1>a, <1>b, OutcomeStep
<1>4. CASE FinishShifts(a)
  <2> DEFINE r == Answered(att[a], "closing")
             f == [att EXCEPT ![a] = r]
  <2>1. Job(r) = Job(att[a]) /\ att' = Tidy(f, todo) /\ schedule' = Advance(att[a].user)
    BY <1>4, <1>a DEF FinishShifts, Update, Job, Answered, Attempt
  <2>2. HasOutcome(a)
    BY <1>4, <1>a DEF FinishShifts, HasOutcome, AttemptOK, Attempt
  <2>3. Jobs(f) = Jobs(att)
    BY <1>a, <2>1, SameJob
  <2> HIDE DEF f
  <2>4. Jobs(att') \in Promise!Forgotten(Jobs(att))
    BY <2>1, <2>3, TidyForgets
  <2> QED BY <1>a, <1>b, <2>1, <2>2, <2>4, FinishStep
<1>5. CASE MarkReportedFailure(a)
  <2> DEFINE r == [att[a] EXCEPT !.cb = "failMarked", !.row = IF @ = "none" THEN @ ELSE "failure"]
  <2>1. att' = [att EXCEPT ![a] = r] /\ schedule' = schedule
    BY <1>5, <1>a DEF MarkReportedFailure, TypeOK
  <2>2. Job(r) = [Job(att[a]) EXCEPT !.log = IF @ = "none" THEN @ ELSE "failure"]
    BY <1>a DEF Job, Attempt
  <2> HIDE DEF r
  <2> QED BY <2>1, <2>2, <1>a, <1>b, OutcomeStep
<1>6. CASE FinishFailure(a)
  <2> DEFINE r == Answered(att[a], "none")
  <2>1. r \in Attempt /\ Job(r) = Job(att[a])
    BY <1>a DEF Answered, Attempt, Job
  <2>2. [att EXCEPT ![a] = Answered(@, "none")] = [att EXCEPT ![a] = r]
    BY <1>a DEF TypeOK
  <2>3. HandleScrapeFailure(a, [att EXCEPT ![a] = r], todo)
    BY <1>6, <2>2 DEF FinishFailure
  <2>4. HasOutcome(a)
    BY <1>6, <1>a DEF FinishFailure, HasOutcome, AttemptOK, Attempt
  <2> HIDE DEF r
  <2> QED BY <1>a, <1>b, <2>1, <2>3, <2>4, HandledKeeps
<1>7. CASE RejectBody(a)
  <2> DEFINE r == Answered(att[a], IF att[a].cb = "shifts" THEN "failing" ELSE "none")
  <2>1. Job(r) = Job(att[a])
    BY <1>a DEF Answered, Attempt, Job
  <2> QED BY <1>7, <2>1, <1>1 DEF RejectBody, Replaced
<1>8. CASE CallbackAborted(a)
  <2> DEFINE r == [att[a] EXCEPT !.cb = "none"]
  <2>1. Job(r) = Job(att[a])
    BY <1>a DEF Attempt, Job
  <2> QED BY <1>8, <2>1, <1>1 DEF CallbackAborted, Replaced
<1> QED BY <1>2, <1>3, <1>4, <1>5, <1>6, <1>7, <1>8 DEF Handler

\* The container: what it does shows in the promise only through its requests.
LEMMA ContainerKeeps ==
    ASSUME IInv, NEW a \in Attempts, Container(a)
    PROVE  KeptStep
<1>a. TypeOK /\ att[a] \in Attempt
  BY DEF IInv, TypeOK
<1>b. UNCHANGED <<users, schedule>>
  BY DEF Container, FetchCredentials, PostShifts, ScrapeError, PostFailure, ContainerExits, tables
<1>1. PICK ctr, cb : Replaced(a, [att[a] EXCEPT !.ctr = ctr, !.cb = cb])
  <2>1. CASE FetchCredentials(a) \/ PostShifts(a)
    <3>1. \/ att' = [att EXCEPT ![a].cb = "creds"] \/ att' = [att EXCEPT ![a].cb = "shifts"]
          \/ att' = [att EXCEPT ![a].ctr = "failing"]
      BY <2>1 DEF FetchCredentials, PostShifts
    <3>2. \/ att' = [att EXCEPT ![a] = [att[a] EXCEPT !.ctr = att[a].ctr, !.cb = "creds"]]
          \/ att' = [att EXCEPT ![a] = [att[a] EXCEPT !.ctr = att[a].ctr, !.cb = "shifts"]]
          \/ att' = [att EXCEPT ![a] = [att[a] EXCEPT !.ctr = "failing", !.cb = att[a].cb]]
      BY <1>a, <3>1 DEF TypeOK, Attempt
    <3> QED BY <3>2 DEF Replaced
  <2>2. CASE ScrapeError(a)
    <3>1. att' = [att EXCEPT ![a] = [att[a] EXCEPT !.ctr = "failing", !.cb = att[a].cb]]
      BY <1>a, <2>2 DEF ScrapeError, TypeOK, Attempt
    <3> QED BY <3>1 DEF Replaced
  <2>3. CASE PostFailure(a)
    <3>1. \/ att' = [att EXCEPT ![a] = [att[a] EXCEPT !.ctr = att[a].ctr, !.cb = "fail"]]
          \/ Update(a, [att[a] EXCEPT !.ctr = "none", !.cb = att[a].cb])
      BY <1>a, <2>3 DEF PostFailure, Update, TypeOK, Attempt
    <3> QED BY <3>1 DEF Replaced
  <2>4. CASE ContainerExits(a)
    <3>1. Update(a, [att[a] EXCEPT !.ctr = "none", !.cb = att[a].cb])
      BY <1>a, <2>4 DEF ContainerExits, Update, Attempt
    <3> QED BY <3>1 DEF Replaced
  <2> QED BY <2>1, <2>2, <2>3, <2>4 DEF Container
<1>2. Job([att[a] EXCEPT !.ctr = ctr, !.cb = cb]) = Job(att[a])
  BY <1>a DEF Attempt, Job
<1> QED BY <1>a, <1>b, <1>1, <1>2, SilentStep

\* The tick starts a job for each due user.
LEMMA PollKeeps ==
    ASSUME TypeOK, PollDue
    PROVE  KeptStep
<1> DEFINE Due == {u \in Users : schedule[u] = "due"}
           n(u) == NewAttempt(u, TRUE, 0, TRUE, "waiting")
<1>1. PICK slot \in [Due -> Free(att, todo)] :
        /\ \A u, v \in Due : slot[u] = slot[v] => u = v
        /\ att' = [a \in Attempts |-> IF \E u \in Due : slot[u] = a
                                      THEN n(CHOOSE u \in Due : slot[u] = a) ELSE att[a]]
  BY DEF PollDue, DueUsers
<1> DEFINE S == {a \in Attempts : \E u \in Due : slot[u] = a}
           who == [a \in S |-> CHOOSE u \in Due : slot[u] = a]
<1> HIDE DEF Due
<1>2. \A a \in S : who[a] \in Due /\ slot[who[a]] = a
  OBVIOUS
<1>3. \A u \in Due : slot[u] \in S /\ who[slot[u]] = u
  <2> SUFFICES ASSUME NEW u \in Due PROVE slot[u] \in S /\ who[slot[u]] = u
    OBVIOUS
  <2>1. slot[u] \in S
    BY <1>1 DEF Free
  <2> QED BY <1>1, <1>2, <2>1
<1>4. S \in SUBSET Promise!Free(Jobs(att))
  <2> SUFFICES ASSUME NEW a \in S PROVE a \in Promise!Free(Jobs(att))
    OBVIOUS
  <2>1. a \in Free(att, todo)
    BY <1>1, <1>2
  <2> QED BY <2>1, FreeJobs
<1>5. Jobs(att') = [a \in Attempts |-> IF a \in S THEN Promise!NewJob(who[a], TRUE, 0)
                                       ELSE Jobs(att)[a]]
  <2> SUFFICES ASSUME NEW a \in Attempts
               PROVE  Job(att'[a]) = IF a \in S THEN Promise!NewJob(who[a], TRUE, 0)
                                     ELSE Job(att[a])
    BY DEF Jobs
  <2>1. CASE a \in S
    <3>1. att'[a] = n(who[a])
      BY <1>1, <2>1
    <3> QED BY <2>1, <3>1 DEF Job, NewAttempt, Promise!NewJob
  <2>2. CASE a \notin S
    BY <1>1, <2>2
  <2> QED BY <2>1, <2>2
<1> HIDE DEF S
<1>6. who \in Promise!Bijection(S, Due)
  <2>1. who \in [S -> Due] /\ \A a, b \in S : who[a] = who[b] => a = b
    BY <1>2
  <2>2. \A u \in Due : \E a \in S : who[a] = u
    BY <1>3
  <2> HIDE DEF who
  <2> QED BY <2>1, <2>2
          DEF Promise!Bijection, Promise!Injection, Promise!Surjection, Promise!IsInjective
<1> HIDE DEF who
<1>7. UNCHANGED <<users, schedule>>
  BY DEF PollDue, tables
<1>8. Promise!Poll
  BY <1>4, <1>5, <1>6, <1>7 DEF Promise!Poll, Due, Jobs
<1> QED BY <1>8 DEF KeptStep, Promise!Next

\* The scheduler and the reaper.
LEMMA SchedulerKeeps ==
    ASSUME IInv, Scheduler
    PROVE  KeptStep
<1>a. TypeOK /\ TablesOK /\ AttemptsOK /\ SnapshotOK
  BY DEF IInv
<1>1. CASE PollDue
  BY <1>1, <1>a, PollKeeps
<1>2. CASE PollFails \/ \E S \in SUBSET Attempts : ReapQuery(S)
  BY <1>2 DEF PollFails, ReapQuery, Snapshot, tables, KeptStep, Promise!vars
<1>3. ASSUME NEW a \in Attempts, ReapKill(a) PROVE KeptStep
  <2>r. PICK r \in {att[a], [att[a] EXCEPT !.ctr = "none"]} : att' = [att EXCEPT ![a] = r]
    BY <1>3, <1>a DEF ReapKill, TypeOK
  <2>1. Job(r) = Job(att[a]) /\ Replaced(a, r)
    BY <1>3, <1>a, <2>r DEF Replaced, Job, Attempt, TypeOK
  <2> QED BY <1>3, <1>a, <2>1, SilentStep DEF ReapKill, tables
<1>4. CASE ReapMark
  <2> DEFINE r == [att[cur] EXCEPT !.row = IF @ = "none" THEN @ ELSE "failure"]
  <2>1. cur \in Attempts /\ att[cur] \in Attempt /\ UNCHANGED <<users, schedule>>
    BY <1>4, <1>a DEF ReapMark, SnapshotOK, TypeOK, tables
  <2>2. att' = [att EXCEPT ![cur] = r]
    BY <1>4, <1>a DEF ReapMark, TypeOK
  <2>3. Job(r) = [Job(att[cur]) EXCEPT !.log = IF @ = "none" THEN @ ELSE "failure"]
    BY <2>1 DEF Job, Attempt
  <2> HIDE DEF r
  <2> QED BY <1>a, <2>1, <2>2, <2>3, OutcomeStep
<1>5. CASE ReapHandle
  <2>1. /\ cur \in Attempts /\ EntryOK(cur) /\ att[cur] \in Attempt
        /\ att[cur].row # "running"
    BY <1>5, <1>a DEF SnapshotOK, TypeOK, ReapHandle
  <2>2. HasOutcome(cur)
    BY <2>1 DEF EntryOK, HasOutcome, Attempt
  <2>3. att = [att EXCEPT ![cur] = att[cur]]
    BY <1>a DEF TypeOK
  <2>4. HandleScrapeFailure(cur, [att EXCEPT ![cur] = att[cur]], todo \ {cur})
    BY <1>5, <2>3 DEF ReapHandle
  <2>5. UNCHANGED users
    BY <1>5 DEF ReapHandle, tables
  <2> QED BY <1>a, <2>1, <2>2, <2>4, <2>5, HandledKeeps
<1> QED BY <1>1, <1>2, <1>3, <1>4, <1>5 DEF Scheduler

\* A crash forgets jobs, none of which has a running log.
LEMMA CrashKeeps ==
    ASSUME TypeOK, Crash
    PROVE  KeptStep
<1> DEFINE f == [a \in Attempts |->
                   [att[a] EXCEPT !.go = "idle", !.cb = "none",
                      !.ctr = IF att[a].cb = "none" \/ @ = "none" THEN @
                              ELSE IF @ = "failing" THEN "none" ELSE "failing"]]
<1>1. att' = Tidy(f, {}) /\ UNCHANGED <<users, schedule>>
  BY DEF Crash
<1>2. \A a \in Attempts : Job(f[a]) = Job(att[a])
  <2> SUFFICES ASSUME NEW a \in Attempts PROVE Job(f[a]) = Job(att[a])
    OBVIOUS
  <2>1. att[a] \in Attempt
    BY DEF TypeOK
  <2>2. PICK c : f[a] = [att[a] EXCEPT !.go = "idle", !.cb = "none", !.ctr = c]
    OBVIOUS
  <2> HIDE DEF f
  <2> QED BY <2>1, <2>2 DEF Attempt, Job
<1> HIDE DEF f
<1>3. Jobs(f) = Jobs(att)
  BY <1>2 DEF Jobs
<1>4. Jobs(att') \in Promise!Forgotten(Jobs(att))
  BY <1>1, <1>3, TidyForgets
<1> QED BY <1>1, <1>4 DEF KeptStep, Promise!Next, Promise!Forget, Jobs

\* Requests and the passing of time.
LEMMA RequestKeeps ==
    ASSUME TypeOK, NEW u \in Users, Request(u) \/ BecomesDue(u)
    PROVE  KeptStep
<1>1. ASSUME TriggerScrape(u), UNCHANGED users,
             schedule' = schedule \/ (u \in users /\ schedule' = [schedule EXCEPT ![u] = "due"])
      PROVE  KeptStep
  <2> DEFINE n == NewAttempt(u, FALSE, 0, FALSE, "waiting")
  <2>1. PICK b \in Free(att, todo) : att' = [att EXCEPT ![b] = n]
    BY <1>1 DEF TriggerScrape
  <2>2. b \in Attempts /\ b \in Promise!Free(Jobs(att))
    BY FreeJobs
  <2>3. Jobs(att') = [Jobs(att) EXCEPT ![b] = Job(n)]
    BY <2>1, <2>2, OneJob
  <2>4. Job(n) = Promise!NewJob(u, FALSE, 0)
    BY DEF Job, NewAttempt, Promise!NewJob
  <2> HIDE DEF n
  <2>5. Promise!Trigger(u)
    BY <1>1, <2>2, <2>3, <2>4 DEF Promise!Trigger, Jobs
  <2> QED BY <2>5 DEF KeptStep, Promise!Next
<1>2. CASE StoreCredentials(u)
  BY <1>2 DEF StoreCredentials, KeptStep, Promise!vars
<1>3. CASE ScheduleAndTrigger(u) \/ WriteCancelled(u) \/ AdminTrigger(u)
  BY <1>1, <1>3 DEF ScheduleAndTrigger, WriteCancelled, AdminTrigger, ForeignKey, tables
<1>4. CASE DeleteAccount(u)
  <2> DEFINE f == [a \in Attempts |->
                     IF att[a].user = u THEN [att[a] EXCEPT !.row = "none"] ELSE att[a]]
             J == [a \in Attempts |->
                     [Jobs(att)[a] EXCEPT !.log = IF Jobs(att)[a].user = u THEN "none" ELSE @]]
  <2>1. Jobs(f) = J
    <3> SUFFICES ASSUME NEW a \in Attempts PROVE Job(f[a]) = J[a]
      BY DEF Jobs
    <3>1. att[a] \in Attempt
      BY DEF TypeOK
    <3> QED BY <3>1 DEF Jobs, Job, Attempt
  <2>2. att' = Tidy(f, todo)
    BY <1>4 DEF DeleteAccount
  <2> HIDE DEF f
  <2>3. Jobs(att') \in Promise!Forgotten(J)
    BY <2>1, <2>2, TidyForgets
  <2>4. Promise!Delete(u)
    BY <1>4, <2>3 DEF DeleteAccount, Promise!Delete, Jobs
  <2> QED BY <2>4 DEF KeptStep, Promise!Next
<1>5. CASE BecomesDue(u)
  <2>1. Promise!BecomesDue(u)
    BY <1>5 DEF BecomesDue, Promise!BecomesDue, tables
  <2> QED BY <2>1 DEF KeptStep, Promise!Next
<1> QED BY <1>2, <1>3, <1>4, <1>5 DEF Request

LEMMA StepKeepsPromise == IInv /\ [Next]_vars => [Promise!Next]_(Promise!vars)
<1> SUFFICES ASSUME IInv, [Next]_vars PROVE KeptStep
  BY DEF KeptStep
<1>1. CASE Next
  BY <1>1, SchedulerKeeps, CrashKeeps, StarterKeeps, HandlerKeeps, ContainerKeeps, RequestKeeps
  DEF Next, IInv
<1>2. CASE UNCHANGED vars
  BY <1>2 DEF vars, tables, KeptStep, Promise!vars
<1> QED BY <1>1, <1>2

-----------------------------------------------------------------------------
(* The theorems                                                            *)

(* Two consequences of the promise, which it makes only by its steps.      *)

\* Shifts are accepted only from a container that was given the credentials,
\* whatever the reaper, deletions and crashes did in between.
CredentialsBeforeSuccess == \A a \in Attempts :
    att[a].row = "success" => att[a].fetched

\* The next scrape is put off by 16 to 24 hours only when the user has an
\* attempt that ended: no path reschedules a user whose attempts all run.
ScheduleAdvancesOnOutcome == [][\A u \in Users :
    schedule[u] = "due" /\ schedule'[u] = "later" =>
       \E a \in Attempts : att[a].user = u /\ att[a].row \in {"success", "failure"}]_vars

LEMMA InitIInv ==
    ASSUME Init
    PROVE  IInv
<1>1. att \in [Attempts -> Attempt] /\ AttemptsOK
  BY BlankIsFresh, NoUserAssumption DEF Init, Fresh, AttemptsOK, AttemptOK, Launched
<1>2. Holders = {}
  BY DEF Init, Holders, Holding, Blank, NewAttempt
<1>3. Cardinality(Holders) = 0
  BY <1>2, FS_EmptySet
<1>4. SemaphoreAccounting
  BY <1>3, NumbersAssumption DEF Init, SemaphoreAccounting
<1>5. TypeOK /\ TablesOK /\ SnapshotOK /\ ScheduledUnlessCut
  BY <1>1, NumbersAssumption
  DEF Init, TypeOK, TablesOK, SnapshotOK, ReaperMissesNone, ScheduledUnlessCut
<1> QED BY <1>1, <1>4, <1>5 DEF IInv

LEMMA NextIInv ==
    ASSUME IInv, [Next]_vars
    PROVE  IInv'
<1>1. CASE Next
  <2>1. sem' \in Nat
    <3>1. IsFiniteSet(Holders') /\ Cardinality(Holders') \in Nat
      BY AttemptsAssumption, FS_Subset, FS_CardinalityType DEF Holders
    <3> QED BY <1>1, <3>1, AttemptsStep DEF WorkOK, SemaphoreAccounting
  <2>2. TypeOK' /\ TablesOK'
    BY <1>1, <2>1, ScheduleStep, CredsStep, ControlStep, AttemptsStep
    DEF TypeOK, TablesOK, ScheduleOK, CredsOK, ControlOK, WorkOK
  <2> QED BY <1>1, <2>2, AttemptsStep, ScheduledStep DEF WorkOK, IInv
<1>2. CASE UNCHANGED vars
  BY <1>2 DEF vars, reaper, tables, IInv, TypeOK, TablesOK, ScheduledUnlessCut, AttemptsOK,
         SnapshotOK, EntryOK, ReaperMissesNone, SemaphoreAccounting, Holders
<1> QED BY <1>1, <1>2

\* Every reachable state satisfies the inductive invariant.
THEOREM Invariance == Spec => []IInv
BY InitIInv, NextIInv, PTL DEF Spec

\* The variables keep their types: no step leaves the sets of states that the
\* code's columns, channel and program counters can hold.
THEOREM TypeCorrect == Spec => []TypeOK
BY Invariance, PTL DEF IInv

\* scrapeForUser: on every path, with its early return and its recursion, a
\* place in sem is given back exactly once, and the limit is kept.
THEOREM SemaphoreCorrect == Spec => []SemaphoreAccounting
BY Invariance, PTL DEF IInv

\* processDueScrapes waits for its goroutines, so the reaper knows the container
\* of every attempt of the tick whose log it fails.
THEOREM ReaperCorrect == Spec => []ReaperMissesNone
<1>1. IInv => ReaperMissesNone
  BY DEF IInv, SnapshotOK
<1> QED BY <1>1, Invariance, PTL

\* ON DELETE CASCADE and the foreign keys: nothing of a deleted account stays
\* or comes back.
THEOREM DeletionCorrect == Spec => []NoOrphanRows
<1>1. IInv => NoOrphanRows
  BY DEF IInv, TablesOK, AttemptsOK, AttemptOK, NoOrphanRows
<1> QED BY <1>1, Invariance, PTL

\* writeCredentials: whoever has credentials is in the schedule, but for a request
\* that is between its two statements or was cut there.
THEOREM ScheduledCorrect == Spec => []ScheduledUnlessCut
BY Invariance, PTL DEF IInv

\* runScrapeContainer records the container's id before it starts it.
THEOREM KillableCorrect == Spec => []KillableContainer
<1>1. IInv => KillableContainer
  BY DEF IInv, AttemptsOK, AttemptOK, KillableContainer
<1> QED BY <1>1, Invariance, PTL

\* scrapeSubmitShifts accepts shifts only of a container that was given the
\* credentials.
THEOREM HandoutCorrect == Spec => []CredentialsBeforeSuccess
<1>1. IInv => CredentialsBeforeSuccess
  BY DEF IInv, AttemptsOK, AttemptOK, CredentialsBeforeSuccess
<1> QED BY <1>1, Invariance, PTL

\* ScheduleNext is reached only with an attempt of the user that has ended.
THEOREM ScheduleCorrect == Spec => ScheduleAdvancesOnOutcome
<1> DEFINE A == \A u \in Users : schedule[u] = "due" /\ schedule'[u] = "later" =>
                   \E a \in Attempts : att[a].user = u /\ att[a].row \in {"success", "failure"}
<1>1. ASSUME IInv, [Next]_vars PROVE [A]_vars
  BY <1>1, AdvancesOnOutcome
<1> QED BY <1>1, Invariance, PTL DEF Spec, ScheduleAdvancesOnOutcome

\* The scheduler, the starting goroutines, the callback handlers, the reaper,
\* the requests and the crashes of ScrapeService implement ScrapeJob: an outcome
\* before each retry and before each new date, retries up to maxRetries, success
\* only with credentials that were handed out once, no running log forgotten.
THEOREM ScrapesKeepPromise == Spec => KeepsPromise
<1>1. Init => Promise!Init
  BY DEF Init, Promise!Init, Blank, NewAttempt, Job, Promise!NoJob, Promise!NewJob
<1> QED BY <1>1, Invariance, StepKeepsPromise, PTL DEF Spec, KeepsPromise, Promise!Spec

=============================================================================
