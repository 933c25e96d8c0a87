-------------------------- MODULE Onboarding_proofs --------------------------
(* The invariant of Onboarding: what the page shows, and for which save.     *)
EXTENDS Onboarding, SequenceTheorems, TLAPS

Logs == [status : {"running", "success", "failure"}, for : 0..MaxSaves]
Polled == [status : {"null", "running", "success", "failure"}, for : 0..MaxSaves \cup {None}]

\* Nothing else happens before the query on mount is answered, and no log or
\* page is ahead of the saves.
Quiet ==
    /\ loading => step \in {"loading", "left"} /\ saving = "no" /\ ~timer /\ polls = <<0, <<>>>>
    /\ saving = "sent" => stored < MaxSaves
    /\ mine <= stored /\ \A i \in DOMAIN logs : logs[i].for <= stored

Current == logs # <<>> /\ Last(logs).for >= mine

\* Before the page has seen its scrape: a running log is a new one, and once a new
\* log was read no older one is read again.
Awaits ==
    /\ \A i \in DOMAIN logs : logs[i].status = "running" => logs[i].for >= mine
    /\ \A j \in DOMAIN answers : answers[j].status = "running" => answers[j].for >= mine
    /\ \A j \in DOMAIN answers : answers[j].for >= mine =>
          Current /\ \A k \in DOMAIN answers : j < k => answers[k].for >= mine

\* Afterwards every answer is a new one.
Seen ==
    /\ logs # <<>> => Current
    /\ \A j \in DOMAIN answers : answers[j].status = "null" \/ answers[j].for >= mine

Traced == step # "left" /\ ~excuse =>
    /\ IF awaiting THEN Awaits ELSE Seen
    /\ IsResult => shown >= mine

IInv == TypeOK /\ PageIsConsistent /\ Quiet /\ Traced

-----------------------------------------------------------------------------
(* Sequences *)

LEMMA RemoveAtOK ==
    ASSUME NEW S, NEW s \in Seq(S), NEW i \in DOMAIN s
    PROVE  /\ RemoveAt(s, i) \in Seq(S) /\ Len(RemoveAt(s, i)) = Len(s) - 1
           /\ \A j \in DOMAIN RemoveAt(s, i) :
                 RemoveAt(s, i)[j] = IF j < i THEN s[j] ELSE s[j + 1]
<1>1. i \in 1..Len(s)
  OBVIOUS
<1> DEFINE l == SubSeq(s, 1, i - 1)
           r == SubSeq(s, i + 1, Len(s))
<1>2. /\ l \in Seq(S) /\ Len(l) = i - 1 /\ \A j \in 1..(i - 1) : l[j] = s[j]
      /\ r \in Seq(S) /\ Len(r) = Len(s) - i /\ \A j \in 1..(Len(s) - i) : r[j] = s[i + j]
  BY <1>1
<1>3. RemoveAt(s, i) = l \o r
  BY DEF RemoveAt
<1> HIDE DEF l, r
<1>4. l \o r \in Seq(S) /\ Len(l \o r) = Len(s) - 1
  BY <1>1, <1>2
<1>5. ASSUME NEW j \in 1..(Len(s) - 1) PROVE (l \o r)[j] = IF j < i THEN s[j] ELSE s[j + 1]
  <2>1. CASE j < i
    BY <1>1, <1>2, <2>1
  <2>2. CASE ~(j < i)
    <3>1. (l \o r)[j] = r[j - (i - 1)]
      BY <1>1, <1>2, <2>2
    <3>2. r[j - (i - 1)] = s[i + (j - (i - 1))]
      BY <1>1, <1>2, <2>2
    <3> QED BY <1>1, <2>2, <3>1, <3>2
  <2> QED BY <1>1, <2>1, <2>2
<1>6. DOMAIN (l \o r) = 1..(Len(s) - 1)
  BY <1>4
<1> QED BY <1>3, <1>4, <1>5, <1>6

\* An entry before the last one
LEMMA InsertOK ==
    ASSUME NEW S, NEW s \in Seq(S), s # <<>>, NEW e \in S
    PROVE  LET t == InsertAt(s, Len(s), e)
           IN  /\ t \in Seq(S) /\ Len(t) = Len(s) + 1 /\ Last(t) = Last(s)
               /\ \A j \in DOMAIN t : t[j] = e \/ \E k \in DOMAIN s : t[j] = s[k]
<1> DEFINE l == SubSeq(s, 1, Len(s) - 1)
           r == SubSeq(s, Len(s), Len(s))
           h == l \o <<e>>
           t == InsertAt(s, Len(s), e)
<1>1. PICK n \in Nat \ {0} : n = Len(s)
  OBVIOUS
<1>2. \A j \in 1..n : s[j] \in S
  BY <1>1
<1>3. l \in Seq(S) /\ Len(l) = n - 1 /\ \A j \in 1..(n - 1) : l[j] = s[j]
  <2>1. /\ l \in Seq(S) /\ Len(l) = IF 1 <= n - 1 THEN n - 1 - 1 + 1 ELSE 0
        /\ \A j \in 1..(n - 1 - 1 + 1) : l[j] = s[1 + j - 1]
    BY <1>1, <1>2, SubSeqProperties
  <2> HIDE DEF l
  <2> QED BY <2>1
<1>4. r \in Seq(S) /\ Len(r) = 1 /\ r[1] = s[n]
  <2>1. /\ r \in Seq(S) /\ Len(r) = IF n <= n THEN n - n + 1 ELSE 0
        /\ \A j \in 1..(n - n + 1) : r[j] = s[n + j - 1]
    BY <1>1, <1>2, SubSeqProperties
  <2> HIDE DEF r
  <2> QED BY <2>1
<1>5. t = h \o r
  BY DEF InsertAt
<1> HIDE DEF l, r
<1>6. h \in Seq(S) /\ Len(h) = n /\ h[n] = e /\ \A j \in 1..(n - 1) : h[j] = s[j]
  <2>1. <<e>> \in Seq(S) /\ Len(<<e>>) = 1 /\ <<e>>[1] = e
    OBVIOUS
  <2>2. /\ h \in Seq(S) /\ Len(h) = n - 1 + 1
        /\ \A j \in 1..(n - 1 + 1) : h[j] = IF j <= n - 1 THEN l[j] ELSE <<e>>[j - (n - 1)]
    BY <1>3, <2>1, ConcatProperties
  <2> HIDE DEF h
  <2> QED BY <1>3, <2>1, <2>2
<1> HIDE DEF h, t
<1>7. /\ t \in Seq(S) /\ Len(t) = n + 1
      /\ \A j \in 1..(n + 1) : t[j] = IF j <= n THEN h[j] ELSE r[j - n]
  <2>1. /\ h \o r \in Seq(S) /\ Len(h \o r) = Len(h) + Len(r)
        /\ \A j \in 1..(Len(h) + Len(r)) :
              (h \o r)[j] = IF j <= Len(h) THEN h[j] ELSE r[j - Len(h)]
    BY <1>4, <1>6, ConcatProperties
  <2> QED BY <1>4, <1>5, <1>6, <2>1
<1>8. t[n + 1] = s[n] /\ t[n] = e /\ \A j \in 1..(n - 1) : t[j] = s[j]
  BY <1>4, <1>6, <1>7
<1>9. ASSUME NEW j \in DOMAIN t PROVE t[j] = e \/ \E k \in DOMAIN s : t[j] = s[k]
  <2>1. j \in 1..(n + 1)
    BY <1>7
  <2>2. \A k \in 1..n : k \in DOMAIN s
    BY <1>1
  <2> QED BY <1>8, <2>1, <2>2
<1> QED BY <1>1, <1>7, <1>8, <1>9 DEF Last, t

-----------------------------------------------------------------------------
LEMMA InitIInv == Init => IInv
<1> SUFFICES ASSUME Init PROVE IInv
  OBVIOUS
<1> DEFINE AtMostOne == /\ logs \in Seq(Logs) /\ Len(logs) <= 1
                       /\ \A i \in DOMAIN logs : logs[i].for = 0
<1>1. AtMostOne
  <2>1. 0 \in 0..MaxSaves
    BY BoundsAssumption
  <2>2. CASE logs = <<>>
    BY <2>2
  <2>3. ASSUME NEW s \in {"running", "success", "failure"}, logs = <<[status |-> s, for |-> 0]>>
        PROVE  AtMostOne
    <3>1. [status |-> s, for |-> 0] \in Logs
      BY <2>1, <2>3 DEF Logs
    <3> QED BY <2>3, <3>1
  <2> QED BY <2>2, <2>3 DEF Init
<1>2. onboarded \in BOOLEAN
  BY DEF Init, HasSuccess
<1>3. TypeOK
  <2>1. MaxSaves \in Nat \ {0} /\ MaxLogs \in Nat \ {0} /\ MaxPolls \in Nat \ {0}
    BY BoundsAssumption
  <2>2. {loading, onboarded, timer, awaiting, excuse} \subseteq BOOLEAN
    BY <1>2 DEF Init
  <2>3. answers \in Seq(Polled) /\ Len(answers) = 0 /\ asked = 0
    BY DEF Init
  <2>4. /\ stored \in 0..MaxSaves /\ elapsed \in 0..2 /\ mine \in 0..MaxSaves
        /\ shown \in 0..MaxSaves \cup {None}
    BY <2>1 DEF Init
  <2> QED BY <1>1, <2>1, <2>2, <2>3, <2>4 DEF Init, TypeOK, Logs, Polled
<1>4. Quiet
  BY <1>1 DEF Init, Quiet, polls
<1>5. Traced
  <2>1. logs # <<>> => Last(logs).for >= 0
    BY <1>1 DEF Last
  <2> QED BY <2>1 DEF Init, Traced, Seen, Current, IsResult
<1> QED BY <1>3, <1>4, <1>5 DEF Init, IInv, PageIsConsistent

-----------------------------------------------------------------------------
LEMMA Numbers == {MaxSaves, MaxLogs, MaxPolls} \subseteq Nat \ {0} /\ None = -1
BY BoundsAssumption DEF None

\* TypeOK, part by part
LEMMA Types ==
    ASSUME TypeOK
    PROVE  /\ logs \in Seq(Logs) /\ Len(logs) <= MaxLogs /\ stored \in 0..MaxSaves
           /\ \A i \in DOMAIN logs : logs[i] \in Logs
           /\ answers \in Seq(Polled) /\ \A j \in DOMAIN answers : answers[j] \in Polled
           /\ asked \in Nat /\ Len(answers) \in Nat /\ asked + Len(answers) <= MaxPolls
           /\ mine \in 0..MaxSaves /\ shown \in 0..MaxSaves \cup {None} /\ elapsed \in 0..2
           /\ {loading, onboarded, timer, awaiting, excuse} \subseteq BOOLEAN
<1>1. logs \in Seq(Logs) /\ answers \in Seq(Polled)
  BY DEF TypeOK, Logs, Polled
<1>2. \A i \in DOMAIN logs : logs[i] \in Logs
  BY <1>1
<1>3. \A j \in DOMAIN answers : answers[j] \in Polled
  BY <1>1
<1>4. Len(answers) \in Nat
  BY <1>1
<1> QED BY <1>1, <1>2, <1>3, <1>4 DEF TypeOK

\* The latest log
LEMMA StatusOK ==
    ASSUME TypeOK
    PROVE  /\ Status \in Polled
           /\ logs # <<>> => Len(logs) \in DOMAIN logs /\ Status = logs[Len(logs)]
           /\ logs # <<>> => Status = Last(logs) /\ Status \in Logs
           /\ logs = <<>> => Status.status = "null" /\ Status.for = None
<1>1. CASE logs = <<>>
  <2>1. Status = [status |-> "null", for |-> None]
    BY <1>1 DEF Status
  <2> QED BY <1>1, <2>1 DEF Polled
<1>2. CASE logs # <<>>
  <2>1. Status = logs[Len(logs)] /\ Status = Last(logs)
    BY <1>2 DEF Status, Last
  <2>2. Len(logs) \in DOMAIN logs
    BY <1>2, Types
  <2>3. Status \in Logs
    BY <2>1, <2>2, Types
  <2>4. Logs \subseteq Polled
    BY DEF Logs, Polled
  <2> QED BY <1>2, <2>1, <2>2, <2>3, <2>4
<1> QED BY <1>1, <1>2

\* Without an excuse, the steps of the server keep what the page relies on: the
\* latest log stays one for the page's save.
LEMMA LogsTraced ==
    ASSUME IInv, UNCHANGED <<page, polls, excuse>>,
           logs # <<>> => logs' # <<>>,
           Current => Current', logs = <<>> /\ logs' # <<>> => Current',
           \A i \in DOMAIN logs' : logs'[i].status = "running" =>
              logs'[i].for >= mine \/ \E k \in DOMAIN logs :
                 logs[k].status = "running" /\ logs[k].for = logs'[i].for
    PROVE  Traced'
<1>1. UNCHANGED <<step, awaiting, shown, mine, answers, excuse>>
  BY DEF page, polls
<1>2. SUFFICES ASSUME step # "left", ~excuse
               PROVE  (IF awaiting THEN Awaits ELSE Seen)' /\ (IsResult => shown >= mine)'
  BY <1>1 DEF Traced
<1>3. (IF awaiting THEN Awaits ELSE Seen) /\ (IsResult => shown >= mine)
  BY <1>2 DEF IInv, Traced
<1>4. CASE awaiting
  BY <1>1, <1>3, <1>4 DEF Awaits, IsResult
<1>5. CASE ~awaiting
  BY <1>1, <1>3, <1>5 DEF Seen, IsResult
<1> QED BY <1>4, <1>5

LEMMA ServerInv ==
    ASSUME IInv, ScrapeStarts \/ ScrapeEnds \/ Retention \/ SaveStored
    PROVE  IInv'
<1> USE Numbers
<1>0. TypeOK /\ PageIsConsistent /\ Quiet /\ Traced
  BY DEF IInv
<1>1. /\ logs \in Seq(Logs) /\ \A i \in DOMAIN logs : logs[i] \in Logs
      /\ mine \in Nat /\ stored \in 0..MaxSaves /\ mine <= stored
      /\ \A i \in DOMAIN logs : logs[i].for <= stored
  BY <1>0, Types DEF Quiet
<1>2. CASE ScrapeStarts
  <2> DEFINE new == [status |-> "running", for |-> stored]
  <2>1. new \in Logs /\ new.for = stored
    BY <1>1 DEF Logs
  <2>2. UNCHANGED <<stored, saving, page, polls, excuse>> /\ Len(logs) < MaxLogs
    BY <1>2 DEF ScrapeStarts
  <2>3. \/ logs' = Append(logs, new)
        \/ logs # <<>> /\ logs' = InsertAt(logs, Len(logs), new)
    BY <1>2 DEF ScrapeStarts
  <2> HIDE DEF new
  <2>4. /\ logs' \in Seq(Logs) /\ Len(logs') = Len(logs) + 1
        /\ Last(logs') = new \/ (logs # <<>> /\ Last(logs') = Last(logs))
        /\ \A j \in DOMAIN logs' : logs'[j] = new \/ \E k \in DOMAIN logs : logs'[j] = logs[k]
    <3>1. CASE logs' = Append(logs, new)
      BY <1>1, <2>1, <3>1 DEF Last
    <3>2. CASE logs # <<>> /\ logs' = InsertAt(logs, Len(logs), new)
      BY <1>1, <2>1, <3>2, InsertOK
    <3> QED BY <2>3, <3>1, <3>2
  <2>5. logs' # <<>>
    BY <1>1, <2>4
  <2>6. TypeOK'
    BY <1>0, <1>1, <2>2, <2>4 DEF TypeOK, page, polls, Logs
  <2>7. PageIsConsistent' /\ Quiet'
    BY <1>0, <1>1, <2>1, <2>2, <2>4 DEF PageIsConsistent, Quiet, page, polls
  <2>8. (Current => Current') /\ (logs = <<>> => Current')
    BY <1>1, <2>1, <2>2, <2>4, <2>5 DEF Current, page
  <2>9. Traced'
    BY <1>1, <2>1, <2>2, <2>4, <2>5, <2>8, LogsTraced
  <2> QED BY <2>6, <2>7, <2>9 DEF IInv
<1>3. CASE ScrapeEnds
  <2>1. UNCHANGED <<stored, saving, page, polls, excuse>>
    BY <1>3 DEF ScrapeEnds
  <2>2. PICK i \in DOMAIN logs, s \in {"success", "failure"} : logs' = [logs EXCEPT ![i].status = s]
    BY <1>3 DEF ScrapeEnds
  <2> DEFINE new == [status |-> s, for |-> logs[i].for]
  <2>3. logs' = [logs EXCEPT ![i] = new]
    <3>1. logs' = [logs EXCEPT ![i] = [logs[i] EXCEPT !.status = s]]
      BY <2>2
    <3>2. [logs[i] EXCEPT !.status = s] = new
      BY <1>1 DEF Logs
    <3> QED BY <3>1, <3>2
  <2>4. new \in Logs /\ new.for = logs[i].for /\ new.status = s
    BY <1>1 DEF Logs
  <2> HIDE DEF new
  <2>5. /\ logs' \in Seq(Logs) /\ Len(logs') = Len(logs) /\ DOMAIN logs' = DOMAIN logs
        /\ \A j \in DOMAIN logs : logs'[j] = IF j = i THEN new ELSE logs[j]
    BY <1>1, <2>3, <2>4
  <2>6. \A j \in DOMAIN logs : /\ logs'[j].for = logs[j].for
                               /\ logs'[j].status = "running" => logs[j].status = "running"
    BY <2>4, <2>5
  <2>7. logs # <<>> /\ logs' # <<>> /\ Len(logs) \in DOMAIN logs
    BY <1>1, <2>2, <2>5
  <2>8. TypeOK'
    BY <1>0, <2>1, <2>5 DEF TypeOK, page, polls, Logs
  <2>9. PageIsConsistent' /\ Quiet'
    BY <1>0, <2>1, <2>5, <2>6 DEF PageIsConsistent, Quiet, page, polls
  <2>10. Current => Current'
    BY <2>1, <2>5, <2>6, <2>7 DEF Current, Last, page
  <2>11. Traced'
    BY <2>1, <2>5, <2>6, <2>7, <2>10, LogsTraced
  <2> QED BY <2>8, <2>9, <2>11 DEF IInv
<1>4. CASE Retention
  <2>1. UNCHANGED <<stored, saving, page, polls, excuse>> /\ step = "left"
    BY <1>4 DEF Retention
  <2>2. PICK i \in DOMAIN logs : logs' = RemoveAt(logs, i)
    BY <1>4 DEF Retention
  <2>3. /\ logs' \in Seq(Logs) /\ Len(logs') = Len(logs) - 1
        /\ \A j \in DOMAIN logs' : logs'[j] = IF j < i THEN logs[j] ELSE logs[j + 1]
    BY <1>1, <2>2, RemoveAtOK
  <2>4. \A j \in DOMAIN logs' : \E k \in DOMAIN logs : logs'[j] = logs[k]
    <3>1. \A j \in DOMAIN logs' : j \in DOMAIN logs /\ j + 1 \in DOMAIN logs
      BY <1>1, <2>3
    <3> QED BY <2>3, <3>1
  <2>5. TypeOK'
    BY <1>0, <1>1, <2>1, <2>3 DEF TypeOK, page, polls, Logs
  <2>6. PageIsConsistent' /\ Quiet'
    BY <1>0, <1>1, <2>1, <2>4 DEF PageIsConsistent, Quiet, page, polls
  <2> QED BY <2>1, <2>5, <2>6 DEF IInv, Traced, page
<1>5. CASE SaveStored
  <2>1. UNCHANGED <<logs, page, polls, excuse>> /\ stored' = stored + 1 /\ saving' = "stored"
    BY <1>5 DEF SaveStored
  <2>2. stored < MaxSaves /\ ~loading
    BY <1>0, <1>5 DEF SaveStored, Quiet
  <2>3. TypeOK'
    BY <1>0, <2>1, <2>2 DEF TypeOK, page, polls
  <2>4. PageIsConsistent' /\ Quiet'
    BY <1>0, <1>1, <2>1, <2>2, Types DEF PageIsConsistent, Quiet, page, polls, Logs
  <2>5. Traced'
    BY <2>1, LogsTraced DEF Current, page
  <2> QED BY <2>3, <2>4, <2>5 DEF IInv
<1> QED BY <1>2, <1>3, <1>4, <1>5

\* What the page and its polls do, but for the answer of a poll
LEMMA PageInv ==
    ASSUME IInv, \/ Enter \/ Mounted \/ Leave \/ Wait \/ Submit \/ Saved \/ SaveFails \/ Retry
    PROVE  IInv'
<1> USE Numbers
<1>0. TypeOK /\ PageIsConsistent /\ Quiet /\ Traced
  BY DEF IInv
<1>1. /\ logs \in Seq(Logs) /\ \A i \in DOMAIN logs : logs[i] \in Logs
      /\ mine \in Nat /\ stored \in 0..MaxSaves /\ mine <= stored
      /\ \A i \in DOMAIN logs : logs[i].for <= stored
      /\ Status \in Polled
      /\ logs # <<>> => Status = Last(logs) /\ Status.for \in 0..stored
  <2>1. /\ logs \in Seq(Logs) /\ \A i \in DOMAIN logs : logs[i] \in Logs
        /\ mine \in Nat /\ stored \in 0..MaxSaves /\ mine <= stored
        /\ \A i \in DOMAIN logs : logs[i].for <= stored
    BY <1>0, Types DEF Quiet
  <2> QED BY <1>0, <2>1, StatusOK DEF Logs
<1>2. CASE Enter
  <2>1. /\ polls = <<0, <<>>>> /\ saving = "no" /\ ~timer
        /\ step' = "loading" /\ loading' = TRUE /\ awaiting' = FALSE /\ elapsed' = 0
        /\ shown' = None /\ mine' = 0 /\ excuse' = FALSE
        /\ UNCHANGED <<logs, stored, saving, timer, polls, asked, answers>>
    BY <1>2 DEF Enter, server, polls
  <2>2. onboarded' \in BOOLEAN
    <3>1. HasSuccess \in BOOLEAN /\ onboarded \in BOOLEAN
      BY <1>0 DEF HasSuccess, TypeOK
    <3> QED BY <1>2, <3>1 DEF Enter
  <2>3. TypeOK'
    <3>1. {loading, onboarded, timer, awaiting, excuse}' \subseteq BOOLEAN
      BY <1>0, <2>1, <2>2 DEF TypeOK
    <3>2. 0 \in 0..MaxSaves /\ 0 \in 0..2
      OBVIOUS
    <3> QED BY <1>0, <2>1, <3>1, <3>2 DEF TypeOK
  <2>4. PageIsConsistent' /\ Quiet'
    BY <1>1, <2>1 DEF PageIsConsistent, Quiet
  <2>5. answers = <<>> /\ \A j \in DOMAIN answers : FALSE
    BY <2>1 DEF polls
  <2>6. logs # <<>> => Last(logs).for >= 0
    BY <1>1
  <2>7. Traced'
    BY <2>1, <2>5, <2>6 DEF Traced, Seen, Current, IsResult
  <2> QED BY <2>3, <2>4, <2>7 DEF IInv
<1>3. CASE Mounted
  <2>1. /\ loading /\ loading' = FALSE /\ saving = "no" /\ polls = <<0, <<>>>> /\ ~timer
        /\ step \in {"loading", "left"}
        /\ UNCHANGED <<logs, stored, saving, onboarded, shown, asked, answers, excuse>>
    BY <1>0, <1>3 DEF Mounted, server, polls, Quiet
  <2>2. answers = <<>>
    BY <2>1 DEF polls
  <2>3. CASE Show("form") /\ UNCHANGED <<timer, elapsed, mine, awaiting>>
    <3>1. step' \in {"left", "form"} /\ (step' # "left" => step # "left")
      BY <2>1, <2>3 DEF Show
    <3>2. TypeOK'
      BY <1>0, <2>1, <2>3, <3>1 DEF TypeOK
    <3>3. PageIsConsistent' /\ Quiet'
      BY <1>0, <1>1, <2>1, <2>3, <3>1 DEF PageIsConsistent, Quiet
    <3>4. Traced'
      BY <1>0, <2>1, <2>3, <3>1 DEF Traced, Awaits, Seen, Current, IsResult
    <3> QED BY <3>2, <3>3, <3>4 DEF IInv
  <2>4. CASE Status.status = "running" /\ StartPolling(Status.for) /\ awaiting' = FALSE
    <3>1. /\ step' \in {"left", "scraping"} /\ timer' = TRUE /\ elapsed' = 0 /\ awaiting' = FALSE
          /\ mine' = Status.for
      BY <2>1, <2>4 DEF Show, StartPolling
    <3>2. logs # <<>>
      BY <1>0, <2>4, StatusOK
    <3>3. TypeOK'
      <4>1. {loading, onboarded, timer, awaiting, excuse}' \subseteq BOOLEAN
        BY <1>0, <2>1, <3>1 DEF TypeOK
      <4>2. Status.for \in 0..MaxSaves /\ 0 \in 0..2
        BY <1>1, <3>2
      <4> QED BY <1>0, <2>1, <3>1, <4>1, <4>2 DEF TypeOK
    <3>4. PageIsConsistent' /\ Quiet'
      BY <1>1, <2>1, <3>1, <3>2 DEF PageIsConsistent, Quiet
    <3>5. Last(logs).for >= Status.for
      BY <1>1, <3>2
    <3>6. Traced'
      BY <2>1, <2>2, <3>1, <3>2, <3>5 DEF Traced, Seen, Current, IsResult
    <3> QED BY <3>3, <3>4, <3>6 DEF IInv
  <2> QED BY <1>3, <2>3, <2>4 DEF Mounted
<1>4. CASE Leave
  <2>1. step' = "left" /\ timer' = FALSE
    BY <1>4 DEF Leave
  <2>2. UNCHANGED <<logs, stored, saving, loading, onboarded, awaiting, elapsed, shown, mine,
                    asked, answers, excuse, polls>>
    BY <1>4 DEF Leave, server, polls
  <2>3. TypeOK' /\ PageIsConsistent' /\ Quiet' /\ Traced'
    BY <1>0, <2>1, <2>2 DEF TypeOK, PageIsConsistent, Quiet, Traced
  <2> QED BY <2>3 DEF IInv
<1>5. CASE Wait
  <2>1. UNCHANGED <<logs, stored, saving, loading, onboarded, step, timer, awaiting, shown, mine,
                    asked, answers, excuse, polls>>
    BY <1>5 DEF Wait, server, polls
  <2>2. elapsed' \in 0..2
    BY <1>0, <1>5 DEF Wait, TypeOK
  <2>3. TypeOK' /\ PageIsConsistent' /\ Quiet'
    BY <1>0, <2>1, <2>2 DEF TypeOK, PageIsConsistent, Quiet
  <2>4. Traced'
    BY <1>0, <2>1 DEF Traced, Awaits, Seen, Current, IsResult
  <2> QED BY <2>3, <2>4 DEF IInv
<1>6. CASE Submit \/ SaveFails
  <2>1. UNCHANGED <<logs, stored, loading, onboarded, step, timer, awaiting, shown, mine, elapsed,
                    asked, answers, excuse, polls>>
    BY <1>6 DEF Submit, SaveFails, server, page, polls
  <2>2. saving' = "no" \/ (saving' = "sent" /\ stored < MaxSaves /\ step = "form")
    BY <1>6 DEF Submit, SaveFails, Card
  <2>3. TypeOK' /\ PageIsConsistent'
    BY <1>0, <2>1, <2>2 DEF TypeOK, PageIsConsistent
  <2>4. Quiet'
    BY <1>0, <2>1, <2>2 DEF Quiet
  <2>5. Traced'
    BY <1>0, <2>1 DEF Traced, Awaits, Seen, Current, IsResult
  <2> QED BY <2>3, <2>4, <2>5 DEF IInv
<1>7. CASE Saved
  <2> DEFINE Late == \/ polls # <<0, <<>>>>
                     \/ \E i \in DOMAIN logs : logs[i].status = "running" /\ logs[i].for < stored
  <2>1. /\ saving = "stored" /\ saving' = "no" /\ timer' = TRUE /\ elapsed' = 0 /\ mine' = stored
        /\ awaiting' = TRUE /\ excuse' = Late
        /\ step' = (IF step = "left" THEN step ELSE "scraping")
        /\ UNCHANGED <<logs, stored, loading, onboarded, shown, asked, answers, polls>>
    BY <1>7 DEF Saved, StartPolling, Show, server, polls
  <2>2. ~loading
    BY <1>0, <2>1 DEF Quiet
  <2>3. excuse' \in BOOLEAN
    BY <2>1
  <2>4. TypeOK'
    BY <1>0, <2>1, <2>3 DEF TypeOK
  <2>5. PageIsConsistent' /\ Quiet'
    BY <1>1, <2>1, <2>2 DEF PageIsConsistent, Quiet
  <2>6. Traced'
    <3> SUFFICES ASSUME ~Late PROVE Traced'
      BY <2>1 DEF Traced
    <3>1. answers = <<>> /\ \A j \in DOMAIN answers : FALSE
      BY DEF polls
    <3>2. \A i \in DOMAIN logs : logs[i].status = "running" => logs[i].for >= stored
      BY <1>1 DEF Logs
    <3>3. step' \in {"left", "scraping"}
      BY <2>1
    <3> QED BY <2>1, <3>1, <3>2, <3>3 DEF Traced, Awaits, IsResult
  <2> QED BY <2>4, <2>5, <2>6 DEF IInv
<1>8. CASE Retry
  <2>1. /\ step = "failure" /\ step' = "form" /\ shown' = None
        /\ UNCHANGED <<logs, stored, saving, loading, onboarded, timer, awaiting, mine, elapsed,
                       asked, answers, excuse, polls>>
    BY <1>8 DEF Retry, Card, server, polls
  <2>2. TypeOK' /\ PageIsConsistent' /\ Quiet'
    BY <1>0, <2>1 DEF TypeOK, PageIsConsistent, Quiet
  <2>3. Traced'
    BY <1>0, <2>1 DEF Traced, Awaits, Seen, Current, IsResult
  <2> QED BY <2>2, <2>3 DEF IInv
<1> QED BY <1>2, <1>3, <1>4, <1>5, <1>6, <1>7, <1>8

-----------------------------------------------------------------------------
\* The polls: nothing of the page changes, and answers come at the end or go.
LEMMA PollsInv == ASSUME IInv, Poll \/ Answer \/ PollLost PROVE IInv'
<1> USE Numbers
<1>0. TypeOK /\ PageIsConsistent /\ Quiet /\ Traced
  BY DEF IInv
<1>1. /\ logs \in Seq(Logs) /\ mine \in Nat /\ Len(answers) \in Nat /\ asked \in Nat
      /\ answers \in Seq(Polled) /\ asked + Len(answers) <= MaxPolls
      /\ \A j \in DOMAIN answers : answers[j] \in Polled
  BY <1>0, Types
<1>2. UNCHANGED <<logs, stored, saving, step, loading, onboarded, timer, awaiting, elapsed, shown,
                  mine, excuse>>
  BY DEF Poll, Answer, PollLost, server, page
<1>3. CASE Poll
  <2>1. timer /\ asked' = asked + 1 /\ answers' = answers /\ asked + Len(answers) < MaxPolls
    BY <1>3 DEF Poll
  <2>2. TypeOK' /\ PageIsConsistent' /\ Quiet'
    BY <1>0, <1>1, <1>2, <2>1 DEF TypeOK, PageIsConsistent, Quiet
  <2>3. Traced'
    BY <1>0, <1>2, <2>1 DEF Traced, Awaits, Seen, Current, IsResult
  <2> QED BY <2>2, <2>3 DEF IInv
<1>4. CASE Answer
  <2>1. asked > 0 /\ asked' = asked - 1 /\ answers' = Append(answers, Status)
    BY <1>4 DEF Answer
  <2>2. Status \in Polled /\ (logs # <<>> => Status = Last(logs))
    BY <1>0, StatusOK
  <2>3. /\ answers' \in Seq(Polled) /\ Len(answers') = Len(answers) + 1
        /\ \A j \in DOMAIN answers : answers'[j] = answers[j]
        /\ answers'[Len(answers) + 1] = Status
        /\ DOMAIN answers' = 1..(Len(answers) + 1) /\ DOMAIN answers = 1..Len(answers)
    BY <1>1, <2>1, <2>2
  <2>4. TypeOK'
    BY <1>0, <1>1, <1>2, <2>1, <2>3 DEF TypeOK, Polled
  <2>5. ~loading
    BY <1>0, <1>1, <2>1 DEF Quiet, polls
  <2>6. PageIsConsistent' /\ Quiet'
    BY <1>0, <1>2, <2>5 DEF PageIsConsistent, Quiet
  <2>7. Traced'
    <3> SUFFICES ASSUME step # "left", ~excuse
                 PROVE  (IF awaiting THEN Awaits ELSE Seen)' /\ (IsResult => shown >= mine)'
      BY <1>2 DEF Traced
    <3>1. (IF awaiting THEN Awaits ELSE Seen) /\ (IsResult => shown >= mine)
      BY <1>0 DEF Traced
    <3>2. ASSUME awaiting PROVE Awaits'
      <4>1. Awaits
        BY <3>1, <3>2
      <4>2. Status.status = "running" => Status.for >= mine
        <5>1. ASSUME Status.status = "running" PROVE \E i \in DOMAIN logs : Status = logs[i]
          BY <1>0, <5>1, StatusOK
        <5> QED BY <4>1, <5>1 DEF Awaits
      <4>3. Status.for >= mine => Current
        <5>1. logs = <<>> => Status.for = None
          BY <1>0, StatusOK
        <5> QED BY <1>1, <2>2, <5>1 DEF Current
      <4>4. Current => Status.for >= mine
        BY <2>2 DEF Current
      <4>5. Current' <=> Current
        BY <1>2 DEF Current
      <4>6. \A j \in DOMAIN answers' :
                \/ j \in DOMAIN answers /\ answers'[j] = answers[j] /\ j < Len(answers) + 1
                \/ j = Len(answers) + 1 /\ answers'[j] = Status
        BY <1>1, <2>3
      <4>7. \A i \in DOMAIN logs : logs[i].status = "running" => logs[i].for >= mine
        BY <4>1 DEF Awaits
      <4>8. \A j \in DOMAIN answers' :
                answers'[j].status = "running" => answers'[j].for >= mine
        BY <4>1, <4>2, <4>6 DEF Awaits
      <4>9. ASSUME NEW j \in DOMAIN answers', answers'[j].for >= mine
            PROVE  /\ Current
                   /\ \A k \in DOMAIN answers' : j < k => answers'[k].for >= mine
        <5>1. Current
          BY <4>1, <4>3, <4>6, <4>9 DEF Awaits
        <5>2. ASSUME NEW k \in DOMAIN answers', j < k PROVE answers'[k].for >= mine
          <6>1. CASE k = Len(answers) + 1
            BY <2>3, <4>4, <5>1, <6>1
          <6>2. CASE k \in DOMAIN answers
            <7>1. j \in DOMAIN answers
              BY <1>1, <2>3, <5>2, <6>2
            <7> QED BY <2>3, <4>1, <4>9, <5>2, <6>2, <7>1 DEF Awaits
          <6> QED BY <4>6, <6>1, <6>2
        <5> QED BY <5>1, <5>2
      <4> QED BY <1>2, <4>5, <4>7, <4>8, <4>9 DEF Awaits
    <3>3. ASSUME ~awaiting PROVE Seen'
      <4>1. Seen
        BY <3>1, <3>3
      <4>2. Status.status = "null" \/ Status.for >= mine
        <5>1. logs = <<>> => Status.status = "null"
          BY <1>0, StatusOK
        <5> QED BY <2>2, <4>1, <5>1 DEF Seen, Current
      <4> QED BY <1>2, <2>3, <4>1, <4>2 DEF Seen, Current
    <3> QED BY <1>2, <3>1, <3>2, <3>3 DEF IsResult
  <2> QED BY <2>4, <2>6, <2>7 DEF IInv
<1>5. CASE PollLost
  <2>1. CASE asked > 0 /\ asked' = asked - 1 /\ answers' = answers
    <3>1. TypeOK' /\ PageIsConsistent'
      BY <1>0, <1>1, <1>2, <2>1 DEF TypeOK, PageIsConsistent
    <3>2. Quiet'
      BY <1>0, <1>1, <1>2, <2>1 DEF Quiet, polls
    <3>3. Traced'
      BY <1>0, <1>2, <2>1 DEF Traced, Awaits, Seen, Current, IsResult
    <3> QED BY <3>1, <3>2, <3>3 DEF IInv
  <2>2. ASSUME asked' = asked, NEW i \in DOMAIN answers, answers' = RemoveAt(answers, i)
        PROVE  IInv'
    <3>1. /\ answers' \in Seq(Polled) /\ Len(answers') = Len(answers) - 1
          /\ \A j \in DOMAIN answers' : answers'[j] = IF j < i THEN answers[j] ELSE answers[j + 1]
          /\ DOMAIN answers' = 1..(Len(answers) - 1)
      BY <1>1, <2>2, RemoveAtOK
    <3>2. TypeOK'
      BY <1>0, <1>1, <1>2, <2>2, <3>1 DEF TypeOK, Polled
    <3>3. ~loading
      BY <1>0, <2>2 DEF Quiet, polls
    <3>4. PageIsConsistent' /\ Quiet'
      BY <1>0, <1>2, <3>3 DEF PageIsConsistent, Quiet
    <3> DEFINE old(j) == IF j < i THEN j ELSE j + 1
    <3>5. \A j \in DOMAIN answers' : old(j) \in DOMAIN answers /\ answers'[j] = answers[old(j)]
      BY <1>1, <3>1
    <3>6. \A j, k \in DOMAIN answers' : j < k => old(j) < old(k)
      BY <1>1, <2>2, <3>1
    <3> HIDE DEF old
    <3>7. Traced'
      BY <1>0, <1>2, <3>5, <3>6 DEF Traced, Awaits, Seen, Current, IsResult
    <3> QED BY <3>2, <3>4, <3>7 DEF IInv
  <2> QED BY <1>5, <2>1, <2>2 DEF PollLost
<1> QED BY <1>3, <1>4, <1>5

\* The callback of a poll: a result is accepted from a new answer, or with an excuse.
LEMMA ReturnInv == ASSUME IInv, NEW i \in 1..MaxPolls, Return(i) PROVE IInv'
<1> USE Numbers
<1>0. TypeOK /\ PageIsConsistent /\ Quiet /\ Traced
  BY DEF IInv
<1>1. /\ mine \in Nat /\ Len(answers) \in Nat /\ asked \in Nat /\ elapsed \in 0..2
      /\ answers \in Seq(Polled) /\ asked + Len(answers) <= MaxPolls
      /\ {loading, onboarded, timer, awaiting, excuse} \subseteq BOOLEAN
  BY <1>0, Types
<1>2. /\ i \in DOMAIN answers /\ answers' = RemoveAt(answers, i)
      /\ excuse' = (excuse \/ i > 1 \/ (awaiting /\ elapsed = 2))
      /\ UNCHANGED <<logs, stored, saving, asked>>
  BY DEF Return, server
<1>3. PICK p \in Polled : p = answers[i]
  BY <1>1, <1>2
<1>4. Skip(p) \/ GoOn(p) \/ Result(p) \/ TimesOut(p)
  BY <1>3 DEF Return
<1>5. /\ answers' \in Seq(Polled) /\ Len(answers') = Len(answers) - 1
      /\ \A j \in DOMAIN answers' : answers'[j] = IF j < i THEN answers[j] ELSE answers[j + 1]
      /\ DOMAIN answers' = 1..(Len(answers) - 1)
  BY <1>1, <1>2, RemoveAtOK
<1>6. ~loading
  BY <1>0, <1>2 DEF Quiet, polls
<1>7. /\ UNCHANGED <<loading, elapsed, mine>>
      /\ \/ step' \in {step, p.status} /\ p.status \in {"success", "failure"}
         \/ step' \in {step, "failure"}
      /\ shown' \in {shown, p.for, None} /\ awaiting' \in {awaiting, FALSE}
      /\ timer' \in {timer, FALSE}
      /\ onboarded' \in {onboarded, onboarded \/ p.status = "success"}
  BY <1>4 DEF Skip, GoOn, Result, TimesOut, Show, page
<1>8. TypeOK'
  <2>1. excuse' \in BOOLEAN /\ onboarded' \in BOOLEAN
    BY <1>1, <1>2, <1>7
  <2>2. {loading, onboarded, timer, awaiting, excuse}' \subseteq BOOLEAN
    BY <1>1, <1>7, <2>1
  <2>3. p.status \in {"null", "running", "success", "failure"} /\ p.for \in 0..MaxSaves \cup {None}
    BY DEF Polled
  <2>4. step' \in {step, "success", "failure"} /\ shown' \in 0..MaxSaves \cup {None}
    BY <1>0, <1>7, <2>3 DEF TypeOK
  <2> QED BY <1>0, <1>1, <1>2, <1>5, <1>7, <2>2, <2>4 DEF TypeOK, Polled
<1>9. Quiet'
  BY <1>0, <1>2, <1>6, <1>7 DEF Quiet
<1>10. PageIsConsistent'
  <2>1. CASE Skip(p)
    BY <1>0, <2>1 DEF Skip, page, PageIsConsistent
  <2>2. CASE GoOn(p)
    BY <1>0, <2>2 DEF GoOn, PageIsConsistent
  <2>3. CASE Result(p)
    BY <2>3 DEF Result, Show, PageIsConsistent
  <2>4. CASE TimesOut(p)
    BY <2>4 DEF TimesOut, Show, PageIsConsistent
  <2> QED BY <1>4, <2>1, <2>2, <2>3, <2>4
<1>11. Traced'
  <2> SUFFICES ASSUME step' # "left", ~excuse'
               PROVE  (IF awaiting THEN Awaits ELSE Seen)' /\ (IsResult => shown >= mine)'
    BY DEF Traced
  <2>1. step # "left" /\ ~excuse /\ i = 1 /\ ~(awaiting /\ elapsed = 2)
    <3>1. step # "left"
      BY <1>4 DEF Skip, GoOn, Result, TimesOut, Show, page
    <3>2. ~excuse /\ ~(i > 1) /\ ~(awaiting /\ elapsed = 2)
      BY <1>2
    <3> QED BY <3>1, <3>2
  <2>2. (IF awaiting THEN Awaits ELSE Seen) /\ (IsResult => shown >= mine)
    BY <1>0, <2>1 DEF Traced
  <2>3. \A j \in DOMAIN answers' :
            j + 1 \in DOMAIN answers /\ answers'[j] = answers[j + 1] /\ i < j + 1
    BY <1>1, <1>5, <2>1
  <2>4. \A j, k \in DOMAIN answers' : j < k => j + 1 < k + 1
    BY <1>5
  <2>5. Current' <=> Current
    BY <1>2, <1>7 DEF Current
  <2>6. ASSUME awaiting PROVE Skip(p) \/ (GoOn(p) /\ p.status = "running")
    BY <1>1, <1>4, <2>1, <2>6 DEF GoOn, Result, TimesOut, Skips, Polled
  <2>7. ASSUME awaiting' PROVE Awaits'
    <3>1. awaiting /\ Awaits
      BY <1>7, <2>2, <2>7
    <3> QED BY <1>2, <1>7, <2>3, <2>4, <2>5, <3>1 DEF Awaits
  <2>8. ASSUME ~awaiting' PROVE Seen'
    <3>1. CASE awaiting
      <4>1. p.for >= mine
        BY <1>2, <1>3, <2>2, <2>6, <2>8, <3>1 DEF Awaits, Skip, page
      <4>2. Current /\ \A k \in DOMAIN answers : i < k => answers[k].for >= mine
        BY <1>2, <1>3, <2>2, <3>1, <4>1 DEF Awaits
      <4> QED BY <1>7, <2>3, <2>5, <4>2 DEF Seen
    <3>2. CASE ~awaiting
      BY <1>2, <1>7, <2>2, <2>3, <2>5, <3>2 DEF Seen
    <3> QED BY <3>1, <3>2
  <2>9. (IsResult => shown >= mine)'
    <3>1. CASE Skip(p)
      BY <1>7, <2>2, <3>1 DEF Skip, page, IsResult
    <3>2. CASE GoOn(p)
      BY <1>7, <2>2, <3>2 DEF GoOn, IsResult
    <3>3. CASE Result(p)
      <4>1. ~awaiting
        BY <2>6, <3>3 DEF Skip, Result, Skips
      <4>2. p.for >= mine
        BY <1>2, <1>3, <2>2, <3>3, <4>1 DEF Seen, Result
      <4> QED BY <1>7, <3>3, <4>2 DEF Result
    <3>4. CASE TimesOut(p)
      BY <3>4 DEF TimesOut, IsResult
    <3> QED BY <1>4, <3>1, <3>2, <3>3, <3>4
  <2> QED BY <2>7, <2>8, <2>9
<1> QED BY <1>8, <1>9, <1>10, <1>11 DEF IInv

LEMMA NextIInv == IInv /\ [Next]_vars => IInv'
<1> SUFFICES ASSUME IInv, [Next]_vars PROVE IInv'
  OBVIOUS
<1>1. CASE UNCHANGED vars
  BY <1>1 DEF vars, server, page, polls, IInv, TypeOK, PageIsConsistent, Quiet, Traced, Awaits,
     Seen, Current, IsResult
<1> QED BY <1>1, ServerInv, PageInv, PollsInv, ReturnInv DEF Next

THEOREM Invariance == Spec => []IInv
<1> QED BY InitIInv, NextIInv, PTL DEF Spec

LEMMA IInvMeans == IInv => TypeOK /\ PageIsConsistent /\ OldResultHasCause
<1> SUFFICES ASSUME IInv PROVE TypeOK /\ PageIsConsistent /\ OldResultHasCause
  OBVIOUS
<1>1. IsResult => step # "left"
  BY DEF IsResult
<1>2. mine \in Int /\ shown \in Int
  BY Types, Numbers DEF IInv
<1> QED BY <1>1, <1>2 DEF IInv, Traced, OldResultHasCause

\* The types; at most MaxPolls polls are out, whatever is lost or late.
THEOREM TypeCorrect == Spec => []TypeOK
<1> QED BY Invariance, IInvMeans, PTL

\* The spinner and the interval go together, and a success can be left for the dashboard.
THEOREM PageCorrect == Spec => []PageIsConsistent
<1> QED BY Invariance, IInvMeans, PTL

\* An earlier scrape's result is shown for a save only for one of the stated causes.
THEOREM ResultCorrect == Spec => []OldResultHasCause
<1> QED BY Invariance, IInvMeans, PTL
=============================================================================
