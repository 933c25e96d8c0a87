-------------------------- MODULE WebClient_proofs ---------------------------
(* The invariants of WebClient: which requests are under way, whose data     *)
(* they carry, and where a load of the tab leads (IInv); what each page has  *)
(* yet to wait for (Waits); and what tells App of a sign-out (Known).        *)
EXTENDS WebClient, TLAPS, FiniteSetTheorems

Accounts == Users \cup {NoUser}

CallRecord ==
    [kind : Kinds, who : Accounts, out : {"sent", "ok", "yes", "401", "fail", "barrier"},
     for : {"page", "tab", "nobody"}]

PageRecord ==
    [step : {"email", "pin"}, busy : BOOLEAN, deleting : BOOLEAN,
     result : {"none", "error", "success"}, shows : SUBSET Kinds, sched : Accounts,
     have : SUBSET Kinds, ics : Accounts, anon : BOOLEAN]

Types ==
    /\ session \in Accounts /\ success \subseteq Users
    /\ creds \in {"older", "sent", "overtaken"}
    /\ route \in Routes /\ user \in Accounts \cup {Unknown}
    /\ cache \in Users \cup {"none", "pending"} /\ returnPath \in Routes \cup {"none"}
    /\ leaving \in {"none", "/", "/login"} /\ due \in Routes \cup {"none", "overtaken"}
    /\ onboarded \in BOOLEAN /\ foreign \in BOOLEAN
    /\ page \in PageRecord /\ calls \subseteq CallRecord

Of(kinds) == {c \in calls : c.kind \in kinds}
Awaited(kinds) == {c \in Of(kinds) : c.for = "page"}

\* The requests that the mounted page makes.
Sends(r) ==
    CASE r = "/login" -> {"requestPin", "verify"}
      [] r = "/dashboard" -> Schedule
      [] r = "/admin" -> Overview \cup {"trigger", "timer"}
      [] r = "/settings" -> {"read", "update", "delete", "logout"}
      [] r = "/setup" -> {"read"}
      [] OTHER -> {}

AtMostOne(S) == \A c, d \in S : c = d

\* A sign-in or a load of the tab that is on its way to App
Chain == {c \in calls : c.kind \in {"timezone", "status"} \/ (c.kind \in {"me", "verify"} /\ Ok(c))}

Booting == Of({"me", "timezone", "status"})

TabOK ==
    /\ \A c \in calls : c.for = "nobody" => c.out = "sent" /\ c.kind \in Effective
    /\ \A c \in Of({"verify"}) \cup Chain : c.who \in Users
    /\ \A c \in Of(Schedule) : Ok(c) => c.who \in Users
    /\ Of({"me", "timezone"}) # {} => user = Unknown
    /\ user = Unknown => \A c \in calls : c.kind \in {"me", "timezone", "status"} \/ c.for = "nobody"
    /\ user = Unknown => AtMostOne(Booting)
    /\ user # Unknown => \A c \in calls : c.for = "page" => c.kind \in Sends(route)
    /\ user \notin Users => cache = "none" /\ Of(Schedule) = {}
    /\ user = NoUser => route # "/dashboard"
    /\ user \in Users => route # "/login"
    /\ cache # "pending" => Of({"ics"}) = {}
    /\ \A k \in {"schedule", "update"} : AtMostOne(Awaited({k}))
    /\ AtMostOne(Of({"ics"}))

DashboardOK == At("/dashboard") =>
    /\ Awaited({"schedule"}) # {} => "schedule" \notin page.have
    /\ Of({"ics"}) # {} => "ics" \notin page.have
    /\ page.shows # {} => Schedule \subseteq page.have
    /\ page.shows \subseteq Schedule

Own == ~foreign =>
    /\ user \in Users => session \in {user, NoUser}
    /\ \A c \in Chain : session \in {c.who, NoUser} /\ (user \in Users => c.who = user)
    /\ \A c, d \in Chain : c.who = d.who
    /\ \A c \in Of(Schedule) : Ok(c) => c.who = user
    /\ cache \in Users => cache = user
    /\ At("/dashboard") =>
          /\ "ics" \in page.have => page.ics = user
          /\ "schedule" \in page.have => page.sched = user
          /\ page.anon => /\ session = NoUser /\ "schedule" \notin page.have
                          /\ \A c \in Awaited({"schedule"}) : ~Ok(c)

SettingsOK == At("/settings") =>
    /\ Awaited({"update"}) # {} => page.busy
    /\ page.result = "success" \/ (\E c \in Awaited({"update"}) : Ok(c)) => creds # "older"

Served(c) == IF c.kind = "status" /\ session \in success THEN "yes" ELSE "ok"

Arrives ==
    /\ leaving = "/" /\ due \in Routes => returnPath = due /\ (user = Unknown => route = due)
    /\ leaving = "none" /\ due \in Routes =>
          IF user = Unknown
          THEN /\ \/ route = due /\ (due = "/login" \/ returnPath \in {"none", "/", route})
                  \/ route = "/" /\ returnPath = due
               /\ \A c \in Booting : c.out \in {"sent", "401", "barrier", Served(c)}
               /\ \A c \in Chain : c.who = session
          ELSE Chain = {} /\ (user \in Users => route = Resolve(due, user, session \in success))

IInv == Types /\ TabOK /\ DashboardOK /\ Own /\ SettingsOK /\ Arrives

-----------------------------------------------------------------------------
LEMMA FreshPage ==
    ASSUME NEW r
    PROVE  /\ Fresh(r) \in PageRecord
           /\ Fresh(r).shows = {} /\ Fresh(r).result = "none" /\ Fresh(r).deleting = FALSE
           /\ Fresh(r).busy <=> r \in {"/dashboard", "/admin"}
           /\ Fresh(r).have = IF r = "/dashboard" /\ cache \in Users THEN {"ics"} ELSE {}
           /\ Fresh(r).ics = IF r = "/dashboard" /\ cache \in Users THEN cache ELSE NoUser
           /\ Fresh(r).anon <=> r = "/dashboard" /\ session = NoUser
<1> DEFINE have == IF r = "/dashboard" /\ cache \in Users THEN {"ics"} ELSE {}
           ics == IF r = "/dashboard" /\ cache \in Users THEN cache ELSE NoUser
           busy == r \in {"/dashboard", "/admin"}
           anon == r = "/dashboard" /\ session = NoUser
<1>1. Fresh(r) = [step |-> "email", busy |-> busy, deleting |-> FALSE,
                  result |-> "none", shows |-> {}, sched |-> NoUser, have |-> have, ics |-> ics, anon |-> anon]
  BY DEF Fresh
<1>2. busy \in BOOLEAN /\ anon \in BOOLEAN
  OBVIOUS
<1>3. have \in SUBSET Kinds /\ ics \in Accounts /\ NoUser \in Accounts
  BY DEF Kinds, Schedule, Accounts
<1>4. /\ Fresh(r).busy <=> busy
      /\ Fresh(r).anon <=> anon
  <2> HIDE DEF busy, anon, have, ics
  <2>1. Fresh(r).busy = busy /\ Fresh(r).anon = anon
    BY <1>1
  <2> QED BY <1>2, <2>1
<1>5. Fresh(r) \in PageRecord
  <2> HIDE DEF busy, anon, have, ics
  <2> QED BY <1>1, <1>2, <1>3 DEF PageRecord
<1>6. Fresh(r).shows = {} /\ Fresh(r).result = "none" /\ Fresh(r).deleting = FALSE
  BY <1>1
<1>7. Fresh(r).have = have /\ Fresh(r).ics = ics
  BY <1>1
<1> QED BY <1>4, <1>5, <1>6, <1>7

LEMMA Sending ==
    ASSUME NEW kind \in Kinds
    PROVE  /\ Sent(kind) \in CallRecord /\ Sent(kind).kind = kind /\ Sent(kind).who = NoUser
           /\ Sent(kind).out = "sent" /\ Sent(kind).for = "page"
BY DEF Sent, Call, CallRecord, Accounts

LEMMA InitIInv == Init => IInv
<1> SUFFICES ASSUME Init PROVE IInv
  OBVIOUS
<1>1. page \in PageRecord
  BY FreshPage DEF Init
<1>2. "me" \in Kinds
  BY DEF Kinds
<1>3. calls = {Sent("me")}
  BY DEF Init
<1>4. \A c \in calls : c \in CallRecord /\ c.kind = "me" /\ c.out = "sent" /\ c.for = "page"
  BY <1>2, <1>3, Sending
<1>5. Types
  BY <1>1, <1>4 DEF Init, Types, Accounts, Routes
<1>6. Chain = {}
  BY <1>4 DEF Chain, Ok
<1>7. Of(Schedule) = {} /\ Of({"ics"}) = {} /\ Of({"verify"}) = {}
  BY <1>4 DEF Of, Schedule
<1>8. user = Unknown /\ user \notin Users /\ user # NoUser
  BY ClientAssumption DEF Init
<1>9. TabOK
  <2>1. \A k \in {"schedule", "update"} : Awaited({k}) = {}
    BY <1>4 DEF Awaited, Of
  <2>2. AtMostOne(Booting)
    BY <1>3 DEF AtMostOne, Booting, Of
  <2> QED BY <1>4, <1>6, <1>7, <1>8, <2>1, <2>2 DEF TabOK, AtMostOne, Init
<1>10. DashboardOK /\ SettingsOK
  BY <1>8 DEF DashboardOK, SettingsOK, At
<1>11. Own
  BY <1>6, <1>7, <1>8, ClientAssumption DEF Own, At, Init
<1>12. Arrives
  BY DEF Arrives, Init, Routes
<1> QED BY <1>5, <1>9, <1>10, <1>11, <1>12 DEF IInv

-----------------------------------------------------------------------------
(* The server and the network *)

\* A request that is answered or lost: another record takes its place.
LEMMA SettleCalls ==
    ASSUME IInv, NEW c \in calls, NEW new \in CallRecord, Settle(c, new),
           new.kind = c.kind, new.for = c.for,
           new.kind \in Schedule \cup {"me", "verify", "timezone", "status"} /\ Ok(new) => new.who \in Users,
           new.kind \in {"verify", "timezone", "status"} => new.who = c.who,
           UNCHANGED <<user, route, cache, page>>
    PROVE  /\ TabOK' /\ DashboardOK' /\ calls' \subseteq CallRecord
           /\ \A x \in calls' : x \in calls \ {c} \/ x = new
           /\ \A x \in Chain' : x \in Chain \ {c} \/ x = new
           /\ \A k, x : x \in Of(k)' => IF x = new THEN c \in Of(k) ELSE x \in Of(k)
           /\ \A k, x : x \in Awaited(k)' => IF x = new THEN c \in Awaited(k) ELSE x \in Awaited(k)
<1> DEFINE Old(x) == IF x = new THEN c ELSE x
<1>1. \A x \in calls' : (x \in calls /\ x # c) \/ (x = new /\ c.for # "nobody")
  BY DEF Settle
<1>2. \A x \in calls' : Old(x) \in calls /\ Old(x).kind = x.kind /\ Old(x).for = x.for
  BY <1>1
<1>3. calls' \subseteq CallRecord
  BY <1>1 DEF IInv, Types
<1>4. \A k, x : x \in Of(k)' => Old(x) \in Of(k)
  BY <1>2 DEF Of
<1>5. \A k, x : x \in Awaited(k)' => Old(x) \in Awaited(k)
  BY <1>2, <1>4 DEF Awaited, Of
<1>6. \A x \in Chain' : x \in Chain \ {c} \/ x = new
  BY <1>1 DEF Chain
<1>7. TabOK
  BY DEF IInv
<1>8. \A x \in calls' : x.for = "nobody" => x.out = "sent" /\ x.kind \in Effective
  BY <1>1, <1>7 DEF TabOK
<1>9. \A x \in Of({"verify"})' \cup Chain' : x.who \in Users
  <2>1. CASE c.kind \in {"timezone", "status"}
    <3>1. c \in Chain
      BY <2>1 DEF Chain
    <3> QED BY <1>1, <1>6, <1>7, <2>1, <3>1 DEF TabOK, Of
  <2>2. CASE c.kind = "verify"
    <3>1. c \in Of({"verify"})
      BY <2>2 DEF Of
    <3> QED BY <1>1, <1>6, <1>7, <2>2, <3>1 DEF TabOK, Of
  <2>3. CASE c.kind \notin {"timezone", "status", "verify"}
    <3>1. new \in Chain' => new.who \in Users
      BY <2>3 DEF Chain, Ok
    <3> QED BY <1>1, <1>6, <1>7, <2>3, <3>1 DEF TabOK, Of
  <2> QED BY <2>1, <2>2, <2>3
<1>20. \A x \in Of(Schedule)' : Ok(x) => x.who \in Users
  <2>1. \A x \in Of(Schedule)' : x.kind \in Schedule /\ (x = new \/ x \in Of(Schedule))
    BY <1>1 DEF Of
  <2> QED BY <1>7, <2>1 DEF TabOK
<1>10. Of({"me", "timezone"})' # {} => user' = Unknown
  BY <1>4, <1>7 DEF TabOK
<1>11. user' = Unknown => \A x \in calls' : x.kind \in {"me", "timezone", "status"} \/ x.for = "nobody"
  BY <1>2, <1>7 DEF TabOK
<1>12. user' # Unknown => \A x \in calls' : x.for = "page" => x.kind \in Sends(route)
  BY <1>2, <1>7 DEF TabOK
<1>13. user' \notin Users => cache' = "none" /\ Of(Schedule)' = {}
  BY <1>4, <1>7 DEF TabOK
<1>14. cache' # "pending" => Of({"ics"})' = {}
  BY <1>4, <1>7 DEF TabOK
<1>15. \A x, y \in calls' : Old(x) = Old(y) => x = y
  BY <1>1
<1>16. ASSUME NEW S, NEW T, AtMostOne(S), T \subseteq calls', \A x \in T : Old(x) \in S
       PROVE  AtMostOne(T)
  <2>1. ASSUME NEW x \in T, NEW y \in T PROVE x = y
    <3>1. x \in calls' /\ y \in calls' /\ Old(x) \in S /\ Old(y) \in S
      BY <1>16
    <3>2. Old(x) = Old(y)
      BY <1>16, <3>1 DEF AtMostOne
    <3> QED BY <1>15, <3>1, <3>2
  <2> QED BY <2>1 DEF AtMostOne
<1>17. /\ \A x, y \in Awaited({"schedule"})' : x = y
       /\ \A x, y \in Awaited({"update"})' : x = y
       /\ \A x, y \in Of({"ics"})' : x = y
       /\ user = Unknown => \A x, y \in Booting' : x = y
  <2>1. /\ AtMostOne(Awaited({"schedule"})) /\ AtMostOne(Awaited({"update"}))
        /\ AtMostOne(Of({"ics"})) /\ (user = Unknown => AtMostOne(Booting))
    BY <1>7 DEF TabOK
  <2>2. /\ Awaited({"schedule"})' \subseteq calls' /\ Awaited({"update"})' \subseteq calls'
        /\ Of({"ics"})' \subseteq calls' /\ Booting' \subseteq calls'
    BY DEF Of, Awaited, Booting
  <2>3. \A x \in Booting' : Old(x) \in Booting
    BY <1>4 DEF Booting
  <2> HIDE DEF Old
  <2>4. AtMostOne(Awaited({"schedule"})')
    BY <1>5, <1>16, <2>1, <2>2
  <2>5. AtMostOne(Awaited({"update"})')
    BY <1>5, <1>16, <2>1, <2>2
  <2>6. AtMostOne(Of({"ics"})')
    BY <1>4, <1>16, <2>1, <2>2
  <2>7. user = Unknown => AtMostOne(Booting')
    BY <2>3, <1>16, <2>1, <2>2
  <2> QED BY <2>4, <2>5, <2>6, <2>7 DEF AtMostOne
<1>18. TabOK'
  BY <1>7, <1>8, <1>9, <1>20, <1>10, <1>11, <1>12, <1>13, <1>14, <1>17 DEF TabOK, AtMostOne
<1>19. DashboardOK'
  BY <1>4, <1>5 DEF IInv, DashboardOK, At
<1> QED BY <1>1, <1>3, <1>4, <1>5, <1>6, <1>17, <1>18, <1>19

LEMMA Replies ==
    ASSUME NEW c \in CallRecord, NEW o \in {"sent", "ok", "yes", "401", "fail", "barrier"}
    PROVE  /\ [c EXCEPT !.out = o] \in CallRecord /\ [c EXCEPT !.out = o].kind = c.kind
           /\ [c EXCEPT !.out = o].who = c.who /\ [c EXCEPT !.out = o].for = c.for
           /\ [c EXCEPT !.out = o].out = o
BY DEF CallRecord

LEMMA SignInInv == ASSUME IInv, NEW c \in calls, SignIn(c) PROVE IInv'
<1> DEFINE new == [c EXCEPT !.out = "ok"]
<1>1. c \in CallRecord
  BY DEF IInv, Types
<1>2. new \in CallRecord /\ new.kind = c.kind /\ new.who = c.who /\ new.for = c.for /\ new.out = "ok"
  BY <1>1, Replies
<1>3. c.kind = "verify" /\ c.out = "sent" /\ session' = c.who /\ Settle(c, new) /\ due' = "none"
  BY DEF SignIn, Unserved
<1>4. UNCHANGED <<success, creds, app, route, returnPath, leaving, troubles, page>>
  BY DEF SignIn
<1>5. c.who \in Users
  BY <1>3 DEF IInv, TabOK, Of
<1> HIDE DEF new
<1>6. /\ TabOK' /\ DashboardOK' /\ calls' \subseteq CallRecord
      /\ \A x \in calls' : x \in calls \ {c} \/ x = new
      /\ \A x \in Chain' : x \in Chain \ {c} \/ x = new
      /\ \A k, x : x \in Of(k)' => IF x = new THEN c \in Of(k) ELSE x \in Of(k)
      /\ \A k, x : x \in Awaited(k)' => IF x = new THEN c \in Awaited(k) ELSE x \in Awaited(k)
  BY <1>2, <1>3, <1>4, <1>5, SettleCalls DEF app
<1>7. Types'
  BY <1>3, <1>4, <1>5, <1>6 DEF SignIn, IInv, Types, Accounts, app
<1>8. Own'
  <2> SUFFICES ASSUME ~foreign' PROVE Own'
    BY DEF Own
  <2>1. /\ session = NoUser /\ user = NoUser
        /\ \A d \in calls \ {c} : d.kind \notin {"verify", "status"}
    BY DEF SignIn
  <2>2. \A x \in Chain' : x = new
    BY <1>6, <2>1, ClientAssumption DEF Chain, IInv, TabOK, Of
  <2>3. user' \notin Users /\ Of(Schedule)' = {} /\ cache' \notin Users /\ ~At("/dashboard")'
    BY <1>4, <1>6, <2>1, ClientAssumption DEF TabOK, app, At
  <2> QED BY <1>2, <1>3, <2>2, <2>3 DEF Own
<1>9. SettingsOK'
  BY <1>2, <1>3, <1>4, <1>6 DEF SettingsOK, At, IInv, app, Awaited, Of
<1>10. Arrives'
  BY <1>3 DEF Arrives, Routes
<1> QED BY <1>6, <1>7, <1>8, <1>9, <1>10 DEF IInv

\* A request that is refused, lost or barred, and whatever else of the tab stays
LEMMA RefusedInv ==
    ASSUME IInv, NEW c \in calls, NEW new \in CallRecord, Settle(c, new), ~Ok(new),
           new.kind = c.kind, new.who = c.who, new.for = c.for,
           UNCHANGED <<session, creds, user, cache, route, page, foreign>>
    PROVE  /\ TabOK' /\ DashboardOK' /\ Own' /\ SettingsOK' /\ calls' \subseteq CallRecord
           /\ \A x \in Booting' : x \in Booting \/ (x = new /\ c \in Booting)
           /\ \A x \in Chain' : \E y \in Chain : x.who = y.who
<1>1. /\ TabOK' /\ DashboardOK' /\ calls' \subseteq CallRecord
      /\ \A x \in calls' : x \in calls \ {c} \/ x = new
      /\ \A x \in Chain' : x \in Chain \ {c} \/ x = new
      /\ \A k, x : x \in Of(k)' => IF x = new THEN c \in Of(k) ELSE x \in Of(k)
      /\ \A k, x : x \in Awaited(k)' => IF x = new THEN c \in Awaited(k) ELSE x \in Awaited(k)
  BY SettleCalls
<1>2. \A x \in Chain' : (x = new => c \in Chain) /\ (x # new => x \in Chain)
  BY <1>1 DEF Chain
<1>3. \A x \in Chain' : \E y \in Chain : x.who = y.who
  BY <1>2
<1>4. Own'
  <2>1. Own
    BY DEF IInv
  <2>2. \A x \in Of(Schedule)' : Ok(x) => x \in Of(Schedule)
    BY <1>1
  <2>3. \A x \in Awaited({"schedule"})' : Ok(x) => x \in Awaited({"schedule"})
    BY <1>1
  <2> QED BY <1>3, <2>1, <2>2, <2>3 DEF Own, At
<1>5. SettingsOK'
  BY <1>1 DEF SettingsOK, At, IInv
<1>6. \A x \in Booting' : x \in Booting \/ (x = new /\ c \in Booting)
  BY <1>1 DEF Booting
<1> QED BY <1>1, <1>3, <1>4, <1>5, <1>6

\* A wrong PIN, and a request that fails or meets the bot barrier
LEMMA FailInv ==
    ASSUME IInv, NEW c \in calls, WrongPin(c) \/ Fails(c) \/ Barred(c)
    PROVE  IInv'
<1>1. PICK o \in {"401", "fail", "barrier"} :
          /\ Settle(c, [c EXCEPT !.out = o])
          /\ due' = "none" \/ (due' = due /\ (o = "barrier" \/ c.kind = "verify"))
  BY DEF WrongPin, Fails, Barred, place
<1> DEFINE new == [c EXCEPT !.out = o]
<1>2. c \in CallRecord
  BY DEF IInv, Types
<1>3. new \in CallRecord /\ new.kind = c.kind /\ new.who = c.who /\ new.for = c.for /\ new.out = o
  <2>1. o \in {"sent", "ok", "yes", "401", "fail", "barrier"}
    BY <1>1
  <2> QED BY <1>2, <2>1, Replies
<1>4. UNCHANGED <<server, app, route, returnPath, leaving, page, foreign>>
  BY DEF WrongPin, Fails, Barred, place
<1>5. Settle(c, new) /\ ~Ok(new)
  BY <1>1, <1>3 DEF Ok
<1> HIDE DEF new
<1>6. /\ TabOK' /\ DashboardOK' /\ Own' /\ SettingsOK' /\ calls' \subseteq CallRecord
      /\ \A x \in Booting' : x \in Booting \/ (x = new /\ c \in Booting)
      /\ \A x \in Chain' : \E y \in Chain : x.who = y.who
  BY <1>3, <1>4, <1>5, RefusedInv DEF server, app
<1>7. Types'
  BY <1>1, <1>4, <1>6 DEF IInv, Types, server, app
<1>8. Arrives'
  <2>1. CASE due' = "none"
    BY <2>1 DEF Arrives, Routes
  <2>2. CASE due' = due /\ (o = "barrier" \/ c.kind = "verify")
    <3>1. UNCHANGED <<session, success, user, route, leaving, returnPath, due>>
      BY <1>4, <2>2 DEF server, app
    <3>2. \A x \in Booting' : x \in Booting \/ x.out = "barrier"
      BY <1>3, <1>6, <2>2 DEF Booting, Of
    <3>3. (\A x \in Chain : x.who = session) => \A x \in Chain' : x.who = session
      BY <1>6
    <3>4. Chain = {} => Chain' = {}
      BY <1>6
    <3> QED BY <3>1, <3>2, <3>3, <3>4 DEF Arrives, IInv, Served
  <2> QED BY <1>1, <2>1, <2>2
<1> QED BY <1>6, <1>7, <1>8 DEF IInv

LEMMA SignOutInv == ASSUME IInv, NEW c \in calls, SignOut(c) PROVE IInv'
<1> DEFINE new == [c EXCEPT !.out = "ok"]
<1>1. c \in CallRecord
  BY DEF IInv, Types
<1>2. new \in CallRecord /\ new.kind = c.kind /\ new.who = c.who /\ new.for = c.for /\ new.out = "ok"
  BY <1>1, Replies
<1>3. c.kind \in {"logout", "delete"} /\ session' = NoUser /\ Settle(c, new) /\ due' = "none"
  BY DEF SignOut, Unserved
<1>4. UNCHANGED <<creds, app, route, returnPath, leaving, page, foreign>>
  BY DEF SignOut
<1>5. success' \subseteq success
  BY DEF SignOut
<1> HIDE DEF new
<1>6. /\ TabOK' /\ DashboardOK' /\ calls' \subseteq CallRecord
      /\ \A x \in calls' : x \in calls \ {c} \/ x = new
      /\ \A x \in Chain' : x \in Chain \ {c} \/ x = new
      /\ \A k, x : x \in Of(k)' => IF x = new THEN c \in Of(k) ELSE x \in Of(k)
      /\ \A k, x : x \in Awaited(k)' => IF x = new THEN c \in Awaited(k) ELSE x \in Awaited(k)
  BY <1>2, <1>3, <1>4, SettleCalls DEF app, Schedule
<1>7. Types'
  BY <1>3, <1>4, <1>5, <1>6 DEF IInv, Types, Accounts, app
<1>8. Own'
  <2>1. UNCHANGED <<user, cache, route, page, foreign>>
    BY <1>4 DEF app
  <2>2. Own
    BY DEF IInv
  <2>3. \A x \in Of(Schedule)' : x \in Of(Schedule)
    BY <1>2, <1>3, <1>6 DEF Of, Schedule
  <2>4. \A x \in Awaited({"schedule"})' : x \in Awaited({"schedule"})
    BY <1>2, <1>3, <1>6 DEF Awaited, Of
  <2>5. \A x \in Chain' : x \in Chain
    BY <1>2, <1>3, <1>6 DEF Chain
  <2> QED BY <1>3, <2>1, <2>2, <2>3, <2>4, <2>5 DEF Own, At
<1>9. SettingsOK'
  BY <1>2, <1>3, <1>4, <1>6 DEF SettingsOK, At, IInv, app, Awaited, Of
<1>10. Arrives'
  BY <1>3 DEF Arrives, Routes
<1> QED BY <1>6, <1>7, <1>8, <1>9, <1>10 DEF IInv

LEMMA Answers ==
    ASSUME IInv, NEW c \in calls
    PROVE  LET new == Answered(c)
           IN  /\ new \in CallRecord /\ new.kind = c.kind /\ new.for = c.for
               /\ new.out \in {"ok", "yes", "401", "fail"}
               /\ c.kind \notin Schedule \cup {"me"} => new.who = c.who
               /\ Ok(new) /\ c.kind \in Schedule \cup {"me"} => new.who = session /\ session \in Users
               /\ c.kind = "update" /\ Ok(new) => session # NoUser
               /\ c.kind \in {"me", "timezone", "status"} => new.out \in {"401", Served(c)}
<1>1. c \in CallRecord /\ session \in Accounts
  BY DEF IInv, Types
<1>2. CASE c.kind = "requestPin"
  BY <1>1, <1>2, Replies DEF Answered, Schedule, Ok
<1>3. CASE c.kind # "requestPin" /\ session = NoUser
  BY <1>1, <1>3, Replies DEF Answered, Ok
<1>4. CASE c.kind \in Schedule \cup {"me"} /\ session # NoUser
  <2>1. Answered(c) = [c EXCEPT !.out = "ok", !.who = session]
    BY <1>4 DEF Answered, Schedule, Overview
  <2>2. Served(c) = "ok"
    BY <1>4 DEF Served, Schedule
  <2>3. session \in Users
    BY <1>1, <1>4 DEF Accounts
  <2>4. /\ Answered(c) \in CallRecord /\ Answered(c).kind = c.kind /\ Answered(c).for = c.for
        /\ Answered(c).out = "ok" /\ Answered(c).who = session
    BY <1>1, <2>1 DEF CallRecord
  <2> QED BY <1>4, <2>2, <2>3, <2>4 DEF Schedule
<1>5. CASE c.kind \notin Schedule \cup {"me", "requestPin"} /\ session # NoUser
  <2>1. PICK o \in {"ok", "yes", "fail"} :
            /\ Answered(c) = [c EXCEPT !.out = o]
            /\ c.kind \in {"timezone", "status"} => o = Served(c)
    BY <1>5 DEF Answered, Served, Overview
  <2>2. o \in {"sent", "ok", "yes", "401", "fail", "barrier"}
    OBVIOUS
  <2>3. /\ Answered(c) \in CallRecord /\ Answered(c).kind = c.kind /\ Answered(c).for = c.for
        /\ Answered(c).out = o /\ Answered(c).who = c.who
    <3>1. LET r == [c EXCEPT !.out = o]
          IN  r \in CallRecord /\ r.kind = c.kind /\ r.for = c.for /\ r.out = o /\ r.who = c.who
      BY <1>1, <2>2, Replies
    <3> QED BY <2>1, <3>1
  <2> QED BY <1>5, <2>1, <2>3
<1> QED BY <1>2, <1>3, <1>4, <1>5

LEMMA ServeInv == ASSUME IInv, NEW c \in calls, Serve(c) PROVE IInv'
<1>1. session \in Accounts
  BY DEF IInv, Types
<1>0. PICK new : new = Answered(c)
  OBVIOUS
<1>2. /\ new \in CallRecord /\ new.kind = c.kind /\ new.for = c.for
      /\ new.out \in {"ok", "yes", "401", "fail"}
      /\ c.kind \notin Schedule \cup {"me"} => new.who = c.who
      /\ Ok(new) /\ c.kind \in Schedule \cup {"me"} => new.who = session /\ session \in Users
      /\ c.kind = "update" /\ Ok(new) => session # NoUser
      /\ c.kind \in {"me", "timezone", "status"} => new.out \in {"401", Served(c)}
  BY <1>0, Answers
<1>3. Settle(c, new) /\ c.kind \notin {"verify", "logout"} /\ c.out = "sent"
  BY <1>0 DEF Serve, Unserved
<1>4. UNCHANGED <<session, success, app, place, page, foreign>>
  BY DEF Serve
<1>5. /\ TabOK' /\ DashboardOK' /\ calls' \subseteq CallRecord
      /\ \A x \in calls' : x \in calls \ {c} \/ x = new
      /\ \A x \in Chain' : x \in Chain \ {c} \/ x = new
      /\ \A k, x : x \in Of(k)' => IF x = new THEN c \in Of(k) ELSE x \in Of(k)
      /\ \A k, x : x \in Awaited(k)' => IF x = new THEN c \in Awaited(k) ELSE x \in Awaited(k)
  <2>1. new.kind \in {"timezone", "status"} => new.who = c.who /\ c.who \in Users
    BY <1>2 DEF Schedule, IInv, TabOK, Chain
  <2>2. new.kind = "me" /\ Ok(new) => new.who \in Users
    BY <1>2
  <2>3. UNCHANGED <<user, route, cache, page>>
    BY <1>4 DEF app, place
  <2> QED BY <1>2, <1>3, <2>1, <2>2, <2>3, SettleCalls
<1>6. creds' = IF c.kind # "update" \/ session = NoUser THEN creds
               ELSE IF c.for = "page" THEN "sent"
               ELSE IF creds = "sent" THEN "overtaken" ELSE creds
  BY DEF Serve
<1>7. Types'
  BY <1>4, <1>5, <1>6 DEF IInv, Types, app, place
<1>8. \A x \in Chain' :
         \/ x \in Chain
         \/ x = new /\ c.kind = "me" /\ x.who = session
         \/ x = new /\ c \in Chain /\ x.who = c.who
  <2>1. new \in Chain' /\ c.kind # "me" => c \in Chain /\ new.who = c.who
    BY <1>2, <1>3 DEF Chain, Schedule
  <2>2. new \in Chain' /\ c.kind = "me" => new.who = session
    BY <1>2 DEF Chain
  <2>3. \A x \in Chain' : x \in Chain \/ x = new
    BY <1>5
  <2> QED BY <2>1, <2>2, <2>3
<1>9. Own'
  <2> SUFFICES ASSUME ~foreign' PROVE Own'
    BY DEF Own
  <2>1. UNCHANGED <<session, user, cache, route, page>> /\ ~foreign
    BY <1>4 DEF app, place
  <2>2. Own
    BY DEF IInv
  <2>3. \A x \in Chain' : /\ session \in {x.who, NoUser}
                          /\ user \in Users => x.who = user
    <3>1. c.kind = "me" => user \notin Users
      BY ClientAssumption DEF IInv, TabOK, Of
    <3> QED BY <1>8, <2>1, <2>2, <3>1 DEF Own
  <2>4. \A x, y \in Chain' : x.who = y.who
    <3>1. c.kind = "me" /\ new \in Chain' => session # NoUser /\ new.who = session
      BY <1>1, <1>2, ClientAssumption DEF Chain
    <3>2. \A x \in Chain : session # NoUser => x.who = session
      BY <2>1, <2>2 DEF Own
    <3> QED BY <1>8, <2>1, <2>2, <3>1, <3>2 DEF Own
  <2>5. \A x \in Of(Schedule)' : Ok(x) => x.who = user
    <3>1. Of(Schedule) # {} => user \in Users
      BY DEF IInv, TabOK
    <3>2. c \in Of(Schedule) /\ Ok(new) => new.who = user
      BY <1>2, <2>1, <2>2, <3>1, ClientAssumption DEF Own, Of
    <3> QED BY <1>5, <2>1, <2>2, <3>2 DEF Own
  <2>6. \A x \in Awaited({"schedule"})' : Ok(x) => x \in Awaited({"schedule"}) \/ session # NoUser
    <3>1. c \in Awaited({"schedule"}) /\ Ok(new) => session # NoUser
      BY <1>2, ClientAssumption DEF Awaited, Of, Schedule
    <3> QED BY <1>5, <3>1
  <2> QED BY <2>1, <2>2, <2>3, <2>4, <2>5, <2>6 DEF Own, At
<1>10. SettingsOK'
  <2>1. creds # "older" => creds' # "older"
    BY <1>6
  <2>2. new \in Awaited({"update"})' /\ Ok(new) => creds' # "older"
    BY <1>2, <1>6 DEF Awaited, Of
  <2> QED BY <1>4, <1>5, <2>1, <2>2 DEF SettingsOK, At, IInv, app, place
<1>11. Arrives'
  <2>1. UNCHANGED <<session, success, user, route, leaving, returnPath, due>>
    BY <1>4 DEF app, place
  <2>2. user # Unknown /\ Chain = {} => Chain' = {}
    <3>1. c.kind = "me" => user = Unknown
      BY DEF IInv, TabOK, Of
    <3> QED BY <1>8, <3>1
  <2>3. (\A x \in Chain : x.who = session) => \A x \in Chain' : x.who = session
    BY <1>8
  <2>4. (\A x \in Booting : x.out \in {"sent", "401", "barrier", Served(x)})
           => \A x \in Booting' : x.out \in {"sent", "401", "barrier", Served(x)'}
    <3>1. Served(new)' = Served(c)
      BY <1>2, <2>1 DEF Served
    <3>2. \A x : Served(x)' = Served(x)
      BY <2>1 DEF Served
    <3>3. c \in Booting => new.out \in {"401", Served(c)}
      BY <1>2 DEF Booting, Of
    <3> QED BY <1>5, <3>1, <3>2, <3>3 DEF Booting
  <2> QED BY <1>5, <2>1, <2>2, <2>3, <2>4 DEF Arrives, IInv, AtMostOne
<1> QED BY <1>5, <1>7, <1>9, <1>10, <1>11 DEF IInv

-----------------------------------------------------------------------------
(* The tab *)

LEMMA LoadInv ==
    ASSUME IInv, NEW r \in Routes, Load(r), due' \in Routes \cup {"none", "overtaken"},
           due' \in Routes => \/ r = due' /\ (due' = "/login" \/ returnPath \in {"none", "/"})
                              \/ r = "/" /\ returnPath = due'
    PROVE  IInv'
<1>1. /\ route' = r /\ user' = Unknown /\ onboarded' = FALSE /\ cache' = "none"
      /\ leaving' = "none" /\ page' = Fresh("/") /\ foreign' = FALSE /\ creds' = "older"
      /\ UNCHANGED <<session, success, returnPath>>
  BY DEF Load
<1>2. PICK kept \in SUBSET {c \in calls : c.out = "sent" /\ c.kind \in Effective} :
          calls' = {Sent("me")} \cup {[c EXCEPT !.for = "nobody"] : c \in kept}
  BY DEF Load
<1>3. "me" \in Kinds
  BY DEF Kinds
<1>4. \A x \in calls' : /\ x \in CallRecord /\ x.out = "sent"
                        /\ x # Sent("me") => x.for = "nobody" /\ x.kind \in Effective
                        /\ x.kind = "verify" => x.who \in Users
  <2>1. ASSUME NEW c \in kept
        PROVE  LET x == [c EXCEPT !.for = "nobody"]
               IN  /\ x \in CallRecord /\ x.out = "sent" /\ x.for = "nobody" /\ x.kind \in Effective
                   /\ x.kind = "verify" => x.who \in Users
    <3>1. c \in calls /\ c.out = "sent" /\ c.kind \in Effective /\ c \in CallRecord
      BY DEF IInv, Types
    <3>2. c.kind = "verify" => c.who \in Users
      BY <3>1 DEF IInv, TabOK, Of
    <3> QED BY <3>1, <3>2 DEF CallRecord
  <2>2. /\ Sent("me") \in CallRecord /\ Sent("me").out = "sent" /\ Sent("me").kind = "me"
    BY <1>3, Sending
  <2> QED BY <1>2, <2>1, <2>2
<1>5. Sent("me").kind = "me" /\ Sent("me").for = "page"
  BY <1>3, Sending
<1>6. \A x \in calls' : x.kind \in Effective \cup {"me"}
  BY <1>4, <1>5
<1>7. Unknown \notin Users /\ Unknown # NoUser /\ "none" \notin Users
  BY ClientAssumption
<1>8. Types'
  <2>1. page' \in PageRecord
    BY <1>1, FreshPage
  <2> QED BY <1>1, <1>4, <2>1 DEF IInv, Types
<1>9. /\ Chain' = {} /\ Of(Schedule)' = {} /\ Of({"ics"})' = {}
      /\ \A k \in {"schedule", "update"} : \A x \in calls' : x.for = "page" => x.kind # k
  BY <1>4, <1>5, <1>6 DEF Chain, Ok, Of, Schedule, Effective
<1>14. \A x \in Booting' : x = Sent("me") /\ x.out = "sent"
  BY <1>4 DEF Booting, Of, Effective
<1>10. TabOK'
  <2>1. Awaited({"schedule"})' = {} /\ Awaited({"update"})' = {}
    BY <1>9 DEF Awaited, Of
  <2> QED BY <1>14, <1>1, <1>4, <1>5, <1>7, <1>9, <2>1 DEF TabOK, AtMostOne, Of
<1>11. DashboardOK' /\ SettingsOK'
  BY <1>1 DEF DashboardOK, SettingsOK, At
<1>12. Own'
  BY <1>1, <1>7, <1>9 DEF Own, At
<1>13. Arrives'
  BY <1>1, <1>9, <1>14 DEF Arrives
<1> QED BY <1>8, <1>10, <1>11, <1>12, <1>13 DEF IInv

LEMMA LoadsInv ==
    ASSUME IInv, Unload \/ \E r \in Routes : TypeUrl(r)
    PROVE  IInv'
<1>1. CASE Unload
  <2>1. leaving \in {"/", "/login"} /\ due \in Routes \cup {"none", "overtaken"} /\ leaving \in Routes
    BY <1>1 DEF Unload, IInv, Types, Routes
  <2>2. leaving = "/" /\ due \in Routes => returnPath = due
    BY DEF IInv, Arrives
  <2> QED BY <1>1, <2>1, <2>2, LoadInv DEF Unload
<1>2. ASSUME NEW r \in Routes, TypeUrl(r) PROVE IInv'
  BY <1>2, LoadInv DEF TypeUrl, Routes
<1> QED BY <1>1, <1>2

\* The world outside the tab
LEMMA WorldInv ==
    ASSUME IInv, ScrapeSucceeds \/ Elsewhere \/ Onboarded
    PROVE  IInv'
<1>1. /\ UNCHANGED <<creds, user, cache, route, returnPath, leaving, page, calls>>
      /\ session' \in Accounts /\ success' \subseteq Users /\ onboarded' \in BOOLEAN
      /\ \/ foreign' = TRUE
         \/ foreign' = foreign /\ session' = session
      /\ due' = "none" \/ UNCHANGED <<due, session, success>>
  BY DEF ScrapeSucceeds, Elsewhere, Onboarded, app, place, server, IInv, Types, Accounts
<1>2. /\ UNCHANGED Chain
      /\ \A k : Of(k)' = Of(k) /\ Awaited(k)' = Awaited(k)
  BY <1>1 DEF Chain, Of, Awaited
<1>3. Types'
  BY <1>1 DEF IInv, Types, Accounts
<1>4. TabOK' /\ DashboardOK' /\ SettingsOK'
  <2>1. UNCHANGED Booting
    BY <1>2 DEF Booting
  <2> QED BY <1>1, <1>2, <2>1 DEF IInv, TabOK, DashboardOK, SettingsOK, At, AtMostOne
<1>5. Own'
  BY <1>1, <1>2 DEF IInv, Own, At
<1>6. Arrives'
  BY <1>1, <1>2 DEF IInv, Arrives, Booting, AtMostOne, Served, Routes
<1> QED BY <1>3, <1>4, <1>5, <1>6 DEF IInv

-----------------------------------------------------------------------------
(* The user *)

\* A handler up to its await: a request of the mounted page
LEMMA HandlerInv ==
    ASSUME IInv, NEW p \in PageRecord, NEW c \in CallRecord, user # Unknown,
           route \in {"/login", "/settings", "/admin"}, c.kind \in Sends(route),
           c.out = "sent", c.for = "page", c.kind = "verify" => c.who \in Users,
           Handler(p, c), creds' \in {"older", creds},
           route = "/settings" =>
              \/ c.kind = "update" /\ Awaited({"update"}) = {} /\ p.busy /\ p.result = "none"
              \/ /\ c.kind # "update" /\ creds' = creds
                 /\ p.busy = page.busy /\ p.result = page.result
    PROVE  IInv'
<1>1. /\ page' = p /\ calls' = calls \cup {c} /\ due' = "none"
      /\ UNCHANGED <<session, success, user, onboarded, cache, route, returnPath, leaving, foreign>>
  BY DEF Handler, app
<1>2. c.kind \notin {"me", "timezone", "status", "schedule", "ics"} /\ ~Ok(c)
  BY DEF Sends, Overview, Ok
<1>3. /\ UNCHANGED Chain
      /\ Of({"me", "timezone"})' = Of({"me", "timezone"})
      /\ Of(Schedule)' = Of(Schedule) /\ Of({"ics"})' = Of({"ics"})
      /\ Awaited({"schedule"})' = Awaited({"schedule"})
      /\ \A x \in Of({"verify"})' : x \in Of({"verify"}) \/ (x = c /\ c.kind = "verify")
  BY <1>1, <1>2 DEF Chain, Of, Awaited, Schedule
<1>4. \A x \in Awaited({"update"})' : x \in Awaited({"update"}) \/ (x = c /\ c.kind = "update")
  BY <1>1 DEF Awaited, Of
<1>5. c.kind = "update" => route = "/settings" /\ Awaited({"update"}) = {}
  BY DEF Sends, Overview
<1>6. Types'
  BY <1>1 DEF IInv, Types
<1>7. TabOK'
  <2>1. \A x, y \in Awaited({"update"})' : x = y
    BY <1>4, <1>5 DEF IInv, TabOK, AtMostOne
  <2> QED BY <1>1, <1>3, <2>1 DEF IInv, TabOK, AtMostOne
<1>8. DashboardOK' /\ Own'
  BY <1>1, <1>3 DEF IInv, DashboardOK, Own, At
<1>9. SettingsOK'
  BY <1>1, <1>2, <1>4 DEF IInv, SettingsOK, At
<1>10. Arrives'
  BY <1>1 DEF Arrives, Routes
<1> QED BY <1>6, <1>7, <1>8, <1>9, <1>10 DEF IInv

LEMMA HandlersInv ==
    ASSUME IInv, Free,
           \/ RequestPin \/ VerifyPin \/ DifferentEmail \/ UpdateCredentials \/ DeleteAccount
           \/ Logout \/ Trigger
    PROVE  IInv'
<1> USE DEF At
<1>1. page \in PageRecord
  BY DEF IInv, Types
<1>2. /\ [page EXCEPT !.busy = TRUE, !.result = "none"] \in PageRecord
      /\ [page EXCEPT !.busy = TRUE, !.result = "none"].busy = TRUE
      /\ [page EXCEPT !.busy = TRUE, !.result = "none"].result = "none"
      /\ [page EXCEPT !.deleting = TRUE] \in PageRecord
      /\ [page EXCEPT !.deleting = TRUE].busy = page.busy
      /\ [page EXCEPT !.deleting = TRUE].result = page.result
      /\ [page EXCEPT !.step = "email", !.result = "none"] \in PageRecord
  BY <1>1 DEF PageRecord
<1>3. {"requestPin", "update", "delete", "logout", "trigger"} \subseteq Kinds
  BY DEF Kinds
<1>4. CASE RequestPin
  BY <1>2, <1>3, <1>4, Sending, HandlerInv DEF RequestPin, Sends
<1>5. ASSUME VerifyPin PROVE IInv'
  <2>1. PICK u \in Users : Handler([page EXCEPT !.busy = TRUE, !.result = "none"], Call("verify", u))
    BY <1>5 DEF VerifyPin
  <2>2. /\ Call("verify", u) \in CallRecord /\ Call("verify", u).kind = "verify"
        /\ Call("verify", u).out = "sent" /\ Call("verify", u).for = "page"
        /\ Call("verify", u).who = u
    BY DEF Call, CallRecord, Kinds, Accounts
  <2> QED BY <1>2, <1>5, <2>1, <2>2, HandlerInv DEF VerifyPin, Sends
<1>6. CASE DifferentEmail
  <2>1. /\ page' \in PageRecord /\ route = "/login" /\ user # Unknown
        /\ UNCHANGED <<server, app, place, calls, foreign>>
    BY <1>2, <1>6 DEF DifferentEmail
  <2>2. UNCHANGED <<session, success, creds, user, onboarded, cache, route, returnPath, leaving, due>>
    BY <2>1 DEF server, app, place
  <2>3. /\ UNCHANGED <<Chain, Booting>>
        /\ \A k : Of(k)' = Of(k) /\ Awaited(k)' = Awaited(k)
    BY <2>1 DEF Chain, Of, Awaited, Booting
  <2>4. Types'
    BY <2>1, <2>2 DEF IInv, Types
  <2>5. TabOK' /\ DashboardOK' /\ SettingsOK'
    BY <2>1, <2>2, <2>3 DEF IInv, TabOK, DashboardOK, SettingsOK, AtMostOne
  <2>6. Own'
    BY <2>1, <2>2, <2>3 DEF IInv, Own
  <2>7. Arrives'
    BY <2>1, <2>2, <2>3 DEF IInv, Arrives, Served
  <2> QED BY <2>4, <2>5, <2>6, <2>7 DEF IInv
<1>7. CASE UpdateCredentials
  <2>1. route = "/settings" /\ user # Unknown /\ ~page.busy
    BY <1>7 DEF UpdateCredentials, SettingsOffers, FormOffers
  <2>2. Awaited({"update"}) = {}
    BY <2>1 DEF IInv, SettingsOK
  <2> QED BY <1>2, <1>3, <1>7, <2>1, <2>2, Sending, HandlerInv DEF UpdateCredentials, Sends
<1>8. CASE DeleteAccount
  BY <1>2, <1>3, <1>8, Sending, HandlerInv DEF DeleteAccount, Sends
<1>9. CASE Logout
  BY <1>1, <1>3, <1>9, Sending, HandlerInv DEF Logout, Sends
<1>10. CASE Trigger
  BY <1>1, <1>3, <1>10, Sending, HandlerInv DEF Trigger, Sends
<1> QED BY <1>4, <1>5, <1>6, <1>7, <1>8, <1>9, <1>10

-----------------------------------------------------------------------------
(* Pages that mount *)

LEMMA Resolves ==
    ASSUME NEW r \in Routes, NEW u \in Accounts, NEW on \in BOOLEAN
    PROVE  /\ Resolve(r, u, on) \in Routes
           /\ Resolve(r, u, on) = "/dashboard" => u \in Users
           /\ u \in Users => Resolve(r, u, on) # "/login"
           /\ u = NoUser /\ r = "/login" => Resolve(r, u, on) = r
           /\ u \in Users /\ r = "/" => Resolve(r, u, on) = r
<1>1. u \in Users <=> u # NoUser
  BY ClientAssumption DEF Accounts
<1>2. CASE u = NoUser
  <2>1. Resolve(r, u, on) = IF r \in {"/", "/privacy"} THEN r ELSE "/login"
    BY <1>2 DEF Resolve
  <2> QED BY <1>1, <1>2, <2>1 DEF Routes
<1>3. CASE u # NoUser
  <2>1. Resolve(r, u, on) \in {"/dashboard", "/setup"} \/ Resolve(r, u, on) = r
    BY <1>3 DEF Resolve
  <2>2. r = "/login" => Resolve(r, u, on) \in {"/dashboard", "/setup"}
    BY <1>3 DEF Resolve
  <2>3. r = "/" => Resolve(r, u, on) = r
    BY <1>3 DEF Resolve
  <2> QED BY <1>1, <1>3, <2>1, <2>2, <2>3 DEF Routes
<1> QED BY <1>2, <1>3

\* The page to mounts for the user u, with the requests cs left.
LEMMA MountInv ==
    ASSUME IInv, NEW to \in Routes, NEW cs \in SUBSET calls, Mount(to, cs), route' = to,
           UNCHANGED <<session, foreign>>, user' \in Accounts,
           to = "/dashboard" => user' \in Users, user' \in Users => to # "/login",
           user \in Users => user' \in Users,
           ~foreign /\ user \in Users => user' = user,
           ~foreign /\ user' \in Users => /\ session \in {user', NoUser}
                                          /\ \A c \in cs \cap Chain : c.who = user',
           \A c \in cs : c.kind \notin {"me", "timezone"} /\ (c.for = "nobody" => c.out = "sent")
    PROVE  /\ TabOK' /\ DashboardOK' /\ Own' /\ SettingsOK'
           /\ page' \in PageRecord /\ calls' \subseteq CallRecord
           /\ cache' \in Users \cup {"none", "pending"} /\ creds' = "older"
           /\ cs \cap Chain = {} => Chain' = {}
<1> DEFINE Old(c) == [c EXCEPT !.for = IF @ = "page" THEN "tab" ELSE @]
<1>1. /\ page' = Fresh(to) /\ creds' = "older"
      /\ calls' = {Old(c) : c \in cs} \cup {Sent(k) : k \in Effect(to)}
      /\ cache' = IF "ics" \in Effect(to) THEN "pending" ELSE cache
  BY DEF Mount
<1>2. cs \subseteq CallRecord /\ cs \subseteq calls
  BY DEF IInv, Types
<1>3. \A c \in cs : /\ Old(c) \in CallRecord /\ Old(c).kind = c.kind /\ Old(c).who = c.who
                    /\ Old(c).out = c.out /\ Old(c).for # "page"
                    /\ Old(c).for = "nobody" => c.for = "nobody"
  BY <1>2 DEF CallRecord
<1>4. /\ Effect(to) \subseteq Kinds /\ Effect(to) \subseteq Sends(to)
      /\ Effect(to) \subseteq {"schedule", "ics", "adminLogs", "adminUsers", "read"}
      /\ "ics" \in Effect(to) => to = "/dashboard" /\ cache = "none"
      /\ "schedule" \in Effect(to) => to = "/dashboard"
      /\ to = "/dashboard" /\ cache = "none" => "ics" \in Effect(to)
  BY DEF Effect, Kinds, Sends, Schedule, Overview
<1> HIDE DEF Old
<1>5. \A x \in calls' : \/ \E c \in cs : x = Old(c)
                        \/ \E k \in Effect(to) : x = Sent(k)
  BY <1>1
<1>6. \A k \in Effect(to) : /\ Sent(k) \in CallRecord /\ Sent(k).kind = k /\ Sent(k).out = "sent"
                            /\ Sent(k).for = "page"
  BY <1>4, Sending
<1>7. calls' \subseteq CallRecord
  BY <1>3, <1>5, <1>6
<1>8. \A x \in Chain' : \E c \in cs \cap Chain : x = Old(c) /\ x.who = c.who
  <2>1. ASSUME NEW x \in Chain', NEW c \in cs, x = Old(c) PROVE c \in Chain
    BY <1>2, <1>3, <2>1 DEF Chain, Ok
  <2>2. ASSUME NEW k \in Effect(to) PROVE Sent(k) \notin Chain'
    BY <1>4, <1>6 DEF Chain, Ok
  <2>3. \A x \in Chain' : x \in calls'
    BY DEF Chain
  <2> QED BY <1>3, <1>5, <2>1, <2>2, <2>3
<1>9. \A k : \A x \in Of(k)' : \/ \E c \in cs \cap Of(k) : x = Old(c)
                               \/ x.kind \in Effect(to) /\ x = Sent(x.kind)
  BY <1>2, <1>3, <1>5, <1>6 DEF Of
<1>10. \A k : \A x \in Awaited(k)' : x.kind \in Effect(to) \cap k /\ x = Sent(x.kind)
  BY <1>3, <1>5, <1>6 DEF Awaited, Of
<1>11. user' # Unknown /\ (user' \notin Users <=> user' = NoUser)
  BY ClientAssumption DEF Accounts
<1>12. TabOK
  BY DEF IInv
<1>13. user' \notin Users => cache = "none" /\ Of(Schedule) = {} /\ to # "/dashboard"
  BY <1>12 DEF TabOK
<1>14. TabOK'
  <2>1. \A x \in calls' : x.for = "nobody" => x.out = "sent" /\ x.kind \in Effective
    BY <1>2, <1>3, <1>5, <1>6, <1>12 DEF TabOK
  <2>2. \A x \in Chain' : x.who \in Users
    BY <1>8, <1>12 DEF TabOK
  <2>3. \A x \in Of({"verify"})' : x.who \in Users
    <3>1. \A x \in Of({"verify"})' : x.kind = "verify"
      BY DEF Of
    <3>2. \A c \in cs \cap Of({"verify"}) : Old(c).who \in Users
      BY <1>3, <1>12 DEF TabOK
    <3> QED BY <1>4, <1>9, <3>1, <3>2
  <2>10. \A x \in Of(Schedule)' : Ok(x) => x.who \in Users
    <3>1. \A c \in cs \cap Of(Schedule) : Ok(Old(c)) => Old(c).who \in Users
      BY <1>3, <1>12 DEF TabOK, Ok
    <3>2. \A k \in Effect(to) : ~Ok(Sent(k))
      BY <1>6 DEF Ok
    <3> QED BY <1>9, <3>1, <3>2
  <2>4. Of({"me", "timezone"})' = {}
    BY <1>3, <1>4, <1>5, <1>6 DEF Of
  <2>5. \A x \in calls' : x.for = "page" => x.kind \in Sends(to)
    BY <1>3, <1>4, <1>5, <1>6
  <2>6. user' \notin Users => cache' = "none" /\ Of(Schedule)' = {}
    <3>1. \A x \in Of(Schedule)' : x.kind \in {"schedule", "ics"}
      BY DEF Of, Schedule
    <3>2. user' \notin Users => Effect(to) \cap {"schedule", "ics"} = {}
      BY <1>4, <1>13
    <3> QED BY <1>1, <1>9, <1>13, <3>1, <3>2
  <2>7. cache' # "pending" => Of({"ics"})' = {}
    <3>1. \A x \in Of({"ics"})' : x.kind = "ics"
      BY DEF Of
    <3> QED BY <1>1, <1>9, <1>12, <3>1 DEF TabOK
  <2>8. /\ \A x, y \in Awaited({"schedule"})' : x = y
        /\ \A x, y \in Awaited({"update"})' : x = y
    <3>1. \A x \in Awaited({"schedule"})' : x = Sent("schedule")
      BY <1>10
    <3>2. Awaited({"update"})' = {}
      BY <1>4, <1>10
    <3> QED BY <3>1, <3>2
  <2>9. \A x, y \in Of({"ics"})' : x = y
    <3>1. \A x \in Of({"ics"})' : x.kind = "ics"
      BY DEF Of
    <3>2. CASE "ics" \in Effect(to)
      <4>1. Of({"ics"}) = {}
        BY <1>4, <1>12, <3>2 DEF TabOK
      <4> QED BY <1>9, <3>1, <4>1
    <3>3. CASE "ics" \notin Effect(to)
      <4>1. \A c, d \in Of({"ics"}) : c = d
        BY <1>12 DEF TabOK, AtMostOne
      <4> QED BY <1>9, <3>1, <3>3, <4>1
    <3> QED BY <3>2, <3>3
  <2> QED BY <1>11, <1>13, <2>1, <2>2, <2>3, <2>4, <2>5, <2>6, <2>7, <2>8, <2>9, <2>10
       DEF TabOK, AtMostOne
<1>15. /\ page' \in PageRecord /\ page'.shows = {} /\ page'.result = "none"
       /\ page'.have = IF to = "/dashboard" /\ cache \in Users THEN {"ics"} ELSE {}
       /\ page'.ics = IF to = "/dashboard" /\ cache \in Users THEN cache ELSE NoUser
       /\ page'.anon <=> to = "/dashboard" /\ session = NoUser
  BY <1>1, FreshPage
<1>16. DashboardOK'
  <2>1. cache \in Users => Of({"ics"})' = {}
    BY <1>1, <1>4, <1>14, ClientAssumption DEF TabOK
  <2> QED BY <1>15, <2>1 DEF DashboardOK
<1>17. Own'
  <2> SUFFICES ASSUME ~foreign PROVE Own'
    BY DEF Own
  <2>1. Own
    BY DEF IInv
  <2>2. \A x \in Chain' : session \in {x.who, NoUser} /\ (user' \in Users => x.who = user')
    BY <1>8, <2>1 DEF Own
  <2>3. \A x, y \in Chain' : x.who = y.who
    BY <1>8, <2>1 DEF Own
  <2>4. \A x \in Of(Schedule)' : Ok(x) => x.who = user'
    <3>1. \A c \in cs \cap Of(Schedule) : Ok(Old(c)) => Old(c).who = user'
      <4>1. Of(Schedule) # {} => user \in Users
        BY <1>12 DEF TabOK
      <4> QED BY <1>3, <2>1, <4>1 DEF Own, Ok
    <3>2. \A k \in Effect(to) : ~Ok(Sent(k))
      BY <1>6 DEF Ok
    <3> QED BY <1>9, <3>1, <3>2
  <2>5. cache \in Users => cache = user'
    BY <1>12, <2>1, ClientAssumption DEF TabOK, Own
  <2>6. \A x \in Awaited({"schedule"})' : ~Ok(x)
    BY <1>6, <1>10 DEF Ok
  <2>7. cache' \in Users => cache' = user'
    BY <1>1, <2>5, ClientAssumption
  <2> QED BY <1>15, <2>2, <2>3, <2>4, <2>5, <2>6, <2>7 DEF Own, At
<1>18. SettingsOK'
  <2>1. Awaited({"update"})' = {}
    BY <1>4, <1>10
  <2> QED BY <1>15, <2>1 DEF SettingsOK
<1>19. cache' \in Users \cup {"none", "pending"}
  BY <1>1 DEF IInv, Types
<1> QED BY <1>1, <1>7, <1>8, <1>14, <1>15, <1>16, <1>17, <1>18, <1>19

-----------------------------------------------------------------------------
(* Continuations *)

\* The request c continues in the tab, which sends the requests more.
Continues(c, more) ==
    /\ c \in calls /\ c.out # "sent" /\ calls' \subseteq Rest(c) \cup more
    /\ UNCHANGED <<session, success, user, onboarded, route, foreign>>
    /\ returnPath' = Hidden(c)
    /\ Redirect(c) \/ (leaving' = "/login" /\ c.out # "barrier")
    /\ due' = IF c.out = "barrier" THEN Hides
              ELSE IF c.kind = "logout" THEN "none" ELSE due

\* What they are: the next call of a chain, or the calls of Admin
Follow(c, more) == \A x \in more :
    /\ x \in CallRecord
    /\ \/ /\ x.kind \in {"timezone", "status"} /\ x.for = "tab" /\ x.out = "sent"
          /\ c \in Chain /\ x.who = c.who /\ more = {x}
          /\ x.kind = "timezone" => c.kind = "me"
       \/ x.kind \in Overview \cup {"timer"} /\ x.for = c.for /\ c.kind \in {"trigger", "timer"}

LEMMA ContinueInv ==
    ASSUME IInv, NEW c, NEW more, Continues(c, more), Follow(c, more),
           cache' = cache \/ (c.kind = "ics" /\ cache' \in Users \cup {"none"})
    PROVE  /\ TabOK' /\ Arrives' /\ calls' \subseteq CallRecord
           /\ leaving' \in {"none", "/", "/login"} /\ due' \in Routes \cup {"none", "overtaken"}
           /\ returnPath' \in Routes \cup {"none"}
           /\ \A x \in calls' : x.kind \in Schedule \cup {"update"} => x \in calls \ {c}
           /\ \A x \in Chain' : x \in Chain \/ (c \in Chain /\ x.who = c.who)
<1>1. /\ c \in calls /\ c.out # "sent" /\ c \in CallRecord
      /\ UNCHANGED <<session, success, user, onboarded, route, foreign>>
  BY DEF Continues, IInv, Types
<1>2. \A x \in calls' : (x \in calls /\ x # c) \/ x \in more
  BY DEF Continues, Rest
<1>3. TabOK
  BY DEF IInv
<1>4. c.for # "nobody" /\ (user = Unknown => c.kind \in {"me", "timezone", "status"})
  BY <1>1, <1>3 DEF TabOK
<1>5. calls' \subseteq CallRecord
  BY <1>2 DEF IInv, Types, Follow
<1>6. \A x \in more : x.kind \in {"timezone", "status", "timer"} \cup Overview /\ x.for # "nobody"
  BY <1>4 DEF Follow
<1>7. \A x \in calls' : x.kind \in Schedule \cup {"update"} => x \in calls \ {c}
  BY <1>2, <1>6 DEF Schedule, Overview
<1>8. \A x \in Chain' : x \in Chain \/ (x \in more /\ c \in Chain /\ x.who = c.who)
  <2>1. \A x \in more : x.kind \in Overview \cup {"timer"} => x \notin Chain'
    BY DEF Chain, Overview
  <2> QED BY <1>2, <2>1 DEF Chain, Follow
<1>9. /\ Of(Schedule)' \subseteq Of(Schedule) /\ Of({"ics"})' \subseteq Of({"ics"}) \ {c}
      /\ \A k \in {"schedule", "update"} : Awaited({k})' \subseteq Awaited({k})
  <2>1. /\ \A x \in Of(Schedule)' : x \in calls' /\ x.kind \in Schedule
        /\ \A x \in Of({"ics"})' : x \in calls' /\ x.kind = "ics" /\ x.kind \in Schedule
    BY DEF Of, Schedule
  <2>2. \A k \in {"schedule", "update"} : \A x \in Awaited({k})' :
            x \in calls' /\ x.kind = k /\ x.for = "page" /\ k \in Schedule \cup {"update"}
    BY DEF Awaited, Of, Schedule
  <2>3. \A x \in Of(Schedule)' : x \in Of(Schedule)
    BY <1>7, <2>1 DEF Of
  <2>4. \A x \in Of({"ics"})' : x \in Of({"ics"}) \ {c}
    BY <1>7, <2>1 DEF Of
  <2>5. \A k \in {"schedule", "update"} : \A x \in Awaited({k})' : x \in Awaited({k})
    BY <1>7, <2>2 DEF Of, Awaited
  <2> QED BY <2>3, <2>4, <2>5
<1>10. TabOK'
  <2>0. \A x \in Of(Schedule)' : Ok(x) => x.who \in Users
    BY <1>3, <1>9 DEF TabOK
  <2>1. \A x \in calls' : x.for = "nobody" => x.out = "sent" /\ x.kind \in Effective
    BY <1>2, <1>3, <1>6 DEF TabOK
  <2>2. \A x \in Of({"verify"})' \cup Chain' : x.who \in Users
    <3>1. \A x \in Of({"verify"})' : x \in Of({"verify"})
      BY <1>2, <1>6 DEF Of, Overview
    <3> QED BY <1>3, <1>8, <3>1 DEF TabOK
  <2>3. Of({"me", "timezone"})' # {} => user = Unknown
    <3>1. \A x \in Of({"me", "timezone"})' : x \in Of({"me", "timezone"}) \/ c \in Of({"me", "timezone"})
      BY <1>1, <1>2 DEF Of, Overview, Follow
    <3> QED BY <1>3, <3>1 DEF TabOK
  <2>4. user = Unknown => \A x \in calls' : x.kind \in {"me", "timezone", "status"} \/ x.for = "nobody"
    BY <1>2, <1>3, <1>4 DEF TabOK, Follow
  <2>5. user # Unknown => \A x \in calls' : x.for = "page" => x.kind \in Sends(route)
    <3>1. ASSUME user # Unknown, NEW x \in more, x.for = "page" PROVE x.kind \in Sends(route)
      <4>1. /\ x.kind \in Overview \cup {"timer"} /\ c.kind \in {"trigger", "timer"}
            /\ c.kind \in Sends(route)
        BY <1>1, <1>3, <3>1 DEF Follow, TabOK
      <4>2. route = "/admin"
        BY <4>1 DEF Sends, Schedule, Overview
      <4> QED BY <4>1, <4>2 DEF Sends
    <3> QED BY <1>2, <1>3, <3>1 DEF TabOK
  <2>6. user \notin Users => cache' = "none" /\ Of(Schedule)' = {}
    <3>1. c.kind = "ics" => c \in Of(Schedule)
      BY <1>1 DEF Of, Schedule
    <3> QED BY <1>3, <1>9, <3>1 DEF TabOK
  <2>7. cache' # "pending" => Of({"ics"})' = {}
    <3>1. c.kind = "ics" => Of({"ics"})' = {}
      <4>1. c.kind = "ics" => c \in Of({"ics"})
        BY <1>1 DEF Of
      <4> QED BY <1>3, <1>9, <4>1 DEF TabOK, AtMostOne
    <3> QED BY <1>3, <1>9, <3>1 DEF TabOK
  <2>8. /\ \A x, y \in Awaited({"schedule"})' : x = y
        /\ \A x, y \in Awaited({"update"})' : x = y
        /\ \A x, y \in Of({"ics"})' : x = y
    BY <1>3, <1>9 DEF TabOK, AtMostOne
  <2>9. user = Unknown => \A x, y \in Booting' : x = y
    <3> SUFFICES ASSUME user = Unknown PROVE \A x, y \in Booting' : x = y
      OBVIOUS
    <3>1. c \in Booting
      BY <1>1, <1>4 DEF Booting, Of
    <3>2. \A x \in Booting' : x \in more
      BY <1>2, <1>3, <3>1 DEF TabOK, AtMostOne, Booting, Of
    <3>3. \A x \in more : more = {x}
      BY <1>4 DEF Follow
    <3> QED BY <3>2, <3>3
  <2> QED BY <1>1, <1>3, <2>0, <2>1, <2>2, <2>3, <2>4, <2>5, <2>6, <2>7, <2>8, <2>9
       DEF TabOK, AtMostOne
<1>11. /\ leaving' \in {"none", "/", "/login"} /\ due' \in Routes \cup {"none", "overtaken"}
       /\ returnPath' \in Routes \cup {"none"}
  BY DEF Continues, Hidden, Redirect, Hides, IInv, Types
<1>12. Arrives'
  <2>1. CASE c.out = "barrier"
    BY <1>1, <2>1 DEF Continues, Hidden, Hides, Redirect, Arrives, Routes
  <2>2. CASE c.out # "barrier"
    <3>1. /\ returnPath' = returnPath /\ due' \in {"none", due}
          /\ leaving' = leaving \/ leaving' = "/login"
      BY <2>2 DEF Continues, Hidden, Redirect
    <3>2. \A x : Served(x)' = Served(x)
      BY <1>1 DEF Served
    <3>3. (\A x \in Booting : x.out \in {"sent", "401", "barrier", Served(x)})
             => \A x \in Booting' : x.out \in {"sent", "401", "barrier", Served(x)'}
      <4>1. \A x \in Booting' : x \in Booting \/ x.out = "sent"
        BY <1>2 DEF Booting, Of, Follow, Overview
      <4> QED BY <3>2, <4>1
    <3>4. (\A x \in Chain : x.who = session) => \A x \in Chain' : x.who = session
      BY <1>8
    <3>5. Chain = {} => Chain' = {}
      BY <1>8
    <3> QED BY <1>1, <3>1, <3>3, <3>4, <3>5 DEF Arrives, IInv, Routes
  <2> QED BY <2>1, <2>2
<1> QED BY <1>5, <1>7, <1>8, <1>10, <1>11, <1>12

\* One that leaves the page's data and its messages alone
LEMMA KeptInv ==
    ASSUME IInv, NEW c, NEW more, Continues(c, more), Follow(c, more),
           UNCHANGED <<cache, creds>>, page' \in PageRecord, At("/dashboard") => page' = page,
           At("/settings") => page'.busy = page.busy /\ page'.result = page.result
    PROVE  IInv'
<1>1. /\ TabOK' /\ Arrives' /\ calls' \subseteq CallRecord
      /\ leaving' \in {"none", "/", "/login"} /\ due' \in Routes \cup {"none", "overtaken"}
      /\ returnPath' \in Routes \cup {"none"}
      /\ \A x \in calls' : x.kind \in Schedule \cup {"update"} => x \in calls \ {c}
      /\ \A x \in Chain' : x \in Chain \/ (c \in Chain /\ x.who = c.who)
  BY ContinueInv
<1>2. UNCHANGED <<session, success, user, onboarded, route, foreign, cache, creds>>
  BY DEF Continues
<1>3. Types'
  BY <1>1, <1>2 DEF IInv, Types
<1>4. /\ Of(Schedule)' \subseteq Of(Schedule) /\ Of({"ics"})' \subseteq Of({"ics"})
      /\ Awaited({"schedule"})' \subseteq Awaited({"schedule"})
      /\ Awaited({"update"})' \subseteq Awaited({"update"})
  <2>1. \A x \in Of(Schedule)' : x \in Of(Schedule)
    BY <1>1 DEF Of
  <2>2. \A x \in Of({"ics"})' : x \in Of({"ics"})
    BY <1>1 DEF Of, Schedule
  <2>3. \A x \in Awaited({"schedule"})' : x \in Awaited({"schedule"})
    BY <1>1 DEF Awaited, Of, Schedule
  <2>4. \A x \in Awaited({"update"})' : x \in Awaited({"update"})
    BY <1>1 DEF Awaited, Of
  <2> QED BY <2>1, <2>2, <2>3, <2>4
<1>5. DashboardOK'
  BY <1>2, <1>4 DEF IInv, DashboardOK, At
<1>6. SettingsOK'
  BY <1>2, <1>4 DEF IInv, SettingsOK, At
<1>7. Own'
  BY <1>1, <1>2, <1>4 DEF IInv, Own, At
<1> QED BY <1>1, <1>3, <1>5, <1>6, <1>7 DEF IInv

\* What the dashboard loads
LEMMA LoadedPage ==
    ASSUME NEW k \in Schedule, NEW ok \in BOOLEAN, page \in PageRecord
    PROVE  LET p == Loaded(page, k, Schedule, ok)
           IN  /\ p \in PageRecord /\ p.have = page.have \cup (IF ok THEN {k} ELSE {})
               /\ p.shows \in {{}, Schedule} /\ (p.shows # {} => Schedule \subseteq p.have)
               /\ p.ics = page.ics /\ p.sched = page.sched /\ p.anon = page.anon
<1> DEFINE have == page.have \cup (IF ok THEN {k} ELSE {})
           busy == page.busy /\ ok /\ ~(Schedule \subseteq have)
           shows == IF Schedule \subseteq have THEN Schedule ELSE {}
<1>1. Loaded(page, k, Schedule, ok) = [page EXCEPT !.have = have, !.busy = busy, !.shows = shows]
  BY DEF Loaded, PageRecord
<1>2. have \in SUBSET Kinds /\ busy \in BOOLEAN /\ shows \in SUBSET Kinds /\ shows \in {{}, Schedule}
      /\ (shows # {} => Schedule \subseteq have)
  BY DEF PageRecord, Kinds
<1>3. LET p == [page EXCEPT !.have = have, !.busy = busy, !.shows = shows]
      IN  /\ p \in PageRecord /\ p.have = have /\ p.shows = shows
          /\ p.ics = page.ics /\ p.sched = page.sched /\ p.anon = page.anon
  <2> HIDE DEF have, busy, shows
  <2> QED BY <1>2 DEF PageRecord
<1> QED BY <1>1, <1>2, <1>3

LEMMA DashboardInv ==
    ASSUME IInv, NEW c, Continues(c, {}), DashboardPage(c)
    PROVE  IInv'
<1>1. /\ c \in calls /\ c \in CallRecord /\ page \in PageRecord /\ c.who \in Accounts
      /\ UNCHANGED <<session, success, user, onboarded, route, foreign, creds>>
  BY DEF Continues, IInv, Types, CallRecord, DashboardPage
<1>2. Ok(c) \in BOOLEAN
  BY DEF Ok
<1>3. c.kind \in Schedule
  BY DEF DashboardPage, Schedule
<1>4. c \in Of(Schedule) /\ user \in Users /\ (Ok(c) => c.who \in Users /\ (~foreign => c.who = user))
  <2>1. c \in Of(Schedule)
    BY <1>1, <1>3 DEF Of
  <2> QED BY <2>1 DEF IInv, TabOK, Own
<1> DEFINE p == Loaded(page, c.kind, Schedule, Ok(c))
<1>5. /\ p \in PageRecord /\ p.have = page.have \cup (IF Ok(c) THEN {c.kind} ELSE {})
      /\ p.shows \in {{}, Schedule} /\ (p.shows # {} => Schedule \subseteq p.have)
      /\ p.ics = page.ics /\ p.sched = page.sched /\ p.anon = page.anon
  BY <1>1, <1>2, <1>3, LoadedPage
<1>6. /\ cache' = IF c.kind = "schedule" THEN cache ELSE IF Ok(c) THEN c.who ELSE "none"
      /\ page' \in {page} \cup (IF c.kind = "schedule" THEN {[p EXCEPT !.sched = c.who]}
                                                       ELSE {[p EXCEPT !.ics = c.who]})
      /\ page' # page => At("/dashboard")
      /\ At("/dashboard") =>
            \/ c.kind = "schedule" /\ c.for # "page" /\ page' = page
            \/ c.kind = "schedule" /\ c.for = "page" /\ page' = [p EXCEPT !.sched = c.who]
            \/ c.kind = "ics" /\ page' = [p EXCEPT !.ics = c.who]
  <2>1. c.kind = "schedule" /\ c.for = "page" => At("/dashboard")
    <3>1. user # Unknown
      BY <1>4, ClientAssumption
    <3>2. c.kind = "schedule" /\ c.for = "page" => "schedule" \in Sends(route)
      BY <1>1, <3>1 DEF IInv, TabOK
    <3>3. "schedule" \in Sends(route) => route = "/dashboard"
      BY DEF Sends, Overview
    <3> QED BY <3>1, <3>2, <3>3 DEF At
  <2>2. CASE c.kind = "schedule"
    BY <2>1, <2>2 DEF DashboardPage, Set
  <2>3. CASE c.kind = "ics"
    BY <2>3 DEF DashboardPage, At
  <2> QED BY <1>3, <2>2, <2>3 DEF Schedule
<1>7. LET s == [p EXCEPT !.sched = c.who]
          i == [p EXCEPT !.ics = c.who]
      IN  /\ s \in PageRecord /\ s.have = p.have /\ s.shows = p.shows /\ s.ics = p.ics
          /\ s.sched = c.who /\ s.anon = p.anon
          /\ i \in PageRecord /\ i.have = p.have /\ i.shows = p.shows /\ i.sched = p.sched
          /\ i.ics = c.who /\ i.anon = p.anon
  <2> HIDE DEF p
  <2> QED BY <1>1, <1>5 DEF PageRecord
<1> HIDE DEF p
<1>8. /\ TabOK' /\ Arrives' /\ calls' \subseteq CallRecord
      /\ leaving' \in {"none", "/", "/login"} /\ due' \in Routes \cup {"none", "overtaken"}
      /\ returnPath' \in Routes \cup {"none"}
      /\ \A x \in calls' : x.kind \in Schedule \cup {"update"} => x \in calls \ {c}
      /\ \A x \in Chain' : x \in Chain \/ (c \in Chain /\ x.who = c.who)
  <2>1. cache' = cache \/ (c.kind = "ics" /\ cache' \in Users \cup {"none"})
    BY <1>3, <1>4, <1>6 DEF Schedule
  <2>2. Follow(c, {})
    BY DEF Follow
  <2> QED BY <2>1, <2>2, ContinueInv
<1>9. page' \in PageRecord
  BY <1>1, <1>6, <1>7
<1>10. Types'
  <2>1. cache' \in Users \cup {"none", "pending"}
    BY <1>4, <1>6 DEF IInv, Types
  <2> QED BY <1>1, <1>8, <1>9, <2>1 DEF IInv, Types
<1>11. /\ Of(Schedule)' \subseteq Of(Schedule) /\ Of({"ics"})' \subseteq Of({"ics"}) \ {c}
       /\ Awaited({"schedule"})' \subseteq Awaited({"schedule"}) \ {c}
       /\ Awaited({"update"})' \subseteq Awaited({"update"})
  <2>1. \A x \in Of(Schedule)' : x \in Of(Schedule)
    BY <1>8 DEF Of
  <2>2. \A x \in Of({"ics"})' : x \in Of({"ics"}) \ {c}
    BY <1>8 DEF Of, Schedule
  <2>3. \A x \in Awaited({"schedule"})' : x \in Awaited({"schedule"}) \ {c}
    BY <1>8 DEF Awaited, Of, Schedule
  <2>4. \A x \in Awaited({"update"})' : x \in Awaited({"update"})
    BY <1>8 DEF Awaited, Of
  <2> QED BY <2>1, <2>2, <2>3, <2>4
<1>12. /\ c.kind = "schedule" /\ c.for = "page" => Awaited({"schedule"})' = {}
       /\ c.kind = "ics" => Of({"ics"})' = {}
  <2>1. /\ c.kind = "schedule" /\ c.for = "page" => c \in Awaited({"schedule"})
        /\ c.kind = "ics" => c \in Of({"ics"})
    BY <1>1 DEF Awaited, Of
  <2> QED BY <1>11, <2>1 DEF IInv, TabOK, AtMostOne
<1>13. DashboardOK'
  <2> SUFFICES ASSUME At("/dashboard") PROVE DashboardOK'
    BY <1>1 DEF DashboardOK, At
  <2>1. DashboardOK
    BY DEF IInv
  <2>2. CASE page' = page
    BY <1>11, <2>1, <2>2 DEF DashboardOK
  <2>3. CASE c.kind = "schedule" /\ c.for = "page" /\ page' = [p EXCEPT !.sched = c.who]
    BY <1>5, <1>7, <1>11, <1>12, <2>1, <2>3 DEF DashboardOK
  <2>4. CASE c.kind = "ics" /\ page' = [p EXCEPT !.ics = c.who]
    BY <1>5, <1>7, <1>11, <1>12, <2>1, <2>4 DEF DashboardOK
  <2> QED BY <1>6, <2>2, <2>3, <2>4
<1>14. SettingsOK'
  <2>1. At("/settings") => page' = page
    BY <1>6 DEF At
  <2> QED BY <1>1, <1>11, <2>1 DEF IInv, SettingsOK, At
<1>15. Own'
  <2> SUFFICES ASSUME ~foreign PROVE Own'
    BY <1>1 DEF Own
  <2>1. Own
    BY DEF IInv
  <2>2. cache' \in Users => cache' = user
    BY <1>4, <1>6, <2>1, ClientAssumption DEF Own
  <2>3. ASSUME At("/dashboard")
        PROVE  /\ "ics" \in page'.have => page'.ics = user
               /\ "schedule" \in page'.have => page'.sched = user
               /\ page'.anon => /\ session = NoUser /\ "schedule" \notin page'.have
                                /\ \A x \in Awaited({"schedule"})' : ~Ok(x)
    <3>1. CASE page' = page
      BY <1>11, <2>1, <2>3, <3>1 DEF Own
    <3>2. CASE c.kind = "schedule" /\ c.for = "page" /\ page' = [p EXCEPT !.sched = c.who]
      <4>1. c \in Awaited({"schedule"}) /\ "schedule" \notin page.have
        <5>1. c \in Awaited({"schedule"})
          BY <1>1, <3>2 DEF Awaited, Of
        <5> QED BY <2>3, <5>1 DEF IInv, DashboardOK
      <4> QED BY <1>4, <1>5, <1>7, <1>11, <1>12, <2>1, <2>3, <3>2, <4>1 DEF Own
    <3>3. CASE c.kind = "ics" /\ page' = [p EXCEPT !.ics = c.who]
      <4>1. "ics" \notin page.have
        <5>1. c \in Of({"ics"})
          BY <1>1, <3>3 DEF Of
        <5> QED BY <2>3, <5>1 DEF IInv, DashboardOK
      <4> QED BY <1>4, <1>5, <1>7, <1>11, <2>1, <2>3, <3>3, <4>1 DEF Own
    <3> QED BY <1>6, <2>3, <3>1, <3>2, <3>3
  <2> QED BY <1>1, <1>8, <1>11, <2>1, <2>2, <2>3 DEF Own, At
<1> QED BY <1>8, <1>10, <1>13, <1>14, <1>15 DEF IInv

LEMMA PageUpdates ==
    ASSUME page \in PageRecord, NEW b \in BOOLEAN, NEW res \in {"none", "error", "success"}
    PROVE  /\ [page EXCEPT !.busy = b, !.result = res] \in PageRecord
           /\ [page EXCEPT !.busy = b, !.result = res].result = res
           /\ [page EXCEPT !.busy = b, !.step = "pin"] \in PageRecord
           /\ [page EXCEPT !.deleting = b] \in PageRecord
           /\ [page EXCEPT !.deleting = b].busy = page.busy
           /\ [page EXCEPT !.deleting = b].result = page.result
BY DEF PageRecord

LEMMA OverviewPage ==
    ASSUME page \in PageRecord, NEW k \in Overview, NEW ok \in BOOLEAN
    PROVE  Loaded(page, k, Overview, ok) \in PageRecord
<1> DEFINE have == page.have \cup (IF ok THEN {k} ELSE {})
           busy == page.busy /\ ok /\ ~(Overview \subseteq have)
           shows == IF Overview \subseteq have THEN Overview ELSE {}
<1>1. Loaded(page, k, Overview, ok) = [page EXCEPT !.have = have, !.busy = busy, !.shows = shows]
  BY DEF Loaded, PageRecord
<1>2. have \in SUBSET Kinds /\ busy \in BOOLEAN /\ shows \in SUBSET Kinds
  BY DEF PageRecord, Kinds
<1> HIDE DEF have, busy, shows
<1> QED BY <1>1, <1>2 DEF PageRecord

\* The page that still waits for an answer is the one that has asked.
LEMMA WaitingPage ==
    ASSUME IInv, NEW c \in calls, c.out # "sent", c.for = "page"
    PROVE  /\ c.kind \in {"requestPin", "verify"} => route = "/login"
           /\ c.kind \in Overview => route = "/admin"
           /\ c.kind \in {"update", "delete"} => route = "/settings"
<1>1. c.kind \notin {"me", "timezone", "status"} => c.kind \in Sends(route)
  BY DEF IInv, TabOK
<1> QED BY <1>1 DEF Sends, Overview, Schedule

\* The continuations that only change the page, or go on with the next call
LEMMA QuietInv ==
    ASSUME IInv, NEW c, NEW more, Continues(c, more), Follow(c, more), UNCHANGED <<cache, creds>>,
           \/ page' = page
           \/ /\ c.for = "page" /\ c.kind = "verify"
              /\ \E res \in {"none", "error", "success"} :
                    page' = [page EXCEPT !.busy = FALSE, !.result = res]
           \/ /\ c.for = "page" /\ c.kind = "requestPin"
              /\ page' \in {[page EXCEPT !.busy = FALSE, !.step = "pin"],
                            [page EXCEPT !.busy = FALSE, !.result = "error"]}
           \/ /\ c.for = "page" /\ c.kind \in Overview
              /\ page' = Loaded(page, c.kind, Overview, Ok(c))
           \/ c.for = "page" /\ c.kind = "delete" /\ page' = [page EXCEPT !.deleting = Ok(c)]
    PROVE  IInv'
<1>1. /\ c \in calls /\ c.out # "sent" /\ c.kind \in Kinds /\ page \in PageRecord
      /\ Ok(c) \in BOOLEAN
  BY DEF Continues, IInv, Types, CallRecord, Ok
<1>2. page' \in PageRecord
  <2>1. \A res \in {"none", "error", "success"} :
           [page EXCEPT !.busy = FALSE, !.result = res] \in PageRecord
    BY <1>1, PageUpdates
  <2>2. [page EXCEPT !.busy = FALSE, !.step = "pin"] \in PageRecord
    BY <1>1 DEF PageRecord
  <2>3. [page EXCEPT !.deleting = Ok(c)] \in PageRecord
    BY <1>1, PageUpdates
  <2>4. c.kind \in Overview => Loaded(page, c.kind, Overview, Ok(c)) \in PageRecord
    BY <1>1, OverviewPage
  <2> QED BY <1>1, <2>1, <2>2, <2>3, <2>4
<1>3. /\ c.for = "page" /\ c.kind \in {"requestPin", "verify"} => route = "/login"
      /\ c.for = "page" /\ c.kind \in Overview => route = "/admin"
      /\ c.for = "page" /\ c.kind = "delete" => route = "/settings"
  BY <1>1, WaitingPage
<1>4. At("/dashboard") => page' = page
  BY <1>3 DEF At
<1>5. At("/settings") => page'.busy = page.busy /\ page'.result = page.result
  <2>1. CASE page' = page
    BY <2>1
  <2>2. CASE page' = [page EXCEPT !.deleting = Ok(c)]
    BY <1>1, <2>2, PageUpdates
  <2>3. At("/settings") /\ page' # page => page' = [page EXCEPT !.deleting = Ok(c)]
    BY <1>3 DEF At
  <2> QED BY <2>1, <2>2, <2>3
<1> QED BY <1>2, <1>4, <1>5, KeptInv

LEMMA UpdateInv ==
    ASSUME IInv, NEW c, Continues(c, {}), c.kind = "update", UNCHANGED <<cache, creds>>,
           Set(c, [page EXCEPT !.busy = FALSE, !.result = IF Ok(c) THEN "success" ELSE "error"])
    PROVE  IInv'
<1>1. CASE c.for # "page"
  <2>1. page' = page /\ Follow(c, {})
    BY <1>1 DEF Set, Follow
  <2> QED BY <2>1, QuietInv
<1>2. CASE c.for = "page"
  <2> DEFINE res == IF Ok(c) THEN "success" ELSE "error"
  <2>1. /\ c \in calls /\ c.out # "sent" /\ page \in PageRecord
        /\ UNCHANGED <<session, success, user, onboarded, route, foreign>>
    BY DEF Continues, IInv, Types
  <2>2. route = "/settings"
    BY <1>2, <2>1, WaitingPage
  <2>3. page' \in PageRecord /\ page'.result = res
    <3>1. page' = [page EXCEPT !.busy = FALSE, !.result = res] /\ res \in {"none", "error", "success"}
      BY <1>2 DEF Set
    <3> HIDE DEF res
    <3>2. FALSE \in BOOLEAN
      OBVIOUS
    <3> QED BY <2>1, <3>1, <3>2, PageUpdates
  <2>4. /\ TabOK' /\ Arrives' /\ calls' \subseteq CallRecord
        /\ leaving' \in {"none", "/", "/login"} /\ due' \in Routes \cup {"none", "overtaken"}
        /\ returnPath' \in Routes \cup {"none"}
        /\ \A x \in calls' : x.kind \in Schedule \cup {"update"} => x \in calls \ {c}
        /\ \A x \in Chain' : x \in Chain \/ (c \in Chain /\ x.who = c.who)
    <3>1. Follow(c, {})
      BY DEF Follow
    <3> QED BY <3>1, ContinueInv
  <2>5. Types'
    BY <2>1, <2>3, <2>4 DEF IInv, Types
  <2>6. DashboardOK'
    BY <2>1, <2>2 DEF DashboardOK, At
  <2>7. c \in Awaited({"update"}) /\ Awaited({"update"})' = {}
    <3>1. c \in Awaited({"update"})
      BY <1>2, <2>1 DEF Awaited, Of
    <3>2. \A x \in Awaited({"update"})' : x \in Awaited({"update"}) \ {c}
      BY <2>4 DEF Awaited, Of
    <3> QED BY <3>1, <3>2 DEF IInv, TabOK, AtMostOne
  <2>8. SettingsOK'
    BY <2>1, <2>3, <2>7 DEF IInv, SettingsOK, At
  <2>9. \A x \in Of(Schedule)' : x \in Of(Schedule)
    BY <2>4 DEF Of
  <2>10. Own'
    BY <2>1, <2>2, <2>4, <2>9 DEF IInv, Own, At
  <2> QED BY <2>4, <2>5, <2>6, <2>8, <2>10 DEF IInv
<1> QED BY <1>1, <1>2

\* The next call of a chain
LEMMA NextCall ==
    ASSUME NEW kind \in {"timezone", "status"}, NEW w \in Accounts
    PROVE  LET x == [Call(kind, w) EXCEPT !.for = "tab"]
           IN  /\ x \in CallRecord /\ x.kind = kind /\ x.who = w /\ x.out = "sent" /\ x.for = "tab"
BY DEF Call, CallRecord, Kinds

\* The ones of Boot that do not render, and those of the pages but for logout
LEMMA ContinuationsInv ==
    ASSUME IInv, NEW c, Deliver(c),
           ~(c.kind \in {"logout", "status"} \/ (c.kind = "me" /\ ~Ok(c)))
    PROVE  IInv'
<1>1. /\ c \in calls /\ c.out # "sent" /\ c \in CallRecord /\ c.who \in Accounts
      /\ UNCHANGED <<session, success, foreign>>
      /\ due' = IF c.out = "barrier" THEN Hides
                ELSE IF c.kind = "logout" THEN "none" ELSE due
  BY DEF Deliver, IInv, Types, CallRecord
<1>2. returnPath' = Hidden(c)
  BY DEF Deliver, Boot, Ok
<1> DEFINE Next1(kind) == [Call(kind, c.who) EXCEPT !.for = "tab"]
<1>3. ASSUME NEW kind \in {"timezone", "status"}, kind = "timezone" => c.kind = "me", c \in Chain
      PROVE  Follow(c, {Next1(kind)})
  <2>1. /\ Next1(kind) \in CallRecord /\ Next1(kind).kind = kind /\ Next1(kind).who = c.who
        /\ Next1(kind).out = "sent" /\ Next1(kind).for = "tab"
    BY <1>1, NextCall
  <2> HIDE DEF Next1
  <2> QED BY <1>3, <2>1 DEF Follow
<1>4. Follow(c, {})
  BY DEF Follow
<1>5. CASE Boot(c)
  <2>1. PICK kind \in {"timezone", "status"} :
            /\ Then(c, kind) /\ Redirect(c) /\ UNCHANGED <<app, route, page, creds>>
            /\ kind = "timezone" => c.kind = "me"
            /\ c \in Chain
    BY <1>1, <1>5 DEF Boot, Chain, Ok
  <2>2. Continues(c, {Next1(kind)})
    BY <1>1, <1>2, <2>1 DEF Continues, Then, app
  <2>3. Follow(c, {Next1(kind)})
    BY <1>3, <2>1
  <2> QED BY <2>1, <2>2, <2>3, QuietInv DEF app
<1>6. CASE LoginPage(c) /\ Redirect(c)
  <2>1. UNCHANGED <<user, onboarded, cache, route, creds>>
    BY <1>6 DEF LoginPage, app
  <2>2. CASE PinRequested(c)
    <3>1. Continues(c, {})
      BY <1>1, <1>2, <1>6, <2>1, <2>2 DEF Continues, PinRequested
    <3>2. \/ page' = page
          \/ /\ c.for = "page" /\ c.kind = "requestPin"
             /\ page' \in {[page EXCEPT !.busy = FALSE, !.step = "pin"],
                           [page EXCEPT !.busy = FALSE, !.result = "error"]}
      BY <2>2 DEF PinRequested, Set
    <3> QED BY <1>4, <2>1, <3>1, <3>2, QuietInv
  <2>3. CASE c.kind = "verify"
    <3>1. PICK more :
             /\ calls' = Rest(c) \cup more
             /\ more = {} \/ (Ok(c) /\ more = {Next1("status")})
      BY <1>6, <2>3 DEF LoginPage, PinRequested, Then
    <3>2. Follow(c, more)
      <4>1. Ok(c) => c \in Chain
        BY <1>1, <2>3 DEF Chain
      <4> QED BY <1>3, <1>4, <2>3, <3>1, <4>1
    <3>3. Continues(c, more)
      BY <1>1, <1>2, <1>6, <2>1, <3>1 DEF Continues
    <3>4. \/ page' = page
          \/ /\ c.for = "page" /\ c.kind = "verify"
             /\ \E res \in {"none", "error", "success"} :
                   page' = [page EXCEPT !.busy = FALSE, !.result = res]
      <4>1. page.result \in {"none", "error", "success"}
        BY DEF IInv, Types, PageRecord
      <4>2. \/ page' = page
            \/ /\ c.for = "page"
               /\ page' = [page EXCEPT !.busy = FALSE, !.result = IF Ok(c) THEN page.result ELSE "error"]
        BY <1>6, <2>3 DEF LoginPage, PinRequested, Set
      <4>3. (IF Ok(c) THEN page.result ELSE "error") \in {"none", "error", "success"}
        BY <4>1
      <4> QED BY <2>3, <4>2, <4>3
    <3> QED BY <2>1, <3>2, <3>3, <3>4, QuietInv
  <2> QED BY <1>6, <2>2, <2>3 DEF LoginPage
<1>7. CASE DashboardPage(c) /\ Redirect(c)
  <2>1. Continues(c, {})
    BY <1>1, <1>2, <1>7 DEF Continues, DashboardPage
  <2> QED BY <1>7, <2>1, DashboardInv
<1>8. CASE AdminPage(c) /\ Redirect(c)
  <2>1. UNCHANGED <<user, onboarded, cache, route, creds>>
    BY <1>8 DEF AdminPage, app
  <2>2. PICK more :
           /\ calls' = Rest(c) \cup more
           /\ \/ more = {}
              \/ c.kind = "trigger" /\ more = {[c EXCEPT !.kind = "timer"]}
              \/ c.kind = "timer" /\ more = {[Sent(k) EXCEPT !.for = c.for] : k \in Overview}
    <3>1. CASE c.kind \in Overview
      BY <1>8, <3>1 DEF AdminPage, Overview
    <3>2. CASE c.kind = "trigger"
      BY <1>8, <3>2 DEF AdminPage, Overview
    <3>3. CASE c.kind = "timer"
      BY <1>8, <3>3 DEF AdminPage, Overview
    <3> QED BY <1>8, <3>1, <3>2, <3>3 DEF AdminPage
  <2>3. Follow(c, more)
    <3>1. /\ [c EXCEPT !.kind = "timer"] \in CallRecord /\ [c EXCEPT !.kind = "timer"].kind = "timer"
          /\ [c EXCEPT !.kind = "timer"].for = c.for
      BY <1>1 DEF CallRecord, Kinds
    <3>2. ASSUME NEW k \in Overview
          PROVE  /\ [Sent(k) EXCEPT !.for = c.for] \in CallRecord
                 /\ [Sent(k) EXCEPT !.for = c.for].kind = k
                 /\ [Sent(k) EXCEPT !.for = c.for].for = c.for
      <4>1. k \in Kinds /\ c.for \in {"page", "tab", "nobody"}
        BY <1>1 DEF Kinds, CallRecord
      <4>2. Sent(k) \in CallRecord /\ Sent(k).kind = k
        BY <4>1, Sending
      <4> QED BY <4>1, <4>2 DEF CallRecord
    <3>3. ASSUME NEW x \in more
          PROVE  x \in CallRecord /\ x.kind \in Overview \cup {"timer"} /\ x.for = c.for
                 /\ c.kind \in {"trigger", "timer"}
      <4>1. CASE more = {[c EXCEPT !.kind = "timer"]} /\ c.kind = "trigger"
        BY <3>1, <4>1
      <4>2. CASE more = {[Sent(k) EXCEPT !.for = c.for] : k \in Overview} /\ c.kind = "timer"
        BY <3>2, <4>2
      <4> QED BY <2>2, <4>1, <4>2
    <3> QED BY <3>3 DEF Follow
  <2>4. Continues(c, more)
    BY <1>1, <1>2, <1>8, <2>1, <2>2 DEF Continues
  <2>5. \/ page' = page
        \/ c.for = "page" /\ c.kind \in Overview /\ page' = Loaded(page, c.kind, Overview, Ok(c))
    BY <1>8 DEF AdminPage, Set
  <2> QED BY <2>1, <2>3, <2>4, <2>5, QuietInv
<1>9. CASE SettingsPage(c)
  <2>1. /\ UNCHANGED <<user, onboarded, cache, route, creds>> /\ calls' = Rest(c)
        /\ c.kind \in {"update", "delete", "read"}
    BY <1>9 DEF SettingsPage, app
  <2>2. Continues(c, {})
    <3>1. Redirect(c) \/ (leaving' = "/login" /\ c.out # "barrier")
      BY <1>9 DEF SettingsPage, Ok
    <3> QED BY <1>1, <1>2, <2>1, <3>1 DEF Continues
  <2>3. CASE c.kind = "update"
    BY <1>9, <2>1, <2>2, <2>3, UpdateInv DEF SettingsPage
  <2>4. CASE c.kind = "delete"
    BY <1>4, <1>9, <2>1, <2>2, <2>4, QuietInv DEF SettingsPage, Set
  <2>5. CASE c.kind = "read"
    BY <1>4, <1>9, <2>1, <2>2, <2>5, QuietInv DEF SettingsPage
  <2> QED BY <2>1, <2>3, <2>4, <2>5
<1> QED BY <1>5, <1>6, <1>7, <1>8, <1>9 DEF Deliver

\* The bot barrier's page in place of App's user, while config is still under way
LEMMA BarrierInv ==
    ASSUME IInv, NEW c, Deliver(c), c.kind = "me", c.out = "barrier"
    PROVE  IInv'
<1> DEFINE new == [c EXCEPT !.out = "fail"]
<1>1. /\ c \in calls /\ c \in CallRecord /\ c.for # "nobody"
      /\ UNCHANGED <<session, success, foreign>> /\ due' = Hides
  BY DEF Deliver, IInv, Types, TabOK
<1>2. /\ calls' = Rest(c) \cup {new} /\ returnPath' = route /\ leaving' = "/"
      /\ UNCHANGED <<user, onboarded, cache, route, page, creds>>
  <2>1. Boot(c)
    BY DEF Deliver, LoginPage, PinRequested, DashboardPage, AdminPage, SettingsPage, Overview, Schedule
  <2> QED BY <2>1 DEF Boot, Ok, Hidden, Redirect, app
<1>3. new \in CallRecord /\ new.kind = c.kind /\ new.who = c.who /\ new.for = c.for /\ new.out = "fail"
  BY <1>1, Replies
<1> HIDE DEF new
<1>4. Settle(c, new) /\ ~Ok(new)
  BY <1>1, <1>2, <1>3 DEF Settle, Rest, Ok
<1>5. TabOK' /\ DashboardOK' /\ Own' /\ SettingsOK' /\ calls' \subseteq CallRecord
  BY <1>1, <1>2, <1>3, <1>4, RefusedInv
<1>6. due' \in {route, "overtaken"}
  BY <1>1 DEF Hides
<1>7. Types'
  BY <1>1, <1>2, <1>5, <1>6 DEF IInv, Types
<1>8. Arrives'
  BY <1>2, <1>6 DEF Arrives, Routes
<1> QED BY <1>5, <1>7, <1>8 DEF IInv

\* The answer to config, or what comes in place of it; and a stuttering step
LEMMA ConfigInv ==
    ASSUME IInv, Configured \/ Unconfigured \/ UNCHANGED vars
    PROVE  IInv'
<1>1. UNCHANGED <<session, success, creds, user, onboarded, cache, route, page, calls, foreign>>
  BY DEF Configured, Unconfigured, vars, server, app, place
<1>2. \/ UNCHANGED <<returnPath, leaving, due>>
      \/ returnPath' = route /\ leaving' = "/" /\ due' \in {route, "overtaken"}
  BY DEF Configured, Unconfigured, Hides, vars, place
<1>3. /\ UNCHANGED <<Chain, Booting>>
      /\ \A k : Of(k)' = Of(k) /\ Awaited(k)' = Awaited(k)
  BY <1>1 DEF Chain, Of, Awaited, Booting
<1>4. Types'
  BY <1>1, <1>2 DEF IInv, Types
<1>5. TabOK' /\ DashboardOK' /\ SettingsOK'
  BY <1>1, <1>3 DEF IInv, TabOK, DashboardOK, SettingsOK, AtMostOne, At
<1>6. Own'
  BY <1>1, <1>3 DEF IInv, Own, At
<1>7. Arrives'
  <2>1. CASE UNCHANGED <<returnPath, leaving, due>>
    BY <1>1, <1>3, <2>1 DEF IInv, Arrives, Served
  <2>2. CASE returnPath' = route /\ leaving' = "/" /\ due' \in {route, "overtaken"}
    BY <1>1, <2>2 DEF Arrives, Routes
  <2> QED BY <1>2, <2>1, <2>2
<1> QED BY <1>4, <1>5, <1>6, <1>7 DEF IInv

\* navigate(r): the page mounts, or the login page stays
LEMMA GotoInv ==
    ASSUME IInv, NEW r \in Routes, NEW cs \in SUBSET calls, Goto(r, cs), user # Unknown,
           r = route => r = "/login", due' = "none",
           UNCHANGED <<session, success, user, onboarded, foreign>>,
           leaving' \in {"none", "/", "/login"}, returnPath' \in Routes \cup {"none"}
    PROVE  IInv'
<1> DEFINE to == Resolve(r, user, onboarded)
<1>1. /\ user \in Accounts /\ onboarded \in BOOLEAN /\ session \in Accounts
      /\ success \subseteq Users /\ foreign \in BOOLEAN
  BY DEF IInv, Types
<1>2. /\ to \in Routes /\ (to = "/dashboard" => user \in Users) /\ (user \in Users => to # "/login")
      /\ user = NoUser /\ r = "/login" => to = r
  BY <1>1, Resolves
<1>3. route' = to
  BY DEF Goto
<1>4. \A c \in calls : c.kind \notin {"me", "timezone"} /\ (c.for = "nobody" => c.out = "sent")
  BY DEF IInv, TabOK, Of
<1>5. TabOK /\ Own
  BY DEF IInv
<1> HIDE DEF to
<1>6. CASE r = route
  <2>1. /\ user = NoUser /\ route' = "/login" /\ route = "/login" /\ calls' = cs
        /\ UNCHANGED <<page, cache, creds>>
    BY <1>1, <1>2, <1>3, <1>5, <1>6 DEF TabOK, Goto, Accounts
  <2>2. \A x \in calls' : x \in calls
    BY <2>1
  <2>3. /\ \A x \in Chain' : x \in Chain
        /\ \A k : \A x \in Of(k)' : x \in Of(k)
        /\ \A k : \A x \in Awaited(k)' : x \in Awaited(k)
    BY <2>2 DEF Chain, Of, Awaited
  <2>4. Types'
    BY <2>1, <2>2 DEF IInv, Types
  <2>5. TabOK'
    BY <1>5, <2>1, <2>2, <2>3 DEF TabOK, AtMostOne
  <2>6. DashboardOK' /\ SettingsOK'
    BY <2>1 DEF DashboardOK, SettingsOK, At
  <2>7. Own'
    BY <1>5, <2>1, <2>3 DEF Own, At
  <2>8. Arrives'
    BY DEF Arrives, Routes
  <2> QED BY <2>4, <2>5, <2>6, <2>7, <2>8 DEF IInv
<1>7. CASE r # route
  <2>1. Mount(to, cs)
    BY <1>7 DEF Goto, to
  <2>2. /\ TabOK' /\ DashboardOK' /\ Own' /\ SettingsOK'
        /\ page' \in PageRecord /\ calls' \subseteq CallRecord
        /\ cache' \in Users \cup {"none", "pending"} /\ creds' = "older"
    <3>1. ~foreign /\ user \in Users => /\ session \in {user, NoUser}
                                        /\ \A c \in cs \cap Chain : c.who = user
      BY <1>5 DEF Own
    <3> QED BY <1>1, <1>2, <1>3, <1>4, <2>1, <3>1, MountInv
  <2>3. Types'
    BY <1>1, <1>2, <1>3, <2>2 DEF IInv, Types
  <2>4. Arrives'
    BY DEF Arrives, Routes
  <2> QED BY <2>2, <2>3, <2>4 DEF IInv
<1> QED BY <1>6, <1>7

LEMMA NavigateInv ==
    ASSUME IInv, Free, NEW r \in Routes, Navigate(r)
    PROVE  IInv'
<1>1. /\ Goto(r, calls) /\ r # route /\ due' = "none" /\ user # Unknown
      /\ UNCHANGED <<session, success, user, onboarded, returnPath, leaving, foreign>>
  BY DEF Navigate, Free
<1>2. leaving' \in {"none", "/", "/login"} /\ returnPath' \in Routes \cup {"none"}
  BY <1>1 DEF IInv, Types
<1> QED BY <1>1, <1>2, GotoInv

LEMMA LogoutInv ==
    ASSUME IInv, NEW c, Deliver(c), c.kind = "logout"
    PROVE  IInv'
<1>1. /\ c \in calls /\ c.out # "sent" /\ c \in CallRecord
      /\ LoggedOut(c) /\ Redirect(c) /\ returnPath' = Hidden(c)
      /\ UNCHANGED <<session, success, foreign, user, onboarded>>
  BY DEF Deliver, Boot, LoginPage, PinRequested, DashboardPage, AdminPage, SettingsPage, Overview,
         LoggedOut, IInv, Types
<1>2. due' = IF c.out = "barrier" THEN Hides ELSE "none"
  BY DEF Deliver
<1>3. CASE Ok(c)
  <2>1. user # Unknown
    BY <1>1 DEF IInv, TabOK
  <2>2. Goto("/login", Rest(c)) /\ due' = "none"
    BY <1>1, <1>2, <1>3 DEF LoggedOut, Ok
  <2>3. leaving' \in {"none", "/", "/login"} /\ returnPath' \in Routes \cup {"none"}
    BY <1>1 DEF Redirect, Hidden, IInv, Types
  <2>4. "/login" \in Routes /\ Rest(c) \in SUBSET calls
    BY DEF Routes, Rest
  <2> QED BY <1>1, <2>1, <2>2, <2>3, <2>4, GotoInv
<1>4. CASE ~Ok(c)
  <2>1. Continues(c, {}) /\ UNCHANGED <<page, cache, creds>>
    BY <1>1, <1>2, <1>4 DEF Continues, LoggedOut
  <2>2. Follow(c, {})
    BY DEF Follow
  <2> QED BY <2>1, <2>2, QuietInv
<1> QED BY <1>3, <1>4

\* App's first render, and the one after a sign-in
LEMMA RenderInv ==
    ASSUME IInv, NEW c, Deliver(c),
           c.kind = "status" \/ (c.kind = "me" /\ c.out \in {"401", "fail"})
    PROVE  IInv'
<1> DEFINE u == IF c.kind = "me" THEN NoUser ELSE c.who
           on == IF c.kind = "me" THEN FALSE ELSE c.out = "yes"
           back == user = Unknown /\ Hidden(c) \notin {"none", "/", route}
           own == Resolve(route, u, on)
           goal == IF back /\ own = route THEN Resolve(Hidden(c), u, on) ELSE own
<1>1. /\ c \in calls /\ c.out # "sent" /\ c \in CallRecord
      /\ UNCHANGED <<session, success, foreign>>
      /\ due' = IF c.out = "barrier" THEN Hides ELSE due
  BY DEF Deliver, IInv, Types
<1>2. Render(u, on, c)
  <2>1. Boot(c)
    BY DEF Deliver, LoginPage, PinRequested, DashboardPage, AdminPage, SettingsPage, Overview
  <2> QED BY <2>1 DEF Boot, Ok
<1>3. /\ user' = u /\ onboarded' = on /\ route' = goal /\ Redirect(c)
      /\ returnPath' = IF back THEN "none" ELSE Hidden(c)
      /\ IF user # Unknown /\ goal = route
         THEN calls' = Rest(c) /\ UNCHANGED <<page, cache, creds>> ELSE Mount(goal, Rest(c))
  BY <1>2 DEF Render
<1>4. TabOK /\ Own /\ Types
  BY DEF IInv
<1>5. c.kind = "status" => c \in Chain /\ c.who \in Users /\ u = c.who
  BY <1>1, <1>4 DEF Chain, TabOK
<1>6. u \in Accounts /\ on \in BOOLEAN /\ (u \in Users => c.kind = "status")
  BY <1>5, ClientAssumption DEF Accounts
<1>7. Hidden(c) \in Routes \cup {"none"} /\ route \in Routes
  BY <1>4 DEF Hidden, Types
<1>8. user \in Users => c.kind = "status"
  BY <1>1, <1>4, ClientAssumption DEF TabOK, Of
<1>9. user = Unknown => \A x \in Rest(c) : x.for = "nobody" /\ x.out = "sent"
  <2>1. c \in Booting
    BY <1>1 DEF Booting, Of
  <2>2. user = Unknown => \A x \in Rest(c) : x \notin Booting
    BY <1>4, <2>1 DEF TabOK, AtMostOne, Rest
  <2> QED BY <1>4, <2>2 DEF TabOK, Booting, Of, Rest
<1> HIDE DEF u, on, back
<1>10. /\ goal \in Routes /\ (goal = "/dashboard" => u \in Users) /\ (u \in Users => goal # "/login")
  <2>1. \A r \in Routes : /\ Resolve(r, u, on) \in Routes
                          /\ Resolve(r, u, on) = "/dashboard" => u \in Users
                          /\ u \in Users => Resolve(r, u, on) # "/login"
    BY <1>6, Resolves
  <2>2. back => Hidden(c) \in Routes
    BY <1>7 DEF back
  <2> QED BY <1>7, <2>1, <2>2
<1>11. user' # Unknown /\ user' \in Accounts
  BY <1>3, <1>6, ClientAssumption DEF Accounts
<1>12. ~foreign => /\ user \in Users => user = u
                   /\ u \in Users => /\ session \in {u, NoUser}
                                     /\ \A x \in Chain : x.who = u
  BY <1>4, <1>5, <1>6, <1>8 DEF Own
<1>13. /\ leaving' \in {"none", "/", "/login"} /\ due' \in Routes \cup {"none", "overtaken"}
       /\ returnPath' \in Routes \cup {"none"}
  BY <1>1, <1>3, <1>4, <1>7 DEF Redirect, Hides, Types
<1>14. /\ TabOK' /\ DashboardOK' /\ Own' /\ SettingsOK'
       /\ page' \in PageRecord /\ calls' \subseteq CallRecord
       /\ cache' \in Users \cup {"none", "pending"} /\ creds' \in {"older", creds}
       /\ user = Unknown => Chain' = {}
  <2>1. CASE user # Unknown /\ goal = route
    <3>1. calls' = Rest(c) /\ UNCHANGED <<page, cache, creds, route>>
      BY <1>3, <2>1
    <3>2. /\ \A x \in calls' : x \in calls
          /\ \A x \in Chain' : x \in Chain
          /\ \A k : \A x \in Of(k)' : x \in Of(k)
          /\ \A k : \A x \in Awaited(k)' : x \in Awaited(k)
      BY <3>1 DEF Rest, Chain, Of, Awaited
    <3>3. c.kind = "status" /\ u \in Users
      BY <1>1, <1>4, <1>5, <2>1 DEF TabOK, Of
    <3>4. TabOK'
      <4>1. Of({"me", "timezone"})' = {}
        BY <1>4, <2>1, <3>2 DEF TabOK
      <4> QED BY <1>3, <1>4, <1>10, <1>11, <2>1, <3>1, <3>2, <3>3, <4>1, ClientAssumption
          DEF TabOK, AtMostOne
    <3>5. DashboardOK' /\ SettingsOK'
      <4>1. At("/dashboard")' = At("/dashboard") /\ At("/settings")' = At("/settings")
        BY <1>11, <2>1, <3>1 DEF At
      <4> QED BY <3>1, <3>2, <4>1 DEF IInv, DashboardOK, SettingsOK
    <3>6. Own'
      <4> SUFFICES ASSUME ~foreign PROVE Own'
        BY <1>1 DEF Own
      <4>1. \A x \in Of(Schedule)' : Ok(x) => x.who = user'
        BY <1>3, <1>4, <1>12, <3>2 DEF Own, TabOK
      <4>2. cache \in Users => cache = user'
        BY <1>3, <1>4, <1>12, ClientAssumption DEF Own, TabOK
      <4>3. At("/dashboard")' => At("/dashboard") /\ user = user'
        <5>1. At("/dashboard")' => At("/dashboard")
          BY <2>1, <3>1 DEF At
        <5>2. At("/dashboard") => user \in Users
          BY <1>4, <2>1 DEF At, TabOK, Types, Accounts
        <5> QED BY <1>3, <1>12, <5>1, <5>2
      <4> QED BY <1>1, <1>3, <1>4, <1>12, <3>1, <3>2, <3>3, <4>1, <4>2, <4>3 DEF Own
    <3> QED BY <1>4, <2>1, <3>1, <3>2, <3>4, <3>5, <3>6 DEF Types
  <2>2. CASE ~(user # Unknown /\ goal = route)
    <3>1. Mount(goal, Rest(c))
      BY <1>3, <2>2
    <3>2. \A x \in Rest(c) : x.kind \notin {"me", "timezone"} /\ (x.for = "nobody" => x.out = "sent")
      <4>1. CASE user = Unknown
        BY <1>4, <1>9, <4>1 DEF TabOK, Effective, Rest
      <4>2. CASE user # Unknown
        BY <1>4, <4>2 DEF TabOK, Of, Rest
      <4> QED BY <4>1, <4>2
    <3>3. user = Unknown => Rest(c) \cap Chain = {}
      BY <1>4, <1>9 DEF TabOK, Effective, Rest, Chain, Ok
    <3>4. Rest(c) \in SUBSET calls /\ (user \in Users => u \in Users)
      BY <1>5, <1>8 DEF Rest
    <3> HIDE DEF goal
    <3> QED BY <1>1, <1>3, <1>10, <1>11, <1>12, <3>1, <3>2, <3>3, <3>4, MountInv
  <2> QED BY <2>1, <2>2
<1>15. Types'
  BY <1>1, <1>3, <1>4, <1>6, <1>10, <1>13, <1>14 DEF Types
<1>16. Arrives'
  <2>1. CASE c.out = "barrier"
    <3>1. leaving' = "/" /\ returnPath' = route
      BY <1>3, <2>1 DEF Redirect, Hidden, back
    <3> QED BY <1>1, <1>11, <2>1, <3>1 DEF Arrives, Hides, Routes
  <2>2. CASE c.out # "barrier"
    <3> SUFFICES ASSUME due \in Routes, leaving' # "/login" PROVE Arrives'
      BY <1>1, <1>13, <2>2 DEF Arrives
    <3>1. /\ leaving' = leaving /\ due' = due /\ Hidden(c) = returnPath
          /\ c.kind = "status" => c.out # "401"
      BY <1>1, <1>3, <2>2 DEF Redirect, Hidden
    <3>2. Arrives
      BY DEF IInv
    <3>3. CASE leaving = "/"
      <4>1. ~back
        BY <3>1, <3>2, <3>3 DEF back, Arrives
      <4> QED BY <1>3, <1>11, <3>1, <3>2, <3>3, <4>1 DEF Arrives
    <3>4. CASE leaving = "none"
      <4>1. user = Unknown
        BY <1>1, <1>4, <1>5, <3>2, <3>4 DEF Arrives, TabOK, Of
      <4>2. ASSUME u \in Users PROVE goal = Resolve(due, u, session \in success)
        <5>1. c.kind = "status" /\ c \in Booting /\ c \in Chain /\ u = c.who
          BY <1>1, <1>5, <1>6, <4>2 DEF Booting, Of
        <5>2. u = session /\ c.out = Served(c)
          BY <1>1, <2>2, <3>1, <3>2, <3>4, <4>1, <5>1 DEF Arrives
        <5>3. on = (session \in success)
          BY <5>1, <5>2 DEF on, Served
        <5>4. \A r \in Routes : /\ Resolve(r, u, on) # "/login"
                                /\ r = "/" => Resolve(r, u, on) = r
          BY <1>6, <4>2, Resolves
        <5>5. goal = Resolve(due, u, on)
          <6>1. CASE route = due /\ (due = "/login" \/ returnPath \in {"none", "/", route})
            BY <1>7, <3>1, <5>4, <6>1 DEF back
          <6>2. CASE route = "/" /\ returnPath = due
            BY <1>7, <3>1, <4>1, <5>4, <6>2 DEF back, Routes
          <6> QED BY <3>2, <3>4, <4>1, <6>1, <6>2 DEF Arrives
        <5> QED BY <5>3, <5>5
      <4> QED BY <1>1, <1>3, <1>11, <1>14, <3>1, <3>4, <4>1, <4>2 DEF Arrives
    <3> QED BY <1>4, <3>1, <3>3, <3>4 DEF Types
  <2> QED BY <2>1, <2>2
<1> QED BY <1>14, <1>15, <1>16 DEF IInv

-----------------------------------------------------------------------------
LEMMA NextIInv == IInv /\ [Next]_vars => IInv'
<1> SUFFICES ASSUME IInv, [Next]_vars PROVE IInv'
  OBVIOUS
<1>1. CASE Network
  BY <1>1, SignInInv, FailInv, SignOutInv, ServeInv DEF Network
<1>2. CASE \E c \in calls : Fails(c) \/ Barred(c)
  BY <1>2, FailInv
<1>3. CASE ScrapeSucceeds \/ Elsewhere \/ Onboarded
  BY <1>3, WorldInv
<1>4. CASE Script
  <2>1. PICK c \in calls : Deliver(c)
    BY <1>4 DEF Script
  <2>2. c.kind = "me" /\ ~Ok(c) => c.out \in {"401", "fail", "barrier"}
    BY <2>1 DEF Deliver, IInv, Types, CallRecord, Ok
  <2> QED BY <2>1, <2>2, ContinuationsInv, LogoutInv, RenderInv, BarrierInv
<1>5. CASE Unload
  BY <1>5, LoadsInv
<1>6. CASE UserActs
  <2>1. ASSUME NEW r \in Routes, TypeUrl(r) PROVE IInv'
    BY <2>1, LoadsInv
  <2>2. ASSUME NEW r \in Routes, Navigate(r) PROVE IInv'
    BY <1>6, <2>2, NavigateInv DEF UserActs
  <2>3. CASE \/ RequestPin \/ VerifyPin \/ DifferentEmail \/ UpdateCredentials \/ DeleteAccount
             \/ Logout \/ Trigger
    BY <1>6, <2>3, HandlersInv DEF UserActs
  <2> QED BY <1>6, <2>1, <2>2, <2>3 DEF UserActs
<1>7. CASE Configured \/ Unconfigured \/ UNCHANGED vars
  BY <1>7, ConfigInv
<1> QED BY <1>1, <1>2, <1>3, <1>4, <1>5, <1>6, <1>7 DEF Next

\* The invariant holds of every tab and server: whose requests are under way, what
\* each page's effects may have asked for, and where the load in progress leads.
THEOREM Invariance == Spec => []IInv
<1>1. Init => IInv
  BY InitIInv
<1>2. IInv /\ [Next]_vars => IInv'
  BY NextIInv
<1> QED BY <1>1, <1>2, PTL DEF Spec

ConfigOK == config \in {"none", "pending", "done"}

LEMMA MountConfig ==
    ASSUME ConfigOK, NEW r, NEW cs, Mount(r, cs)
    PROVE  ConfigOK'
BY DEF Mount, Ask, ConfigOK

LEMMA NextConfig == ConfigOK /\ [Next]_vars => ConfigOK'
<1> SUFFICES ASSUME ConfigOK, [Next]_vars PROVE ConfigOK'
  OBVIOUS
<1>1. CASE Network \/ (\E c \in calls : Fails(c) \/ Barred(c)) \/ ScrapeSucceeds \/ Elsewhere
           \/ Onboarded \/ UNCHANGED vars
  BY <1>1 DEF Network, SignIn, WrongPin, SignOut, Serve, Fails, Barred, ScrapeSucceeds, Elsewhere,
              Onboarded, app, vars, ConfigOK
<1>2. CASE Configured \/ Unconfigured
  BY <1>2 DEF Configured, Unconfigured, ConfigOK
<1>3. ASSUME NEW r, Load(r) PROVE ConfigOK'
  BY <1>3 DEF Load, ConfigOK
<1>4. ASSUME NEW r, NEW cs, Goto(r, cs) PROVE ConfigOK'
  BY <1>4, MountConfig DEF Goto, ConfigOK
<1>5. CASE Unload
  BY <1>3, <1>5 DEF Unload
<1>6. CASE UserActs
  <2>1. CASE \E r \in Routes : TypeUrl(r) \/ Navigate(r)
    BY <1>3, <1>4, <2>1 DEF TypeUrl, Navigate
  <2>2. CASE \/ RequestPin \/ VerifyPin \/ DifferentEmail \/ UpdateCredentials \/ DeleteAccount
             \/ Logout \/ Trigger
    BY <2>2 DEF RequestPin, VerifyPin, DifferentEmail, UpdateCredentials, DeleteAccount, Logout,
                Trigger, Handler, app, ConfigOK
  <2> QED BY <1>6, <2>1, <2>2 DEF UserActs
<1>7. CASE Script
  <2>1. PICK c \in calls : Deliver(c)
    BY <1>7 DEF Script
  <2>2. CASE Boot(c)
    <3>1. ASSUME NEW u, NEW on, Render(u, on, c) PROVE ConfigOK'
      BY <3>1, MountConfig DEF Render, ConfigOK
    <3> QED BY <2>2, <3>1 DEF Boot, app, ConfigOK
  <2>3. CASE LoginPage(c) \/ DashboardPage(c) \/ AdminPage(c)
    BY <2>3 DEF LoginPage, DashboardPage, AdminPage, Footer, Ask, app, ConfigOK
  <2>4. CASE SettingsPage(c)
    BY <1>4, <2>4 DEF SettingsPage, LoggedOut, Ask, app, ConfigOK
  <2> QED BY <2>1, <2>2, <2>3, <2>4 DEF Deliver
<1> QED BY <1>1, <1>2, <1>5, <1>6, <1>7 DEF Next

\* Types of the server's session, App's state and the requests under way, whatever
\* the continuation of a request that outlives its page sets.
THEOREM TypeCorrect == Spec => []TypeOK
<1>1. IInv /\ ConfigOK => TypeOK
  <2> SUFFICES ASSUME Types, TabOK, ConfigOK PROVE TypeOK
    BY DEF IInv
  <2>1. page.busy \in BOOLEAN /\ page.deleting \in BOOLEAN
    BY DEF Types, PageRecord
  <2>2. \A c \in calls : c.kind \in Kinds /\ c.for \in {"page", "tab", "nobody"}
                        /\ c.out \in {"sent", "ok", "yes", "401", "fail", "barrier"}
    BY DEF Types, CallRecord
  <2>3. \A c \in calls : c.kind \in {"timezone", "status"} => c.who \in Users
    BY DEF TabOK, Chain
  <2>4. {onboarded, foreign, page.busy, page.deleting} \subseteq BOOLEAN
    BY <2>1 DEF Types
  <2>5. /\ session \in Users \cup {NoUser} /\ success \subseteq Users
        /\ creds \in {"older", "sent", "overtaken"}
        /\ route \in Routes /\ user \in Users \cup {Unknown, NoUser}
        /\ cache \in Users \cup {"none", "pending"} /\ returnPath \in Routes \cup {"none"}
        /\ leaving \in {"none", "/", "/login"} /\ due \in Routes \cup {"none", "overtaken"}
    BY DEF Types, Accounts
  <2> QED BY <2>2, <2>3, <2>4, <2>5 DEF TypeOK, ConfigOK
<1>2. Init => ConfigOK
  BY DEF Init, ConfigOK
<1>3. ConfigOK /\ [Next]_vars => ConfigOK'
  BY NextConfig
<1> QED BY <1>1, <1>2, <1>3, Invariance, PTL DEF Spec

\* Api's shared promise and handleLogout: the dashboard shows the feed of the user
\* that App knows, for any number of users, requests and reloads.
THEOREM FeedCorrect == Spec => []FeedIsOwn
<1>1. IInv => FeedIsOwn
  <2> SUFFICES ASSUME IInv, At("/dashboard"), ~foreign PROVE DashboardShows \subseteq {user}
    BY DEF FeedIsOwn
  <2>1. /\ page.shows # {} => Schedule \subseteq page.have
        /\ page.shows \subseteq Schedule
        /\ "ics" \in page.have => page.ics = user
        /\ "schedule" \in page.have => page.sched = user
    BY DEF IInv, DashboardOK, Own
  <2> QED BY <2>1 DEF DashboardShows, Schedule
<1> QED BY <1>1, Invariance, PTL

\* Promise.all on the dashboard after a sign-out: what the cache still holds is not
\* shown, because the shifts are refused.
THEOREM SignedOutCorrect == Spec => []SignedOutShowsNothing
<1>1. IInv => SignedOutShowsNothing
  <2> SUFFICES ASSUME IInv, At("/dashboard"), page.anon, ~foreign PROVE DashboardShows = {}
    BY DEF SignedOutShowsNothing
  <2>1. page.shows = {}
    BY DEF IInv, DashboardOK, Own, Schedule
  <2> QED BY <2>1 DEF DashboardShows
<1> QED BY <1>1, Invariance, PTL

\* handleBotBarrier, ReturnPathRedirect and the guards: a load that nothing disturbs
\* ends on the page that was asked for, for every user and any path of theirs.
THEOREM ReturnCorrect == Spec => []ComesBack
<1>1. IInv => ComesBack
  BY ClientAssumption DEF IInv, Arrives, ComesBack
<1> QED BY <1>1, Invariance, PTL

\* handleUpdateCredentials: the message of success is about what the server holds.
THEOREM UpdateCorrect == Spec => []UpdatedMeansStored
<1>1. IInv => UpdatedMeansStored
  BY DEF IInv, SettingsOK, UpdatedMeansStored
<1> QED BY <1>1, Invariance, PTL

-----------------------------------------------------------------------------
(* What is busy is waited for *)

\* What the mounted page has yet to load, and the requests for it: the link's may
\* be one that an earlier dashboard has sent.
Missing ==
    (CASE route = "/dashboard" -> Schedule
       [] route = "/admin" -> Overview
       [] OTHER -> {}) \ page.have

Coming(k) == {c \in Of({k}) : c.for = "page" \/ k = "ics"}

Waits ==
    /\ user = Unknown => Booting # {} /\ ~page.busy /\ ~page.deleting
    /\ page.deleting => leaving # "none" \/ Coming("delete") # {}
    /\ user # Unknown /\ page.busy =>
          /\ route \in {"/login", "/settings", "/dashboard", "/admin"}
          /\ route \in {"/login", "/settings"} => \E k \in Needs(route) : Coming(k) # {}
          /\ route \in {"/dashboard", "/admin"} => Missing # {} /\ \A k \in Missing : Coming(k) # {}
    /\ cache = "pending" => Coming("ics") # {}

LEMMA InitWaits == Init => Waits
<1> SUFFICES ASSUME Init PROVE Waits
  OBVIOUS
<1>1. page = Fresh("/") /\ calls = {Sent("me")} /\ cache = "none"
  BY DEF Init
<1>2. ~page.busy /\ ~page.deleting
  <2>1. Fresh("/").deleting = FALSE /\ (Fresh("/").busy <=> "/" \in {"/dashboard", "/admin"})
    BY FreshPage
  <2> QED BY <1>1, <2>1
<1>3. Sent("me").kind = "me"
  BY Sending DEF Kinds
<1>4. Booting # {}
  BY <1>1, <1>3 DEF Booting, Of
<1> QED BY <1>1, <1>2, <1>4 DEF Waits


\* The requests under way stay, but for one that nothing waits for any more, and
\* the page waits for no more than before.
LEMMA StillWaits ==
    ASSUME Waits, NEW S, UNCHANGED route, user' = user \/ (user # Unknown /\ user' # Unknown),
           \A k \in Kinds : k \notin S /\ Coming(k) # {} => Coming(k)' # {},
           user = Unknown => Booting' # {},
           page'.busy => page.busy /\ S \cap Needs(route) \cap
                              (IF route \in {"/dashboard", "/admin"} THEN Missing' ELSE Kinds) = {},
           page'.busy => Missing' \subseteq Missing,
           page'.busy /\ route \in {"/dashboard", "/admin"} => Missing' # {},
           page'.deleting => page.deleting \/ (leaving' # "none" /\ user # Unknown),
           page'.deleting /\ "delete" \in S => leaving' # "none",
           leaving # "none" => leaving' # "none",
           cache' = "pending" => cache = "pending" /\ "ics" \notin S
    PROVE  Waits'
<1>1. Needs(route) \subseteq Kinds /\ "delete" \in Kinds /\ "ics" \in Kinds
  BY DEF Needs, Kinds, Schedule, Overview
<1>2. user' = Unknown => Booting' # {} /\ ~page'.busy /\ ~page'.deleting
  BY DEF Waits
<1>3. page'.deleting => leaving' # "none" \/ Coming("delete")' # {}
  BY <1>1 DEF Waits
<1>4. cache' = "pending" => Coming("ics")' # {}
  BY <1>1 DEF Waits
<1>5. ASSUME user' # Unknown, page'.busy
      PROVE  /\ route' \in {"/login", "/settings", "/dashboard", "/admin"}
             /\ route' \in {"/login", "/settings"} => \E k \in Needs(route') : Coming(k)' # {}
             /\ route' \in {"/dashboard", "/admin"} => Missing' # {} /\ \A k \in Missing' : Coming(k)' # {}
  <2>1. /\ route \in {"/login", "/settings", "/dashboard", "/admin"}
        /\ route \in {"/login", "/settings"} => \E k \in Needs(route) : Coming(k) # {}
        /\ route \in {"/dashboard", "/admin"} => \A k \in Missing : Coming(k) # {}
    BY <1>5 DEF Waits
  <2>2. ASSUME route \in {"/login", "/settings"} PROVE \E k \in Needs(route) : Coming(k)' # {}
    BY <1>1, <1>5, <2>1, <2>2
  <2>3. ASSUME route \in {"/dashboard", "/admin"} PROVE \A k \in Missing' : Coming(k)' # {}
    <3>1. Missing' \subseteq Needs(route)
      BY <2>3 DEF Missing, Needs
    <3> QED BY <1>1, <1>5, <2>1, <2>3, <3>1
  <2> QED BY <1>5, <2>1, <2>2, <2>3
<1> QED BY <1>2, <1>3, <1>4, <1>5 DEF Waits

\* A page that mounts waits for what its effect sends, or for the link on its way.
LEMMA MountWaits ==
    ASSUME IInv, Waits, NEW to \in Routes, NEW cs \in SUBSET calls, Mount(to, cs), route' = to,
           Of({"ics"}) \subseteq cs, user' # Unknown
    PROVE  Waits'
<1> DEFINE Old(c) == [c EXCEPT !.for = IF @ = "page" THEN "tab" ELSE @]
<1>1. /\ page' = Fresh(to) /\ calls' = {Old(c) : c \in cs} \cup {Sent(k) : k \in Effect(to)}
      /\ cache' = IF "ics" \in Effect(to) THEN "pending" ELSE cache
  BY DEF Mount
<1>2. /\ page'.deleting = FALSE /\ (page'.busy <=> to \in {"/dashboard", "/admin"})
      /\ page'.have = IF to = "/dashboard" /\ cache \in Users THEN {"ics"} ELSE {}
  BY <1>1, FreshPage
<1>3. Effect(to) \subseteq Kinds
  BY DEF Effect, Kinds, Schedule, Overview
<1>4. \A k \in Effect(to) : Coming(k)' # {}
  <2> SUFFICES ASSUME NEW k \in Effect(to) PROVE Sent(k) \in Coming(k)'
    OBVIOUS
  <2>1. Sent(k) \in calls' /\ Sent(k).kind = k /\ Sent(k).for = "page"
    BY <1>1, <1>3, Sending
  <2> QED BY <2>1 DEF Coming, Of
<1>5. Coming("ics") # {} => Coming("ics")' # {}
  <2> SUFFICES ASSUME NEW c \in Coming("ics") PROVE Old(c) \in Coming("ics")'
    OBVIOUS
  <2>1. c \in cs /\ c \in CallRecord /\ c.kind = "ics"
    BY DEF Coming, Of, IInv, Types
  <2>2. Old(c) \in calls' /\ Old(c).kind = "ics"
    BY <1>1, <2>1 DEF CallRecord
  <2> QED BY <2>2 DEF Coming, Of
<1>6. cache' = "pending" => Coming("ics")' # {}
  BY <1>1, <1>4, <1>5 DEF Waits
<1>7. CASE to = "/dashboard"
  <2>1. "schedule" \in Effect(to) /\ (cache = "none" => "ics" \in Effect(to))
    BY <1>7 DEF Effect
  <2>2. cache \in Users \cup {"none", "pending"}
    BY DEF IInv, Types
  <2>3. "ics" \notin page'.have => Coming("ics")' # {}
    BY <1>2, <1>4, <1>5, <1>7, <2>1, <2>2 DEF Waits
  <2>4. Missing' = Schedule \ page'.have
    BY <1>7 DEF Missing
  <2>5. "schedule" \in Missing' /\ \A k \in Missing' : Coming(k)' # {}
    BY <1>2, <1>4, <2>1, <2>3, <2>4 DEF Schedule
  <2> QED BY <1>2, <1>6, <1>7, <2>5 DEF Waits
<1>8. CASE to = "/admin"
  <2>1. Effect(to) = Overview /\ Missing' = Overview
    BY <1>2, <1>8 DEF Effect, Missing
  <2>2. Missing' # {} /\ \A k \in Missing' : Coming(k)' # {}
    BY <1>4, <2>1 DEF Overview
  <2> QED BY <1>2, <1>6, <1>8, <2>2 DEF Waits
<1>9. CASE to \notin {"/dashboard", "/admin"}
  BY <1>2, <1>6, <1>9 DEF Waits
<1> QED BY <1>7, <1>8, <1>9

\* An answer, or a failure, comes on the way that the request came.
LEMMA SettleWaits ==
    ASSUME IInv, Waits, NEW c \in calls, NEW new, Settle(c, new),
           new.kind = c.kind, new.for = c.for, UNCHANGED <<user, route, cache, page, leaving>>
    PROVE  Waits'
<1>1. c.for = "nobody" => c.kind \in Effective
  BY DEF IInv, TabOK
<1>2. ASSUME NEW k, Coming(k) # {} PROVE Coming(k)' # {}
  <2>1. PICK d \in Coming(k) : TRUE
    BY <1>2
  <2>2. d \in calls /\ d.kind = k /\ (d.for = "page" \/ k = "ics")
    BY <2>1 DEF Coming, Of
  <2>3. CASE d # c
    BY <2>2, <2>3 DEF Settle, Coming, Of
  <2>4. CASE d = c
    BY <1>1, <2>2, <2>4 DEF Settle, Coming, Of, Effective
  <2> QED BY <2>3, <2>4
<1>3. ASSUME user = Unknown PROVE Booting' # {}
  <2>1. PICK d \in calls : d.kind \in {"me", "timezone", "status"}
    BY <1>3 DEF Waits, Booting, Of
  <2>2. CASE d # c
    BY <2>1, <2>2 DEF Settle, Booting, Of
  <2>3. CASE d = c
    BY <1>1, <2>1, <2>3 DEF Settle, Booting, Of, Effective
  <2> QED BY <2>2, <2>3
<1>4. UNCHANGED Missing
  BY DEF Missing
<1>5. page'.busy /\ route \in {"/dashboard", "/admin"} => Missing' # {}
  BY <1>3, <1>4 DEF Waits
<1>6. \A k \in Kinds : k \notin {} /\ Coming(k) # {} => Coming(k)' # {}
  BY <1>2
<1>7. /\ page'.busy => page.busy /\ {} \cap Needs(route) \cap
                           (IF route \in {"/dashboard", "/admin"} THEN Missing' ELSE Kinds) = {}
      /\ cache' = "pending" => cache = "pending" /\ "ics" \notin {}
  OBVIOUS
<1> QED BY <1>3, <1>4, <1>5, <1>6, <1>7, StillWaits

LEMMA NetworkWaits ==
    ASSUME IInv, Waits, NEW c \in calls,
           SignIn(c) \/ WrongPin(c) \/ SignOut(c) \/ Serve(c) \/ Fails(c) \/ Barred(c)
    PROVE  Waits'
<1>1. c \in CallRecord
  BY DEF IInv, Types
<1>2. PICK new : Settle(c, new) /\ new.kind = c.kind /\ new.for = c.for
  <2>1. \A o : [c EXCEPT !.out = o].kind = c.kind /\ [c EXCEPT !.out = o].for = c.for
    BY <1>1 DEF CallRecord
  <2>2. Answered(c).kind = c.kind /\ Answered(c).for = c.for
    BY <1>1 DEF Answered, CallRecord
  <2> QED BY <2>1, <2>2 DEF SignIn, WrongPin, SignOut, Serve, Fails, Barred
<1>3. UNCHANGED <<user, route, cache, page, leaving>>
  BY DEF SignIn, WrongPin, SignOut, Serve, Fails, Barred, app, place
<1> QED BY <1>2, <1>3, SettleWaits

LEMMA LoadWaits ==
    ASSUME NEW r, Load(r)
    PROVE  Waits'
<1>1. /\ user' = Unknown /\ cache' = "none" /\ page' = Fresh("/") /\ Sent("me") \in calls'
  BY DEF Load
<1>2. ~page'.busy /\ ~page'.deleting
  <2>1. Fresh("/").deleting = FALSE /\ (Fresh("/").busy <=> "/" \in {"/dashboard", "/admin"})
    BY FreshPage
  <2> QED BY <1>1, <2>1
<1>3. Sent("me").kind = "me"
  BY Sending DEF Kinds
<1>4. Booting' # {}
  BY <1>1, <1>3 DEF Booting, Of
<1> QED BY <1>1, <1>2, <1>4 DEF Waits

\* Nothing of the tab changes, but for what App knows.
LEMMA IdleWaits ==
    ASSUME Waits, UNCHANGED <<user, route, cache, page, calls>>,
           leaving # "none" => leaving' # "none"
    PROVE  Waits'
<1>1. UNCHANGED <<Booting, Missing>> /\ \A k : Coming(k)' = Coming(k)
  BY DEF Booting, Missing, Coming, Of
<1> QED BY <1>1 DEF Waits

LEMMA HandlersWait ==
    ASSUME IInv, Waits, Free,
           \/ RequestPin \/ VerifyPin \/ DifferentEmail \/ UpdateCredentials \/ DeleteAccount
           \/ Logout \/ Trigger
    PROVE  Waits'
<1>1. page \in PageRecord /\ user # Unknown /\ leaving = "none"
  BY DEF IInv, Types, Free
<1>2. UNCHANGED <<user, route, cache, leaving>> /\ calls \subseteq calls'
  BY DEF RequestPin, VerifyPin, DifferentEmail, UpdateCredentials, DeleteAccount, Logout, Trigger,
         Handler, app, place
<1>3. \A k : Coming(k) \subseteq Coming(k)'
  BY <1>2 DEF Coming, Of
<1>4. /\ \/ page'.busy = page.busy
         \/ /\ route \in {"/login", "/settings"}
            /\ \E k \in Needs(route) : Coming(k)' # {}
      /\ page'.deleting = page.deleting \/ Coming("delete")' # {}
      /\ page'.have = page.have
  <2>1. CASE RequestPin
    <3>1. Sent("requestPin") \in calls' /\ page' = [page EXCEPT !.busy = TRUE, !.result = "none"]
          /\ route = "/login"
      BY <2>1 DEF RequestPin, Handler, At
    <3>2. Sent("requestPin") \in Coming("requestPin")'
      BY <3>1, Sending DEF Coming, Of, Kinds
    <3> QED BY <1>1, <3>1, <3>2 DEF PageRecord, Needs
  <2>2. CASE VerifyPin
    <3>1. PICK u \in Users : Call("verify", u) \in calls'
      BY <2>2 DEF VerifyPin, Handler
    <3>2. page' = [page EXCEPT !.busy = TRUE, !.result = "none"] /\ route = "/login"
      BY <2>2 DEF VerifyPin, Handler, At
    <3>3. Call("verify", u) \in Coming("verify")'
      BY <3>1 DEF Coming, Of, Call
    <3> QED BY <1>1, <3>2, <3>3 DEF PageRecord, Needs
  <2>3. CASE DifferentEmail
    BY <1>1, <2>3 DEF DifferentEmail, PageRecord
  <2>4. CASE UpdateCredentials
    <3>1. Sent("update") \in calls' /\ page' = [page EXCEPT !.busy = TRUE, !.result = "none"]
          /\ route = "/settings"
      BY <2>4 DEF UpdateCredentials, Handler, At
    <3>2. Sent("update") \in Coming("update")'
      BY <3>1, Sending DEF Coming, Of, Kinds
    <3> QED BY <1>1, <3>1, <3>2 DEF PageRecord, Needs
  <2>5. CASE DeleteAccount
    <3>1. Sent("delete") \in calls' /\ page' = [page EXCEPT !.deleting = TRUE]
      BY <2>5 DEF DeleteAccount, Handler
    <3>2. Sent("delete") \in Coming("delete")'
      BY <3>1, Sending DEF Coming, Of, Kinds
    <3> QED BY <1>1, <3>1, <3>2 DEF PageRecord
  <2>6. CASE Logout \/ Trigger
    BY <2>6 DEF Logout, Trigger, Handler
  <2> QED BY <2>1, <2>2, <2>3, <2>4, <2>5, <2>6
<1>5. UNCHANGED Missing
  BY <1>2, <1>4 DEF Missing
<1>6. page'.deleting => leaving' # "none" \/ Coming("delete")' # {}
  BY <1>2, <1>3, <1>4 DEF Waits
<1>7. cache' = "pending" => Coming("ics")' # {}
  BY <1>2, <1>3 DEF Waits
<1>8. ASSUME user' # Unknown, page'.busy
      PROVE  /\ route' \in {"/login", "/settings", "/dashboard", "/admin"}
             /\ route' \in {"/login", "/settings"} => \E k \in Needs(route') : Coming(k)' # {}
             /\ route' \in {"/dashboard", "/admin"} => Missing' # {} /\ \A k \in Missing' : Coming(k)' # {}
  <2>1. CASE page'.busy = page.busy
    <3>1. user # Unknown /\ page.busy
      BY <1>1, <1>8, <2>1
    <3> QED BY <1>2, <1>3, <1>5, <3>1 DEF Waits
  <2>2. CASE page'.busy # page.busy
    BY <1>2, <1>4, <2>2
  <2> QED BY <2>1, <2>2
<1>9. user' # Unknown
  BY <1>1, <1>2
<1> QED BY <1>6, <1>7, <1>8, <1>9 DEF Waits

LEMMA NavigateWaits ==
    ASSUME IInv, Waits, Free, NEW r \in Routes, Navigate(r)
    PROVE  Waits'
<1> DEFINE to == Resolve(r, user, onboarded)
<1>1. /\ user \in Accounts /\ onboarded \in BOOLEAN /\ user # Unknown /\ user' = user
  BY DEF IInv, Types, Free, Navigate
<1>2. to \in Routes
  BY <1>1, Resolves
<1>3. Mount(to, calls) /\ route' = to
  BY DEF Navigate, Goto
<1>4. Of({"ics"}) \subseteq calls
  BY DEF Of
<1> HIDE DEF to
<1> QED BY <1>1, <1>2, <1>3, <1>4, MountWaits

\* What a continuation assigns to window.location
LEMMA Leaves ==
    ASSUME NEW c, Deliver(c)
    PROVE  /\ c \in calls /\ c.out # "sent" /\ UNCHANGED <<session, success, troubles, foreign>>
           /\ leaving # "none" => leaving' # "none"
           /\ c.out = "401" /\ c.kind # "me" => leaving' # "none"
           /\ c.kind = "delete" /\ Ok(c) => leaving' # "none"
<1>1. Redirect(c) \/ (c.kind = "delete" /\ Ok(c) /\ leaving' = "/login")
  BY DEF Deliver, Boot, Render, SettingsPage
<1>2. c.kind = "delete" => SettingsPage(c)
  BY DEF Deliver, Boot, LoginPage, PinRequested, DashboardPage, AdminPage, Overview
<1>3. c.kind = "delete" /\ Ok(c) => leaving' = "/login"
  BY <1>2 DEF SettingsPage
<1> QED BY <1>1, <1>3 DEF Deliver, Redirect, Ok

\* What the mounted page, or its calendar link, need not wait for any more
Gone(c) == IF c.for = "page" \/ c.kind = "ics" THEN {c.kind} ELSE {}

LEMMA ArriveWaits ==
    ASSUME IInv, Waits, NEW c \in calls, Rest(c) \subseteq calls', UNCHANGED route,
           user' = user \/ (user # Unknown /\ user' # Unknown),
           user = Unknown => Booting' # {}, leaving # "none" => leaving' # "none",
           page'.busy => page.busy /\ Missing' \subseteq Missing,
           page'.busy /\ route \in {"/login", "/settings"} => Gone(c) \cap Needs(route) = {},
           page'.busy /\ route \in {"/dashboard", "/admin"} =>
              Missing' # {} /\ Gone(c) \cap Missing' = {},
           page'.deleting => \/ page.deleting /\ "delete" \notin Gone(c)
                             \/ leaving' # "none" /\ user # Unknown,
           cache' = "pending" => cache = "pending" /\ "ics" \notin Gone(c)
    PROVE  Waits'
<1>1. \A k \in Kinds : k \notin Gone(c) /\ Coming(k) # {} => Coming(k)' # {}
  <2> SUFFICES ASSUME NEW k \in Kinds, k \notin Gone(c), NEW d \in Coming(k)
               PROVE  d \in Coming(k)'
    OBVIOUS
  <2>1. d \in calls /\ d.kind = k /\ (d.for = "page" \/ k = "ics")
    BY DEF Coming, Of
  <2>2. d # c
    BY <2>1 DEF Gone
  <2>3. d \in calls'
    BY <2>1, <2>2 DEF Rest
  <2> QED BY <2>1, <2>3 DEF Coming, Of
<1>2. page'.busy => page.busy /\ Gone(c) \cap Needs(route) \cap
                        (IF route \in {"/dashboard", "/admin"} THEN Missing' ELSE Kinds) = {}
  <2>1. route \notin {"/login", "/settings", "/dashboard", "/admin"} => Needs(route) = {}
    BY DEF Needs
  <2> QED BY <2>1
<1> HIDE DEF Gone
<1> QED BY <1>1, <1>2, StillWaits

\* A continuation that no page waits for
LEMMA KeptWaits ==
    ASSUME IInv, Waits, NEW c \in calls, Rest(c) \subseteq calls', UNCHANGED <<route, page, cache>>,
           user' = user \/ (user # Unknown /\ user' # Unknown),
           user = Unknown => Booting' # {}, leaving # "none" => leaving' # "none",
           \/ c.for # "page" /\ c.kind # "ics"
           \/ c.kind \notin {"requestPin", "verify", "update", "delete"} \cup Schedule \cup Overview
    PROVE  Waits'
<1>1. Gone(c) \cap ({"delete", "ics"} \cup Needs(route)) = {}
  BY DEF Gone, Needs, Schedule
<1>2. UNCHANGED Missing /\ Missing \subseteq Needs(route)
  BY DEF Missing, Needs
<1>3. page.busy /\ route \in {"/dashboard", "/admin"} => Missing # {}
  BY DEF Waits
<1>4. page.deleting => user # Unknown
  BY DEF Waits
<1> QED BY <1>1, <1>2, <1>3, <1>4, ArriveWaits

LEMMA LoadedWaits ==
    ASSUME page \in PageRecord, NEW k \in Kinds, NEW needs, NEW ok \in BOOLEAN
    PROVE  LET p == Loaded(page, k, needs, ok)
           IN  /\ p.have = page.have \cup (IF ok THEN {k} ELSE {})
               /\ p.busy => page.busy /\ ok /\ ~(needs \subseteq p.have)
               /\ p.deleting = page.deleting
               /\ \A w : LET s == [p EXCEPT !.sched = w]  i == [p EXCEPT !.ics = w]
                         IN  /\ s.have = p.have /\ s.busy = p.busy /\ s.deleting = p.deleting
                             /\ i.have = p.have /\ i.busy = p.busy /\ i.deleting = p.deleting
<1> DEFINE have == page.have \cup (IF ok THEN {k} ELSE {})
           busy == page.busy /\ ok /\ ~(needs \subseteq have)
           shows == IF needs \subseteq have THEN needs ELSE {}
           p == [page EXCEPT !.have = have, !.busy = busy, !.shows = shows]
<1>1. Loaded(page, k, needs, ok) = p
  BY DEF Loaded, PageRecord
<1>2. p.have = have /\ p.busy = busy /\ p.deleting = page.deleting
  <2> HIDE DEF have, busy, shows
  <2> QED BY DEF PageRecord
<1>3. \A w : LET s == [p EXCEPT !.sched = w]  i == [p EXCEPT !.ics = w]
             IN  /\ s.have = p.have /\ s.busy = p.busy /\ s.deleting = p.deleting
                 /\ i.have = p.have /\ i.busy = p.busy /\ i.deleting = p.deleting
  <2> HIDE DEF have, busy, shows
  <2> QED BY DEF PageRecord
<1> HIDE DEF p
<1> QED BY <1>1, <1>2, <1>3

\* The continuations that may mount a page
LEMMA RendersWait ==
    ASSUME IInv, IInv', Waits, NEW c, Deliver(c),
           c.kind \in {"status", "logout"} \/ (c.kind = "me" /\ c.out \in {"401", "fail"})
    PROVE  Waits'
<1>1. c \in calls /\ c.out # "sent" /\ (leaving # "none" => leaving' # "none")
  BY Leaves
<1>2. /\ Of({"ics"}) \subseteq Rest(c) /\ Rest(c) \in SUBSET calls
      /\ c.kind \notin {"requestPin", "verify", "update", "delete"} \cup Schedule \cup Overview
  BY DEF Of, Rest, Schedule, Overview
<1>3. route' \in Routes
  BY DEF IInv, Types
<1>4. CASE c.kind # "logout"
  <2>1. PICK u \in Accounts, on \in BOOLEAN : Render(u, on, c)
    <3>1. Boot(c)
      BY <1>4 DEF Deliver, LoginPage, PinRequested, DashboardPage, AdminPage, SettingsPage, Overview
    <3>2. c.kind = "status" => c.who \in Accounts
      BY <1>1 DEF IInv, TabOK, Chain, Accounts
    <3> QED BY <1>4, <3>1, <3>2 DEF Boot, Accounts, Ok
  <2>2. user' = u /\ u # Unknown
    BY <2>1, ClientAssumption DEF Render, Accounts
  <2>3. \/ user # Unknown /\ calls' = Rest(c) /\ UNCHANGED <<route, page, cache>>
        \/ Mount(route', Rest(c))
    BY <2>1 DEF Render
  <2>4. CASE Mount(route', Rest(c))
    <3> DEFINE to == route'
    <3>1. to \in Routes /\ Mount(to, Rest(c)) /\ route' = to
      BY <1>3, <2>4
    <3> HIDE DEF to
    <3> QED BY <1>2, <2>2, <3>1, MountWaits
  <2>5. CASE user # Unknown /\ calls' = Rest(c) /\ UNCHANGED <<route, page, cache>>
    BY <1>1, <1>2, <2>2, <2>5, KeptWaits
  <2> QED BY <2>3, <2>4, <2>5
<1>5. CASE c.kind = "logout"
  <2>1. LoggedOut(c)
    BY <1>5 DEF Deliver, Boot, LoginPage, PinRequested, DashboardPage, AdminPage, SettingsPage, Overview
  <2>2. user' = user /\ user # Unknown
    <3>1. c.for # "nobody" /\ (user = Unknown => c.kind # "logout" \/ c.for = "nobody")
      BY <1>1 DEF IInv, TabOK
    <3> QED BY <1>5, <2>1, <3>1 DEF LoggedOut
  <2>3. \/ calls' = Rest(c) /\ UNCHANGED <<route, page, cache>>
        \/ Mount(route', Rest(c))
    <3>1. CASE ~Ok(c)
      BY <2>1, <3>1 DEF LoggedOut
    <3>2. CASE Ok(c) /\ route # "/login"
      BY <2>1, <3>2 DEF LoggedOut, Goto
    <3>3. CASE Ok(c) /\ route = "/login"
      <4>1. user = NoUser
        BY <2>2, <3>3 DEF IInv, Types, TabOK, Accounts
      <4>2. Resolve("/login", user, onboarded) = "/login"
        BY <4>1 DEF Resolve
      <4> QED BY <2>1, <3>3, <4>2 DEF LoggedOut, Goto
    <3> QED BY <3>1, <3>2, <3>3
  <2>4. CASE Mount(route', Rest(c))
    <3> DEFINE to == route'
    <3>1. to \in Routes /\ Mount(to, Rest(c)) /\ route' = to
      BY <1>3, <2>4
    <3> HIDE DEF to
    <3> QED BY <1>2, <2>2, <3>1, MountWaits
  <2>5. CASE calls' = Rest(c) /\ UNCHANGED <<route, page, cache>>
    BY <1>1, <1>2, <2>2, <2>5, KeptWaits
  <2> QED BY <2>3, <2>4, <2>5
<1> QED BY <1>4, <1>5

\* What the page loads: as long as it is busy, something else is missing.
LEMMA LoadsWait ==
    ASSUME IInv, Waits, NEW c, Deliver(c), c.kind \in Schedule \cup Overview
    PROVE  Waits'
<1>1. /\ c \in calls /\ c.out # "sent" /\ (leaving # "none" => leaving' # "none")
      /\ page \in PageRecord /\ c.kind \in Kinds /\ Ok(c) \in BOOLEAN
  BY Leaves DEF IInv, Types, Ok, Kinds
<1>2. DashboardPage(c) \/ AdminPage(c)
  BY DEF Deliver, Boot, LoginPage, PinRequested, SettingsPage, Schedule, Overview
<1>3. UNCHANGED <<user, route>> /\ calls' = Rest(c)
  BY <1>2 DEF DashboardPage, AdminPage, app, Schedule, Overview
<1>4. user # Unknown
  <2>1. c.for # "nobody" /\ (user = Unknown => c.kind \in {"me", "timezone", "status"} \/ c.for = "nobody")
    BY <1>1 DEF IInv, TabOK
  <2> QED BY <2>1 DEF Schedule, Overview
<1>5. c.kind = "ics" => cache' # "pending"
  <2>1. c.kind = "ics" => c \in Of(Schedule)
    BY <1>1 DEF Of, Schedule
  <2>2. c.kind = "ics" => cache' = IF Ok(c) THEN c.who ELSE "none"
    BY <1>2 DEF DashboardPage, AdminPage, Overview
  <2> QED BY <2>1, <2>2, ClientAssumption DEF IInv, TabOK
<1>6. c.kind # "ics" => cache' = cache
  BY <1>2 DEF DashboardPage, AdminPage, app
<1>7. Gone(c) \subseteq {c.kind} /\ (c.kind # "ics" => "ics" \notin Gone(c))
      /\ "delete" \notin Gone(c)
  BY DEF Gone, Schedule, Overview
<1> DEFINE Quiet == page' = page /\ Gone(c) \cap Needs(route) = {}
           needs == IF route = "/dashboard" THEN Schedule ELSE Overview
           p == Loaded(page, c.kind, needs, Ok(c))
<1>8. \/ Quiet
      \/ /\ route \in {"/dashboard", "/admin"} /\ c.kind \in needs
         /\ page' \in {p, [p EXCEPT !.sched = c.who], [p EXCEPT !.ics = c.who]}
  <2>1. c.for = "page" => c.kind \in Sends(route)
    BY <1>1, <1>4 DEF IInv, TabOK
  <2>2. c.for = "page" /\ c.kind \in Overview => route = "/admin"
    BY <1>1, WaitingPage
  <2>3. c.for = "page" /\ c.kind = "schedule" => route = "/dashboard"
    BY <2>1 DEF Sends, Overview
  <2>4. CASE c.kind = "schedule"
    <3>1. Set(c, [Loaded(page, c.kind, Schedule, Ok(c)) EXCEPT !.sched = c.who])
      BY <1>2, <2>4 DEF DashboardPage, AdminPage, Overview
    <3>2. c.for # "page" => Gone(c) = {}
      BY <2>4 DEF Gone
    <3> QED BY <2>3, <2>4, <3>1, <3>2 DEF Set, Schedule
  <2>5. CASE c.kind = "ics"
    <3>1. page' = IF route = "/dashboard" /\ user # Unknown
                  THEN [Loaded(page, c.kind, Schedule, Ok(c)) EXCEPT !.ics = c.who] ELSE page
      BY <1>2, <2>5 DEF DashboardPage, AdminPage, Overview
    <3>2. CASE route = "/dashboard"
      BY <1>4, <2>5, <3>1, <3>2 DEF Schedule
    <3>3. CASE route # "/dashboard"
      <4>1. "ics" \notin Needs(route)
        BY <3>3 DEF Needs, Overview
      <4> QED BY <1>7, <2>5, <3>1, <3>3, <4>1
    <3> QED BY <3>2, <3>3
  <2>6. CASE c.kind \in Overview
    <3>1. Set(c, Loaded(page, c.kind, Overview, Ok(c)))
      BY <1>2, <2>6 DEF DashboardPage, AdminPage, Overview
    <3>2. c.for # "page" => Gone(c) = {}
      BY <2>6 DEF Gone, Overview
    <3>3. route = "/admin" => needs = Overview
      OBVIOUS
    <3>4. CASE c.for # "page"
      BY <3>1, <3>2, <3>4 DEF Set
    <3>5. CASE c.for = "page"
      BY <2>2, <2>6, <3>1, <3>3, <3>5 DEF Set
    <3> QED BY <3>4, <3>5
  <2> QED BY <2>4, <2>5, <2>6 DEF Schedule
<1>9. CASE Quiet
  <2>1. UNCHANGED Missing /\ Missing \subseteq Needs(route)
    BY <1>3, <1>9 DEF Missing, Needs
  <2>2. page.busy /\ route \in {"/dashboard", "/admin"} => Missing # {}
    BY <1>4 DEF Waits
  <2>3. Rest(c) \subseteq calls'
    BY <1>3
  <2> QED BY <1>1, <1>3, <1>4, <1>5, <1>6, <1>7, <1>9, <2>1, <2>2, <2>3, ArriveWaits
<1>10. CASE ~Quiet
  <2>1. /\ p.have = page.have \cup (IF Ok(c) THEN {c.kind} ELSE {})
        /\ p.busy => page.busy /\ Ok(c) /\ ~(needs \subseteq p.have)
        /\ p.deleting = page.deleting
        /\ page'.have = p.have /\ page'.busy = p.busy /\ page'.deleting = p.deleting
        /\ route \in {"/dashboard", "/admin"}
    <3> HIDE DEF needs, Quiet
    <3>1. LET q == Loaded(page, c.kind, needs, Ok(c))
          IN  /\ q.have = page.have \cup (IF Ok(c) THEN {c.kind} ELSE {})
              /\ q.busy => page.busy /\ Ok(c) /\ ~(needs \subseteq q.have)
              /\ q.deleting = page.deleting
              /\ \A w : LET s == [q EXCEPT !.sched = w]  i == [q EXCEPT !.ics = w]
                        IN  /\ s.have = q.have /\ s.busy = q.busy /\ s.deleting = q.deleting
                            /\ i.have = q.have /\ i.busy = q.busy /\ i.deleting = q.deleting
      BY <1>1, LoadedWaits
    <3> HIDE DEF p
    <3>2. /\ p.have = page.have \cup (IF Ok(c) THEN {c.kind} ELSE {})
          /\ p.busy => page.busy /\ Ok(c) /\ ~(needs \subseteq p.have)
          /\ p.deleting = page.deleting
          /\ \A w : LET s == [p EXCEPT !.sched = w]  i == [p EXCEPT !.ics = w]
                    IN  /\ s.have = p.have /\ s.busy = p.busy /\ s.deleting = p.deleting
                        /\ i.have = p.have /\ i.busy = p.busy /\ i.deleting = p.deleting
      BY <3>1 DEF p
    <3> QED BY <1>8, <1>10, <3>2
  <2> HIDE DEF p
  <2>2. Missing = needs \ page.have /\ Missing' = needs \ page'.have
    BY <1>3, <2>1 DEF Missing
  <2>3. page'.busy =>
           page.busy /\ Missing' \subseteq Missing /\ Missing' # {} /\ c.kind \notin Missing'
    BY <2>1, <2>2
  <2>4. Rest(c) \subseteq calls' /\ route' = route /\ user' = user /\ user # Unknown
    BY <1>3, <1>4
  <2>5. page'.busy /\ route \in {"/dashboard", "/admin"} => Missing' # {} /\ Gone(c) \cap Missing' = {}
    BY <1>7, <2>3
  <2>6. page'.deleting => page.deleting /\ "delete" \notin Gone(c)
    BY <1>7, <2>1
  <2>7. cache' = "pending" => cache = "pending" /\ "ics" \notin Gone(c)
    BY <1>5, <1>6, <1>7
  <2> HIDE DEF needs, Quiet
  <2> QED BY <1>1, <2>1, <2>3, <2>4, <2>5, <2>6, <2>7, ArriveWaits
<1> QED BY <1>9, <1>10

\* The rest: the next call of a chain, a form that is answered, and what is listed
LEMMA AnswersWait ==
    ASSUME IInv, Waits, NEW c, Deliver(c),
           c.kind \notin {"status", "logout"} \cup Schedule \cup Overview,
           c.kind = "me" => c.out \notin {"401", "fail"}
    PROVE  Waits'
<1>1. /\ c \in calls /\ c.out # "sent" /\ (leaving # "none" => leaving' # "none")
      /\ c.kind = "delete" /\ Ok(c) => leaving' # "none"
      /\ page \in PageRecord /\ c.kind \in Kinds /\ c.who \in Accounts
  BY Leaves DEF IInv, Types, CallRecord
<1>2. UNCHANGED <<user, route, cache>> /\ Rest(c) \subseteq calls'
  BY DEF Deliver, Boot, LoginPage, PinRequested, DashboardPage, AdminPage, SettingsPage, Then, app,
         Schedule
<1>3. c.for # "nobody" /\ (user = Unknown => c.kind \in {"me", "timezone"})
  BY <1>1 DEF IInv, TabOK
<1>4. CASE c.kind \in {"me", "timezone"}
  <2>1. /\ page' = page
        /\ \/ \E kind \in {"timezone", "status"} : Then(c, kind)
           \/ c.kind = "me" /\ [c EXCEPT !.out = "fail"] \in calls'
    BY <1>4 DEF Deliver, Boot, LoginPage, PinRequested, DashboardPage, AdminPage, SettingsPage, Overview
  <2>2. Booting' # {}
    <3>1. ASSUME NEW kind \in {"timezone", "status"}, Then(c, kind) PROVE Booting' # {}
      <4> DEFINE x == [Call(kind, c.who) EXCEPT !.for = "tab"]
      <4>1. x \in calls'
        BY <3>1 DEF Then
      <4>2. x.kind = kind
        BY DEF Call
      <4> HIDE DEF x
      <4> QED BY <4>1, <4>2 DEF Booting, Of
    <3>2. CASE c.kind = "me" /\ [c EXCEPT !.out = "fail"] \in calls'
      <4>1. [c EXCEPT !.out = "fail"].kind = "me"
        BY <1>1, <3>2 DEF IInv, Types, CallRecord
      <4> QED BY <3>2, <4>1 DEF Booting, Of
    <3> QED BY <2>1, <3>1, <3>2
  <2> QED BY <1>1, <1>2, <1>4, <2>1, <2>2, KeptWaits DEF Schedule, Overview
<1>5. CASE page' = page /\ c.kind \notin {"me", "timezone"} /\
           (c.for # "page" \/ c.kind \notin {"requestPin", "verify", "update", "delete"})
  <2>1. \/ c.for # "page" /\ c.kind # "ics"
        \/ c.kind \notin {"requestPin", "verify", "update", "delete"} \cup Schedule \cup Overview
    BY <1>5 DEF Schedule
  <2> QED BY <1>1, <1>2, <1>3, <1>5, <2>1, KeptWaits
<1>6. CASE c.for = "page" /\ c.kind \in {"requestPin", "verify", "update", "delete"}
  <2>1. /\ c.kind # "delete" => page'.busy = FALSE /\ page'.deleting = page.deleting
        /\ c.kind = "delete" => page'.busy = page.busy /\ page'.deleting = Ok(c)
        /\ page'.have = page.have
    <3>1. CASE c.kind = "requestPin"
      <4>1. page' \in {[page EXCEPT !.busy = FALSE, !.step = "pin"],
                       [page EXCEPT !.busy = FALSE, !.result = "error"]}
        BY <1>6, <3>1 DEF Deliver, Boot, LoginPage, PinRequested, DashboardPage, AdminPage, SettingsPage,
                          Set, Overview
      <4> QED BY <1>1, <3>1, <4>1 DEF PageRecord
    <3>2. CASE c.kind = "verify"
      <4>1. page' = [page EXCEPT !.busy = FALSE, !.result = IF Ok(c) THEN page.result ELSE "error"]
        BY <1>6, <3>2 DEF Deliver, Boot, LoginPage, PinRequested, DashboardPage, AdminPage, SettingsPage,
                          Set, Overview
      <4> QED BY <1>1, <3>2, <4>1 DEF PageRecord
    <3>3. CASE c.kind = "update"
      <4>1. page' = [page EXCEPT !.busy = FALSE, !.result = IF Ok(c) THEN "success" ELSE "error"]
        BY <1>6, <3>3 DEF Deliver, Boot, LoginPage, PinRequested, DashboardPage, AdminPage, SettingsPage,
                          Set, Overview
      <4> QED BY <1>1, <3>3, <4>1 DEF PageRecord
    <3>4. CASE c.kind = "delete"
      <4>1. page' = [page EXCEPT !.deleting = Ok(c)]
        BY <1>6, <3>4 DEF Deliver, Boot, LoginPage, PinRequested, DashboardPage, AdminPage, SettingsPage,
                          Set, Overview
      <4> QED BY <1>1, <3>4, <4>1 DEF PageRecord
    <3> QED BY <1>6, <3>1, <3>2, <3>3, <3>4
  <2>2. Gone(c) = {c.kind}
    BY <1>6 DEF Gone
  <2>3. user # Unknown /\ UNCHANGED Missing
    BY <1>2, <1>3, <1>6, <2>1 DEF Missing
  <2>4. c.kind = "delete" => Gone(c) \cap Needs(route) = {}
    BY <2>2 DEF Needs, Schedule, Overview
  <2>5. Missing \subseteq Schedule \cup Overview
    BY DEF Missing
  <2>6. Gone(c) \cap Missing' = {}
    BY <1>6, <2>2, <2>3, <2>5 DEF Schedule, Overview
  <2>7. page.busy /\ route \in {"/dashboard", "/admin"} => Missing # {}
    BY <2>3 DEF Waits
  <2>8. page'.deleting => \/ page.deleting /\ "delete" \notin Gone(c)
                          \/ leaving' # "none" /\ user # Unknown
    BY <1>1, <2>1, <2>2, <2>3
  <2>9. cache' = "pending" => cache = "pending" /\ "ics" \notin Gone(c)
    BY <1>2, <1>6, <2>2
  <2>10. page'.busy => c.kind = "delete" /\ page.busy
    BY <1>6, <2>1
  <2> QED BY <1>1, <1>2, <2>3, <2>4, <2>6, <2>7, <2>8, <2>9, <2>10, ArriveWaits
<1>7. page' = page \/ (c.for = "page" /\ c.kind \in {"requestPin", "verify", "update", "delete"})
  BY DEF Deliver, Boot, LoginPage, PinRequested, DashboardPage, AdminPage, SettingsPage, Set, Schedule
<1> QED BY <1>4, <1>5, <1>6, <1>7

LEMMA NextWaits == IInv /\ IInv' /\ Waits /\ [Next]_vars => Waits'
<1> SUFFICES ASSUME IInv, IInv', Waits, [Next]_vars PROVE Waits'
  OBVIOUS
<1>1. CASE Network \/ \E c \in calls : Fails(c) \/ Barred(c)
  BY <1>1, NetworkWaits DEF Network
<1>2. CASE ScrapeSucceeds \/ Elsewhere \/ Onboarded \/ Configured \/ Unconfigured \/ UNCHANGED vars
  <2>1. UNCHANGED <<user, route, cache, page, calls>> /\ (leaving # "none" => leaving' # "none")
    BY <1>2 DEF ScrapeSucceeds, Elsewhere, Onboarded, Configured, Unconfigured, app, place, vars
  <2> QED BY <2>1, IdleWaits
<1>3. CASE Script
  BY <1>3, RendersWait, LoadsWait, AnswersWait DEF Script
<1>4. CASE Unload
  BY <1>4, LoadWaits DEF Unload
<1>5. CASE UserActs
  BY <1>5, LoadWaits, NavigateWaits, HandlersWait DEF UserActs, TypeUrl
<1> QED BY <1>1, <1>2, <1>3, <1>4, <1>5 DEF Next

\* Each page's finally blocks and Promise.all, and the promise that api shares:
\* whatever says that it is loading or saving has a request under way for it.
THEOREM WaitCorrect == Spec => []WaitIsAnswered
<1>1. Init => IInv /\ Waits
  BY InitIInv, InitWaits
<1>2. IInv /\ Waits /\ [Next]_vars => (IInv /\ Waits)'
  BY NextIInv, NextWaits
<1>3. Waits => WaitIsAnswered
  <2> SUFFICES ASSUME Waits PROVE WaitIsAnswered
    OBVIOUS
  <2>1. user = Unknown => \E c \in calls : c.kind \in {"me", "timezone", "status"}
    BY DEF Waits, Booting, Of
  <2>2. ASSUME user # Unknown, page.busy
        PROVE  \E c \in calls : c.kind \in Needs(route) /\ (c.for = "page" \/ c.kind = "ics")
    <3>1. PICK k \in Needs(route) : Coming(k) # {}
      <4>1. route \in {"/dashboard", "/admin"} => Missing \subseteq Needs(route)
        BY DEF Missing, Needs
      <4> QED BY <2>2, <4>1 DEF Waits
    <3> QED BY <3>1 DEF Coming, Of
  <2>3. page.deleting => leaving # "none" \/ \E c \in calls : c.kind = "delete" /\ c.for = "page"
    BY DEF Waits, Coming, Of
  <2> QED BY <2>1, <2>2, <2>3 DEF WaitIsAnswered
<1> QED BY <1>1, <1>2, <1>3, PTL DEF Spec

-----------------------------------------------------------------------------
(* A sign-out, as long as nothing goes wrong *)

OnlyLogin == {"/", "/privacy", "/login"}

Known ==
    /\ troubles \in Nat /\ IsFiniteSet(calls)
    /\ user = NoUser => route \in OnlyLogin
    /\ troubles = 0 =>
          /\ \A c \in calls : c.for # "nobody"
          /\ user \notin Users =>
                /\ \A c \in calls : c.kind \notin {"logout", "delete"}
                /\ Chain # {} => session # NoUser
          /\ user \in Users /\ session = NoUser =>
                leaving # "none" \/ \E c \in calls : Tells(c)

LEMMA FiniteImage ==
    ASSUME NEW S, IsFiniteSet(S), NEW f
    PROVE  IsFiniteSet({f[x] : x \in S})
<1> DEFINE g == [x \in S |-> f[x]]
           T == {f[x] : x \in S}
<1>1. g \in Surjection(S, T)
  BY DEF Surjection
<1> QED BY <1>1, FS_Surjection

\* What a page sends when it mounts is finite.
LEMMA FiniteEffect ==
    ASSUME NEW r
    PROVE  IsFiniteSet({Sent(k) : k \in Effect(r)})
<1> DEFINE S == {Sent("schedule")} \cup {Sent("ics")} \cup {Sent("adminLogs")}
                   \cup {Sent("adminUsers")} \cup {Sent("read")}
<1>1. Effect(r) \subseteq {"schedule", "ics", "adminLogs", "adminUsers", "read"}
  BY DEF Effect, Overview
<1>2. {Sent(k) : k \in Effect(r)} \in SUBSET S
  BY <1>1
<1>3. IsFiniteSet(S)
  BY FS_Singleton, FS_Union
<1> HIDE DEF S
<1> QED BY <1>2, <1>3, FS_Subset

LEMMA MountCalls ==
    ASSUME IInv, NEW to \in Routes, NEW cs \in SUBSET calls, Mount(to, cs)
    PROVE  /\ IsFiniteSet(calls) => IsFiniteSet(calls')
           /\ \A d \in cs : \E x \in calls' : x.kind = d.kind /\ x.out = d.out
           /\ \A x \in calls' :
                 \/ \E d \in cs : /\ x.kind = d.kind /\ x.out = d.out
                                  /\ x.for = "nobody" => d.for = "nobody"
                 \/ x.kind \in Schedule \cup Overview \cup {"read"} /\ x.out = "sent" /\ x.for = "page"
           /\ to \in {"/dashboard", "/setup"} => \E x \in calls' : Tells(x)
<1> DEFINE Old(c) == [c EXCEPT !.for = IF @ = "page" THEN "tab" ELSE @]
           f == [c \in cs |-> Old(c)]
<1>1. calls' = {Old(c) : c \in cs} \cup {Sent(k) : k \in Effect(to)}
  BY DEF Mount
<1>2. \A c \in cs : /\ Old(c).kind = c.kind /\ Old(c).out = c.out
                    /\ Old(c).for = "nobody" => c.for = "nobody"
  <2> SUFFICES ASSUME NEW c \in cs
               PROVE  /\ Old(c).kind = c.kind /\ Old(c).out = c.out
                      /\ Old(c).for = "nobody" => c.for = "nobody"
    OBVIOUS
  <2>1. c \in CallRecord
    BY DEF IInv, Types
  <2> QED BY <2>1 DEF CallRecord
<1>3. Effect(to) \subseteq Schedule \cup Overview \cup {"read"} /\ Effect(to) \subseteq Kinds
  BY DEF Effect, Schedule, Kinds
<1>4. \A k \in Effect(to) : Sent(k).kind = k /\ Sent(k).out = "sent" /\ Sent(k).for = "page"
  BY <1>3, Sending
<1>5. IsFiniteSet(calls) => IsFiniteSet(calls')
  <2> SUFFICES ASSUME IsFiniteSet(calls) PROVE IsFiniteSet(calls')
    OBVIOUS
  <2>1. IsFiniteSet(cs)
    BY FS_Subset
  <2>2. IsFiniteSet({f[c] : c \in cs})
    <3> HIDE DEF f
    <3> QED BY <2>1, FiniteImage
  <2>3. {f[c] : c \in cs} = {Old(c) : c \in cs}
    <3>1. \A c \in cs : f[c] = Old(c)
      OBVIOUS
    <3> HIDE DEF f, Old
    <3> QED BY <3>1
  <2> HIDE DEF Old, f
  <2> QED BY <1>1, <2>2, <2>3, FiniteEffect, FS_Union
<1>6. to \in {"/dashboard", "/setup"} => \E x \in calls' : Tells(x)
  <2> SUFFICES ASSUME to \in {"/dashboard", "/setup"} PROVE \E x \in calls' : Tells(x)
    OBVIOUS
  <2>1. PICK k \in Effect(to) : TRUE
    BY DEF Effect
  <2>2. Sent(k) \in calls' /\ Tells(Sent(k))
    BY <1>1, <1>3, <1>4 DEF Tells, Schedule, Overview
  <2> QED BY <2>2
<1> HIDE DEF Old
<1>7. \A d \in cs : \E x \in calls' : x.kind = d.kind /\ x.out = d.out
  BY <1>1, <1>2
<1>8. \A x \in calls' :
         \/ \E d \in cs : /\ x.kind = d.kind /\ x.out = d.out
                          /\ x.for = "nobody" => d.for = "nobody"
         \/ x.kind \in Schedule \cup Overview \cup {"read"} /\ x.out = "sent" /\ x.for = "page"
  BY <1>1, <1>2, <1>3, <1>4
<1> QED BY <1>5, <1>6, <1>7, <1>8

LEMMA ResolvesNobody ==
    ASSUME NEW r, NEW on
    PROVE  Resolve(r, NoUser, on) \in OnlyLogin
BY DEF Resolve, OnlyLogin

LEMMA InitKnown == Init => Known
<1> SUFFICES ASSUME Init PROVE Known
  OBVIOUS
<1>1. calls = {Sent("me")} /\ troubles = 0 /\ user = Unknown
  BY DEF Init
<1>2. Sent("me").kind = "me" /\ Sent("me").out = "sent" /\ Sent("me").for = "page"
  BY Sending DEF Kinds
<1>3. IsFiniteSet(calls)
  BY <1>1, FS_Singleton
<1>4. Chain = {}
  BY <1>1, <1>2 DEF Chain, Ok
<1> QED BY <1>1, <1>2, <1>3, <1>4, ClientAssumption DEF Known

\* The server answers: without a session it does so in a way that tells App.
LEMMA ServedKnown ==
    ASSUME IInv, Known, NEW c \in calls, SignIn(c) \/ WrongPin(c) \/ SignOut(c) \/ Serve(c)
    PROVE  Known'
<1>1. c \in CallRecord /\ c.out = "sent"
  BY DEF IInv, Types, SignIn, WrongPin, SignOut, Serve, Unserved
<1>2. PICK new :
          /\ Settle(c, new) /\ new.kind = c.kind /\ new.for = c.for
          /\ session' = NoUser /\ c.kind \notin {"requestPin", "timer"} => Tells(new)
          /\ new.kind = "me" /\ Ok(new) => session' = session /\ session # NoUser
          /\ new.kind = "verify" /\ Ok(new) => session' \in Users
  <2>1. \A o : /\ [c EXCEPT !.out = o].kind = c.kind /\ [c EXCEPT !.out = o].for = c.for
               /\ [c EXCEPT !.out = o].out = o
    BY <1>1 DEF CallRecord
  <2>2. CASE SignIn(c)
    <3>1. c.who \in Users /\ session' = c.who
      BY <2>2 DEF SignIn, IInv, TabOK, Of
    <3>2. c.kind = "verify" /\ Settle(c, [c EXCEPT !.out = "ok"])
      BY <2>2 DEF SignIn
    <3> QED BY <2>1, <3>1, <3>2, ClientAssumption
  <2>3. CASE WrongPin(c)
    <3> DEFINE w == [c EXCEPT !.out = "401"]
    <3>1. c.kind = "verify" /\ Settle(c, w)
      BY <2>3 DEF WrongPin
    <3>2. w.kind = c.kind /\ w.for = c.for /\ w.out = "401"
      BY <2>1
    <3> HIDE DEF w
    <3> QED BY <3>1, <3>2 DEF Tells, Ok
  <2>4. CASE SignOut(c)
    <3>1. c.kind \in {"logout", "delete"} /\ Settle(c, [c EXCEPT !.out = "ok"])
      BY <2>4 DEF SignOut
    <3> QED BY <2>1, <3>1 DEF Tells
  <2>5. CASE Serve(c)
    <3>1. Settle(c, Answered(c)) /\ c.kind # "verify" /\ session' = session
      BY <2>5 DEF Serve
    <3>2. Answered(c).kind = c.kind /\ Answered(c).for = c.for
      BY <1>1 DEF Answered, CallRecord
    <3>3. session = NoUser /\ c.kind # "requestPin" => Answered(c).out = "401"
      BY <2>1 DEF Answered
    <3> QED BY <3>1, <3>2, <3>3 DEF Tells, Ok
  <2> QED BY <2>2, <2>3, <2>4, <2>5
<1>3. UNCHANGED <<user, route, leaving, troubles>>
  BY DEF SignIn, WrongPin, SignOut, Serve, app, place
<1>4. session' # session => c.kind \in {"verify", "logout", "delete"} /\ (c.kind = "verify" => session' \in Users)
  BY DEF SignIn, WrongPin, SignOut, Serve, server, IInv, TabOK, Of
<1>5. IsFiniteSet(calls')
  <2>1. IsFiniteSet(calls \ {c}) /\ IsFiniteSet({}) /\ IsFiniteSet({new})
    BY FS_RemoveElement, FS_EmptySet, FS_Singleton DEF Known
  <2> QED BY <1>2, <2>1, FS_Union DEF Settle
<1>6. ASSUME troubles = 0 PROVE \A x \in calls' : x.for # "nobody"
  BY <1>2, <1>6 DEF Known, Settle
<1>7. ASSUME troubles = 0, user \notin Users
      PROVE  /\ \A x \in calls' : x.kind \notin {"logout", "delete"}
             /\ Chain' # {} => session' # NoUser
  <2>1. \A x \in calls : x.kind \notin {"logout", "delete"}
    BY <1>7 DEF Known
  <2>2. \A x \in calls' : x \in calls \/ x = new
    BY <1>2 DEF Settle
  <2>3. session' = session \/ session' \in Users
    BY <1>4, <2>1
  <2>4. ASSUME NEW x \in Chain', session' = session PROVE session # NoUser
    <3>1. x \in calls'
      BY DEF Chain
    <3>2. CASE x \in calls
      BY <1>7, <3>2 DEF Chain, Known
    <3>3. CASE x = new
      BY <1>2, <1>7, <2>4, <3>3, ClientAssumption DEF Chain, Known
    <3> QED BY <2>2, <3>1, <3>2, <3>3
  <2> QED BY <1>2, <2>1, <2>2, <2>3, <2>4, ClientAssumption
<1>8. ASSUME troubles = 0, user \in Users, session' = NoUser, leaving = "none"
      PROVE  \E x \in calls' : Tells(x)
  <2>1. c.for # "nobody"
    BY <1>8 DEF Known
  <2>2. new \in calls' /\ \A d \in calls \ {c} : d \in calls'
    BY <1>2, <2>1 DEF Settle
  <2>3. CASE session = NoUser
    <3>1. PICK d \in calls : Tells(d)
      BY <1>8, <2>3 DEF Known
    <3>2. CASE d # c
      BY <2>2, <3>1, <3>2
    <3>3. CASE d = c
      <4>1. c.kind \notin {"requestPin", "timer"}
        BY <1>1, <3>1, <3>3 DEF Tells
      <4> QED BY <1>2, <1>8, <2>2, <4>1
    <3> QED BY <3>2, <3>3
  <2>4. CASE session # NoUser
    <3>1. c.kind \in {"verify", "logout", "delete"}
      BY <1>4, <1>8, <2>4
    <3> QED BY <1>2, <1>8, <2>2, <3>1
  <2> QED BY <2>3, <2>4
<1> QED BY <1>3, <1>5, <1>6, <1>7, <1>8 DEF Known

\* A load that leaves a request behind counts as a trouble.
LEMMA LoadKnown ==
    ASSUME Known, NEW r, Load(r)
    PROVE  Known'
<1>1. user' = Unknown
  BY DEF Load
<1>2. PICK kept \in SUBSET {c \in calls : c.out = "sent" /\ c.kind \in Effective} :
          /\ calls' = {Sent("me")} \cup {[c EXCEPT !.for = "nobody"] : c \in kept}
          /\ troubles' = troubles + Cardinality(kept)
  BY DEF Load
<1>3. IsFiniteSet(kept) /\ Cardinality(kept) \in Nat
  <2>1. IsFiniteSet(kept)
    BY FS_Subset DEF Known
  <2> QED BY <2>1, FS_CardinalityType
<1>4. IsFiniteSet(calls')
  <2> DEFINE Left(c) == [c EXCEPT !.for = "nobody"]
             f == [c \in kept |-> Left(c)]
  <2>1. \A c \in kept : f[c] = Left(c)
    OBVIOUS
  <2>2. calls' = {Sent("me")} \cup {Left(c) : c \in kept}
    BY <1>2
  <2> HIDE DEF f, Left
  <2>3. IsFiniteSet({f[c] : c \in kept})
    BY <1>3, FiniteImage
  <2>4. calls' = {Sent("me")} \cup {f[c] : c \in kept}
    BY <2>1, <2>2
  <2> QED BY <2>3, <2>4, FS_Singleton, FS_Union
<1>5. troubles' \in Nat /\ (troubles' = 0 => troubles = 0 /\ Cardinality(kept) = 0)
  BY <1>2, <1>3 DEF Known
<1>6. ASSUME troubles' = 0
      PROVE  /\ \A c \in calls' : c.for # "nobody" /\ c.kind \notin {"logout", "delete"}
             /\ Chain' = {}
  <2>1. kept = {}
    BY <1>3, <1>5, <1>6, FS_EmptySet
  <2>2. ASSUME NEW x \in calls', x # Sent("me") PROVE FALSE
    <3>1. x \in {[c EXCEPT !.for = "nobody"] : c \in kept}
      BY <1>2, <2>2
    <3>2. PICK c \in kept : x = [c EXCEPT !.for = "nobody"]
      BY <3>1
    <3> QED BY <2>1, <3>2
  <2>3. Sent("me").kind = "me" /\ Sent("me").out = "sent" /\ Sent("me").for = "page"
    BY Sending DEF Kinds
  <2> QED BY <2>2, <2>3 DEF Chain, Ok
<1> QED BY <1>1, <1>4, <1>5, <1>6, ClientAssumption DEF Known

\* What goes wrong, and what App does not see
LEMMA WorldKnown ==
    ASSUME IInv, Known,
           \/ \E c \in calls : Fails(c) \/ Barred(c)
           \/ ScrapeSucceeds \/ Elsewhere \/ Onboarded \/ Configured \/ Unconfigured
           \/ UNCHANGED vars
    PROVE  Known'
<1>1. UNCHANGED <<user, route>> /\ (leaving # "none" => leaving' # "none")
  BY DEF Fails, Barred, ScrapeSucceeds, Elsewhere, Onboarded, Configured, Unconfigured, vars, app, place
<1>2. \/ UNCHANGED <<session, troubles, calls>>
      \/ troubles' = troubles + 1 /\ calls' = calls
      \/ troubles' = troubles + 1 /\ \E c \in calls : \E new : Settle(c, new)
      \/ \E c \in calls : Barred(c) /\ leaving = "/" /\ troubles' = troubles
  BY DEF Fails, Barred, Trouble, Barrier, ScrapeSucceeds, Elsewhere, Onboarded, Configured, Unconfigured,
         vars, server
<1>3. IsFiniteSet(calls) => IsFiniteSet(calls')
  <2> SUFFICES ASSUME IsFiniteSet(calls) PROVE IsFiniteSet(calls')
    OBVIOUS
  <2>1. CASE calls' = calls
    BY <2>1
  <2>2. ASSUME NEW c \in calls, NEW new, Settle(c, new) PROVE IsFiniteSet(calls')
    <3>1. IsFiniteSet(calls \ {c}) /\ IsFiniteSet({}) /\ IsFiniteSet({new})
      BY FS_RemoveElement, FS_EmptySet, FS_Singleton
    <3> QED BY <2>2, <3>1, FS_Union DEF Settle
  <2> QED BY <1>2, <2>1, <2>2 DEF Barred
<1>4. CASE troubles' = troubles + 1
  <2>1. troubles' \in Nat /\ troubles' # 0
    BY <1>4 DEF Known
  <2> QED BY <1>1, <1>3, <2>1 DEF Known
<1>5. CASE UNCHANGED <<session, troubles, calls>>
  <2>1. UNCHANGED Chain
    BY <1>5 DEF Chain
  <2> QED BY <1>1, <1>5, <2>1 DEF Known
<1>6. ASSUME NEW c \in calls, Barred(c), leaving = "/", troubles' = troubles PROVE Known'
  <2> DEFINE new == [c EXCEPT !.out = "barrier"]
  <2>1. Settle(c, new) /\ session' = session
    BY <1>6 DEF Barred, server
  <2>2. new.kind = c.kind /\ new.for = c.for /\ ~Ok(new)
    BY DEF IInv, Types, CallRecord, Ok
  <2> HIDE DEF new
  <2>3. \A x \in calls' : \/ x \in calls
                          \/ x.kind = c.kind /\ x.for = c.for /\ ~Ok(x)
    BY <2>1, <2>2 DEF Settle
  <2>4. Chain' # {} => Chain # {}
    BY <2>3 DEF Chain
  <2> QED BY <1>1, <1>3, <1>6, <2>1, <2>3, <2>4 DEF Known
<1> QED BY <1>2, <1>4, <1>5, <1>6

LEMMA HandlersKnown ==
    ASSUME IInv, Known, Free,
           \/ RequestPin \/ VerifyPin \/ DifferentEmail \/ UpdateCredentials \/ DeleteAccount
           \/ Logout \/ Trigger
    PROVE  Known'
<1>1. UNCHANGED <<session, user, route, leaving, troubles>>
  BY DEF RequestPin, VerifyPin, DifferentEmail, UpdateCredentials, DeleteAccount, Logout, Trigger,
         Handler, server, app, place
<1>2. PICK more :
          /\ calls' = calls \cup more /\ IsFiniteSet(more)
          /\ \A x \in more : /\ x.out = "sent" /\ x.for = "page"
                             /\ x.kind \notin {"me", "timezone", "status"}
                             /\ x.kind \in {"logout", "delete"} => route = "/settings"
  <2>1. CASE DifferentEmail
    <3>1. calls' = calls \cup {} /\ IsFiniteSet({})
      BY <2>1, FS_EmptySet DEF DifferentEmail
    <3> QED BY <3>1
  <2>2. CASE VerifyPin
    <3>1. PICK u \in Users : calls' = calls \cup {Call("verify", u)}
      BY <2>2 DEF VerifyPin, Handler
    <3>2. Call("verify", u).kind = "verify" /\ Call("verify", u).out = "sent"
          /\ Call("verify", u).for = "page"
      BY DEF Call
    <3> DEFINE more == {Call("verify", u)}
    <3>3. IsFiniteSet(more) /\ calls' = calls \cup more /\ \A x \in more : x = Call("verify", u)
      BY <3>1, FS_Singleton
    <3> HIDE DEF more
    <3> QED BY <3>2, <3>3
  <2>3. CASE RequestPin \/ UpdateCredentials \/ DeleteAccount \/ Logout \/ Trigger
    <3>1. PICK k \in {"requestPin", "update", "delete", "logout", "trigger"} :
              /\ calls' = calls \cup {Sent(k)}
              /\ k \in {"logout", "delete"} => route = "/settings"
      BY <2>3 DEF RequestPin, UpdateCredentials, DeleteAccount, Logout, Trigger, Handler, At
    <3>2. k \in Kinds
      BY DEF Kinds
    <3>3. Sent(k).kind = k /\ Sent(k).out = "sent" /\ Sent(k).for = "page"
      BY <3>2, Sending
    <3> DEFINE more == {Sent(k)}
    <3>4. IsFiniteSet(more) /\ calls' = calls \cup more /\ \A x \in more : x = Sent(k)
      BY <3>1, FS_Singleton
    <3> HIDE DEF more
    <3> QED BY <3>1, <3>3, <3>4
  <2> QED BY <2>1, <2>2, <2>3
<1>3. IsFiniteSet(calls')
  BY <1>2, FS_Union DEF Known
<1>4. Chain' = Chain
  BY <1>2 DEF Chain, Ok
<1>5. route = "/settings" => user \in Users
  BY DEF Known, OnlyLogin, Free, IInv, Types, Accounts
<1> QED BY <1>1, <1>2, <1>3, <1>4, <1>5 DEF Known

LEMMA NavigateKnown ==
    ASSUME IInv, IInv', Known, Free, NEW r \in Routes, Navigate(r)
    PROVE  Known'
<1>1. /\ UNCHANGED <<session, user, leaving, troubles>>
      /\ route' = Resolve(r, user, onboarded) /\ Mount(route', calls)
  BY DEF Navigate, Goto
<1> DEFINE to == route'
<1>2. to \in Routes /\ Mount(to, calls) /\ calls \in SUBSET calls
  BY <1>1 DEF IInv, Types
<1> HIDE DEF to
<1>3. /\ IsFiniteSet(calls) => IsFiniteSet(calls')
      /\ \A d \in calls : \E x \in calls' : x.kind = d.kind /\ x.out = d.out
      /\ \A x \in calls' :
            \/ \E d \in calls : /\ x.kind = d.kind /\ x.out = d.out
                                /\ x.for = "nobody" => d.for = "nobody"
            \/ x.kind \in Schedule \cup Overview \cup {"read"} /\ x.out = "sent" /\ x.for = "page"
  BY <1>2, MountCalls
<1>4. Chain' # {} => Chain # {}
  BY <1>3 DEF Chain, Ok, Schedule, Overview
<1>5. user' = NoUser => route' \in OnlyLogin
  BY <1>1, ResolvesNobody
<1>6. (\E c \in calls : Tells(c)) => \E x \in calls' : Tells(x)
  BY <1>3 DEF Tells
<1>7. (\A c \in calls : c.kind \notin {"logout", "delete"})
         => \A x \in calls' : x.kind \notin {"logout", "delete"}
  BY <1>3 DEF Schedule, Overview
<1>8. (\A c \in calls : c.for # "nobody") => \A x \in calls' : x.for # "nobody"
  BY <1>3
<1> QED BY <1>1, <1>3, <1>4, <1>5, <1>6, <1>7, <1>8 DEF Known

\* What is under way after a continuation: the rest, and what it sends
LEMMA DeliverCalls ==
    ASSUME IInv, IInv', NEW c, Deliver(c)
    PROVE  /\ IsFiniteSet(calls) => IsFiniteSet(calls')
           /\ \A d \in Rest(c) : \E x \in calls' : x.kind = d.kind /\ x.out = d.out
           /\ \A x \in calls' :
                 \/ \E d \in Rest(c) : /\ x.kind = d.kind /\ x.out = d.out
                                       /\ x.for = "nobody" => d.for = "nobody"
                 \/ /\ x.kind \notin {"logout", "delete", "verify"} /\ x.for # "nobody"
                    /\ x.kind = "me" => ~Ok(x)
                    /\ x.kind \in {"timezone", "status"} => c \in Chain
           /\ c.kind = "logout" /\ Ok(c) /\ user \in Users => \E x \in calls' : Tells(x)
<1>1. c \in calls /\ c.out # "sent" /\ c.for # "nobody"
  BY Leaves DEF IInv, TabOK
<1>2. route' \in Routes /\ Rest(c) \in SUBSET calls
  BY DEF IInv, Types, Rest
<1>3. \/ Mount(route', Rest(c)) /\ (c.kind = "logout" /\ user \in Users => route' \in {"/dashboard", "/setup"})
      \/ /\ ~(c.kind = "logout" /\ Ok(c) /\ user \in Users)
         /\ \E more : /\ calls' = Rest(c) \cup more /\ IsFiniteSet(more)
                      /\ \A x \in more : /\ x.kind \in {"me", "timezone", "status", "timer"} \cup Overview
                                         /\ x.for # "nobody" /\ (x.kind = "me" => ~Ok(x))
                                         /\ x.kind \in {"timezone", "status"} => c \in Chain
  <2> DEFINE Sends2(more) ==
        /\ calls' = Rest(c) \cup more /\ IsFiniteSet(more)
        /\ \A x \in more : /\ x.kind \in {"me", "timezone", "status", "timer"} \cup Overview
                           /\ x.for # "nobody" /\ (x.kind = "me" => ~Ok(x))
                           /\ x.kind \in {"timezone", "status"} => c \in Chain
  <2>1. ASSUME calls' = Rest(c) PROVE Sends2({})
    BY <2>1, FS_EmptySet
  <2>2. ASSUME NEW k \in {"timezone", "status"}, Then(c, k), c \in Chain
        PROVE  \E more : Sends2(more)
    <3> DEFINE x == [Call(k, c.who) EXCEPT !.for = "tab"]
    <3>1. x.kind = k /\ x.for = "tab"
      BY DEF Call
    <3>2. calls' = Rest(c) \cup {x} /\ IsFiniteSet({x})
      BY <2>2, FS_Singleton DEF Then
    <3> HIDE DEF x
    <3>3. Sends2({x})
      BY <2>2, <3>1, <3>2
    <3> QED BY <3>3
  <2>3. CASE Boot(c)
    <3>1. CASE c.kind = "timezone" \/ (c.kind = "me" /\ Ok(c))
      BY <1>1, <2>2, <2>3, <3>1 DEF Boot, Chain, Ok
    <3>2. CASE \E u, on : Render(u, on, c)
      <4>1. calls' = Rest(c) \/ Mount(route', Rest(c))
        BY <3>2 DEF Render
      <4>2. c.kind # "logout"
        BY <2>3 DEF Boot
      <4> QED BY <2>1, <4>1, <4>2
    <3>3. CASE c.kind = "me" /\ c.out = "barrier"
      <4> DEFINE x == [c EXCEPT !.out = "fail"]
      <4>1. x.kind = "me" /\ x.for = c.for /\ ~Ok(x)
        BY <1>1, <3>3 DEF IInv, Types, CallRecord, Ok
      <4>2. calls' = Rest(c) \cup {x} /\ IsFiniteSet({x})
        BY <2>3, <3>3, FS_Singleton DEF Boot, Ok
      <4> HIDE DEF x
      <4>3. Sends2({x})
        BY <1>1, <4>1, <4>2
      <4> QED BY <3>3, <4>3
    <3> QED BY <2>3, <3>1, <3>2, <3>3 DEF Boot
  <2>4. CASE LoginPage(c)
    <3>1. c.kind # "logout" /\ (calls' = Rest(c) \/ (Then(c, "status") /\ c \in Chain))
      BY <1>1, <2>4 DEF LoginPage, PinRequested, Chain
    <3> QED BY <2>1, <2>2, <3>1
  <2>5. CASE DashboardPage(c)
    <3>1. c.kind # "logout" /\ calls' = Rest(c)
      BY <2>5 DEF DashboardPage
    <3> QED BY <2>1, <3>1
  <2>6. CASE AdminPage(c)
    <3>1. c.kind # "logout"
      BY <2>6 DEF AdminPage, Overview
    <3>2. CASE calls' = Rest(c)
      BY <2>1, <3>1, <3>2
    <3>3. CASE calls' = Rest(c) \cup {[c EXCEPT !.kind = "timer"]}
      <4> DEFINE x == [c EXCEPT !.kind = "timer"]
      <4>1. x.kind = "timer" /\ x.for = c.for
        BY <1>1 DEF IInv, Types, CallRecord
      <4>2. calls' = Rest(c) \cup {x} /\ IsFiniteSet({x})
        BY <3>3, FS_Singleton
      <4> HIDE DEF x
      <4>3. Sends2({x})
        BY <1>1, <4>1, <4>2
      <4> QED BY <3>1, <4>3
    <3>4. CASE calls' = Rest(c) \cup {[Sent(k) EXCEPT !.for = c.for] : k \in Overview}
      <4> DEFINE X(k) == [Sent(k) EXCEPT !.for = c.for]
      <4>1. \A k : X(k).kind = k /\ X(k).for = c.for
        BY DEF Sent, Call
      <4>2. calls' = Rest(c) \cup {X(k) : k \in Overview}
        BY <3>4
      <4> HIDE DEF X
      <4>3. {X(k) : k \in Overview} = {X("adminLogs")} \cup {X("adminUsers")}
        BY DEF Overview
      <4>4. IsFiniteSet({X(k) : k \in Overview})
        <5>1. IsFiniteSet({X("adminLogs")}) /\ IsFiniteSet({X("adminUsers")})
          BY FS_Singleton
        <5>2. IsFiniteSet({X("adminLogs")} \cup {X("adminUsers")})
          BY <5>1, FS_Union
        <5> QED BY <4>3, <5>2
      <4>5. Sends2({X(k) : k \in Overview})
        BY <1>1, <4>1, <4>2, <4>4 DEF Overview
      <4> QED BY <3>1, <4>5
    <3> QED BY <2>6, <3>2, <3>3, <3>4 DEF AdminPage
  <2>7. CASE SettingsPage(c)
    <3>1. CASE c.kind # "logout"
      <4>1. calls' = Rest(c)
        BY <2>7, <3>1 DEF SettingsPage
      <4> QED BY <2>1, <3>1, <4>1
    <3>2. CASE c.kind = "logout" /\ ~Ok(c)
      <4>1. calls' = Rest(c)
        BY <2>7, <3>2 DEF SettingsPage, LoggedOut
      <4> QED BY <2>1, <3>2, <4>1
    <3>3. CASE c.kind = "logout" /\ Ok(c)
      <4>1. Goto("/login", Rest(c))
        BY <2>7, <3>3 DEF SettingsPage, LoggedOut
      <4>2. CASE user \in Users
        <5>1. route # "/login" /\ user # NoUser
          BY <4>2, ClientAssumption DEF IInv, TabOK
        <5>2. Resolve("/login", user, onboarded) \in {"/dashboard", "/setup"}
          BY <5>1 DEF Resolve
        <5> QED BY <4>1, <5>1, <5>2 DEF Goto
      <4>3. CASE user \notin Users
        <5>1. calls' = Rest(c) \/ Mount(route', Rest(c))
          BY <4>1 DEF Goto
        <5> QED BY <2>1, <4>3, <5>1
      <4> QED BY <4>2, <4>3
    <3> QED BY <3>1, <3>2, <3>3
  <2> QED BY <2>3, <2>4, <2>5, <2>6, <2>7 DEF Deliver
<1>4. CASE Mount(route', Rest(c)) /\ (c.kind = "logout" /\ user \in Users => route' \in {"/dashboard", "/setup"})
  <2> DEFINE to == route'
  <2>1. to \in Routes /\ Mount(to, Rest(c))
    BY <1>2, <1>4
  <2> HIDE DEF to
  <2>2. /\ IsFiniteSet(calls) => IsFiniteSet(calls')
        /\ \A d \in Rest(c) : \E x \in calls' : x.kind = d.kind /\ x.out = d.out
        /\ \A x \in calls' :
              \/ \E d \in Rest(c) : /\ x.kind = d.kind /\ x.out = d.out
                                    /\ x.for = "nobody" => d.for = "nobody"
              \/ x.kind \in Schedule \cup Overview \cup {"read"} /\ x.out = "sent" /\ x.for = "page"
        /\ to \in {"/dashboard", "/setup"} => \E x \in calls' : Tells(x)
    BY <1>2, <2>1, MountCalls
  <2> QED BY <1>4, <2>2 DEF to, Schedule, Overview
<1>5. ASSUME ~(c.kind = "logout" /\ Ok(c) /\ user \in Users), NEW more,
             calls' = Rest(c) \cup more, IsFiniteSet(more),
             \A x \in more : /\ x.kind \in {"me", "timezone", "status", "timer"} \cup Overview
                             /\ x.for # "nobody" /\ (x.kind = "me" => ~Ok(x))
                             /\ x.kind \in {"timezone", "status"} => c \in Chain
      PROVE  /\ IsFiniteSet(calls) => IsFiniteSet(calls')
             /\ \A d \in Rest(c) : d \in calls'
             /\ \A x \in calls' : x \in Rest(c) \/ x \in more
  <2>1. IsFiniteSet(calls) => IsFiniteSet(Rest(c))
    BY FS_RemoveElement DEF Rest
  <2> QED BY <1>5, <2>1, FS_Union
<1>6. CASE /\ ~(c.kind = "logout" /\ Ok(c) /\ user \in Users)
           /\ \E more : /\ calls' = Rest(c) \cup more /\ IsFiniteSet(more)
                        /\ \A x \in more : /\ x.kind \in {"me", "timezone", "status", "timer"} \cup Overview
                                           /\ x.for # "nobody" /\ (x.kind = "me" => ~Ok(x))
                                           /\ x.kind \in {"timezone", "status"} => c \in Chain
  BY <1>5, <1>6 DEF Overview
<1> QED BY <1>3, <1>4, <1>6

LEMMA DeliverKnown ==
    ASSUME IInv, IInv', Known, NEW c, Deliver(c)
    PROVE  Known'
<1>1. /\ c \in calls /\ c.out # "sent" /\ UNCHANGED <<session, success, troubles, foreign>>
      /\ leaving # "none" => leaving' # "none"
      /\ c.out = "401" /\ c.kind # "me" => leaving' # "none"
      /\ c.kind = "delete" /\ Ok(c) => leaving' # "none"
  BY Leaves
<1>2. /\ IsFiniteSet(calls) => IsFiniteSet(calls')
      /\ \A d \in Rest(c) : \E x \in calls' : x.kind = d.kind /\ x.out = d.out
      /\ \A x \in calls' :
            \/ \E d \in Rest(c) : /\ x.kind = d.kind /\ x.out = d.out
                                  /\ x.for = "nobody" => d.for = "nobody"
            \/ /\ x.kind \notin {"logout", "delete", "verify"} /\ x.for # "nobody"
               /\ x.kind = "me" => ~Ok(x)
               /\ x.kind \in {"timezone", "status"} => c \in Chain
      /\ c.kind = "logout" /\ Ok(c) /\ user \in Users => \E x \in calls' : Tells(x)
  BY DeliverCalls
<1>3. Rest(c) \subseteq calls
  BY DEF Rest
<1>4. \/ user' = user
      \/ user' = NoUser /\ user = Unknown /\ c.kind = "me"
      \/ user' \in Users /\ c \in Chain
  <2>1. CASE c.kind = "me" /\ c.out \in {"401", "fail"}
    <3>1. Render(NoUser, FALSE, c)
      BY <2>1 DEF Deliver, Boot, LoginPage, PinRequested, DashboardPage, AdminPage, SettingsPage, Overview, Ok
    <3>2. user = Unknown
      BY <1>1, <2>1 DEF IInv, TabOK, Of
    <3> QED BY <2>1, <3>1, <3>2 DEF Render
  <2>2. CASE c.kind = "status"
    <3>1. Render(c.who, c.out = "yes", c)
      BY <2>2 DEF Deliver, Boot, LoginPage, PinRequested, DashboardPage, AdminPage, SettingsPage, Overview
    <3>2. c \in Chain
      BY <1>1, <2>2 DEF Chain
    <3>3. c.who \in Users
      BY <3>2 DEF IInv, TabOK
    <3> QED BY <3>1, <3>2, <3>3 DEF Render
  <2>3. CASE c.kind # "status" /\ ~(c.kind = "me" /\ c.out \in {"401", "fail"})
    BY <2>3 DEF Deliver, Boot, LoginPage, DashboardPage, AdminPage, SettingsPage, LoggedOut, app
  <2> QED BY <2>1, <2>2, <2>3
<1>5. user' = NoUser => route' \in OnlyLogin
  <2>1. \/ \E r, on : route' = Resolve(r, user', on)
        \/ UNCHANGED <<route, user>>
    <3>1. CASE Boot(c)
      <4>1. CASE \E u, on : Render(u, on, c)
        <5>1. PICK u, on : Render(u, on, c)
          BY <4>1
        <5>2. user' = u /\ route' \in {Resolve(Hidden(c), u, on), Resolve(route, u, on)}
          BY <5>1 DEF Render
        <5> QED BY <5>2
      <4> QED BY <3>1, <4>1 DEF Boot, app
    <3>2. CASE LoginPage(c) \/ DashboardPage(c) \/ AdminPage(c)
      BY <3>2 DEF LoginPage, DashboardPage, AdminPage, app
    <3>3. CASE SettingsPage(c)
      BY <3>3 DEF SettingsPage, LoggedOut, Goto, app
    <3> QED BY <3>1, <3>2, <3>3 DEF Deliver
  <2> QED BY <2>1, ResolvesNobody DEF Known
<1>6. Chain' # {} => Chain # {}
  <2> SUFFICES ASSUME NEW x \in Chain' PROVE Chain # {}
    OBVIOUS
  <2>1. /\ x \in calls'
        /\ x.kind \in {"timezone", "status"} \/ (x.kind \in {"me", "verify"} /\ Ok(x))
    BY DEF Chain
  <2>2. CASE \E d \in Rest(c) : x.kind = d.kind /\ x.out = d.out
    <3>1. PICK d \in calls : x.kind = d.kind /\ x.out = d.out
      BY <1>3, <2>2
    <3>2. d \in Chain
      BY <2>1, <3>1 DEF Chain, Ok
    <3> QED BY <3>2
  <2>3. CASE ~\E d \in Rest(c) : x.kind = d.kind /\ x.out = d.out
    <3>1. x.kind # "verify" /\ ~(x.kind = "me" /\ Ok(x)) /\ (x.kind \in {"timezone", "status"} => c \in Chain)
      BY <1>2, <2>1, <2>3
    <3> QED BY <2>1, <3>1
  <2> QED BY <2>2, <2>3
<1>7. ASSUME troubles = 0 PROVE \A x \in calls' : x.for # "nobody"
  BY <1>2, <1>3, <1>7 DEF Known
<1>8. ASSUME troubles = 0, user' \notin Users
      PROVE  /\ \A x \in calls' : x.kind \notin {"logout", "delete"}
             /\ Chain' # {} => session # NoUser
  <2>1. user \notin Users
    BY <1>4, <1>8, ClientAssumption
  <2>2. \A d \in calls : d.kind \notin {"logout", "delete"}
    BY <1>8, <2>1 DEF Known
  <2>3. Chain # {} => session # NoUser
    BY <1>8, <2>1 DEF Known
  <2> QED BY <1>2, <1>3, <1>6, <2>2, <2>3
<1>9. ASSUME troubles = 0, user' \in Users, session = NoUser, leaving' = "none"
      PROVE  \E x \in calls' : Tells(x)
  <2>1. user \in Users
    <3>1. user \notin Users => Chain = {}
      BY <1>9 DEF Known
    <3> QED BY <1>4, <1>9, <3>1, ClientAssumption
  <2>2. PICK d \in calls : Tells(d)
    BY <1>1, <1>9, <2>1 DEF Known
  <2>3. CASE d # c
    <3>1. d \in Rest(c)
      BY <2>3 DEF Rest
    <3>2. PICK x \in calls' : x.kind = d.kind /\ x.out = d.out
      BY <1>2, <3>1
    <3>3. Tells(x)
      BY <2>2, <3>2 DEF Tells
    <3> QED BY <3>3
  <2>4. CASE d = c
    <3>1. c.out = "401" \/ (c.out = "ok" /\ c.kind \in {"logout", "delete"})
      BY <1>1, <2>2, <2>4 DEF Tells
    <3>2. c.kind # "me"
      BY <1>1, <2>1, ClientAssumption DEF IInv, TabOK, Of
    <3>3. c.kind = "logout" /\ Ok(c)
      BY <1>1, <1>9, <3>1, <3>2 DEF Ok
    <3> QED BY <1>2, <2>1, <3>3
  <2> QED BY <2>3, <2>4
<1> QED BY <1>1, <1>2, <1>5, <1>7, <1>8, <1>9 DEF Known

LEMMA NextKnown == IInv /\ IInv' /\ Known /\ [Next]_vars => Known'
<1> SUFFICES ASSUME IInv, IInv', Known, [Next]_vars PROVE Known'
  OBVIOUS
<1>1. CASE Network
  BY <1>1, ServedKnown DEF Network
<1>2. CASE \/ \E c \in calls : Fails(c) \/ Barred(c)
           \/ ScrapeSucceeds \/ Elsewhere \/ Onboarded \/ Configured \/ Unconfigured
           \/ UNCHANGED vars
  BY <1>2, WorldKnown
<1>3. CASE Script
  BY <1>3, DeliverKnown DEF Script
<1>4. CASE Unload
  BY <1>4, LoadKnown DEF Unload
<1>5. CASE UserActs
  BY <1>5, LoadKnown, NavigateKnown, HandlersKnown DEF UserActs, TypeUrl
<1> QED BY <1>1, <1>2, <1>3, <1>4, <1>5 DEF Next

\* handleLogout, handleDeleteAccount and the redirect of request: after a sign-out
\* that nothing disturbs, the tab is on its way to learn of it in every state.
THEOREM SignOutCorrect == Spec => []SignOutReaches
<1>1. Init => IInv /\ Known
  BY InitIInv, InitKnown
<1>2. IInv /\ Known /\ [Next]_vars => (IInv /\ Known)'
  BY NextIInv, NextKnown
<1>3. Known => SignOutReaches
  BY DEF Known, SignOutReaches
<1> QED BY <1>1, <1>2, <1>3, PTL DEF Spec
=============================================================================
