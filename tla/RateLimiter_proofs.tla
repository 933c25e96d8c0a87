------------------------ MODULE RateLimiter_proofs ------------------------
(***************************************************************************)
(* What the rate limiter guarantees for every limit, window and skew.      *)
(*                                                                         *)
(* The invariant says of each key that the recorded timestamps are the     *)
(* last ones of the history, that what was dropped is outside of the       *)
(* window of any request that may still be decided, up to the skew, and    *)
(* that timestamps are out of order by at most the skew.                   *)
(*                                                                         *)
(* The lemmas about one key take a list as a function and its length.      *)
(***************************************************************************)
EXTENDS RateLimiter, TLAPS

\* Of the m recorded timestamps ts and the n allowed ones g of a key.
Suffix(ts, m, g, n) ==
    /\ m <= Limit /\ m <= n
    /\ \A i \in 1..m : ts[i] = g[n - m + i]

\* The dropped ones, at the time t.
Dropped(m, g, n, t) == \A j \in 1..(n - m) : g[j] < t - Window + MaxSkew

Ordered(g, n, t) ==
    /\ \A i \in 1..n : g[i] \in Nat /\ g[i] <= t
    /\ \A i, j \in 1..n : i < j => g[i] <= g[j] + MaxSkew

Spread(g, n) == \A i \in 1..(n - Limit) : g[i + Limit] - g[i] > Window - 2 * MaxSkew

KeyOK(ts, m, g, n, t) ==
    Suffix(ts, m, g, n) /\ Dropped(m, g, n, t) /\ Ordered(g, n, t) /\ Spread(g, n)

KeysOK == \A k \in Keys :
    KeyOK(requests[k], Len(requests[k]), granted[k], Len(granted[k]), now)

\* No process waits longer than MaxSkew.
Waiting == \A p \in Procs : key[p] # NoKey => at[p] <= now /\ now - at[p] <= MaxSkew

IInv == TypeOK /\ Waiting /\ sweeping <= now /\ KeysOK

-----------------------------------------------------------------------------
(* One key                                                                 *)

LEMMA Numbers ==
    Limit \in Nat /\ Limit >= 1 /\ Window \in Nat /\ MaxSkew \in Nat /\ MaxTime \in Nat
BY LimitAssumption, TimeAssumption

\* Pruning the c first timestamps, all stale for a request of the time x, drops
\* only what no later request needs.
LEMMA PruneKey ==
    ASSUME NEW ts, NEW m \in Nat, NEW g, NEW n \in Nat, NEW t \in Nat, NEW x \in Nat, x <= t,
           KeyOK(ts, m, g, n, t), NEW c \in 0..m, \A i \in 1..c : ts[i] < x - Window,
           NEW kept, \A i \in 1..(m - c) : kept[i] = ts[c + i]
    PROVE  KeyOK(kept, m - c, g, n, t)
<1> USE Numbers
<1>1. Suffix(kept, m - c, g, n)
  BY DEF KeyOK, Suffix
<1>2. ASSUME NEW j \in 1..(n - (m - c)) PROVE g[j] < t - Window + MaxSkew
  <2>1. CASE j <= n - m
    BY <2>1 DEF KeyOK, Dropped
  <2>2. CASE j > n - m
    <3> DEFINE i == j - (n - m)
    <3>1. i \in 1..c /\ i \in 1..m /\ j = n - m + i /\ j \in 1..n
      BY <2>2 DEF KeyOK, Suffix
    <3>2. ts[i] = g[j] /\ g[j] \in Nat
      BY <3>1 DEF KeyOK, Suffix, Ordered
    <3>3. g[j] < x - Window
      BY <3>1, <3>2
    <3> QED BY <3>2, <3>3
  <2> QED BY <2>1, <2>2
<1>3. Dropped(m - c, g, n, t)
  BY <1>2 DEF Dropped
<1> QED BY <1>1, <1>2, <1>3 DEF KeyOK

\* Recording an allowed request: r is kept with x, h is g with x.
LEMMA RecordKey ==
    ASSUME NEW kept, NEW m \in Nat, NEW g, NEW n \in Nat, NEW t \in Nat, NEW x \in Nat,
           x <= t, t - x <= MaxSkew, KeyOK(kept, m, g, n, t), m < Limit,
           NEW r, r[m + 1] = x, \A i \in 1..m : r[i] = kept[i],
           NEW h, h[n + 1] = x, \A i \in 1..n : h[i] = g[i]
    PROVE  KeyOK(r, m + 1, h, n + 1, t)
<1> USE Numbers
<1>1. Suffix(r, m + 1, h, n + 1)
  <2>1. ASSUME NEW i \in 1..(m + 1) PROVE r[i] = h[n - m + i]
    <3>1. CASE i = m + 1
      BY <3>1 DEF KeyOK, Suffix
    <3>2. CASE i \in 1..m
      BY <3>2 DEF KeyOK, Suffix
    <3> QED BY <3>1, <3>2
  <2> QED BY <2>1 DEF KeyOK, Suffix
<1>2. Dropped(m + 1, h, n + 1, t)
  BY DEF KeyOK, Suffix, Dropped
<1>3. Ordered(h, n + 1, t)
  <2>1. \A i \in 1..(n + 1) : h[i] \in Nat /\ h[i] <= t
    BY DEF KeyOK, Ordered
  <2>2. ASSUME NEW i \in 1..(n + 1), NEW j \in 1..(n + 1), i < j
        PROVE  h[i] <= h[j] + MaxSkew
    <3>1. CASE j = n + 1
      BY <3>1, <2>1
    <3>2. CASE j # n + 1
      BY <3>2, <2>2 DEF KeyOK, Ordered
    <3> QED BY <3>1, <3>2
  <2> QED BY <2>1, <2>2 DEF Ordered
<1>4. Spread(h, n + 1)
  <2> SUFFICES ASSUME NEW i \in 1..(n + 1 - Limit)
               PROVE  h[i + Limit] - h[i] > Window - 2 * MaxSkew
    BY DEF Spread
  <2>1. i \in 1..n /\ h[i] = g[i] /\ g[i] \in Nat
    BY DEF KeyOK, Ordered
  <2>2. CASE i + Limit <= n
    BY <2>1, <2>2 DEF KeyOK, Spread
  <2>3. CASE i + Limit = n + 1
    <3>1. i \in 1..(n - m)
      BY <2>3
    <3>2. g[i] < t - Window + MaxSkew
      BY <3>1 DEF KeyOK, Dropped
    <3>3. x - g[i] > Window - 2 * MaxSkew
      BY <2>1, <3>2
    <3> QED BY <2>1, <2>3, <3>3
  <2> QED BY <2>2, <2>3
<1> QED BY <1>1, <1>2, <1>3, <1>4 DEF KeyOK

\* The sweep at the time x looks at the last timestamp only: the others are
\* newer than it by at most the skew.
LEMMA SweepKey ==
    ASSUME NEW ts, NEW m \in Nat, m >= 1, NEW g, NEW n \in Nat, NEW t \in Nat, NEW x \in Nat,
           x <= t, KeyOK(ts, m, g, n, t), ts[m] < x - Window
    PROVE  KeyOK(<<>>, 0, g, n, t)
<1> USE Numbers
<1>1. n \in 1..n /\ g[n] = ts[m] /\ g[n] \in Nat
  BY DEF KeyOK, Suffix, Ordered
<1>2. ASSUME NEW j \in 1..n PROVE g[j] < t - Window + MaxSkew
  <2>1. g[j] \in Nat /\ g[j] <= g[n] + MaxSkew
    BY <1>1 DEF KeyOK, Ordered
  <2> QED BY <2>1, <1>1
<1> QED BY <1>2 DEF KeyOK, Suffix, Dropped

\* Time only helps.
LEMMA TickKey ==
    ASSUME NEW ts, NEW m \in Nat, NEW g, NEW n \in Nat, NEW t \in Nat, KeyOK(ts, m, g, n, t)
    PROVE  KeyOK(ts, m, g, n, t + 1)
<1>1. Dropped(m, g, n, t + 1)
  <2>1. ASSUME NEW j \in 1..(n - m) PROVE g[j] < (t + 1) - Window + MaxSkew
    <3>1. j \in 1..n
      BY DEF KeyOK, Suffix
    <3>2. g[j] \in Nat /\ g[j] < t - Window + MaxSkew
      BY <3>1 DEF KeyOK, Dropped, Ordered
    <3> QED BY <3>2, Numbers
  <2> QED BY <2>1, Zenon DEF Dropped
<1>2. Ordered(g, n, t + 1)
  BY Numbers DEF KeyOK, Ordered
<1> QED BY <1>1, <1>2 DEF KeyOK

\* Limit timestamps that are left are not before the window of x, but for the
\* skew.
LEMMA DenyKey ==
    ASSUME NEW ts, NEW m \in Nat, NEW g, NEW n \in Nat, NEW t \in Nat, NEW x \in Nat,
           KeyOK(ts, m, g, n, t), m = Limit, ~(ts[1] < x - Window)
    PROVE  n >= Limit /\ \A j \in (n - Limit + 1)..n : g[j] >= x - Window - MaxSkew
<1> USE Numbers
<1> DEFINE i == n - Limit + 1
<1>1. n >= Limit /\ i \in 1..n /\ g[i] = ts[1] /\ g[i] \in Nat
  BY DEF KeyOK, Suffix, Ordered
<1>2. ASSUME NEW j \in i..n PROVE g[j] >= x - Window - MaxSkew
  <2>1. j \in 1..n /\ g[j] \in Nat
    BY <1>1 DEF KeyOK, Ordered
  <2>2. g[i] <= g[j] + MaxSkew
    <3>1. CASE i = j
      <4>1. g[i] = g[j]
        BY <3>1
      <4> QED BY <4>1, <2>1
    <3>2. CASE i # j
      <4>1. i < j
        BY <3>2, <1>1
      <4> QED BY <4>1, <2>1, <1>1 DEF KeyOK, Ordered
    <3> QED BY <3>1, <3>2
  <2> QED BY <2>1, <2>2, <1>1
<1> QED BY <1>1, <1>2

-----------------------------------------------------------------------------
(* The steps                                                               *)

\* What a process in Allow finds under the lock.
LEMMA InAllow ==
    ASSUME IInv, NEW p \in Procs, key[p] # NoKey
    PROVE  /\ key[p] \in Keys /\ at[p] \in Nat /\ at[p] <= now /\ now - at[p] <= MaxSkew
           /\ now \in Nat
           /\ requests[key[p]] \in Seq(Nat) /\ granted[key[p]] \in Seq(Nat)
           /\ KeyOK(requests[key[p]], Len(requests[key[p]]),
                    granted[key[p]], Len(granted[key[p]]), now)
BY Numbers DEF IInv, TypeOK, Waiting, KeysOK

\* The list that pruning leaves.
LEMMA KeptList ==
    ASSUME NEW ts \in Seq(Nat), NEW c \in 0..Len(ts)
    PROVE  /\ Kept(ts, c) \in Seq(Nat) /\ Len(Kept(ts, c)) = Len(ts) - c
           /\ \A i \in 1..(Len(ts) - c) : Kept(ts, c)[i] = ts[c + i]
BY DEF Kept

LEMMA PruneList ==
    ASSUME NEW ts \in Seq(Nat), NEW g \in Seq(Nat), NEW t \in Nat, NEW x \in Nat, x <= t,
           KeyOK(ts, Len(ts), g, Len(g), t), NEW c \in 0..Len(ts), StalePrefix(ts, c, x)
    PROVE  KeyOK(Kept(ts, c), Len(Kept(ts, c)), g, Len(g), t)
<1>1. \A i \in 1..c : ts[i] < x - Window
  BY DEF StalePrefix, Stale
<1>2. Len(ts) \in Nat /\ Len(g) \in Nat
  OBVIOUS
<1> DEFINE kept == Kept(ts, c)
<1>3. /\ kept \in Seq(Nat) /\ Len(kept) = Len(ts) - c
      /\ \A i \in 1..(Len(ts) - c) : kept[i] = ts[c + i]
  BY KeptList
<1> HIDE DEF kept
<1>4. KeyOK(kept, Len(ts) - c, g, Len(g), t)
  BY <1>1, <1>2, <1>3, PruneKey
<1> QED BY <1>3, <1>4 DEF kept

LEMMA InitIInv == Init => IInv
BY Numbers, NoKeyAssumption
DEF Init, IInv, TypeOK, Waiting, KeysOK, KeyOK, Suffix, Dropped, Ordered, Spread

\* Allow denies.
LEMMA DenyIInv ==
    ASSUME IInv, NEW p \in Procs, Deny(p)
    PROVE  IInv'
<1> DEFINE k == key[p]
<1>1. /\ k \in Keys /\ at[p] \in Nat /\ at[p] <= now /\ now \in Nat
      /\ requests[k] \in Seq(Nat) /\ granted[k] \in Seq(Nat)
      /\ KeyOK(requests[k], Len(requests[k]), granted[k], Len(granted[k]), now)
  BY InAllow DEF Deny
<1>2. PICK n \in 0..Len(requests[k]) :
         /\ StalePrefix(requests[k], n, at[p])
         /\ requests' = [requests EXCEPT ![k] = Kept(requests[k], n)]
  BY DEF Deny
<1> DEFINE r == Kept(requests[k], n)
<1>3. r \in Seq(Nat) /\ KeyOK(r, Len(r), granted[k], Len(granted[k]), now)
  BY <1>1, <1>2, KeptList, PruneList
<1>4. Len(r) <= Limit
  BY <1>3 DEF KeyOK, Suffix
<1>5. requests' = [requests EXCEPT ![k] = r]
  BY <1>2
<1>6. /\ key' = [key EXCEPT ![p] = NoKey] /\ at' = [at EXCEPT ![p] = 0]
      /\ UNCHANGED <<now, sweeping, granted>>
  BY DEF Deny, Return
<1> HIDE DEF r, k
<1>7. TypeOK' /\ Waiting' /\ (sweeping <= now)'
  BY <1>1, <1>3, <1>4, <1>5, <1>6 DEF IInv, TypeOK, Waiting
<1>8. KeysOK'
  BY <1>1, <1>3, <1>5, <1>6 DEF IInv, TypeOK, KeysOK
<1> QED BY <1>7, <1>8 DEF IInv

\* Allow records and allows.
LEMMA GrantIInv ==
    ASSUME IInv, NEW p \in Procs, Grant(p)
    PROVE  IInv'
<1> DEFINE k == key[p]
<1>1. /\ k \in Keys /\ at[p] \in Nat /\ at[p] <= now /\ now - at[p] <= MaxSkew /\ now \in Nat
      /\ requests[k] \in Seq(Nat) /\ granted[k] \in Seq(Nat)
      /\ KeyOK(requests[k], Len(requests[k]), granted[k], Len(granted[k]), now)
  BY InAllow DEF Grant
<1>2. PICK n \in 0..Len(requests[k]) :
         /\ StalePrefix(requests[k], n, at[p]) /\ Len(Kept(requests[k], n)) < Limit
         /\ requests' = [requests EXCEPT ![k] = Append(Kept(requests[k], n), at[p])]
  BY DEF Grant
<1> DEFINE kept == Kept(requests[k], n)
           r == Append(kept, at[p])
           g == Append(granted[k], at[p])
<1>3. kept \in Seq(Nat) /\ KeyOK(kept, Len(kept), granted[k], Len(granted[k]), now) /\ Len(kept) < Limit
  BY <1>1, <1>2, KeptList, PruneList
<1>4. requests' = [requests EXCEPT ![k] = r] /\ granted' = [granted EXCEPT ![k] = g]
  BY <1>2 DEF Grant
<1> HIDE DEF kept, k
<1>5. /\ r \in Seq(Nat) /\ Len(r) = Len(kept) + 1 /\ r[Len(kept) + 1] = at[p]
      /\ \A i \in 1..Len(kept) : r[i] = kept[i]
  BY <1>1, <1>3
<1>6. /\ g \in Seq(Nat) /\ Len(g) = Len(granted[k]) + 1 /\ g[Len(granted[k]) + 1] = at[p]
      /\ \A i \in 1..Len(granted[k]) : g[i] = granted[k][i]
  BY <1>1
<1> HIDE DEF r, g
<1>7. Len(kept) \in Nat /\ Len(granted[k]) \in Nat
  BY <1>1, <1>3
<1>8. KeyOK(r, Len(r), g, Len(g), now)
  <2> DEFINE a == Len(kept)
             b == Len(granted[k])
  <2>1. KeyOK(r, a + 1, g, b + 1, now)
    BY <1>1, <1>3, <1>5, <1>6, <1>7, RecordKey
  <2> QED BY <2>1, <1>5, <1>6
<1>9. Len(r) <= Limit
  BY <1>8 DEF KeyOK, Suffix
<1>10. /\ key' = [key EXCEPT ![p] = NoKey] /\ at' = [at EXCEPT ![p] = 0]
       /\ UNCHANGED <<now, sweeping>>
  BY DEF Grant, Return
<1>11. TypeOK' /\ Waiting' /\ (sweeping <= now)'
  BY <1>1, <1>4, <1>5, <1>6, <1>9, <1>10 DEF IInv, TypeOK, Waiting
<1>12. KeysOK'
  BY <1>1, <1>4, <1>8, <1>10 DEF IInv, TypeOK, KeysOK
<1> QED BY <1>11, <1>12 DEF IInv

\* The sweep deletes keys.
LEMMA SweepIInv ==
    ASSUME IInv, Sweep
    PROVE  IInv'
<1>1. /\ sweeping \in Nat /\ sweeping <= now /\ now \in Nat
      /\ UNCHANGED <<now, key, at, granted>> /\ sweeping' = -1
  BY Numbers DEF IInv, TypeOK, Sweep
<1>2. ASSUME NEW k \in Keys
      PROVE  /\ requests'[k] \in Seq(Nat) /\ Len(requests'[k]) <= Limit
             /\ KeyOK(requests'[k], Len(requests'[k]), granted[k], Len(granted[k]), now)
  <2>1. /\ requests[k] \in Seq(Nat) /\ Len(requests[k]) <= Limit /\ granted[k] \in Seq(Nat)
        /\ KeyOK(requests[k], Len(requests[k]), granted[k], Len(granted[k]), now)
    BY DEF IInv, TypeOK, KeysOK
  <2>2. CASE Swept(requests[k])
    <3>1. requests'[k] = <<>>
      BY <2>2 DEF Sweep
    <3>2. /\ Len(requests[k]) \in Nat /\ Len(requests[k]) >= 1 /\ Len(granted[k]) \in Nat
          /\ requests[k][Len(requests[k])] < sweeping - Window
      BY <2>1, <2>2 DEF Swept, Stale
    <3>3. KeyOK(<<>>, 0, granted[k], Len(granted[k]), now)
      BY <2>1, <3>2, <1>1, SweepKey
    <3> QED BY <3>1, <3>3, Numbers
  <2>3. CASE ~Swept(requests[k])
    <3>1. requests'[k] = requests[k]
      BY <2>3 DEF Sweep
    <3> QED BY <2>1, <3>1
  <2> QED BY <2>2, <2>3
<1>3. requests' = [k \in Keys |-> requests'[k]]
  BY DEF Sweep
<1>4. TypeOK' /\ Waiting' /\ (sweeping <= now)'
  BY <1>1, <1>2, <1>3 DEF IInv, TypeOK, Waiting
<1>5. KeysOK'
  BY <1>1, <1>2 DEF KeysOK
<1> QED BY <1>4, <1>5 DEF IInv

LEMMA NextIInv ==
    ASSUME IInv, [Next]_vars
    PROVE  IInv'
<1>1. CASE Tick
  <2>1. /\ now' = now + 1 /\ now \in Nat /\ now' \in 0..MaxTime
        /\ UNCHANGED <<requests, key, at, sweeping, granted>>
    BY <1>1, Numbers DEF IInv, TypeOK, Tick
  <2>2. TypeOK' /\ Waiting' /\ (sweeping <= now)'
    BY <2>1, <1>1, Numbers DEF IInv, TypeOK, Waiting, Tick
  <2>3. KeysOK'
    <3>1. \A k \in Keys : Len(requests[k]) \in Nat /\ Len(granted[k]) \in Nat
      BY DEF IInv, TypeOK
    <3> QED BY <3>1, <2>1, TickKey DEF IInv, KeysOK
  <2> QED BY <2>2, <2>3 DEF IInv
<1>2. CASE SweepRead
  BY <1>2 DEF SweepRead, IInv, TypeOK, Waiting, KeysOK
<1>3. CASE Sweep
  BY <1>3, SweepIInv
<1>4. ASSUME NEW p \in Procs, NEW k \in Keys, ReadClock(p, k)
      PROVE  IInv'
  <2>1. TypeOK' /\ Waiting' /\ (sweeping <= now)'
    BY <1>4, Numbers DEF ReadClock, IInv, TypeOK, Waiting
  <2>2. KeysOK'
    BY <1>4 DEF ReadClock, IInv, KeysOK
  <2> QED BY <2>1, <2>2 DEF IInv
<1>5. CASE UNCHANGED vars
  BY <1>5 DEF vars, IInv, TypeOK, Waiting, KeysOK
<1> QED BY <1>1, <1>2, <1>3, <1>4, <1>5, DenyIInv, GrantIInv DEF Next

\* Deny prunes nothing: there are never more than Limit timestamps.
LEMMA DenyStep ==
    ASSUME IInv, NEW p \in Procs, Deny(p)
    PROVE  /\ Len(granted[key[p]]) >= Limit
           /\ \A j \in (Len(granted[key[p]]) - Limit + 1)..Len(granted[key[p]]) :
                 granted[key[p]][j] >= at[p] - Window - MaxSkew
<1> DEFINE k == key[p]
           ts == requests[k]
<1>1. /\ at[p] \in Nat /\ now \in Nat /\ ts \in Seq(Nat) /\ granted[k] \in Seq(Nat)
      /\ KeyOK(ts, Len(ts), granted[k], Len(granted[k]), now)
  BY InAllow DEF Deny
<1>2. PICK n \in 0..Len(ts) : StalePrefix(ts, n, at[p]) /\ Len(Kept(ts, n)) >= Limit
  BY DEF Deny
<1> HIDE DEF k, ts
<1>3. Len(Kept(ts, n)) = Len(ts) - n
  BY <1>1, <1>2, KeptList
<1>4. n = 0 /\ Len(ts) = Limit
  BY <1>1, <1>2, <1>3, Numbers DEF KeyOK, Suffix
<1>5. ~(ts[1] < at[p] - Window)
  BY <1>2, <1>4, Numbers DEF StalePrefix, Stale
<1>6. Len(ts) \in Nat /\ Len(granted[k]) \in Nat
  BY <1>1
<1> QED BY <1>1, <1>4, <1>5, <1>6, DenyKey DEF k

-----------------------------------------------------------------------------
(* The theorems                                                            *)

\* Every reachable state satisfies the inductive invariant.
THEOREM RateInvariance == Spec => []IInv
BY InitIInv, NextIInv, PTL DEF Spec

\* Types, and at most Limit timestamps are kept per key.
THEOREM RateTypeCorrect == Spec => []TypeOK
BY RateInvariance, PTL DEF IInv

\* Allow and sweep: Limit + 1 allowed requests of a key span more than the
\* window, less twice the skew.
THEOREM RateLimitCorrect == Spec => []WindowLimit
<1>1. IInv => WindowLimit
  BY DEF IInv, KeysOK, KeyOK, Spread, WindowLimit
<1> QED BY <1>1, RateInvariance, PTL

\* Allow denies only for requests it allowed in the window, up to the skew.
THEOREM RateDenialCorrect == Spec => DenialJustified
<1> DEFINE A == \A p \in Procs :
                  key[p] # NoKey /\ key'[p] = NoKey /\ granted' = granted =>
                    LET g == granted[key[p]]
                    IN  /\ Len(g) >= Limit
                        /\ \A j \in (Len(g) - Limit + 1)..Len(g) :
                              g[j] >= at[p] - Window - MaxSkew
<1>1. ASSUME IInv, Next PROVE A
  <2> SUFFICES ASSUME NEW p \in Procs, key[p] # NoKey, key'[p] = NoKey, granted' = granted
               PROVE  Deny(p)
    BY <1>1, DenyStep
  <2>1. ASSUME NEW q \in Procs, Grant(q) PROVE FALSE
    <3>1. key[q] \in Keys /\ granted[key[q]] \in Seq(Nat) /\ at[q] \in Nat
      BY <1>1, <2>1, InAllow DEF Grant
    <3>2. granted'[key[q]] = Append(granted[key[q]], at[q])
      BY <3>1, <2>1, <1>1 DEF Grant, IInv, TypeOK
    <3>3. Len(granted'[key[q]]) = Len(granted[key[q]]) + 1 /\ Len(granted[key[q]]) \in Nat
      BY <3>1, <3>2
    <3> QED BY <3>3
  <2>2. ASSUME NEW q \in Procs, Deny(q) PROVE q = p
    BY <1>1, <2>2 DEF IInv, TypeOK, Deny, Return
  <2>3. ASSUME NEW q \in Procs, NEW k \in Keys, ReadClock(q, k) PROVE FALSE
    BY <1>1, <2>3, NoKeyAssumption DEF IInv, TypeOK, ReadClock
  <2> QED BY <1>1, <2>1, <2>2, <2>3 DEF Next, Tick, SweepRead, Sweep
<1>2. ASSUME IInv, [Next]_vars PROVE [A]_vars
  BY <1>1, <1>2
<1> QED BY <1>2, RateInvariance, PTL DEF Spec, DenialJustified

=============================================================================
