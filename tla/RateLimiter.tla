---------------------------- MODULE RateLimiter ----------------------------
(***************************************************************************)
(* internal/auth/ratelimit.go: a sliding window of timestamps per key,     *)
(* shared by the goroutines that serve requests and by the sweep.          *)
(*                                                                         *)
(* Allow and sweep read the clock before they take the lock, so decisions  *)
(* may be made in another order than the clock was read in. What happens   *)
(* under the lock is one step. MaxSkew bounds how long a request waits     *)
(* between its two steps; the properties say what the limiter is worth for *)
(* a given skew, and with MaxSkew = 0 they are exact.                      *)
(***************************************************************************)
EXTENDS Integers, Sequences

CONSTANTS
    Keys, NoKey,
    Procs,      \* goroutines that serve requests
    Limit,      \* rl.limit
    Window,     \* rl.window
    MaxSkew,    \* the longest wait for the lock, in units of the clock
    MaxTime     \* bound: the clock stops

ASSUME NoKeyAssumption == NoKey \notin Keys
ASSUME LimitAssumption == Limit \in Nat \ {0} /\ Window \in Nat
ASSUME TimeAssumption == MaxSkew \in Nat /\ MaxTime \in Nat

VARIABLES
    now,        \* the clock
    requests,   \* rl.requests; a key that is not in the map is <<>>
    key, at,    \* the key and clock reading of a process in Allow, or NoKey
    sweeping,   \* the sweep's clock reading, or -1
    granted     \* history: the clock readings of the allowed requests, in the
                \* order in which they were allowed

vars == <<now, requests, key, at, sweeping, granted>>

Init ==
    /\ now = 0
    /\ requests = [k \in Keys |-> <<>>] /\ granted = [k \in Keys |-> <<>>]
    /\ key = [p \in Procs |-> NoKey] /\ at = [p \in Procs |-> 0]
    /\ sweeping = -1

\* No process waits for the lock longer than MaxSkew.
Tick ==
    /\ now < MaxTime /\ now' = now + 1
    /\ \A p \in Procs : key[p] # NoKey => now - at[p] < MaxSkew
    /\ UNCHANGED <<requests, key, at, sweeping, granted>>

\* x is before the cutoff of the time t.
Stale(x, t) == x < t - Window

\* Mutant: nothing is pruned.
PruneNothing(ts, n, t) == n = 0

\* The loop over the prefix of ts that is outside the window: n timestamps.
StalePrefix(ts, n, t) ==
    /\ \A i \in 1..n : Stale(ts[i], t)
    /\ n < Len(ts) => ~Stale(ts[n + 1], t)

Kept(ts, n) == SubSeq(ts, n + 1, Len(ts))

\* Allow, before the lock.
ReadClock(p, k) ==
    /\ key[p] = NoKey
    /\ key' = [key EXCEPT ![p] = k] /\ at' = [at EXCEPT ![p] = now]
    /\ UNCHANGED <<now, requests, sweeping, granted>>

Return(p) == key' = [key EXCEPT ![p] = NoKey] /\ at' = [at EXCEPT ![p] = 0]

\* Allow, under the lock: too many timestamps are left.
Deny(p) ==
    /\ key[p] # NoKey
    /\ \E n \in 0..Len(requests[key[p]]) :
          LET kept == Kept(requests[key[p]], n)
          IN  /\ StalePrefix(requests[key[p]], n, at[p])
              /\ Len(kept) >= Limit
              /\ requests' = [requests EXCEPT ![key[p]] = kept]
    /\ Return(p)
    /\ UNCHANGED <<now, sweeping, granted>>

\* Mutant: one request more is allowed.
GrantOneMore(p) ==
    /\ key[p] # NoKey
    /\ \E n \in 0..Len(requests[key[p]]) :
          LET kept == Kept(requests[key[p]], n)
          IN  /\ StalePrefix(requests[key[p]], n, at[p])
              /\ Len(kept) <= Limit
              /\ requests' = [requests EXCEPT ![key[p]] = Append(kept, at[p])]
    /\ granted' = [granted EXCEPT ![key[p]] = Append(@, at[p])]
    /\ Return(p)
    /\ UNCHANGED <<now, sweeping>>

\* Allow, under the lock: the request is recorded and allowed.
Grant(p) ==
    /\ key[p] # NoKey
    /\ \E n \in 0..Len(requests[key[p]]) :
          LET kept == Kept(requests[key[p]], n)
          IN  /\ StalePrefix(requests[key[p]], n, at[p])
              /\ Len(kept) < Limit
              /\ requests' = [requests EXCEPT ![key[p]] = Append(kept, at[p])]
    /\ granted' = [granted EXCEPT ![key[p]] = Append(@, at[p])]
    /\ Return(p)
    /\ UNCHANGED <<now, sweeping>>

SweepRead ==
    /\ sweeping = -1 /\ sweeping' = now
    /\ UNCHANGED <<now, requests, key, at, granted>>

\* Mutant: the first timestamp decides, not the last.
SweepByFirst(ts) == ts # <<>> /\ Stale(ts[1], sweeping)

\* Only the last timestamp is looked at.
Swept(ts) == ts # <<>> /\ Stale(ts[Len(ts)], sweeping)

Sweep ==
    /\ sweeping # -1 /\ sweeping' = -1
    /\ requests' = [k \in Keys |-> IF Swept(requests[k]) THEN <<>> ELSE requests[k]]
    /\ UNCHANGED <<now, key, at, granted>>

Next == \/ Tick \/ SweepRead \/ Sweep
        \/ \E p \in Procs : Deny(p) \/ Grant(p) \/ \E k \in Keys : ReadClock(p, k)

Spec == Init /\ [][Next]_vars

-----------------------------------------------------------------------------
TypeOK ==
    /\ now \in 0..MaxTime
    /\ requests \in [Keys -> Seq(Nat)] /\ granted \in [Keys -> Seq(Nat)]
    /\ \A k \in Keys : Len(requests[k]) <= Limit
    /\ key \in [Procs -> Keys \cup {NoKey}] /\ at \in [Procs -> Nat]
    /\ sweeping \in Nat \cup {-1}

\* Any Limit + 1 requests that are allowed for a key span more than a window,
\* less the time a request may wait for the lock, twice: once for a request that
\* is decided late, once for the sweep, which looks at the last timestamp only.
WindowLimit == \A k \in Keys : \A i \in 1..(Len(granted[k]) - Limit) :
    granted[k][i + Limit] - granted[k][i] > Window - 2 * MaxSkew

\* A request is denied only because of Limit requests of its key in its window,
\* up to the skew: timestamps out of order may hide a stale one from the loop.
DenialJustified == [][\A p \in Procs :
    key[p] # NoKey /\ key'[p] = NoKey /\ granted' = granted =>
      LET g == granted[key[p]]
      IN  /\ Len(g) >= Limit
          /\ \A j \in (Len(g) - Limit + 1)..Len(g) : g[j] >= at[p] - Window - MaxSkew]_vars
=============================================================================
