---------------------------- MODULE OneTimeCode ----------------------------
(***************************************************************************)
(* What logging in promises, without clocks, tables and concurrency:       *)
(* whoever signs in as k has given the code that was there for k, within   *)
(* Tries tries, and each code signs in once.                               *)
(***************************************************************************)
EXTENDS Naturals, Maps

CONSTANTS Keys, Codes, Tries, Requests, Sessions

VARIABLES
    code,   \* the codes that can be redeemed: code[k].pin, with code[k].left tries
    pass,   \* the requests that have redeemed a code: pass[r].key, pass[r].pin
    open    \* the open sessions: open[s] is whose

vars == <<code, pass, open>>

Init == code = <<>> /\ pass = <<>> /\ open = <<>>

Issue(k) ==
    /\ \E c \in Codes : code' = Put(code, k, [pin |-> c, left |-> Tries])
    /\ UNCHANGED <<pass, open>>

Miss(k) ==
    /\ k \in DOMAIN code /\ code[k].left > 0
    /\ code' = [code EXCEPT ![k].left = @ - 1]
    /\ UNCHANGED <<pass, open>>

Redeem(r, k) ==
    /\ k \in DOMAIN code /\ code[k].left > 0 /\ r \notin DOMAIN pass
    /\ code' = Without(code, {k})
    /\ pass' = Put(pass, r, [key |-> k, pin |-> code[k].pin])
    /\ UNCHANGED open

SignIn(r, s) ==
    /\ r \in DOMAIN pass /\ s \notin DOMAIN open
    /\ pass' = Without(pass, {r})
    /\ open' = Put(open, s, pass[r].key)
    /\ UNCHANGED code

\* Codes expire, requests fail, sessions end.
Forget == \E K \in SUBSET Keys, R \in SUBSET Requests, S \in SUBSET Sessions :
    /\ code' = Without(code, K)
    /\ pass' = Without(pass, R)
    /\ open' = Without(open, S)

Next == \/ Forget
        \/ \E k \in Keys : Issue(k) \/ Miss(k) \/ \E r \in Requests : Redeem(r, k)
        \/ \E r \in Requests, s \in Sessions : SignIn(r, s)

Spec == Init /\ [][Next]_vars
=============================================================================
