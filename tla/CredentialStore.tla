-------------------------- MODULE CredentialStore --------------------------
(***************************************************************************)
(* What keeping credentials promises, without keys and concurrency: a user *)
(* who is told that credentials are saved has them saved at one moment of  *)
(* the request, and a request that loads gets those that are saved at one  *)
(* moment of it.                                                           *)
(***************************************************************************)
EXTENDS Maps

CONSTANTS Users, Inputs, Requests

VARIABLES
    saved,      \* the credentials of each user who has any
    asked,      \* the requests to save: asked[r].user, asked[r].input
    acked,      \* the requests that were told that theirs are saved
    loaded      \* the requests that have loaded: loaded[r].user, loaded[r].input

vars == <<saved, asked, acked, loaded>>

Init == saved = <<>> /\ asked = <<>> /\ acked = {} /\ loaded = <<>>

Ask(r, u) ==
    /\ r \notin DOMAIN asked
    /\ \E x \in Inputs : asked' = Put(asked, r, [user |-> u, input |-> x])
    /\ UNCHANGED <<saved, acked, loaded>>

Save(r) ==
    /\ r \in DOMAIN asked
    /\ saved' = Put(saved, asked[r].user, asked[r].input)
    /\ asked' = Without(asked, {r}) /\ acked' = acked \cup {r}
    /\ UNCHANGED loaded

Load(r, u) ==
    /\ r \notin DOMAIN loaded /\ u \in DOMAIN saved
    /\ loaded' = Put(loaded, r, [user |-> u, input |-> saved[u]])
    /\ UNCHANGED <<saved, asked, acked>>

\* Accounts are deleted, requests fail and end.
Forget == \E U \in SUBSET Users, R, Q \in SUBSET Requests :
    /\ saved' = Without(saved, U)
    /\ asked' = Without(asked, R)
    /\ acked' = acked \ Q /\ loaded' = Without(loaded, Q)

Next == Forget \/ \E r \in Requests : Save(r) \/ \E u \in Users : Ask(r, u) \/ Load(r, u)

Spec == Init /\ [][Next]_vars
=============================================================================
