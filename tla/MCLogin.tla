------------------------------ MODULE MCLogin ------------------------------
(* Login for TLC: two spellings of one address, and another address.        *)
EXTENDS Login, TLC

CONSTANTS ann, Ann, bob

MCLower == [a \in Addresses |-> IF a = Ann THEN ann ELSE a]

Symmetry == Permutations(Pins) \cup Permutations(Ids) \cup Permutations(Tokens)
            \cup Permutations(Requests)
=============================================================================
