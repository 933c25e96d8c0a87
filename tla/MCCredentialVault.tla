------------------------- MODULE MCCredentialVault -------------------------
(* CredentialVault for TLC. *)
EXTENDS CredentialVault, TLC

Symmetry == Permutations(Users) \cup Permutations(Requests) \cup Permutations(Inputs)
            \cup Permutations(DEKs)
=============================================================================
