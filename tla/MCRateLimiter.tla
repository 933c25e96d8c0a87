--------------------------- MODULE MCRateLimiter ---------------------------
(* RateLimiter for TLC. The clock is bounded, so that a behaviour ends.      *)
EXTENDS RateLimiter, TLC

Symmetry == Permutations(Procs)
=============================================================================
