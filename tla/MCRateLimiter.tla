--------------------------- MODULE MCRateLimiter ---------------------------
(* RateLimiter on a small instance whose callers are interchangeable.      *)
EXTENDS RateLimiter, TLC

Symmetry == Permutations(Callers)
=============================================================================
