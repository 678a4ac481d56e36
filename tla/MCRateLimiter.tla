--------------------------- MODULE MCRateLimiter ---------------------------
(* TLC instance of RateLimiter; safety only, the IPs are interchangeable.   *)
EXTENDS RateLimiter, TLC

Symmetry == Permutations(IPs)
=============================================================================
