---------------------------- MODULE MCRateLimiter ----------------------------
(* Small instances of RateLimiter.  Requests are alike. *)
EXTENDS RateLimiter, TLC

Symmetric == Permutations(Req)

=============================================================================
