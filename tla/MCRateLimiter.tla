---------------------------- MODULE MCRateLimiter ----------------------------
(* Small instances of RateLimiter around CircuitBreaker.                     *)
EXTENDS RateLimiter
=============================================================================
