--------------------------- MODULE MCRateLimiter ---------------------------
(***************************************************************************)
(* The rate limiter on a small instance: two callers share the table, the  *)
(* window is three ticks and a second two, so that a window is not a whole *)
(* number of seconds and Retry-After really rounds; the clock runs past    *)
(* two windows, far enough for sweeps to find silent callers.              *)
(***************************************************************************)
EXTENDS RateLimiter
=============================================================================
