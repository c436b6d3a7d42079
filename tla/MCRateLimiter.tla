---------------------------- MODULE MCRateLimiter ----------------------------
(***************************************************************************)
(* Limits for TLC.  The requests of a client are interchangeable.          *)
(***************************************************************************)
EXTENDS Limits, TLC

MCRequests == Permutations(Requests)
=============================================================================
