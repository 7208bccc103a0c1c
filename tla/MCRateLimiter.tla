--------------------------- MODULE MCRateLimiter ---------------------------
(* Instance of RateLimiter for TLC: two calls of one user and one of another,*)
(* with two requests per minute, so that ten minutes are twenty units.       *)
EXTENDS RateLimiter, TLC

MCCalls == {"c1", "c2", "d"}
MCKeyOf == [c \in MCCalls |-> IF c = "d" THEN "v" ELSE "u"]

Alike == Permutations(Limiters)
=============================================================================
