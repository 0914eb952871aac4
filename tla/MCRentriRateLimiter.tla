------------------------- MODULE MCRentriRateLimiter -------------------------
(***************************************************************************)
(* Instances of RentriRateLimiter.                                         *)
(***************************************************************************)
EXTENDS RentriRateLimiter

CONSTANTS i1, i2, p1
===============================================================================
