---------------------------- MODULE MCRateLimit ----------------------------
(* Two windows of two seconds, three keys for two buckets, and two losses of *)
(* buckets to a clock set back or a restart.                                 *)
EXTENDS RateLimit, TLC

KeySymmetry == Permutations(Keys)
=============================================================================
