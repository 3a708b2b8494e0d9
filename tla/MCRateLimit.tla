---------------------------- MODULE MCRateLimit ----------------------------
(* Values for the constants of RateLimit.                                   *)
EXTENDS RateLimit, TLC

\* The permits of one account are interchangeable.
PermitSymmetry == Permutations(Senders)
=============================================================================
