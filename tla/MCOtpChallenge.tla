--------------------------- MODULE MCOtpChallenge ---------------------------
(* Instances of OtpChallenge for TLC.                                       *)
EXTENDS OtpChallenge, TLC

CONSTANTS h1, h2, h3

Sym == Permutations(Handlers)
============================================================================
