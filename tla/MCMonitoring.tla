---------------------------- MODULE MCMonitoring ----------------------------
(***************************************************************************)
(* A small instance of Monitoring: two callers, one of them unknown.       *)
(***************************************************************************)
EXTENDS Monitoring, TLC

Sym == Permutations(Handlers)
=============================================================================
