---------------------------- MODULE MCContentSupply ----------------------------
(***************************************************************************)
(* ContentSupply for TLC: two processes, and the rows of one topic, which   *)
(* is stored, expires and is stored again.                                  *)
(***************************************************************************)
EXTENDS ContentSupply, TLC

MCSymmetry == Permutations(Procs)
=============================================================================
