------------------------------ MODULE MCAccounts ------------------------------
(***************************************************************************)
(* Accounts for TLC: the cron job, the daemon and an operator.              *)
(***************************************************************************)
EXTENDS Accounts, TLC

MCSymmetry == Permutations(Procs)
=============================================================================
