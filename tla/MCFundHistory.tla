---------------------------- MODULE MCFundHistory ----------------------------
(* Two schemes and one user, with codes in the order of the job's batches. *)
EXTENDS FundHistory
CONSTANT v
=============================================================================
