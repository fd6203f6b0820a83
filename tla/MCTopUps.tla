------------------------------ MODULE MCTopUps ------------------------------
(* A small instance of TopUps for TLC: a new user who pays in twice at the
   same time, and a user who has a wallet and pays in nothing. *)
EXTENDS TopUps, TLC
CONSTANTS ann, ben, d1, d2
MCUsers == {ann, ben}
MCDeposits == {d1, d2}
MCOwner == (d1 :> ann) @@ (d2 :> ann)
MCAmount == (d1 :> 1) @@ (d2 :> 2)
MCOpening == (ann :> NoWallet) @@ (ben :> 1)
=============================================================================
