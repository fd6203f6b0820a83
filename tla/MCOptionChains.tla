---------------------------- MODULE MCOptionChains ----------------------------
(* One chain, with a token that is traded as well, and two threads. *)
EXTENDS OptionChains, TLC
CONSTANTS near, t, v1, v2, c1, c2
OneChain == {near}
ItsToken == near :> {t}
Interchangeable == Permutations({v1, v2})
=============================================================================
