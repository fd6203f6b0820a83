------------------------------ MODULE Wallets ------------------------------
(***************************************************************************)
(* What a wallet promises to the money that comes in and goes out: every   *)
(* credit is applied at most once and whole, whoever else moves money at   *)
(* the same time, and nobody takes out more than there is.                 *)
(***************************************************************************)
EXTENDS Integers

CONSTANTS Users,
          Credits,        \* the sums that may come in, each one a single event
          Owner, Amount,  \* functions: whose wallet, and how much
          Opening         \* the balances at the start

VARIABLES balance, applied   \* applied: the credits that have come in

Init == balance = Opening /\ applied = {}

Apply(c) ==
  /\ c \notin applied
  /\ applied' = applied \cup {c}
  /\ balance' = [balance EXCEPT ![Owner[c]] = @ + Amount[c]]

Take(u) ==
  /\ \E a \in 1..balance[u] : balance' = [balance EXCEPT ![u] = @ - a]
  /\ UNCHANGED applied

Next == (\E c \in Credits : Apply(c)) \/ (\E u \in Users : Take(u))

Spec == Init /\ [][Next]_<<balance, applied>>
=============================================================================
