--------------------------- MODULE MCCashOrders ---------------------------
(* Small instances of CashOrders for TLC. *)
EXTENDS CashOrders, TLC

CONSTANTS alice, bob, carol, o1, o2, o3, w1, w2

Ask(u, s, ty, p, q, tr) ==
  [user |-> u, side |-> s, type |-> ty, price |-> p, qty |-> q, trigger |-> tr]

MCUsers == {alice, bob, carol}
MCOrders == {o1, o2, o3}
OneWorker == {w1}
TwoWorkers == {w1, w2}

MCCash == [u \in MCUsers |-> 9]
\* Enough for one LIMIT BUY and half of another.
LowCash == [u \in MCUsers |-> 6]
MCShares == [u \in MCUsers |-> IF u = bob THEN 2 ELSE 1]
Amendment(p, q, tr) == [price |-> p, qty |-> q, trigger |-> tr]

\* Every order type, two sellers, both sides for bob, a SELL without a price.
MixedRequests ==
  {Ask(alice, "BUY", "LIMIT", 2, 2, 0), Ask(bob, "SELL", "LIMIT", 1, 1, 0),
   Ask(bob, "SELL", "STOP", 0, 2, 1), Ask(carol, "SELL", "MARKET", 0, 1, 0),
   Ask(alice, "BUY", "STOPLIMIT", 2, 1, 1), Ask(bob, "BUY", "LIMIT", 1, 1, 0)}

\* Stops on both sides, whose price the trigger replaces.
StopRequests ==
  {Ask(alice, "BUY", "LIMIT", 2, 1, 0), Ask(bob, "SELL", "LIMIT", 1, 1, 0),
   Ask(bob, "SELL", "LIMIT", 2, 2, 0), Ask(bob, "SELL", "STOP", 0, 2, 1),
   Ask(alice, "BUY", "STOP", 1, 1, 2)}

LimitRequests ==
  {Ask(alice, "BUY", "LIMIT", 2, 2, 0), Ask(bob, "SELL", "LIMIT", 1, 1, 0)}

BothWays == {Amendment(1, 0, 0), Amendment(0, 3, 0)}
UpOnly == {Amendment(3, 0, 0), Amendment(0, 3, 0)}

\* What is asked for is what the properties without overlap are about.
SequentialInit == Init /\ StopsOnOneSide /\ NoStopBuys
SequentialSpec == SequentialInit /\ [][Next]_vars

OrderSymmetry == Permutations(MCOrders)
Symmetry == Permutations(MCOrders) \cup Permutations(TwoWorkers)
=============================================================================
