--------------------------- MODULE MCMarginLedger ---------------------------
(* Small instances of MarginLedger for TLC: a SELL of two lots and a BUY of
   one, filled by two transactions. *)
EXTENDS MarginLedger
CONSTANTS sell, buy, pass1, pass2
TwoOrders == {sell, buy}
TwoPasses == {pass1, pass2}
LotsOfOrders == [o \in TwoOrders |-> IF o = sell THEN -2 ELSE 1]
TwoRates == {2, 3}
SomeBalances == {3, 9}
LongOne == {1}
Flat == {0}
=============================================================================
