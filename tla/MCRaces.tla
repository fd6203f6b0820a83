------------------------------ MODULE MCRaces ------------------------------
(* CashOrders for TLC with four or five orders whose requests are fixed. *)
EXTENDS MCCashOrders

CONSTANTS o4, o5

FourOrders == {o1, o2, o3, o4}
FiveOrders == FourOrders \cup {o5}

BuyOne  == Ask(alice, "BUY", "LIMIT", 1, 1, 0)
BuyTwo  == Ask(alice, "BUY", "LIMIT", 2, 2, 0)
SellOne == Ask(bob, "SELL", "LIMIT", 1, 1, 0)
SellTwo == Ask(bob, "SELL", "LIMIT", 1, 2, 0)
StopBuy == Ask(alice, "BUY", "STOP", 1, 1, 1)

\* Four orders are the least with which two trades reach one dormant order.
\* With one amendment, a seller of two shares may offer four, and a buyer run
\* out of cash.
RaceRequests == {BuyTwo, SellOne, StopBuy}
RaceInit ==
  /\ Init
  /\ req = (o1 :> BuyTwo) @@ (o2 :> SellOne) @@ (o3 :> SellOne) @@ (o4 :> StopBuy)
RaceSpec == RaceInit /\ [][Next]_vars
RaceSymmetry == Permutations({o2, o3}) \cup Permutations(TwoWorkers)

\* Five orders are the least with which a trade triggers a stop whose trade, at
\* another price, triggers a second one: upwards, or downwards.
LimitAfterOne == Ask(carol, "BUY", "STOPLIMIT", 2, 1, 1)
StopAfterTwo  == Ask(alice, "BUY", "STOP", 2, 1, 2)
SellAtTwo     == Ask(bob, "SELL", "LIMIT", 2, 1, 0)
BuyAtTwo      == Ask(alice, "BUY", "LIMIT", 2, 1, 0)
LimitBelowTwo == Ask(bob, "SELL", "STOPLIMIT", 1, 1, 2)
StopBelowOne  == Ask(carol, "SELL", "STOP", 0, 1, 1)
CascadeRequests ==
  {SellOne, BuyOne, LimitAfterOne, StopAfterTwo, SellAtTwo, BuyAtTwo,
   LimitBelowTwo, StopBelowOne}
Book(first, second, third, fourth, fifth) ==
  (o1 :> first) @@ (o2 :> second) @@ (o3 :> third) @@ (o4 :> fourth)
    @@ (o5 :> fifth)
CascadeInit ==
  /\ Init
  /\ \/ req = Book(SellOne, BuyOne, LimitAfterOne, SellAtTwo, StopAfterTwo)
     \/ req = Book(SellOne, BuyAtTwo, LimitBelowTwo, BuyOne, StopBelowOne)
\* Two workers whose transactions take turns, so that none is refused a row
\* another one holds; a pass that must fail does.  Nobody cancels: a client who
\* does changes what a handler starts from only.
Undisturbed(w) ==
  \/ InsertOrder(w) \/ InsertBookRow(w)
  \/ MatchNothing(w) \/ Match(w)
  \/ Matching(w) /\ MustFail(Current(w)) /\ MatchFails(w)
  \/ Trigger(w)
CascadeNext ==
  \E w \in Workers : Undisturbed(w) \/ \E o \in Orders : Submit(w, o)
\* WF_vars(Undisturbed(w)): this action is possible while w is busy, and then
\* the only one that changes worker[w].  TLC takes far longer over ENABLED.
KeepsGoing(w) ==
  []<>(worker[w] = Idle) \/ []<><<worker'[w] # worker[w]>>_worker
CascadeSpec ==
  /\ CascadeInit /\ [][CascadeNext]_vars
  /\ \A w \in Workers : KeepsGoing(w)

\* A price wakes a stop of each side; one fills the other before the pass of
\* the other is run.
StopSell == Ask(alice, "SELL", "STOP", 1, 1, 1)
StopBuyCarol == Ask(carol, "BUY", "STOP", 1, 1, 1)
OpposedRequests == {StopSell, StopBuyCarol, SellTwo, BuyOne}
OpposedInit ==
  /\ Init
  /\ req = (o1 :> StopSell) @@ (o2 :> StopBuyCarol) @@ (o3 :> SellTwo) @@ (o4 :> BuyOne)
OpposedSpec == OpposedInit /\ [][Next]_vars
=============================================================================
