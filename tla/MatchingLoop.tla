---------------------------- MODULE MatchingLoop ----------------------------
(***************************************************************************)
(* The loop of matchingOrder, row by row as the code runs it, against the  *)
(* closed form of MatchingEngine that CashOrders is built on.              *)
(***************************************************************************)
EXTENDS MatchingEngine, Sequences, SequencesExt

CONSTANTS Names,       \* names of resting rows
          Prices,      \* limit prices; 0, a NULL price, is added for SELLs
          Quantities

ASSUME LoopAssumption ==
  /\ IsFiniteSet(Names)
  /\ Prices \subseteq Nat \ {0} /\ Quantities \subseteq Nat \ {0}

VARIABLES
  inSide, inPrice, inQty,  \* the incoming order
  resting,                 \* the rows of the other side
  queue,                   \* those still to be looked at, as the SELECT sorts
  inLeft,                  \* incoming_qty
  tradeQty,                \* trade_qty per row
  raised                   \* has Decimal(str(None)) been raised?

loopVars == <<inSide, inPrice, inQty, resting, queue, inLeft, tradeQty, raised>>

RestingPrices(s) == IF s = "BUY" THEN Prices \cup {0} ELSE Prices
IncomingPrices(s) == IF s = "SELL" THEN Prices \cup {0} ELSE Prices

\* ORDER BY price ASC puts a NULL price last.
Sorted(s, rows, q) ==
  \A i, j \in DOMAIN q : i < j =>
    \/ rows[q[j]].price = 0 /\ rows[q[i]].price # 0
    \/ rows[q[i]].price # 0 /\ rows[q[j]].price # 0
                            /\ ServedBefore(s, rows[q[i]], rows[q[j]])
    \/ rows[q[i]].price = 0 /\ rows[q[j]].price = 0
                            /\ rows[q[i]].at < rows[q[j]].at

LoopTypeOK ==
  /\ inSide \in {"BUY", "SELL"} /\ inPrice \in Prices \cup {0}
  /\ inQty \in Quantities /\ inLeft \in 0..inQty
  /\ tradeQty \in [Names -> 0..inQty] /\ raised \in BOOLEAN
  /\ queue \in Seq(Names)

LoopInit ==
  /\ inSide \in {"BUY", "SELL"}
  /\ inPrice \in IncomingPrices(inSide)
  /\ inQty \in Quantities
  /\ resting \in [Names -> [price : RestingPrices(inSide), rem : Quantities,
                           at : 1..Cardinality(Names)]]
  /\ \A r, s \in Names : r # s => resting[r].at # resting[s].at
  /\ queue \in {q \in SetToSeqs(Names) : Sorted(inSide, resting, q)}
  /\ inLeft = inQty
  /\ tradeQty = [r \in Names |-> 0]
  /\ raised = FALSE

\* price_match of the row at the head of the queue raises.
RowRaises ==
  /\ queue # <<>> /\ inLeft > 0 /\ ~raised
  /\ inPrice = 0 \/ resting[Head(queue)].price = 0
  /\ raised' = TRUE
  /\ UNCHANGED <<inSide, inPrice, inQty, resting, queue, inLeft, tradeQty>>

\* price_match, then min(incoming_qty, opp_remaining_qty)
Traded(r) ==
  IF ~Crosses(inSide, inPrice, resting[r].price) THEN 0
  ELSE IF inLeft < resting[r].rem THEN inLeft ELSE resting[r].rem

\* One turn of the loop.
RowCompared ==
  LET r == Head(queue) IN
  /\ queue # <<>> /\ inLeft > 0 /\ ~raised
  /\ inPrice # 0 /\ resting[r].price # 0
  /\ tradeQty' = [tradeQty EXCEPT ![r] = Traded(r)]
  /\ inLeft' = inLeft - Traded(r)
  /\ queue' = Tail(queue)
  /\ UNCHANGED <<inSide, inPrice, inQty, resting, raised>>

LoopNext == RowRaises \/ RowCompared
LoopSpec == LoopInit /\ [][LoopNext]_loopVars

Finished == raised \/ queue = <<>> \/ inLeft = 0

\* The closed form gives every row what the loop gives it, and says exactly
\* when the loop raises, for every book and incoming order of this size.
AllocationIsTheLoop ==
  Finished =>
    /\ raised = MatchRaises(inSide, inPrice, inQty, resting)
    /\ ~raised => tradeQty = Allocation(inSide, inPrice, inQty, resting)
=============================================================================
