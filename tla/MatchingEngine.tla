--------------------------- MODULE MatchingEngine ---------------------------
(***************************************************************************)
(* The price-time matching of one incoming order against the resting rows  *)
(* of the opposite side, in closed form.  The code loops over the rows in  *)
(* the order of its SELECT (matching_engine_service.py, matchingOrder);    *)
(* here every resting row gets what is left of the incoming quantity after *)
(* the rows served before it.  MatchingLoop checks that the two agree.     *)
(*                                                                         *)
(* A row is a record with at least: price (0 stands for a NULL price, which *)
(* only a SELL can have), rem (remaining_quantity) and at (its place in    *)
(* created_at order).                                                      *)
(***************************************************************************)
EXTENDS Integers, FiniteSets, Functions

\* price_match: a BUY crosses a SELL it can afford, a SELL a BUY that pays
\* enough.  A NULL price crosses nothing here: price_match raises on it.
Crosses(side, price, resting) ==
  /\ price # 0 /\ resting # 0
  /\ IF side = "BUY" THEN resting <= price ELSE resting >= price

\* ORDER BY price ASC | DESC, created_at ASC: is row r served before row s
\* by an incoming order of this side?
ServedBefore(side, r, s) ==
  \/ IF side = "BUY" THEN r.price < s.price ELSE r.price > s.price
  \/ r.price = s.price /\ r.at < s.at

Crossing(side, price, rows) ==
  {c \in DOMAIN rows : Crosses(side, price, rows[c].price)}

Remaining(rows) == [c \in DOMAIN rows |-> rows[c].rem]

\* The quantity that is gone before row c is reached.
TakenBefore(c, side, price, rows) ==
  SumFunctionOnSet(Remaining(rows),
    {d \in Crossing(side, price, rows) : ServedBefore(side, rows[d], rows[c])})

\* A slip: every crossing row is offered the whole incoming quantity, as if
\* `incoming_qty -= trade_qty` were missing.
AllocationWithoutDecrement(side, price, qty, rows) ==
  [c \in DOMAIN rows |->
     IF c \in Crossing(side, price, rows)
     THEN IF rows[c].rem < qty THEN rows[c].rem ELSE qty
     ELSE 0]

\* trade_qty of every row: min(incoming_qty, remaining_quantity) when the
\* loop reaches it, nothing when it does not cross or comes too late.
Allocation(side, price, qty, rows) ==
  [c \in DOMAIN rows |->
     IF c \in Crossing(side, price, rows)
     THEN LET left == qty - TakenBefore(c, side, price, rows)
          IN  IF left <= 0 THEN 0
              ELSE IF rows[c].rem < left THEN rows[c].rem ELSE left
     ELSE 0]

\* Decimal(str(None)) raises: when the incoming price is NULL and there is any
\* row to compare it with, or when the loop, with quantity left, reaches the
\* rows with a NULL price, which ORDER BY price ASC puts last.
MatchRaises(side, price, qty, rows) ==
  /\ DOMAIN rows # {}
  /\ \/ price = 0
     \/ /\ \E c \in DOMAIN rows : rows[c].price = 0
        /\ SumFunctionOnSet(Remaining(rows), Crossing(side, price, rows)) < qty
=============================================================================
