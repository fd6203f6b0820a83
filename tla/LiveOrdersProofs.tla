-------------------------- MODULE LiveOrdersProofs --------------------------
(***************************************************************************)
(* LiveOrders for any orders, quantity and replays: the types, that no     *)
(* debit is given back twice, that the status of an order tells what was   *)
(* settled of it, that no more is settled than the broker has filled, and  *)
(* that a debit is given back only when nothing can be filled any more.    *)
(*                                                                         *)
(* The reasons are the guarded UPDATE (whoever of the three finds an order *)
(* cancellable takes that away from the other two in the same transaction, *)
(* and nothing ever makes the order cancellable again), the claim of every *)
(* fill, and the order in which the event loop takes the updates.          *)
(***************************************************************************)
EXTENDS LiveOrders, FiniteSetTheorems, TLAPS

USE QtyAssumption, ReplaysAssumption, FaultsAssumption

\* What the event loop may be doing, as the leaves below need it.
LEMMA DoingsAre ==
  /\ Idle \in Doings /\ Idle.stage = "idle"
  /\ \A u \in Updates, s \in Statuses, n \in Asked :
       [stage |-> "handling", update |-> u, seen |-> s, quantity |-> n]
         \in Doings
  /\ \A o \in Orders : [stage |-> "refund", order |-> o] \in Doings
  /\ \A d \in Doings :
       /\ d.stage \in {"idle", "handling", "refund"}
       /\ d.stage = "handling" => /\ d.update \in Updates /\ d.seen \in Statuses
                                /\ d.quantity \in Asked
       /\ d.stage = "refund" => d.order \in Orders
  BY DEF Doings, Idle

\* What an update is made of.
LEMMA UpdatesAre ==
  /\ \A o \in Orders, k \in {"Rejected", "Canceled"} :
       [order |-> o, kind |-> k] \in Updates
  /\ \A o \in Orders, l, n \in Lots :
       [order |-> o, kind |-> "Fill", lots |-> l, upto |-> n] \in Updates
  /\ \A u \in Updates :
       /\ u.order \in Orders
       /\ u.kind = "Fill" => u.lots \in Lots /\ u.upto \in Lots
  BY DEF Updates, Fills, Ends

\* The quantity placed is one that may be asked for.
LEMMA QtyFits == Qty \in Asked
  BY DEF Asked

\* Every write to an orders row is one of these.
LEMMA Rows ==
  ASSUME TypeOK, NEW o \in Orders
  PROVE  /\ UNCHANGED row => row' \in [Orders -> OrderRows]
         /\ CancelRow(o) => row' \in [Orders -> OrderRows]
         /\ row' = [row EXCEPT ![o].linked = TRUE] =>
              row' \in [Orders -> OrderRows]
         /\ \A s \in {"PARTIALLY_EXECUTED", "EXECUTED"} :
              row' = [row EXCEPT ![o].status = s] =>
                row' \in [Orders -> OrderRows]
         /\ \A n \in Asked :
              row' = [row EXCEPT ![o].quantity = n] =>
                row' \in [Orders -> OrderRows]
         /\ \A c \in BOOLEAN :
              row' = [row EXCEPT ![o] = [status |-> "PENDING", cash |-> c,
                                         linked |-> FALSE, quantity |-> Qty]] =>
                row' \in [Orders -> OrderRows]
<1>1. row \in [Orders -> OrderRows]
  BY DEF TypeOK, OrderRows
<1>2. \A r \in OrderRows, s \in Statuses : [r EXCEPT !.status = s] \in OrderRows
  BY DEF OrderRows
<1>3. \A r \in OrderRows : [r EXCEPT !.linked = TRUE] \in OrderRows
  BY DEF OrderRows
<1>4. \A c \in BOOLEAN :
        [status |-> "PENDING", cash |-> c, linked |-> FALSE, quantity |-> Qty]
          \in OrderRows
  BY QtyFits DEF OrderRows, Statuses
<1>5. \A s \in Statuses : [row EXCEPT ![o].status = s] \in [Orders -> OrderRows]
  BY <1>1, <1>2
<1>6. [row EXCEPT ![o].linked = TRUE] \in [Orders -> OrderRows]
  BY <1>1, <1>3
<1>7. \A r \in OrderRows : [row EXCEPT ![o] = r] \in [Orders -> OrderRows]
  BY <1>1
<1>8. {"CANCELLED", "PARTIALLY_EXECUTED", "EXECUTED"} \subseteq Statuses
  BY DEF Statuses
<1>9. CancelRow(o) => row' \in [Orders -> OrderRows]
  BY <1>5, <1>8 DEF CancelRow
<1>10. ASSUME NEW c \in BOOLEAN,
              row' = [row EXCEPT ![o] = [status |-> "PENDING", cash |-> c,
                                         linked |-> FALSE, quantity |-> Qty]]
       PROVE  row' \in [Orders -> OrderRows]
  BY <1>4, <1>7, <1>10
<1>11. ASSUME NEW s \in {"PARTIALLY_EXECUTED", "EXECUTED"},
              row' = [row EXCEPT ![o].status = s]
       PROVE  row' \in [Orders -> OrderRows]
  BY <1>5, <1>8, <1>11
<1>12. ASSUME row' = [row EXCEPT ![o].linked = TRUE]
       PROVE  row' \in [Orders -> OrderRows]
  BY <1>6, <1>12
<1>13. ASSUME UNCHANGED row  PROVE row' \in [Orders -> OrderRows]
  BY <1>1, <1>13
<1>14. \A r \in OrderRows, n \in Asked : [r EXCEPT !.quantity = n] \in OrderRows
  BY DEF OrderRows
<1>15. ASSUME NEW n \in Asked, row' = [row EXCEPT ![o].quantity = n]
       PROVE  row' \in [Orders -> OrderRows]
  BY <1>1, <1>14, <1>15
<1> QED BY <1>9, <1>10, <1>11, <1>12, <1>13, <1>15

\* Every update on its way is one of these.
LEMMA Sends ==
  ASSUME TypeOK, NEW u \in Updates, Send(u)
  PROVE  feed' \in Seq(Updates) /\ sent' \subseteq Updates
  BY DEF Send, TypeOK

\* What the broker has filled of an order.
LEMMA Filled ==
  ASSUME TypeOK, NEW o \in Orders
  PROVE  broker[o].filled \in 0..Qty
<1>1. broker[o] \in [state : {"none", "called", "open", "refused", "closed"},
                    filled : 0..Qty]
  BY DEF TypeOK
<1> QED BY <1>1

\* The placing request keeps the types.
LEMMA HandlerTypes ==
  ASSUME TypeOK,
         NEW o \in Orders,
         Place(o) \/ MarginRefused(o) \/ LotSizeRefused(o) \/ Submit(o)
           \/ Confirmed(o) \/ Refused(o) \/ Uncertain(o) \/ Link(o)
           \/ LinkFails(o) \/ HandlerCancels(o) \/ HandlerRefunds(o)
           \/ HandlerFails(o)
  PROVE  TypeOK'
<1> USE DEF TypeOK, atBroker, money, history
<1>1. CASE Place(o)
  BY <1>1, Rows DEF Place, HandlerAt
<1>2. CASE MarginRefused(o)
  BY <1>2 DEF MarginRefused, HandlerAt
<1>3. CASE LotSizeRefused(o)
  BY <1>3 DEF LotSizeRefused, HandlerAt
<1>4. CASE Submit(o)
  BY <1>4 DEF Submit, HandlerAt
<1>5. CASE Confirmed(o)
  BY <1>5 DEF Confirmed, HandlerAt
<1>6. CASE Refused(o)
  BY <1>6 DEF Refused, HandlerAt
<1>7. CASE Uncertain(o)
  BY <1>7 DEF Uncertain, HandlerAt, AfterUncertain
<1>8. CASE Link(o)
  BY <1>8, Rows DEF Link, HandlerAt
<1>9. CASE LinkFails(o)
  BY <1>9 DEF LinkFails, HandlerAt
<1>10. CASE HandlerCancels(o)
  <2>1. row' \in [Orders -> OrderRows]
    BY <1>10, Rows DEF HandlerCancels
  <2>2. UNCHANGED <<user, broker, feed, sent, replays, loop, claimed, settled,
                    refunds, lost, withdrawn, amended>>
    BY <1>10 DEF HandlerCancels
  <2>3. handler' \in [Orders -> {"none", "checks", "waiting", "link", "cancel",
                                 "refund", "done"}]
    BY <1>10 DEF HandlerCancels, HandlerAt
  <2> QED BY <2>1, <2>2, <2>3
<1>11. CASE HandlerRefunds(o)
  BY <1>11 DEF HandlerRefunds, HandlerAt, Refund
<1>12. CASE HandlerFails(o)
  BY <1>12 DEF HandlerFails, HandlerAt
<1> QED BY <1>1, <1>2, <1>3, <1>4, <1>5, <1>6, <1>7, <1>8, <1>9, <1>10,
           <1>11, <1>12

\* The broker keeps the types.
LEMMA BrokerTypes ==
  ASSUME TypeOK,
         NEW o \in Orders,
         Accept(o) \/ Refuse(o) \/ BrokerFills(o) \/ Close(o)
  PROVE  TypeOK'
<1> USE DEF TypeOK, atBroker, money, history
<1>1. CASE Accept(o)
  BY <1>1 DEF Accept
<1>2. CASE Refuse(o)
  <2>1. feed' \in Seq(Updates) /\ sent' \subseteq Updates
    BY <1>2, UpdatesAre, Sends DEF Refuse
  <2>2. broker' \in [Orders ->
          [state : {"none", "called", "open", "refused", "closed"},
           filled : 0..Qty]]
    BY <1>2 DEF Refuse
  <2>3. UNCHANGED <<row, handler, user, replays, loop, claimed, settled,
                    refunds, lost, withdrawn, amended>>
    BY <1>2 DEF Refuse
  <2> QED BY <2>1, <2>2, <2>3
<1>3. CASE BrokerFills(o)
  <2>1. PICK n \in 1..(Qty - broker[o].filled) :
          /\ broker' = [broker EXCEPT ![o].filled = broker[o].filled + n]
          /\ Send([order |-> o, kind |-> "Fill", lots |-> n,
                   upto |-> broker[o].filled + n])
    BY <1>3 DEF BrokerFills
  <2>2. n \in Lots /\ broker[o].filled + n \in Lots
          /\ broker[o].filled + n \in 0..Qty
    <3>1. broker[o].filled \in 0..Qty
      BY Filled
    <3> QED BY ONLY <3>1, n \in 1..(Qty - broker[o].filled), QtyAssumption
            DEF Lots
  <2>3. feed' \in Seq(Updates) /\ sent' \subseteq Updates
    BY <2>1, <2>2, UpdatesAre, Sends
  <2>4. broker' \in [Orders ->
          [state : {"none", "called", "open", "refused", "closed"},
           filled : 0..Qty]]
    BY <2>1, <2>2
  <2>5. UNCHANGED <<row, handler, user, replays, loop, claimed, settled,
                    refunds, lost, withdrawn, amended>>
    BY <1>3 DEF BrokerFills
  <2> QED BY <2>3, <2>4, <2>5
<1>4. CASE Close(o)
  <2>1. feed' \in Seq(Updates) /\ sent' \subseteq Updates
    BY <1>4, UpdatesAre, Sends DEF Close
  <2>2. broker' \in [Orders ->
          [state : {"none", "called", "open", "refused", "closed"},
           filled : 0..Qty]]
    BY <1>4 DEF Close
  <2>3. UNCHANGED <<row, handler, user, replays, loop, claimed, settled,
                    refunds, lost, withdrawn, amended>>
    BY <1>4 DEF Close
  <2> QED BY <2>1, <2>2, <2>3
<1> QED BY <1>1, <1>2, <1>3, <1>4

\* The user keeps the types.
LEMMA UserTypes ==
  ASSUME TypeOK,
         NEW o \in Orders,
         AskCancel(o) \/ UserCancels(o) \/ UserRefunded(o)
           \/ UserRefundFails(o) \/ AskAmend(o) \/ UserAmends(o)
           \/ UserAmendFails(o)
  PROVE  TypeOK'
<1> USE DEF TypeOK, atBroker, money, history
<1>1. CASE AskCancel(o)
  BY <1>1 DEF AskCancel, UserAt
<1>2. CASE UserCancels(o)
  <2>1. row' \in [Orders -> OrderRows]
    BY <1>2, Rows DEF UserCancels
  <2>2. UNCHANGED <<handler, broker, feed, sent, replays, loop, claimed,
                    settled, refunds, lost, amended>>
    BY <1>2 DEF UserCancels
  <2>3. user' \in [Orders -> {"idle", "checked", "refund", "amending"}]
    BY <1>2 DEF UserCancels, UserAt
  <2>4. withdrawn' \subseteq Orders
    BY <1>2 DEF UserCancels
  <2> QED BY <2>1, <2>2, <2>3, <2>4
<1>3. CASE UserRefunded(o)
  BY <1>3 DEF UserRefunded, UserAt, Refund
<1>4. CASE UserRefundFails(o)
  BY <1>4 DEF UserRefundFails, UserAt
<1>5. CASE AskAmend(o)
  BY <1>5 DEF AskAmend, UserAt
<1>6. CASE UserAmends(o)
  <2>1. row' \in [Orders -> OrderRows]
    BY <1>6, Rows DEF UserAmends
  <2>2. UNCHANGED <<handler, broker, feed, sent, replays, loop, claimed,
                    settled, refunds, lost, withdrawn>>
    BY <1>6 DEF UserAmends
  <2>3. /\ user' \in [Orders -> {"idle", "checked", "refund", "amending"}]
        /\ amended' \subseteq Orders
    BY <1>6 DEF UserAmends, UserAt
  <2> QED BY <2>1, <2>2, <2>3
<1>7. CASE UserAmendFails(o)
  BY <1>7 DEF UserAmendFails, UserAt
<1> QED BY <1>1, <1>2, <1>3, <1>4, <1>5, <1>6, <1>7

\* The event loop keeps the types.
LEMMA LoopTypes ==
  ASSUME TypeOK,
         Replay \/ Receive \/ ReceiveFails \/ ApplyFill \/ FillFails
           \/ ApplyEnd \/ EndFails \/ LoopRefunds \/ LoopRefundFails
           \/ Crash
  PROVE  TypeOK'
<1> USE DEF TypeOK, atBroker, money, history
<1>b. feed # <<>> => /\ Head(feed) \in Updates /\ Head(feed).order \in Orders
                     /\ Tail(feed) \in Seq(Updates)
  BY UpdatesAre
<1>1. CASE Replay
  BY <1>1 DEF Replay
<1>2. CASE Receive
  <2>a. /\ row[Head(feed).order].status \in Statuses
        /\ row[Head(feed).order].quantity \in Asked
    BY <1>2, <1>b DEF Receive, OrderRows
  <2>1. loop' \in Doings
    BY <1>2, <1>b, <2>a, DoingsAre DEF Receive
  <2>2. row' \in [Orders -> OrderRows]
    BY <1>2, <1>b, Rows DEF Receive
  <2>3. feed' \in Seq(Updates)
    BY <1>2, <1>b DEF Receive
  <2>4. UNCHANGED <<handler, user, broker, sent, replays, claimed, settled,
                    refunds, lost, withdrawn, amended>>
    BY <1>2 DEF Receive
  <2> QED BY <2>1, <2>2, <2>3, <2>4
<1>3. CASE ReceiveFails
  BY <1>3, <1>b, DoingsAre DEF ReceiveFails
<1>4. CASE ApplyFill
  <2> DEFINE o == loop.update.order
  <2>1. /\ o \in Orders
        /\ loop.update.lots \in Lots /\ loop.update.upto \in Lots
    BY <1>4, DoingsAre, UpdatesAre DEF ApplyFill, Handling
  <2>2. loop' \in Doings
    BY <1>4, DoingsAre DEF ApplyFill
  <2>3. row' \in [Orders -> OrderRows]
    BY <1>4, <2>1, Rows DEF ApplyFill, FilledStatus
  <2>4. claimed' \subseteq (Orders \X Lots)
    BY <1>4, <2>1 DEF ApplyFill
  <2>a. settled[o] + loop.update.lots \in Nat
    BY <2>1 DEF Lots
  <2>5. settled' \in [Orders -> Nat]
    BY <1>4, <2>1, <2>a DEF ApplyFill
  <2>6. UNCHANGED <<handler, user, broker, feed, sent, replays, refunds,
                    lost, withdrawn, amended>>
    BY <1>4 DEF ApplyFill
  <2> QED BY <2>2, <2>3, <2>4, <2>5, <2>6
<1>5. CASE FillFails
  BY <1>5, DoingsAre, UpdatesAre DEF FillFails, Handling
<1>6. CASE ApplyEnd
  <2> DEFINE o == loop.update.order
  <2>1. o \in Orders
    BY <1>6, DoingsAre, UpdatesAre DEF ApplyEnd, Handling
  <2>2. loop' \in Doings
    BY <1>6, <2>1, DoingsAre DEF ApplyEnd
  <2>3. row' \in [Orders -> OrderRows]
    BY <1>6, <2>1, Rows DEF ApplyEnd
  <2>4. UNCHANGED <<handler, user, broker, feed, sent, replays, claimed,
                    settled, refunds, lost, withdrawn, amended>>
    BY <1>6 DEF ApplyEnd
  <2> QED BY <2>2, <2>3, <2>4
<1>7. CASE EndFails
  BY <1>7, DoingsAre, UpdatesAre DEF EndFails, Handling
<1>8. CASE LoopRefunds
  BY <1>8, DoingsAre, UpdatesAre DEF LoopRefunds, Refund
<1>9. CASE LoopRefundFails
  BY <1>9, DoingsAre, UpdatesAre DEF LoopRefundFails
<1>10. CASE Crash
  BY <1>10, DoingsAre, UpdatesAre DEF Crash, Unapplied
<1> QED BY <1>1, <1>2, <1>3, <1>4, <1>5, <1>6, <1>7, <1>8, <1>9, <1>10

-----------------------------------------------------------------------------
\* Who has cancelled an order and not yet given its debit back.
ByHandler(o) == handler[o] = "refund"
ByUser(o) == user[o] = "refund"
ByLoop(o) == loop.stage = "refund" /\ loop.order = o

\* The request puts the row there, before its order has a broker id or an
\* update of it is taken on.
Placed ==
  \A o \in Orders : /\ handler[o] = "none" => row[o].status = "none"
                    /\ row[o].status = "none" => handler[o] = "none"
Linked == \A o \in Orders : row[o].linked => row[o].status # "none"
Taken ==
  loop.stage = "handling" =>
    \E o \in Orders : loop.update.order = o /\ row[o].status # "none"

\* As long as an order can be cancelled nobody has refunded it or is about to,
\* and afterwards at most one of the three is, before the only refund.
OneRefund ==
  \A o \in Orders :
    /\ refunds[o] \in {0, 1}
    /\ row[o].status \in {"none", "PENDING"} =>
         refunds[o] = 0 /\ ~ByHandler(o) /\ ~ByUser(o) /\ ~ByLoop(o)
    /\ ByHandler(o) => refunds[o] = 0 /\ ~ByUser(o) /\ ~ByLoop(o)
    /\ ByUser(o) => refunds[o] = 0 /\ ~ByLoop(o)
    /\ ByLoop(o) => refunds[o] = 0

\* Unless its user has amended it, an order is compared with the quantity it
\* was placed with.
Kept ==
  \A o \in Orders \ amended :
    /\ row[o].quantity = Qty
    /\ loop.stage = "handling" /\ loop.update.order = o => loop.quantity = Qty

RefundInv ==
  Placed /\ Linked /\ Taken /\ OneRefund /\ Kept /\ StatusTellsFills
LiveInv == TypeOK /\ RefundInv

\* Nobody but o comes to hold a refund.
OthersHold(o) ==
  \A p \in Orders \ {o} : /\ ByHandler(p)' => ByHandler(p)
                          /\ ByUser(p)' => ByUser(p)
                          /\ ByLoop(p)' => ByLoop(p)

\* No request starts, nobody amends, and only updates of placed orders are
\* taken on.
StillPlaced ==
  /\ \A o \in Orders : /\ handler'[o] = "none" => handler[o] = "none"
                       /\ handler[o] = "none" => handler'[o] = "none"
  /\ \/ loop' = loop
     \/ loop'.stage # "handling"
     \/ \E o \in Orders : /\ loop'.update.order = o /\ row[o].status # "none"
                         /\ loop'.quantity = row[o].quantity
  /\ amended' = amended
  /\ \A o \in Orders : row'[o].quantity = row[o].quantity

\* A step that touches neither status, money nor refunds in hand.
LEMMA Quiet ==
  ASSUME RefundInv, StillPlaced, UNCHANGED <<refunds, settled>>,
         \A o \in Orders : /\ row'[o].status = row[o].status
                           /\ row'[o].linked =>
                                row[o].linked \/ row[o].status # "none"
                           /\ ByHandler(o)' => ByHandler(o)
                           /\ ByUser(o)' => ByUser(o)
                           /\ ByLoop(o)' => ByLoop(o)
  PROVE  RefundInv'
<1> USE DEF RefundInv
<1>1. Placed'
  BY DEF Placed, StillPlaced
<1>2. Linked'
  BY DEF Linked
<1>3. Taken'
  BY DEF Taken, StillPlaced
<1>4. OneRefund'
  BY DEF OneRefund
<1>5. StatusTellsFills'
  BY DEF StatusTellsFills, StillPlaced
<1>6. Kept'
  BY DEF Kept, StillPlaced
<1> QED BY <1>1, <1>2, <1>3, <1>4, <1>5, <1>6

\* A cancel leaves the quantities alone.
LEMMA CancelKeeps ==
  ASSUME TypeOK, NEW o \in Orders, CancelRow(o)
  PROVE  \A p \in Orders : row'[p].quantity = row[p].quantity
<1>1. \A p \in Orders : row[p] \in OrderRows
  BY DEF TypeOK
<1>2. \A p \in Orders : row'[p] = IF p = o THEN [row[p] EXCEPT !.status = "CANCELLED"]
                                         ELSE row[p]
  BY DEF TypeOK, CancelRow
<1> QED BY <1>1, <1>2 DEF OrderRows

\* A cancel: at most one actor comes out of it with the refund in hand.
LEMMA Cancels ==
  ASSUME LiveInv, StillPlaced, UNCHANGED <<refunds, settled>>,
         NEW o \in Orders, Cancellable(o), CancelRow(o), OthersHold(o),
         ~(ByHandler(o)' /\ ByUser(o)'), ~(ByHandler(o)' /\ ByLoop(o)'),
         ~(ByUser(o)' /\ ByLoop(o)')
  PROVE  RefundInv'
<1>1. /\ row'[o].status = "CANCELLED" /\ row[o].status = "PENDING"
      /\ \A p \in Orders \ {o} : row'[p] = row[p]
  BY DEF LiveInv, TypeOK, OrderRows, Cancellable, CancelRow
<1>a. \A p \in Orders : /\ row'[p].status = "none" => row[p].status = "none"
                        /\ row[p].status = "none" => row'[p].status = "none"
                        /\ row'[p].linked = row[p].linked
  BY <1>1 DEF LiveInv, TypeOK, OrderRows, CancelRow
<1>b. Placed'
  BY <1>a DEF LiveInv, RefundInv, Placed, StillPlaced
<1>c. Linked'
  BY <1>a DEF LiveInv, RefundInv, Linked
<1>2. Taken'
  BY <1>a DEF LiveInv, RefundInv, Taken, StillPlaced
<1>3. OneRefund'
  BY <1>1 DEF LiveInv, RefundInv, OneRefund, OthersHold
<1>4. StatusTellsFills'
  BY <1>1 DEF LiveInv, RefundInv, StatusTellsFills, StillPlaced
<1>5. Kept'
  BY DEF LiveInv, RefundInv, Kept, StillPlaced
<1> QED BY <1>b, <1>c, <1>2, <1>3, <1>4, <1>5 DEF RefundInv

\* The refund, by the one actor that has it in hand.
LEMMA Refunds ==
  ASSUME LiveInv, StillPlaced, UNCHANGED <<row, settled>>,
         NEW o \in Orders, Refund(o), OthersHold(o),
         ByHandler(o) \/ ByUser(o) \/ ByLoop(o),
         ~ByHandler(o)' /\ ~ByUser(o)' /\ ~ByLoop(o)'
  PROVE  RefundInv'
<1>1. /\ refunds[o] = 0 /\ refunds'[o] \in {0, 1}
      /\ \A p \in Orders \ {o} : refunds'[p] = refunds[p]
      /\ row[o].status \notin {"none", "PENDING"}
  BY DEF LiveInv, TypeOK, RefundInv, OneRefund, Refund
<1>2. Placed' /\ Linked' /\ Taken'
  BY DEF LiveInv, RefundInv, Placed, Linked, Taken, StillPlaced
<1>3. OneRefund'
  BY <1>1 DEF LiveInv, RefundInv, OneRefund, OthersHold
<1>4. StatusTellsFills'
  BY DEF LiveInv, RefundInv, StatusTellsFills, StillPlaced
<1>5. Kept'
  BY DEF LiveInv, RefundInv, Kept, StillPlaced
<1> QED BY <1>2, <1>3, <1>4, <1>5 DEF RefundInv

\* The placing request keeps the invariant.
LEMMA HandlerRefundInv ==
  ASSUME LiveInv,
         NEW o \in Orders,
         Place(o) \/ MarginRefused(o) \/ LotSizeRefused(o) \/ Submit(o)
           \/ Confirmed(o) \/ Refused(o) \/ Uncertain(o) \/ Link(o)
           \/ LinkFails(o) \/ HandlerCancels(o) \/ HandlerRefunds(o)
           \/ HandlerFails(o)
  PROVE  RefundInv'
<1>r. TypeOK
  BY DEF LiveInv
<1>q. RefundInv
  BY DEF LiveInv
<1> USE DEF StillPlaced, ByHandler, ByUser, ByLoop, TypeOK, OrderRows,
            atBroker, money, history
<1>1. CASE Place(o)
  <2>1. PICK c \in BOOLEAN : row' = [row EXCEPT ![o] =
          [status |-> "PENDING", cash |-> c, linked |-> FALSE,
           quantity |-> Qty]]
    BY <1>1 DEF Place
  <2>2. /\ row[o].status = "none" /\ row'[o].status = "PENDING"
        /\ \A p \in Orders \ {o} : row'[p] = row[p]
        /\ UNCHANGED <<user, loop, refunds, settled, amended>>
        /\ handler'[o] = "checks" /\ ~row'[o].linked
        /\ row'[o].quantity = Qty
        /\ \A p \in Orders \ {o} : handler'[p] = handler[p]
    BY <1>r, <1>q, <1>1, <2>1 DEF Place, HandlerAt, RefundInv, Placed
  <2>3. Placed'
    BY <1>q, <2>2 DEF RefundInv, Placed
  <2>b. Linked'
    BY <1>q, <2>2 DEF RefundInv, Linked
  <2>a. Taken'
    BY <1>q, <2>2 DEF RefundInv, Taken
  <2>4. OneRefund'
    BY <1>q, <2>2 DEF RefundInv, OneRefund
  <2>5. StatusTellsFills'
    BY <1>q, <2>2 DEF RefundInv, StatusTellsFills
  <2>6. Kept'
    BY <1>q, <2>2 DEF RefundInv, Kept
  <2> QED BY <2>3, <2>a, <2>b, <2>4, <2>5, <2>6 DEF RefundInv
<1>2. CASE MarginRefused(o)
  BY <1>2, Quiet DEF MarginRefused, HandlerAt, LiveInv
<1>3. CASE LotSizeRefused(o)
  BY <1>3, Quiet DEF LotSizeRefused, HandlerAt, LiveInv
<1>4. CASE Submit(o)
  BY <1>4, Quiet DEF Submit, HandlerAt, LiveInv
<1>5. CASE Confirmed(o)
  BY <1>5, Quiet DEF Confirmed, HandlerAt, LiveInv
<1>6. CASE Refused(o)
  BY <1>6, Quiet DEF Refused, HandlerAt, LiveInv
<1>7. CASE Uncertain(o)
  BY <1>7, Quiet DEF Uncertain, HandlerAt, AfterUncertain, LiveInv
<1>8. CASE Link(o)
  <2>1. \A p \in Orders : /\ row'[p].status = row[p].status
                          /\ row'[p].linked =>
                               row[p].linked \/ row[p].status # "none"
    BY <1>r, <1>q, <1>8 DEF Link, RefundInv, Placed, Linked
  <2> QED BY <1>8, <2>1, Quiet DEF Link, HandlerAt, LiveInv
<1>9. CASE LinkFails(o)
  BY <1>9, Quiet DEF LinkFails, HandlerAt, LiveInv
<1>10. CASE HandlerCancels(o)
  <2>1. CASE Cancellable(o)
    <3>1. CancelRow(o) /\ StillPlaced /\ OthersHold(o)
          /\ UNCHANGED <<refunds, settled>>
      BY <1>10, <2>1, <1>r, CancelKeeps
         DEF HandlerCancels, HandlerAt, LiveInv, OthersHold
    <3>2. ~ByLoop(o) /\ ~ByUser(o) /\ ~ByHandler(o)
      BY <1>r, <1>q, <2>1 DEF Cancellable, RefundInv, OneRefund
    <3>3. UNCHANGED <<loop, user>>
      BY <1>10 DEF HandlerCancels
    <3> QED BY <2>1, <3>1, <3>2, <3>3, Cancels
  <2>2. CASE ~Cancellable(o)
    BY <1>10, <2>2, Quiet DEF HandlerCancels, HandlerAt, LiveInv
  <2> QED BY <2>1, <2>2
<1>11. CASE HandlerRefunds(o)
  <2>1. /\ ByHandler(o) /\ ~ByHandler(o)' /\ Refund(o)
        /\ StillPlaced /\ OthersHold(o)
        /\ UNCHANGED <<row, settled, user, loop>>
    BY <1>11 DEF HandlerRefunds, HandlerAt, LiveInv, OthersHold
  <2>2. ~ByHandler(o)' /\ ~ByUser(o)' /\ ~ByLoop(o)'
    BY <1>q, <2>1 DEF RefundInv, OneRefund
  <2> QED BY <2>1, <2>2, Refunds
<1>12. CASE HandlerFails(o)
  BY <1>12, Quiet DEF HandlerFails, HandlerAt, LiveInv
<1> QED BY <1>1, <1>2, <1>3, <1>4, <1>5, <1>6, <1>7, <1>8, <1>9, <1>10,
           <1>11, <1>12


\* So does the broker.
LEMMA BrokerRefundInv ==
  ASSUME LiveInv,
         NEW o \in Orders,
         Accept(o) \/ Refuse(o) \/ BrokerFills(o) \/ Close(o)
  PROVE  RefundInv'
<1>r. TypeOK
  BY DEF LiveInv
<1>q. RefundInv
  BY DEF LiveInv
<1> USE DEF StillPlaced, ByHandler, ByUser, ByLoop, TypeOK, OrderRows,
            atBroker, money, history
<1>1. CASE Accept(o)
  BY <1>1, Quiet DEF Accept, LiveInv
<1>2. CASE Refuse(o)
  BY <1>2, Quiet DEF Refuse, Send, LiveInv
<1>3. CASE BrokerFills(o)
  BY <1>3, Quiet DEF BrokerFills, Send, LiveInv
<1>4. CASE Close(o)
  BY <1>4, Quiet DEF Close, Send, LiveInv
<1> QED BY <1>1, <1>2, <1>3, <1>4


\* So does the user.
LEMMA UserRefundInv ==
  ASSUME LiveInv,
         NEW o \in Orders,
         AskCancel(o) \/ UserCancels(o) \/ UserRefunded(o)
           \/ UserRefundFails(o) \/ AskAmend(o) \/ UserAmends(o)
           \/ UserAmendFails(o)
  PROVE  RefundInv'
<1>r. TypeOK
  BY DEF LiveInv
<1>q. RefundInv
  BY DEF LiveInv
<1> USE DEF StillPlaced, ByHandler, ByUser, ByLoop, TypeOK, OrderRows,
            atBroker, money, history
<1>1. CASE AskCancel(o)
  BY <1>1, Quiet DEF AskCancel, UserAt, LiveInv
<1>2. CASE UserCancels(o)
  <2>1. CASE Cancellable(o)
    <3>1. CancelRow(o) /\ StillPlaced /\ OthersHold(o)
          /\ UNCHANGED <<refunds, settled>>
      BY <1>2, <2>1, <1>r, CancelKeeps
         DEF UserCancels, UserAt, LiveInv, OthersHold
    <3>2. ~ByLoop(o) /\ ~ByUser(o) /\ ~ByHandler(o)
      BY <1>r, <1>q, <2>1 DEF Cancellable, RefundInv, OneRefund
    <3>3. UNCHANGED <<loop, handler>>
      BY <1>2 DEF UserCancels
    <3> QED BY <2>1, <3>1, <3>2, <3>3, Cancels
  <2>2. CASE ~Cancellable(o)
    BY <1>2, <2>2, Quiet DEF UserCancels, UserAt, LiveInv
  <2> QED BY <2>1, <2>2
<1>3. CASE UserRefunded(o)
  <2>1. /\ ByUser(o) /\ ~ByUser(o)' /\ Refund(o)
        /\ StillPlaced /\ OthersHold(o)
        /\ UNCHANGED <<row, settled, handler, loop>>
    BY <1>3 DEF UserRefunded, UserAt, LiveInv, OthersHold
  <2>2. ~ByHandler(o)' /\ ~ByUser(o)' /\ ~ByLoop(o)'
    BY <1>q, <2>1 DEF RefundInv, OneRefund
  <2> QED BY <2>1, <2>2, Refunds
<1>4. CASE UserRefundFails(o)
  BY <1>4, Quiet DEF UserRefundFails, UserAt, LiveInv
<1>5. CASE AskAmend(o)
  BY <1>5, Quiet DEF AskAmend, UserAt, LiveInv
<1>6. CASE UserAmends(o)
  <2>1. PICK n \in Asked : row' = [row EXCEPT ![o].quantity = n]
    BY <1>6 DEF UserAmends
  <2>2. /\ \A p \in Orders : /\ row'[p].status = row[p].status
                            /\ row'[p].linked = row[p].linked
        /\ \A p \in Orders \ {o} : row'[p] = row[p]
    BY <1>r, <2>1
  <2>3. /\ UNCHANGED <<handler, loop, refunds, settled>>
        /\ amended' = amended \cup {o}
        /\ \A p \in Orders : ByUser(p)' => ByUser(p)
    BY <1>r, <1>6 DEF UserAmends, UserAt
  <2>4. Placed' /\ Linked' /\ Taken'
    BY <1>q, <2>2, <2>3 DEF RefundInv, Placed, Linked, Taken
  <2>5. OneRefund'
    BY <1>q, <2>2, <2>3 DEF RefundInv, OneRefund
  <2>6. StatusTellsFills'
    BY <1>q, <2>2, <2>3 DEF RefundInv, StatusTellsFills
  <2>7. Kept'
    BY <1>q, <2>2, <2>3 DEF RefundInv, Kept
  <2> QED BY <2>4, <2>5, <2>6, <2>7 DEF RefundInv
<1>7. CASE UserAmendFails(o)
  BY <1>7, Quiet DEF UserAmendFails, UserAt, LiveInv
<1> QED BY <1>1, <1>2, <1>3, <1>4, <1>5, <1>6, <1>7


\* So do the event loop and a crash.
LEMMA LoopRefundInv ==
  ASSUME LiveInv,
         Replay \/ Receive \/ ReceiveFails \/ ApplyFill \/ FillFails
           \/ ApplyEnd \/ EndFails \/ LoopRefunds \/ LoopRefundFails
           \/ Crash
  PROVE  RefundInv'
<1>r. TypeOK
  BY DEF LiveInv
<1>q. RefundInv
  BY DEF LiveInv
<1> USE DEF StillPlaced, ByHandler, ByUser, ByLoop, TypeOK, OrderRows,
            atBroker, money, history
<1>1. CASE Replay
  BY <1>1, Quiet DEF Replay, LiveInv
<1>2. CASE Receive
  <2>1. /\ Head(feed).order \in Orders
    BY <1>2, UpdatesAre DEF Receive, LiveInv
  <2>a. \A p \in Orders : /\ row'[p].status = row[p].status
                          /\ row'[p].linked =>
                               row[p].linked \/ row[p].status # "none"
                          /\ row'[p].quantity = row[p].quantity
    <3>1. CASE Found(Head(feed).order)
      <4> DEFINE o == Head(feed).order
      <4>1. \/ row' = [row EXCEPT ![o].linked = TRUE]
            \/ row' = row
        BY <1>2, <3>1 DEF Receive
      <4>2. row[o].linked \/ row[o].status # "none"
        BY <3>1 DEF Found
      <4>3. /\ row'[o].status = row[o].status
            /\ row'[o].quantity = row[o].quantity
            /\ \A p \in Orders \ {o} : row'[p] = row[p]
        <5>1. CASE row' = [row EXCEPT ![o].linked = TRUE]
          BY <1>r, <2>1, <5>1
        <5>2. CASE row' = row
          BY <5>2
        <5> QED BY <4>1, <5>1, <5>2
      <4> QED BY <4>2, <4>3
    <3>2. CASE ~Found(Head(feed).order)
      BY <1>2, <3>2 DEF Receive
    <3> QED BY <3>1, <3>2
  <2>b. StillPlaced
    <3>1. CASE Found(Head(feed).order)
      BY <1>r, <1>q, <1>2, <2>1, <2>a, <3>1 DEF Receive, Found, RefundInv, Linked
    <3>2. CASE ~Found(Head(feed).order)
      BY <1>2, <3>2 DEF Receive
    <3> QED BY <3>1, <3>2
  <2>2. \A p \in Orders : ~ByLoop(p)'
    BY <1>2, DoingsAre DEF Receive
  <2>c. UNCHANGED <<handler, user, refunds, settled>>
    BY <1>2 DEF Receive
  <2> QED BY <1>q, <2>a, <2>b, <2>c, <2>2, Quiet
<1>3. CASE ReceiveFails
  BY <1>3, Quiet, DoingsAre DEF ReceiveFails, LiveInv
<1>4. CASE ApplyFill
  <2>1. PICK o \in Orders : loop.update.order = o
    BY <1>4, <1>r, DoingsAre, UpdatesAre DEF ApplyFill, Handling
  <2> DEFINE total == settled[o] + loop.update.lots
             status == FilledStatus(loop.update, total)
  <2>2. /\ loop.update.lots \in Lots /\ loop'.stage = "idle"
        /\ UNCHANGED <<handler, user, refunds, amended>>
    BY <1>4, <1>r, DoingsAre, UpdatesAre DEF ApplyFill, Handling
  <2>3. CASE Duplicate(loop.update)
    BY <1>4, <1>q, <2>2, <2>3, Quiet DEF ApplyFill
  <2>4. CASE ~Duplicate(loop.update)
    <3>1. /\ settled' = [settled EXCEPT ![o] = total]
          /\ row' = [row EXCEPT ![o].status = status]
      BY <1>4, <2>1, <2>4 DEF ApplyFill
    <3>2. total \in Nat /\ total > 0 /\ settled'[o] = total
      BY <1>r, <2>2, <3>1 DEF Lots
    <3>3. /\ row'[o].status = status
          /\ row'[o].linked = row[o].linked
          /\ row'[o].quantity = row[o].quantity
      BY <1>r, <3>1
    <3>4. \A p \in Orders \ {o} :
            row'[p] = row[p] /\ settled'[p] = settled[p]
      BY <1>r, <3>1
    <3>5. status \in {"PARTIALLY_EXECUTED", "EXECUTED"}
      BY DEF FilledStatus
    <3>6. handler[o] # "none" /\ row[o].status # "none"
      BY <1>4, <1>q, <2>1 DEF ApplyFill, Handling, RefundInv, Placed, Taken
    <3>7. Placed'
      BY <1>q, <2>2, <3>3, <3>4, <3>5, <3>6 DEF RefundInv, Placed
    <3>8. Linked' /\ Taken'
      BY <1>q, <2>2, <3>3, <3>4, <3>5, <3>6 DEF RefundInv, Linked, Taken
    <3>9. OneRefund'
      BY <1>q, <2>2, <3>3, <3>4, <3>5 DEF RefundInv, OneRefund
    <3>a. /\ loop.quantity \in Asked
          /\ o \notin amended => loop.quantity = Qty
      BY <1>4, <1>r, <1>q, <2>1, DoingsAre DEF ApplyFill, Handling, RefundInv, Kept
    <3>10. StatusTellsFills'
      BY <1>q, <2>2, <3>2, <3>3, <3>4, <3>a
         DEF RefundInv, StatusTellsFills, FilledStatus, Asked
    <3>11. Kept'
      BY <1>q, <2>2, <3>3, <3>4 DEF RefundInv, Kept
    <3> QED BY <3>7, <3>8, <3>9, <3>10, <3>11 DEF RefundInv
  <2> QED BY <2>3, <2>4
<1>5. CASE FillFails
  BY <1>5, Quiet, DoingsAre DEF FillFails, Handling, LiveInv
<1>6. CASE ApplyEnd
  <2>1. PICK o \in Orders : loop.update.order = o
    BY <1>6, <1>r, DoingsAre, UpdatesAre DEF ApplyEnd, Handling
  <2>2. UNCHANGED <<handler, user, refunds, settled, amended>>
    BY <1>6 DEF ApplyEnd
  <2>3. CASE loop.seen = "PENDING" /\ Cancellable(o)
    <3>1. CancelRow(o) /\ loop' = [stage |-> "refund", order |-> o]
      BY <1>6, <2>1, <2>3 DEF ApplyEnd
    <3>2. ~ByHandler(o) /\ ~ByUser(o)
      BY <1>r, <1>q, <2>3 DEF Cancellable, RefundInv, OneRefund
    <3>3. StillPlaced /\ OthersHold(o)
      BY <2>2, <3>1, <1>r, CancelKeeps DEF OthersHold
    <3> QED BY <2>2, <2>3, <3>1, <3>2, <3>3, Cancels
  <2>4. CASE ~(loop.seen = "PENDING" /\ Cancellable(o))
    <3>1. UNCHANGED row /\ loop'.stage = "idle"
      BY <1>6, <2>1, <2>4, DoingsAre DEF ApplyEnd
    <3> QED BY <1>q, <2>2, <3>1, Quiet
  <2> QED BY <2>3, <2>4
<1>7. CASE EndFails
  BY <1>7, Quiet, DoingsAre DEF EndFails, Handling, LiveInv
<1>8. CASE LoopRefunds
  <2>1. PICK o \in Orders : loop.order = o
    BY <1>8, <1>r, DoingsAre DEF LoopRefunds
  <2>2. /\ ByLoop(o) /\ Refund(o) /\ loop'.stage = "idle"
        /\ UNCHANGED <<row, settled, handler, user, amended>>
    BY <1>8, <2>1, DoingsAre DEF LoopRefunds
  <2>3. ~ByHandler(o)' /\ ~ByUser(o)'
    BY <1>q, <2>2 DEF RefundInv, OneRefund
  <2>4. StillPlaced /\ OthersHold(o)
    BY <2>2 DEF OthersHold
  <2> QED BY <2>2, <2>3, <2>4, Refunds
<1>9. CASE LoopRefundFails
  BY <1>9, Quiet, DoingsAre DEF LoopRefundFails, LiveInv
<1>10. CASE Crash
  BY <1>10, Quiet, DoingsAre DEF Crash, Unapplied, LiveInv
<1> QED BY <1>1, <1>2, <1>3, <1>4, <1>5, <1>6, <1>7, <1>8, <1>9, <1>10


-----------------------------------------------------------------------------
\* No order is placed at the start.
LEMMA InitLive == Init => LiveInv
<1> SUFFICES ASSUME Init  PROVE LiveInv
  OBVIOUS
<1>1. TypeOK
  BY DoingsAre, QtyFits DEF Init, TypeOK, OrderRows, Statuses
<1>2. RefundInv
  BY DoingsAre DEF Init, RefundInv, Placed, Linked, Taken, OneRefund, Kept,
     StatusTellsFills, ByHandler, ByUser, ByLoop
<1> QED BY <1>1, <1>2 DEF LiveInv

\* Every step keeps the invariant.
LEMMA NextLive == LiveInv /\ [Next]_vars => LiveInv'
<1> SUFFICES ASSUME LiveInv, [Next]_vars  PROVE LiveInv'
  OBVIOUS
<1>1. TypeOK
  BY DEF LiveInv
<1>2. ASSUME NEW o \in Orders, Handler(o)  PROVE LiveInv'
  BY <1>1, <1>2, HandlerTypes, HandlerRefundInv DEF Handler, LiveInv
<1>3. ASSUME NEW o \in Orders, AtBroker(o)  PROVE LiveInv'
  BY <1>1, <1>3, BrokerTypes, BrokerRefundInv DEF AtBroker, LiveInv
<1>4. ASSUME NEW o \in Orders, User(o)  PROVE LiveInv'
  BY <1>1, <1>4, UserTypes, UserRefundInv DEF User, LiveInv
<1>5. ASSUME Replay \/ Process \/ ProcessFails \/ Crash  PROVE LiveInv'
  BY <1>1, <1>5, LoopTypes, LoopRefundInv DEF Process, ProcessFails, LiveInv
<1>6. CASE UNCHANGED vars
  BY <1>6 DEF vars, LiveInv, TypeOK, RefundInv, Placed, Linked, Taken,
     OneRefund, Kept, StatusTellsFills, ByHandler, ByUser, ByLoop
<1> QED BY <1>2, <1>3, <1>4, <1>5, <1>6 DEF Next

\* The invariant holds throughout.
LEMMA LiveInvariant == Spec => []LiveInv
  BY InitLive, NextLive, PTL DEF Spec

\* Every variable keeps its type, for any orders, quantity and replays.
THEOREM LiveTypeCorrect == Spec => []TypeOK
<1>1. LiveInv => TypeOK
  BY DEF LiveInv
<1> QED BY <1>1, LiveInvariant, PTL

\* The placing request, the user and the event loop may all find an order
\* cancellable; only one of them ever gives its debit back, whatever fails
\* (cancel_order_by_id and its guarded UPDATE).
THEOREM RefundedAtMostOnce == Spec => []RefundedOnce
<1>1. LiveInv => RefundedOnce
  <2> SUFFICES ASSUME LiveInv, NEW o \in Orders  PROVE refunds[o] <= 1
    BY DEF RefundedOnce
  <2>1. refunds[o] \in {0, 1}
    BY DEF LiveInv, RefundInv, OneRefund
  <2> QED BY ONLY <2>1
<1> QED BY <1>1, LiveInvariant, PTL

\* No cancel hides what was settled of an order, and no fill is settled
\* without its status (_handle_fill).
THEOREM StatusTells == Spec => []StatusTellsFills
<1>1. LiveInv => StatusTellsFills
  BY DEF LiveInv, RefundInv
<1> QED BY <1>1, LiveInvariant, PTL

-----------------------------------------------------------------------------
(* Fills.  Those the broker has sent are lots apart from each other; what  *)
(* is settled of an order is the lots of those that are claimed.           *)

IsFill(u) == u.kind = "Fill"
IsEnd(u) == u.kind \in {"Rejected", "Canceled"}
LotsOf(u) == (u.upto - u.lots + 1) .. u.upto
FillsOf(o) == {u \in sent : IsFill(u) /\ u.order = o}
Applied(o) ==
  {n \in Lots : \E u \in FillsOf(o) : <<o, u.upto>> \in claimed /\ n \in LotsOf(u)}

SentIsFilled ==
  \A o \in Orders : \A u \in FillsOf(o) :
    u.lots <= u.upto /\ u.upto <= broker[o].filled
Before(u, v) == u.upto <= v.upto - v.lots
Apart ==
  \A o \in Orders : \A u, v \in FillsOf(o) : u = v \/ Before(u, v) \/ Before(v, u)
OnlySent == /\ \A i \in 1..Len(feed) : feed[i] \in sent
            /\ loop.stage = "handling" => loop.update \in sent
ClaimedWasSent ==
  \A o \in Orders, n \in Lots :
    <<o, n>> \in claimed => \E u \in FillsOf(o) : u.upto = n
SettledIsApplied == \A o \in Orders : settled[o] = Cardinality(Applied(o))

FillsInv == /\ LiveInv
            /\ SentIsFilled /\ Apart /\ OnlySent /\ ClaimedWasSent /\ SettledIsApplied

\* The numbers of a fill that was sent.
LEMMA FillIs ==
  ASSUME TypeOK, NEW o \in Orders, NEW u \in FillsOf(o)
  PROVE  u.lots \in Lots /\ u.upto \in Lots /\ u.order = o
BY UpdatesAre DEF TypeOK, FillsOf, IsFill

\* Lots of an order are numbers up to its quantity.
LEMMA LotsAre == /\ Qty \in Nat /\ Lots \subseteq Nat /\ IsFiniteSet(Lots)
                 /\ \A n \in Lots : 1 <= n /\ n <= Qty
BY FS_Interval DEF Lots

\* Steps that neither send nor claim a fill.
LEMMA FillsStay ==
  ASSUME FillsInv, LiveInv', OnlySent', UNCHANGED <<claimed, settled>>,
         \A u : IsFill(u) => (u \in sent' <=> u \in sent),
         \A o \in Orders : broker'[o].filled = broker[o].filled
  PROVE  FillsInv'
<1>1. \A o : FillsOf(o)' = FillsOf(o)
  BY DEF FillsOf
<1>2. \A o : Applied(o)' = Applied(o)
  BY <1>1 DEF Applied
<1>3. SentIsFilled' /\ Apart'
  BY <1>1 DEF FillsInv, SentIsFilled, Apart
<1>4. ClaimedWasSent'
  BY <1>1 DEF FillsInv, ClaimedWasSent
<1>5. SettledIsApplied'
  BY <1>2 DEF FillsInv, SettledIsApplied
<1> QED
  BY <1>3, <1>4, <1>5 DEF FillsInv

\* What is on its way, after a step of the feed.
LEMMA Queued ==
  ASSUME TypeOK, NEW u \in Updates, feed' = Append(feed, u)
  PROVE  /\ Len(feed') = Len(feed) + 1 /\ Len(feed) \in Nat
         /\ feed'[Len(feed) + 1] = u
         /\ \A i \in 1..Len(feed) : feed'[i] = feed[i]
BY DEF TypeOK

\* The same when its head is taken.
LEMMA Taking ==
  ASSUME TypeOK, feed # <<>>, feed' = Tail(feed)
  PROVE  /\ Len(feed) \in Nat \ {0} /\ Len(feed') = Len(feed) - 1
         /\ Head(feed) = feed[1]
         /\ \A i \in 1..Len(feed') : feed'[i] = feed[i + 1]
BY DEF TypeOK

\* Sending keeps the feed to what was sent.
LEMMA SendsOnly ==
  ASSUME TypeOK, OnlySent, NEW u \in Updates, Send(u), loop' = loop
  PROVE  OnlySent'
<1>1. feed' = Append(feed, u) /\ sent' = sent \cup {u}
  BY DEF Send
<1>2. \A i \in 1..Len(feed') : feed'[i] \in sent'
  BY <1>1, Queued DEF OnlySent
<1> QED
  BY <1>1, <1>2 DEF OnlySent

\* A fill of the broker: it lies beyond all that were sent.
LEMMA BrokerFillsInv ==
  ASSUME FillsInv, LiveInv', NEW o \in Orders, BrokerFills(o)
  PROVE  FillsInv'
<1>1. PICK k \in 1..(Qty - broker[o].filled) :
        /\ broker' = [broker EXCEPT ![o].filled = broker[o].filled + k]
        /\ Send([order |-> o, kind |-> "Fill", lots |-> k,
                 upto |-> broker[o].filled + k])
  BY DEF BrokerFills
<1> DEFINE f == broker[o].filled
           w == [order |-> o, kind |-> "Fill", lots |-> k, upto |-> f + k]
<1>2. TypeOK /\ UNCHANGED <<loop, claimed, settled>>
  BY DEF FillsInv, LiveInv, BrokerFills, money
<1>3. f \in 0..Qty /\ k \in Nat /\ k >= 1 /\ f + k <= Qty /\ f \in Nat
  BY <1>2, Filled, LotsAre
<1>4. broker'[o].filled = f + k
      /\ \A p \in Orders \ {o} : broker'[p].filled = broker[p].filled
  BY <1>1, <1>2 DEF TypeOK
<1>5. sent' = sent \cup {w}
  BY <1>1 DEF Send
<1>6. FillsOf(o)' = FillsOf(o) \cup {w} /\ \A p \in Orders \ {o} : FillsOf(p)' = FillsOf(p)
  BY <1>5 DEF FillsOf, IsFill
<1>7. w.upto = f + k /\ w.lots = k
  OBVIOUS
<1>8. OnlySent'
  <2>1. w \in Updates
    BY <1>3, UpdatesAre DEF Lots
  <2> QED
    BY <1>1, <1>2, <2>1, SendsOnly DEF FillsInv
<1> HIDE DEF f, w
<1>9. \A u \in FillsOf(o) : /\ u.lots \in Nat /\ u.upto \in Nat
                            /\ u.lots <= u.upto /\ u.upto <= f
  BY <1>2, FillIs, LotsAre DEF FillsInv, SentIsFilled, f
<1>10. SentIsFilled'
  <2>1. \A u \in FillsOf(o)' : u.lots <= u.upto /\ u.upto <= f + k
    BY <1>3, <1>6, <1>7, <1>9
  <2>2. \A p \in Orders \ {o} : \A u \in FillsOf(p)' :
          u.lots <= u.upto /\ u.upto <= broker'[p].filled
    BY <1>4, <1>6 DEF FillsInv, SentIsFilled
  <2> QED
    BY <1>4, <2>1, <2>2 DEF SentIsFilled
<1>11. Apart'
  <2>1. \A u \in FillsOf(o) : Before(u, w)
    BY <1>3, <1>7, <1>9 DEF Before
  <2>2. \A u, v \in FillsOf(o) : u = v \/ Before(u, v) \/ Before(v, u)
    BY DEF FillsInv, Apart
  <2>3. \A u, v \in FillsOf(o)' : u = v \/ Before(u, v) \/ Before(v, u)
    BY <1>6, <2>1, <2>2
  <2>4. \A p \in Orders \ {o} : \A u, v \in FillsOf(p)' :
          u = v \/ Before(u, v) \/ Before(v, u)
    BY <1>6 DEF FillsInv, Apart
  <2> QED
    BY <2>3, <2>4 DEF Apart
<1>12. <<o, w.upto>> \notin claimed
  <2>1. ASSUME <<o, w.upto>> \in claimed PROVE FALSE
    <3>1. w.upto \in Lots
      BY <1>3, <1>7 DEF Lots
    <3>2. PICK u \in FillsOf(o) : u.upto = w.upto
      BY <2>1, <3>1 DEF FillsInv, ClaimedWasSent
    <3> QED
      BY <1>3, <1>7, <1>9, <3>2
  <2> QED
    BY <2>1
<1>13. ClaimedWasSent'
  <2>1. \A p \in Orders : FillsOf(p) \subseteq FillsOf(p)'
    BY <1>6
  <2> QED
    BY <1>2, <2>1 DEF FillsInv, ClaimedWasSent
<1>14. \A p \in Orders : Applied(p)' = Applied(p)
  <2>1. Applied(o)' = Applied(o)
    BY <1>2, <1>6, <1>12 DEF Applied
  <2>2. \A p \in Orders \ {o} : Applied(p)' = Applied(p)
    BY <1>2, <1>6 DEF Applied
  <2> QED
    BY <2>1, <2>2
<1>15. SettledIsApplied'
  BY <1>2, <1>14 DEF FillsInv, SettledIsApplied
<1> QED
  BY <1>8, <1>10, <1>11, <1>13, <1>15 DEF FillsInv

\* A fill is claimed: its lots join those settled, and none of them was there.
LEMMA ApplyFillInv ==
  ASSUME FillsInv, LiveInv', ApplyFill
  PROVE  FillsInv'
<1>0. PICK w \in Updates : loop.update = w
  BY DoingsAre DEF FillsInv, LiveInv, TypeOK, ApplyFill, Handling
<1>a. PICK o \in Orders : w.order = o
  BY UpdatesAre
<1>1. TypeOK /\ UNCHANGED <<broker, feed, sent>> /\ loop' = Idle
  BY DEF FillsInv, LiveInv, ApplyFill, atBroker
<1>2. w \in sent /\ IsFill(w) /\ loop.stage = "handling"
  BY <1>0 DEF ApplyFill, Handling, FillsInv, OnlySent, IsFill
<1>3. w \in FillsOf(o)
  BY <1>a, <1>2 DEF FillsOf
<1>4. OnlySent'
  BY <1>1, DoingsAre DEF OnlySent, FillsInv
<1>5. \A p \in Orders : FillsOf(p)' = FillsOf(p)
  BY <1>1 DEF FillsOf
<1>6. SentIsFilled' /\ Apart'
  BY <1>1, <1>5 DEF FillsInv, SentIsFilled, Apart
<1>7. CASE Duplicate(w)
  <2>1. UNCHANGED <<claimed, settled>>
    BY <1>0, <1>7 DEF ApplyFill
  <2> QED
    BY <1>1, <1>4, <2>1, FillsStay
<1>8. CASE ~Duplicate(w)
  <2>1. /\ claimed' = claimed \cup {<<o, w.upto>>}
        /\ settled' = [settled EXCEPT ![o] = settled[o] + w.lots]
    BY <1>0, <1>a, <1>8 DEF ApplyFill
  <2>2. <<o, w.upto>> \notin claimed
    BY <1>a, <1>8 DEF Duplicate
  <2>3. w.lots \in Lots /\ w.upto \in Lots /\ w.lots <= w.upto
    BY <1>1, <1>3, FillIs DEF FillsInv, SentIsFilled
  <2>4. ClaimedWasSent'
    <3> SUFFICES ASSUME NEW p \in Orders, NEW n \in Lots, <<p, n>> \in claimed'
                 PROVE  \E u \in FillsOf(p) : u.upto = n
      BY <1>5 DEF ClaimedWasSent
    <3>1. CASE <<p, n>> \in claimed
      BY <3>1 DEF FillsInv, ClaimedWasSent
    <3>2. CASE <<p, n>> = <<o, w.upto>>
      BY <1>3, <3>2
    <3> QED
      BY <2>1, <3>1, <3>2
  <2>5. \A p \in Orders \ {o} : Applied(p)' = Applied(p)
    BY <1>5, <2>1 DEF Applied
  <2>a. PICK k \in Nat, m \in Nat : w.lots = k /\ w.upto = m /\ 1 <= k /\ k <= m
    BY <2>3, LotsAre
  <2>6. LotsOf(w) \subseteq Lots
    BY <2>3 DEF LotsOf, Lots
  <2>7. Applied(o)' = Applied(o) \cup LotsOf(w)
    <3>1. \A u \in FillsOf(o) : <<o, u.upto>> \in claimed' <=> <<o, u.upto>> \in claimed \/ u = w
      <4> SUFFICES ASSUME NEW u \in FillsOf(o), u.upto = w.upto PROVE u = w
        BY <2>1
      <4>1. u.lots \in Lots /\ u.upto \in Lots
        BY <1>1, <1>3, FillIs
      <4>2. u = w \/ Before(u, w) \/ Before(w, u)
        BY <1>3 DEF FillsInv, Apart
      <4>a. u.lots \in Nat /\ u.upto \in Nat /\ 1 <= u.lots
        BY <4>1, LotsAre
      <4>3. ~Before(u, w) /\ ~Before(w, u)
        BY <2>a, <4>a DEF Before
      <4> QED
        BY <4>2, <4>3
    <3>2. Applied(o)' = {n \in Lots : \E u \in FillsOf(o) :
                           <<o, u.upto>> \in claimed' /\ n \in LotsOf(u)}
      BY <1>3, <1>5 DEF Applied
    <3> QED
      BY <1>3, <2>6, <3>1, <3>2 DEF Applied
  <2>8. Applied(o) \cap LotsOf(w) = {}
    <3> SUFFICES ASSUME NEW n \in Applied(o), n \in LotsOf(w) PROVE FALSE
      OBVIOUS
    <3>1. PICK u \in FillsOf(o) : <<o, u.upto>> \in claimed /\ n \in LotsOf(u)
      BY DEF Applied
    <3>2. u # w
      BY <2>2, <3>1
    <3>3. Before(u, w) \/ Before(w, u)
      BY <1>3, <3>2 DEF FillsInv, Apart
    <3>4. u.lots \in Nat /\ u.upto \in Nat /\ w.lots \in Nat /\ w.upto \in Nat
      BY <1>1, <1>3, <2>3, FillIs, LotsAre
    <3> QED
      BY <3>1, <3>3, <3>4 DEF LotsOf, Before
  <2>9. Cardinality(LotsOf(w)) = w.lots /\ IsFiniteSet(LotsOf(w)) /\ w.lots \in Nat
    <3>1. LotsOf(w) = (m - k + 1)..m
      BY <2>a DEF LotsOf
    <3>2. IsFiniteSet((m - k + 1)..m)
          /\ Cardinality((m - k + 1)..m) =
               IF m - k + 1 > m THEN 0 ELSE m - (m - k + 1) + 1
      BY FS_Interval
    <3> QED
      BY <2>a, <3>1, <3>2
  <2>10. IsFiniteSet(Applied(o))
    BY LotsAre, FS_Subset DEF Applied
  <2>11. Cardinality(Applied(o) \cup LotsOf(w)) = Cardinality(Applied(o)) + w.lots
    <3>1. Cardinality(Applied(o) \cup LotsOf(w)) =
            Cardinality(Applied(o)) + Cardinality(LotsOf(w))
              - Cardinality(Applied(o) \cap LotsOf(w))
      BY <2>9, <2>10, FS_Union
    <3>2. Cardinality(Applied(o)) \in Nat
      BY <2>10, FS_CardinalityType
    <3> QED
      BY <2>8, <2>9, <3>1, <3>2, FS_EmptySet
  <2>12. settled'[o] = Cardinality(Applied(o)')
    <3>1. settled'[o] = settled[o] + w.lots
      BY <1>1, <1>3, <2>1 DEF TypeOK
    <3>2. settled[o] = Cardinality(Applied(o))
      BY <1>3 DEF FillsInv, SettledIsApplied
    <3> QED
      BY <2>7, <2>11, <3>1, <3>2
  <2>13. SettledIsApplied'
    <3>1. \A p \in Orders \ {o} : settled'[p] = settled[p]
      BY <1>1, <1>3, <2>1 DEF TypeOK
    <3>2. \A p \in Orders \ {o} : settled'[p] = Cardinality(Applied(p)')
      BY <2>5, <3>1 DEF FillsInv, SettledIsApplied
    <3> QED
      BY <2>12, <3>2 DEF SettledIsApplied
  <2> QED
    BY <1>4, <1>6, <2>4, <2>13 DEF FillsInv
<1> QED
  BY <1>7, <1>8

\* Steps that touch neither the feed nor the broker's fills.
LEMMA FillsUntouched ==
  ASSUME FillsInv, LiveInv', UNCHANGED <<feed, sent, claimed, settled>>,
         loop' = loop \/ loop'.stage # "handling",
         \A o \in Orders : broker'[o].filled = broker[o].filled
  PROVE  FillsInv'
<1>1. OnlySent'
  BY DEF FillsInv, OnlySent
<1> QED
  BY <1>1, FillsStay

\* The update at the head was sent.
LEMMA HeadWasSent ==
  ASSUME TypeOK, OnlySent, feed # <<>>
  PROVE  Head(feed) \in sent /\ Head(feed) \in Updates /\ Head(feed).order \in Orders
<1>1. Head(feed) = feed[1] /\ Len(feed) \in Nat \ {0} /\ Head(feed) \in Updates
  BY DEF TypeOK
<1>2. Head(feed) \in sent
  BY <1>1 DEF OnlySent
<1> QED
  BY <1>1, <1>2, UpdatesAre

\* Once the head is taken, the rest was sent all the same.
LEMMA RestWasSent ==
  ASSUME TypeOK, OnlySent, feed # <<>>, feed' = Tail(feed), sent' = sent
  PROVE  \A i \in 1..Len(feed') : feed'[i] \in sent'
BY Taking DEF OnlySent

\* Every step.
LEMMA NextFills ==
  ASSUME FillsInv, [Next]_vars
  PROVE  FillsInv'
<1>1. TypeOK /\ OnlySent /\ LiveInv'
  BY NextLive DEF FillsInv, LiveInv
<1>2. ASSUME NEW o \in Orders, Handler(o) PROVE FillsInv'
  <2>1. UNCHANGED <<feed, sent, claimed, settled, loop>>
    BY <1>2 DEF Handler, Place, MarginRefused, LotSizeRefused, Submit, Confirmed,
      Refused, Uncertain, Link, LinkFails, HandlerCancels, HandlerRefunds, HandlerFails,
      atBroker, money
  <2>2. broker' = broker \/ broker' = [broker EXCEPT ![o].state = "called"]
    BY <1>2 DEF Handler, Place, MarginRefused, LotSizeRefused, Submit, Confirmed,
      Refused, Uncertain, Link, LinkFails, HandlerCancels, HandlerRefunds, HandlerFails,
      atBroker
  <2>3. \A p \in Orders : broker'[p].filled = broker[p].filled
    <3>1. CASE broker' = broker
      BY <3>1
    <3>2. CASE broker' = [broker EXCEPT ![o].state = "called"]
      BY <1>1, <3>2 DEF TypeOK
    <3> QED
      BY <2>2, <3>1, <3>2
  <2> QED
    BY <1>1, <2>1, <2>3, FillsUntouched
<1>3. ASSUME NEW o \in Orders, User(o) PROVE FillsInv'
  <2>1. UNCHANGED <<feed, sent, claimed, settled, loop, broker>>
    BY <1>3 DEF User, AskCancel, UserCancels, UserRefunded, UserRefundFails,
      AskAmend, UserAmends, UserAmendFails, atBroker,
      money
  <2> QED
    BY <1>1, <2>1, FillsUntouched
<1>4. ASSUME NEW o \in Orders, NEW s, broker' = [broker EXCEPT ![o].state = s],
             UNCHANGED <<claimed, settled, loop>>,
             UNCHANGED <<feed, sent>> \/ \E u \in Updates : IsEnd(u) /\ Send(u)
      PROVE  FillsInv'
  <2>1. \A p \in Orders : broker'[p].filled = broker[p].filled
    BY <1>1, <1>4 DEF TypeOK
  <2>2. CASE UNCHANGED <<feed, sent>>
    BY <1>1, <1>4, <2>1, <2>2, FillsUntouched
  <2>3. ASSUME NEW u \in Updates, IsEnd(u), Send(u) PROVE FillsInv'
    <3>1. OnlySent'
      BY <1>1, <1>4, <2>3, SendsOnly
    <3>2. \A w : IsFill(w) => (w \in sent' <=> w \in sent)
      BY <2>3 DEF Send, IsFill, IsEnd
    <3> QED
      BY <1>1, <1>4, <2>1, <3>1, <3>2, FillsStay
  <2> QED
    BY <1>4, <2>2, <2>3
<1>5. ASSUME NEW o \in Orders, AtBroker(o) PROVE FillsInv'
  <2>1. CASE Accept(o)
    BY <1>4, <2>1 DEF Accept, money
  <2>2. CASE Refuse(o)
    <3>1. [order |-> o, kind |-> "Rejected"] \in Updates
          /\ IsEnd([order |-> o, kind |-> "Rejected"])
      BY UpdatesAre DEF IsEnd
    <3> QED
      BY <1>4, <2>2, <3>1 DEF Refuse, money
  <2>3. CASE Close(o)
    <3>1. \A k \in {"Rejected", "Canceled"} :
            [order |-> o, kind |-> k] \in Updates /\ IsEnd([order |-> o, kind |-> k])
      BY UpdatesAre DEF IsEnd
    <3> QED
      BY <1>4, <2>3, <3>1 DEF Close, money
  <2>4. CASE BrokerFills(o)
    BY <1>1, <2>4, BrokerFillsInv
  <2> QED
    BY <1>5, <2>1, <2>2, <2>3, <2>4 DEF AtBroker
<1>6. CASE Replay
  <2>1. PICK u \in sent : feed' = Append(feed, u)
    BY <1>6 DEF Replay
  <2>2. u \in Updates
    BY <1>1 DEF TypeOK
  <2>3. UNCHANGED <<broker, sent, loop, claimed, settled>>
    BY <1>6 DEF Replay, money
  <2>4. \A i \in 1..Len(feed') : feed'[i] \in sent'
    BY <1>1, <2>1, <2>2, <2>3, Queued DEF OnlySent
  <2>5. OnlySent'
    BY <1>1, <2>3, <2>4 DEF OnlySent
  <2> QED
    BY <1>1, <2>3, <2>5, FillsStay
<1>7. CASE Receive \/ ReceiveFails
  <2>1. feed # <<>> /\ feed' = Tail(feed) /\ UNCHANGED <<broker, sent, claimed, settled>>
        /\ loop = Idle
    BY <1>7 DEF Receive, ReceiveFails, money
  <2>2. loop' = loop \/ loop'.update = Head(feed)
    BY <1>7 DEF Receive, ReceiveFails
  <2>3. OnlySent'
    BY <1>1, <2>1, <2>2, HeadWasSent, RestWasSent, DoingsAre DEF OnlySent
  <2> QED
    BY <1>1, <2>1, <2>3, FillsStay
<1>8. CASE FillFails \/ ApplyEnd \/ EndFails \/ LoopRefunds \/ LoopRefundFails
  <2>1. UNCHANGED <<feed, sent, claimed, settled, broker>>
    BY <1>8 DEF FillFails, ApplyEnd, EndFails, LoopRefunds, LoopRefundFails, atBroker,
      money
  <2>2. loop'.stage # "handling"
    BY <1>8, DoingsAre DEF FillFails, ApplyEnd, EndFails, LoopRefunds, LoopRefundFails
  <2> QED
    BY <1>1, <2>1, <2>2, FillsUntouched
<1>9. CASE Crash
  <2>1. feed' = <<>> /\ loop' = Idle /\ UNCHANGED <<sent, claimed, settled, broker>>
    BY <1>9 DEF Crash, money
  <2>2. OnlySent'
    BY <2>1, DoingsAre DEF OnlySent
  <2> QED
    BY <1>1, <2>1, <2>2, FillsStay
<1>10. CASE UNCHANGED vars
  BY <1>1, <1>10, FillsUntouched DEF vars
<1> QED
  BY <1>1, <1>2, <1>3, <1>5, <1>6, <1>7, <1>8, <1>9, <1>10, ApplyFillInv
    DEF Next, Process, ProcessFails

\* The initial states.
LEMMA InitFills ==
  ASSUME Init
  PROVE  FillsInv
<1>1. \A o : FillsOf(o) = {} /\ Applied(o) = {}
  BY DEF Init, FillsOf, Applied
<1>2. OnlySent
  BY DoingsAre DEF Init, OnlySent
<1>3. SettledIsApplied
  BY <1>1, FS_EmptySet DEF Init, SettledIsApplied
<1> QED
  BY <1>1, <1>2, <1>3, InitLive DEF Init, FillsInv, SentIsFilled, Apart, ClaimedWasSent

\* The invariant holds throughout.
LEMMA FillsInvariant == Spec => []FillsInv
<1>1. Init => FillsInv
  BY InitFills
<1>2. FillsInv /\ [Next]_vars => FillsInv'
  BY NextFills
<1> QED
  BY <1>1, <1>2, PTL DEF Spec

\* However often an update is repeated and however its lots were cut, no more
\* is settled of an order than the broker has filled (the claim of flid in
\* _handle_fill).
THEOREM SettledWasFilled == Spec => []SettledIsFilled
<1>1. FillsInv => SettledIsFilled
  <2> SUFFICES ASSUME FillsInv, NEW o \in Orders PROVE settled[o] <= broker[o].filled
    BY DEF SettledIsFilled
  <2> DEFINE f == broker[o].filled
  <2>1. TypeOK
    BY DEF FillsInv, LiveInv
  <2>2. f \in Nat
    BY <2>1, Filled, LotsAre
  <2>3. Applied(o) \subseteq 1..f
    <3> SUFFICES ASSUME NEW n \in Applied(o) PROVE n \in 1..f
      OBVIOUS
    <3>1. PICK u \in FillsOf(o) : n \in LotsOf(u)
      BY DEF Applied
    <3>2. u.lots \in Lots /\ u.upto \in Lots
      BY <2>1, FillIs
    <3>3. u.upto <= f /\ u.lots <= u.upto
      BY DEF FillsInv, SentIsFilled
    <3>4. u.lots \in Nat /\ u.upto \in Nat /\ 1 <= u.lots
      BY <3>2, LotsAre
    <3>5. n \in Nat /\ 1 <= n
      BY LotsAre DEF Applied
    <3> HIDE DEF f
    <3> QED
      BY <2>2, <3>1, <3>3, <3>4, <3>5 DEF LotsOf
  <2> HIDE DEF f
  <2>4. IsFiniteSet(1..f) /\ Cardinality(1..f) = f
    BY <2>2, FS_Interval
  <2>5. Cardinality(Applied(o)) <= f
    BY <2>3, <2>4, FS_Subset
  <2>6. settled[o] = Cardinality(Applied(o))
    BY DEF FillsInv, SettledIsApplied
  <2> QED
    BY <2>5, <2>6 DEF f
<1> QED
  BY <1>1, FillsInvariant, PTL

-----------------------------------------------------------------------------
(* Refunds.  Whoever gives the debit back knows, unless the user asked for *)
(* it or an update was lost, that nothing can be filled any more: the      *)
(* placing request because the order never was at the broker, the event    *)
(* loop because an end comes after all the fills of its order.             *)

EndOf(u, o) == IsEnd(u) /\ u.order = o

\* The order is where no fill comes from.
Dead(o) ==
  /\ broker[o].filled = 0
  /\ \/ broker[o].state \in {"refused", "closed"}
     \/ broker[o].state = "none" /\ handler[o] \notin {"none", "checks"}

\* What the broker has, as far as the request has come and updates were sent.
Reached(o) ==
  /\ handler[o] \in {"none", "checks"} => broker[o].state = "none"
  /\ broker[o].state \in {"none", "called", "refused"} => broker[o].filled = 0
  /\ broker[o].filled > 0 => FillsOf(o) # {}
AllReached == \A o \in Orders : Reached(o)
SentIsReached ==
  \A u \in sent :
    /\ broker[u.order].state # "none"
    /\ IsEnd(u) => broker[u.order].state \in {"refused", "closed"}

\* A fill that is on its way, with no end of its order before it.
Ahead(u) ==
  \E i \in 1..Len(feed) : /\ feed[i] = u
                          /\ \A j \in 1..(i - 1) : ~EndOf(feed[j], u.order)
EndHandled(o) == loop.stage = "handling" /\ EndOf(loop.update, o)
Due(u) ==
  \/ <<u.order, u.upto>> \in claimed
  \/ loop.stage = "handling" /\ loop.update = u
  \/ Ahead(u) /\ ~EndHandled(u.order)
InOrder == \A o \in Orders \ lost : \A u \in FillsOf(o) : Due(u)

Withdraws == \A o \in Orders : ByUser(o) => o \in withdrawn
RefundsDead ==
  \A o \in Orders :
    /\ handler[o] \in {"cancel", "refund"} => Dead(o)
    /\ o \notin lost \cup withdrawn /\ (refunds[o] > 0 \/ ByLoop(o)) => Dead(o)

SafeInv == /\ FillsInv
           /\ AllReached /\ SentIsReached /\ InOrder /\ Withdraws /\ RefundsDead

\* An order at the broker.
LEMMA BrokerIs ==
  ASSUME TypeOK, NEW o \in Orders
  PROVE  /\ broker[o].state \in {"none", "called", "open", "refused", "closed"}
         /\ broker[o].filled \in Nat
<1>1. broker[o] \in [state : {"none", "called", "open", "refused", "closed"},
                    filled : 0..Qty]
  BY DEF TypeOK
<1> QED
  BY <1>1

\* Which states an order goes through at the broker.
Forward(o) ==
  /\ broker[o].state \in {"refused", "closed"} => broker'[o] = broker[o]
  /\ broker[o].state # "none" => broker'[o].state # "none"
  /\ broker[o].state = "none" /\ handler[o] # "checks" => broker'[o] = broker[o]
  /\ handler[o] \notin {"none", "checks"} => handler'[o] \notin {"none", "checks"}

\* They are left only in that direction.
LEMMA NextForward ==
  ASSUME TypeOK, AllReached, [Next]_vars, NEW p \in Orders
  PROVE  Forward(p)
<1>1. ASSUME NEW o \in Orders, Handler(o) PROVE Forward(p)
  <2>1. CASE Submit(o)
    <3>1. handler[o] = "checks" /\ handler' = [handler EXCEPT ![o] = "waiting"]
          /\ broker' = [broker EXCEPT ![o].state = "called"]
      BY <2>1 DEF Submit, HandlerAt
    <3>2. CASE p = o
      <4>1. broker[o].state = "none" /\ broker'[o].state = "called"
            /\ handler'[o] = "waiting"
        BY <3>1 DEF TypeOK, AllReached, Reached
      <4> QED
        BY <3>1, <3>2, <4>1 DEF Forward
    <3>3. CASE p # o
      <4>1. broker'[p] = broker[p] /\ handler'[p] = handler[p]
        BY <3>1, <3>3 DEF TypeOK
      <4> QED
        BY <4>1 DEF Forward
    <3> QED
      BY <3>2, <3>3
  <2>2. CASE ~Submit(o)
    <3>1. broker' = broker
      BY <1>1, <2>2 DEF Handler, Place, MarginRefused, LotSizeRefused, Confirmed,
        Refused, Uncertain, Link, LinkFails, HandlerCancels, HandlerRefunds,
        HandlerFails, atBroker
    <3>2. handler[p] \notin {"none", "checks"} => handler'[p] \notin {"none", "checks"}
      BY <1>1, <2>2 DEF Handler, Place, MarginRefused, LotSizeRefused, Confirmed,
        Refused, Uncertain, Link, LinkFails, HandlerCancels, HandlerRefunds,
        HandlerFails, HandlerAt, AfterUncertain, TypeOK
    <3> QED
      BY <3>1, <3>2 DEF Forward
  <2> QED
    BY <2>1, <2>2
<1>2. ASSUME NEW o \in Orders, AtBroker(o) PROVE Forward(p)
  <2>1. handler' = handler
    BY <1>2 DEF AtBroker, Accept, Refuse, BrokerFills, Close
  <2>2. CASE p # o
    BY <1>2, <2>1, <2>2 DEF AtBroker, Accept, Refuse, BrokerFills, Close, Forward, TypeOK
  <2>3. CASE p = o
    <3>a. broker[o].state \in {"called", "open"}
      BY <1>2 DEF AtBroker, Accept, Refuse, BrokerFills, Close
    <3>b. \/ \E s \in {"open", "refused", "closed"} :
               broker' = [broker EXCEPT ![o].state = s]
          \/ \E n : broker' = [broker EXCEPT ![o].filled = n]
      BY <1>2 DEF AtBroker, Accept, Refuse, BrokerFills, Close
    <3>1. broker[o].state \in {"called", "open"} /\ broker'[o].state # "none"
      <4>1. ASSUME NEW s \in {"open", "refused", "closed"},
                   broker' = [broker EXCEPT ![o].state = s]
            PROVE  broker'[o].state # "none"
        BY <4>1 DEF TypeOK
      <4>2. ASSUME NEW n, broker' = [broker EXCEPT ![o].filled = n]
            PROVE  broker'[o].state # "none"
        BY <3>a, <4>2 DEF TypeOK
      <4> QED
        BY <3>a, <3>b, <4>1, <4>2
    <3> QED
      BY <2>1, <2>3, <3>1 DEF Forward
  <2> QED
    BY <2>2, <2>3
<1>3. ASSUME NEW o \in Orders, User(o) PROVE Forward(p)
  BY <1>3 DEF User, AskCancel, UserCancels, UserRefunded, UserRefundFails,
      AskAmend, UserAmends, UserAmendFails, atBroker,
    Forward
<1>4. CASE Replay \/ Process \/ ProcessFails
  BY <1>4 DEF Replay, Process, ProcessFails, Receive, ReceiveFails, ApplyFill,
    FillFails, ApplyEnd, EndFails, LoopRefunds, LoopRefundFails, atBroker, Forward
<1>5. CASE Crash
  <2>1. broker' = broker
        /\ handler'[p] = IF handler[p] = "none" THEN "none" ELSE "done"
    BY <1>5 DEF Crash
  <2> QED
    BY <2>1 DEF Forward
<1>6. CASE UNCHANGED vars
  BY <1>6 DEF vars, Forward
<1> QED
  BY <1>1, <1>2, <1>3, <1>4, <1>5, <1>6 DEF Next

\* An order that nothing is filled of any more stays so.
LEMMA DeadForEver ==
  ASSUME NEW o \in Orders, Forward(o), Dead(o)
  PROVE  Dead(o)'
<1>1. broker'[o] = broker[o]
  BY DEF Forward, Dead
<1>2. broker[o].state = "none" => handler'[o] \notin {"none", "checks"}
  BY DEF Forward, Dead
<1> QED
  BY <1>1, <1>2 DEF Dead

-----------------------------------------------------------------------------
(* The order of updates.                                                   *)

\* Steps that leave the feed, the broker's updates and the claims alone.
LEMMA OrderStays ==
  ASSUME InOrder, UNCHANGED <<feed, sent, claimed, lost>>,
         loop' = loop \/ (loop.stage # "handling" /\ loop'.stage # "handling")
  PROVE  InOrder'
<1>1. \A o : FillsOf(o)' = FillsOf(o)
  BY DEF FillsOf
<1>2. \A u : Ahead(u)' <=> Ahead(u)
  BY DEF Ahead
<1>3. \A u : Due(u) => Due(u)'
  BY <1>2 DEF Due, EndHandled
<1> QED
  BY <1>1, <1>3 DEF InOrder

\* What is ahead stays so when something is put behind it.
LEMMA AheadStays ==
  ASSUME TypeOK, NEW u \in Updates, feed' = Append(feed, u), NEW w
  PROVE  Ahead(w) => Ahead(w)'
<1> SUFFICES ASSUME NEW i \in 1..Len(feed), feed[i] = w,
                    \A j \in 1..(i - 1) : ~EndOf(feed[j], w.order)
             PROVE  Ahead(w)'
  BY DEF Ahead
<1>1. Len(feed) \in Nat /\ Len(feed') = Len(feed) + 1
      /\ \A j \in 1..Len(feed) : feed'[j] = feed[j]
  BY Queued
<1>2. i \in 1..Len(feed') /\ feed'[i] = w
      /\ \A j \in 1..(i - 1) : ~EndOf(feed'[j], w.order)
  BY <1>1
<1> QED
  BY <1>2 DEF Ahead

\* Something is sent, or sent again: fills before ends.
LEMMA SendKeepsOrder ==
  ASSUME TypeOK, InOrder, NEW u \in Updates, feed' = Append(feed, u),
         sent' \subseteq sent \cup {u}, sent \subseteq sent',
         UNCHANGED <<claimed, lost, loop>>,
         u \in sent \/ IsEnd(u) \/
           (/\ \A i \in 1..Len(feed) : ~EndOf(feed[i], u.order)
            /\ ~EndHandled(u.order))
  PROVE  InOrder'
<1> SUFFICES ASSUME NEW o \in Orders \ lost, NEW w \in sent', IsFill(w), w.order = o
             PROVE  Due(w)'
  BY DEF InOrder, FillsOf
<1>1. CASE w \in sent
  <2>1. Due(w)
    BY <1>1 DEF InOrder, FillsOf
  <2> QED
    BY <2>1, AheadStays DEF Due, EndHandled
<1>2. CASE w \notin sent
  <2>1. w = u /\ ~IsEnd(u)
    BY <1>2 DEF IsFill, IsEnd
  <2>2. /\ \A i \in 1..Len(feed) : ~EndOf(feed[i], u.order)
        /\ ~EndHandled(u.order)
    BY <1>2, <2>1
  <2>3. Len(feed) \in Nat /\ Len(feed') = Len(feed) + 1 /\ feed'[Len(feed) + 1] = u
        /\ \A j \in 1..Len(feed) : feed'[j] = feed[j]
    BY Queued
  <2>4. Ahead(u)'
    <3>1. Len(feed) + 1 \in 1..Len(feed')
      BY <2>3
    <3>2. \A j \in 1..(Len(feed) + 1 - 1) : ~EndOf(feed'[j], u.order)
      BY <2>2, <2>3
    <3> QED
      BY <2>3, <3>1, <3>2 DEF Ahead
  <2> QED
    BY <2>1, <2>2, <2>4 DEF Due, EndHandled
<1> QED
  BY <1>1, <1>2

\* The head is taken: a fill that was ahead is ahead or at hand.
LEMMA TakeKeepsOrder ==
  ASSUME TypeOK, feed # <<>>, feed' = Tail(feed), NEW w, Ahead(w)
  PROVE  \/ w = Head(feed)
         \/ Ahead(w)' /\ ~EndOf(Head(feed), w.order)
<1>1. PICK i \in 1..Len(feed) :
        feed[i] = w /\ \A j \in 1..(i - 1) : ~EndOf(feed[j], w.order)
  BY DEF Ahead
<1>2. Len(feed) \in Nat \ {0} /\ Len(feed') = Len(feed) - 1 /\ Head(feed) = feed[1]
      /\ \A j \in 1..Len(feed') : feed'[j] = feed[j + 1]
  BY Taking
<1>3. CASE i = 1
  BY <1>1, <1>2, <1>3
<1>4. CASE i # 1
  <2>1. i - 1 \in 1..Len(feed') /\ 1 \in 1..(i - 1)
    BY <1>2, <1>4
  <2>2. feed'[i - 1] = w /\ ~EndOf(Head(feed), w.order)
    BY <1>1, <1>2, <2>1
  <2>3. \A j \in 1..(i - 1 - 1) : ~EndOf(feed'[j], w.order)
    <3> SUFFICES ASSUME NEW j \in 1..(i - 1 - 1) PROVE ~EndOf(feed'[j], w.order)
      OBVIOUS
    <3>1. j \in 1..Len(feed') /\ j + 1 \in 1..(i - 1)
      BY <1>2
    <3> QED
      BY <1>1, <1>2, <3>1
  <2>4. Ahead(w)'
    BY <2>1, <2>2, <2>3 DEF Ahead
  <2> QED
    BY <2>2, <2>4
<1> QED
  BY <1>3, <1>4

\* Every step keeps updates in order, but for those that are lost.
LEMMA NextInOrder ==
  ASSUME SafeInv, [Next]_vars
  PROVE  InOrder'
<1>1. TypeOK /\ OnlySent /\ InOrder /\ FillsInv
  BY DEF SafeInv, FillsInv, LiveInv
<1>2. ASSUME NEW o \in Orders, Handler(o) \/ User(o) \/ Accept(o) PROVE InOrder'
  <2>1. UNCHANGED <<feed, sent, claimed, lost, loop>>
    BY <1>2 DEF Handler, Place, MarginRefused, LotSizeRefused, Submit, Confirmed,
      Refused, Uncertain, Link, LinkFails, HandlerCancels, HandlerRefunds, HandlerFails,
      User, AskCancel, UserCancels, UserRefunded, UserRefundFails,
      AskAmend, UserAmends, UserAmendFails, Accept, atBroker,
      money, history
  <2> QED
    BY <1>1, <2>1, OrderStays
<1>3. ASSUME NEW u \in Updates, Send(u), UNCHANGED <<claimed, lost, loop>>,
             IsEnd(u) \/ (/\ \A i \in 1..Len(feed) : ~EndOf(feed[i], u.order)
                          /\ ~EndHandled(u.order))
      PROVE  InOrder'
  <2>1. feed' = Append(feed, u) /\ sent' = sent \cup {u}
    BY <1>3 DEF Send
  <2> QED
    BY <1>1, <1>3, <2>1, SendKeepsOrder
<1>4. ASSUME NEW o \in Orders, Refuse(o) \/ Close(o) PROVE InOrder'
  <2>1. UNCHANGED <<claimed, lost, loop>>
    BY <1>4 DEF Refuse, Close, money, history
  <2>2. \A k \in {"Rejected", "Canceled"} :
          [order |-> o, kind |-> k] \in Updates /\ IsEnd([order |-> o, kind |-> k])
    BY UpdatesAre DEF IsEnd
  <2>3. \/ UNCHANGED <<feed, sent>>
        \/ \E k \in {"Rejected", "Canceled"} : Send([order |-> o, kind |-> k])
    BY <1>4 DEF Refuse, Close
  <2> QED
    BY <1>1, <1>3, <2>1, <2>2, <2>3, OrderStays
<1>5. ASSUME NEW o \in Orders, BrokerFills(o) PROVE InOrder'
  <2>1. PICK k \in 1..(Qty - broker[o].filled) :
          Send([order |-> o, kind |-> "Fill", lots |-> k, upto |-> broker[o].filled + k])
    BY <1>5 DEF BrokerFills
  <2> DEFINE w == [order |-> o, kind |-> "Fill", lots |-> k,
                   upto |-> broker[o].filled + k]
  <2>2. w \in Updates
    <3>1. k \in Lots /\ broker[o].filled + k \in Lots
      <4>1. broker[o].filled \in 0..Qty
        BY <1>1, Filled
      <4> QED
        BY <4>1, LotsAre DEF Lots
    <3> QED
      BY <3>1, UpdatesAre
  <2>3. UNCHANGED <<claimed, lost, loop>> /\ broker[o].state = "open"
    BY <1>5 DEF BrokerFills, money, history
  <2>4. \A u \in sent : ~EndOf(u, o)
    BY <2>3 DEF SafeInv, SentIsReached, EndOf
  <2>5. /\ \A i \in 1..Len(feed) : ~EndOf(feed[i], w.order)
        /\ ~EndHandled(w.order)
    BY <1>1, <2>4 DEF OnlySent, EndHandled
  <2> HIDE DEF w
  <2> QED
    BY <1>3, <2>1, <2>2, <2>3, <2>5 DEF w
<1>6. CASE Replay
  <2>1. PICK u \in sent : feed' = Append(feed, u)
    BY <1>6 DEF Replay
  <2>2. u \in Updates
    BY <1>1 DEF TypeOK
  <2>3. UNCHANGED <<sent, claimed, lost, loop>>
    BY <1>6 DEF Replay, money, history
  <2> QED
    BY <1>1, <2>1, <2>2, <2>3, SendKeepsOrder
<1>7. CASE Receive
  <2>1. feed # <<>> /\ feed' = Tail(feed) /\ loop.stage = "idle"
        /\ UNCHANGED <<sent, claimed, lost>>
    BY <1>7, DoingsAre DEF Receive, money, history
  <2>2. Found(Head(feed).order)
    <3> DEFINE o == Head(feed).order
    <3>1. o \in Orders /\ Head(feed) \in sent
      BY <1>1, <2>1, HeadWasSent
    <3>2. broker[o].state # "none"
      BY <3>1 DEF SafeInv, SentIsReached
    <3>3. handler[o] # "none"
      BY <3>1, <3>2 DEF SafeInv, AllReached, Reached
    <3>4. row[o].status # "none"
      BY <1>1, <3>1, <3>3 DEF FillsInv, LiveInv, RefundInv, Placed
    <3> QED
      BY <3>4 DEF Found
  <2>3. loop'.stage = "handling" /\ loop'.update = Head(feed)
    BY <1>7, <2>2 DEF Receive
  <2> SUFFICES ASSUME NEW o \in Orders \ lost, NEW w \in FillsOf(o) PROVE Due(w)'
    BY <2>1 DEF InOrder, FillsOf
  <2>4. w.order = o /\ IsFill(w) /\ Due(w)
    BY <1>1 DEF FillsOf, InOrder
  <2>5. CASE <<o, w.upto>> \in claimed
    BY <2>1, <2>4, <2>5 DEF Due
  <2>6. CASE Ahead(w)
    <3>1. CASE w = Head(feed)
      BY <2>3, <3>1 DEF Due
    <3>2. CASE Ahead(w)' /\ ~EndOf(Head(feed), w.order)
      BY <2>3, <3>2 DEF Due, EndHandled
    <3> QED
      BY <1>1, <2>1, <2>6, <3>1, <3>2, TakeKeepsOrder
  <2> QED
    BY <2>1, <2>4, <2>5, <2>6 DEF Due
<1>8. CASE ReceiveFails
  <2>1. feed # <<>> /\ feed' = Tail(feed) /\ loop' = loop /\ loop.stage = "idle"
        /\ UNCHANGED <<sent, claimed>> /\ lost' = lost \cup {Head(feed).order}
    BY <1>8, DoingsAre DEF ReceiveFails, money
  <2> SUFFICES ASSUME NEW o \in Orders \ lost', NEW w \in FillsOf(o) PROVE Due(w)'
    BY <2>1 DEF InOrder, FillsOf
  <2>2. w.order = o /\ IsFill(w) /\ Due(w) /\ w # Head(feed)
    BY <1>1, <2>1 DEF FillsOf, InOrder
  <2>3. CASE <<o, w.upto>> \in claimed
    BY <2>1, <2>2, <2>3 DEF Due
  <2>4. CASE Ahead(w)
    <3>1. Ahead(w)'
      BY <1>1, <2>1, <2>2, <2>4, TakeKeepsOrder
    <3> QED
      BY <2>1, <3>1 DEF Due, EndHandled
  <2> QED
    BY <2>1, <2>2, <2>3, <2>4 DEF Due
<1>9. CASE ApplyFill \/ ApplyEnd
  <2>1. loop'.stage # "handling" /\ UNCHANGED <<feed, sent, lost>>
        /\ loop.stage = "handling"
    BY <1>9, DoingsAre DEF ApplyFill, ApplyEnd, Handling, atBroker, history
  <2>2. claimed \subseteq claimed'
    BY <1>9 DEF ApplyFill, ApplyEnd, money
  <2>3. IsFill(loop.update) => <<loop.update.order, loop.update.upto>> \in claimed'
    BY <1>9 DEF ApplyFill, ApplyEnd, Handling, IsFill, Duplicate
  <2> SUFFICES ASSUME NEW o \in Orders \ lost, NEW w \in FillsOf(o) PROVE Due(w)'
    BY <2>1 DEF InOrder, FillsOf
  <2>4. w.order = o /\ IsFill(w) /\ Due(w)
    BY <1>1 DEF FillsOf, InOrder
  <2>5. CASE Ahead(w)
    <3>1. Ahead(w)'
      BY <2>1, <2>5 DEF Ahead
    <3> QED
      BY <2>1, <3>1 DEF Due, EndHandled
  <2> QED
    BY <2>2, <2>3, <2>4, <2>5 DEF Due
<1>10. CASE FillFails \/ EndFails
  <2>1. loop'.stage # "handling" /\ UNCHANGED <<feed, sent, claimed>>
        /\ lost' = lost \cup {loop.update.order}
    BY <1>10, DoingsAre DEF FillFails, EndFails, Handling, atBroker, money
  <2> SUFFICES ASSUME NEW o \in Orders \ lost', NEW w \in FillsOf(o) PROVE Due(w)'
    BY <2>1 DEF InOrder, FillsOf
  <2>2. w.order = o /\ Due(w) /\ loop.update # w
    BY <1>1, <2>1 DEF FillsOf, InOrder
  <2>3. CASE Ahead(w)
    <3>1. Ahead(w)'
      BY <2>1, <2>3 DEF Ahead
    <3> QED
      BY <2>1, <3>1 DEF Due, EndHandled
  <2> QED
    BY <2>1, <2>2, <2>3 DEF Due
<1>11. CASE LoopRefunds \/ LoopRefundFails
  <2>1. UNCHANGED <<feed, sent, claimed, lost>> /\ loop.stage = "refund"
        /\ loop'.stage = "idle"
    BY <1>11, DoingsAre DEF LoopRefunds, LoopRefundFails, atBroker, money, history
  <2> QED
    BY <1>1, <2>1, OrderStays
<1>12. CASE Crash
  <2>1. UNCHANGED <<sent, claimed>> /\ lost' = lost \cup Unapplied
    BY <1>12 DEF Crash, money
  <2> SUFFICES ASSUME NEW o \in Orders \ lost', NEW w \in FillsOf(o) PROVE Due(w)'
    BY <2>1 DEF InOrder, FillsOf
  <2>2. w.order = o /\ Due(w)
    BY <1>1, <2>1 DEF FillsOf, InOrder
  <2>3. ~Ahead(w) /\ ~(loop.stage = "handling" /\ loop.update = w)
    BY <2>1, <2>2 DEF Unapplied, Ahead
  <2> QED
    BY <2>1, <2>2, <2>3 DEF Due
<1>13. CASE UNCHANGED vars
  BY <1>1, <1>13, OrderStays DEF vars
<1> QED
  BY <1>2, <1>4, <1>5, <1>6, <1>7, <1>8, <1>9, <1>10, <1>11, <1>12, <1>13
    DEF Next, AtBroker, Process, ProcessFails

\* What was sent was reached, and stays so.
LEMMA SentStays ==
  ASSUME TypeOK, SentIsReached, \A p \in Orders : Forward(p),
         \A u \in sent' \ sent :
           /\ u.order \in Orders /\ broker'[u.order].state # "none"
           /\ IsEnd(u) => broker'[u.order].state \in {"refused", "closed"}
  PROVE  SentIsReached'
<1> SUFFICES ASSUME NEW u \in sent'
             PROVE  /\ broker'[u.order].state # "none"
                    /\ IsEnd(u) => broker'[u.order].state \in {"refused", "closed"}
  BY DEF SentIsReached
<1>1. CASE u \in sent
  <2>1. u.order \in Orders
    BY <1>1, UpdatesAre DEF TypeOK
  <2> QED
    BY <1>1, <2>1 DEF SentIsReached, Forward
<1>2. CASE u \notin sent
  BY <1>2
<1> QED
  BY <1>1, <1>2

\* Steps that leave the broker alone.
LEMMA ReachedStays ==
  ASSUME AllReached, SentIsReached, UNCHANGED <<broker, sent>>,
         \A o \in Orders :
           handler'[o] \in {"none", "checks"} => handler[o] \in {"none", "checks"}
  PROVE  AllReached' /\ SentIsReached'
BY DEF AllReached, Reached, SentIsReached, FillsOf

\* The broker's steps.
LEMMA BrokerReaches ==
  ASSUME SafeInv, LiveInv', NEW o \in Orders, AtBroker(o), \A p \in Orders : Forward(p)
  PROVE  AllReached' /\ SentIsReached'
<1>1. TypeOK /\ AllReached /\ SentIsReached /\ handler' = handler
  BY DEF SafeInv, FillsInv, LiveInv, AtBroker, Accept, Refuse, BrokerFills, Close
<1>2. broker[o].state \in {"called", "open"} /\ sent \subseteq sent'
      /\ \A p \in Orders \ {o} : broker'[p] = broker[p]
  BY <1>1 DEF AtBroker, Accept, Refuse, BrokerFills, Close, Send, TypeOK
<1>3. handler[o] \notin {"none", "checks"}
  BY <1>1, <1>2 DEF AllReached, Reached
<1>4. \A p : FillsOf(p) \subseteq FillsOf(p)'
  BY <1>2 DEF FillsOf
<1>5. ASSUME NEW p \in Orders \ {o} PROVE Reached(p)'
  <2>1. Reached(p) /\ broker'[p] = broker[p]
    BY <1>1, <1>2 DEF AllReached
  <2> QED
    BY <1>1, <1>4, <2>1 DEF Reached
<1>6. CASE Accept(o)
  <2>1. broker' = [broker EXCEPT ![o].state = "open"] /\ sent' = sent
        /\ broker[o].state = "called"
    BY <1>6 DEF Accept
  <2>2. broker'[o].state = "open" /\ broker'[o].filled = broker[o].filled
    BY <1>1, <2>1 DEF TypeOK
  <2>3. broker[o].filled = 0
    BY <1>1, <2>1 DEF AllReached, Reached
  <2>4. Reached(o)'
    BY <1>1, <1>3, <2>2, <2>3 DEF Reached
  <2> QED
    BY <1>1, <1>5, <2>1, <2>4, SentStays DEF AllReached
<1>7. CASE Refuse(o)
  <2>1. broker' = [broker EXCEPT ![o].state = "refused"] /\ broker[o].state = "called"
        /\ \A u \in sent' \ sent : u.order = o
    BY <1>7 DEF Refuse, Send
  <2>2. broker'[o].state = "refused" /\ broker'[o].filled = broker[o].filled
    BY <1>1, <2>1 DEF TypeOK
  <2>3. broker[o].filled = 0
    BY <1>1, <2>1 DEF AllReached, Reached
  <2>4. Reached(o)'
    BY <1>1, <1>3, <2>2, <2>3 DEF Reached
  <2> QED
    BY <1>1, <1>5, <2>1, <2>2, <2>4, SentStays DEF AllReached
<1>8. CASE Close(o)
  <2>1. broker' = [broker EXCEPT ![o].state = "closed"] /\ broker[o].state = "open"
        /\ \A u \in sent' \ sent : u.order = o
    BY <1>8 DEF Close, Send
  <2>2. broker'[o].state = "closed" /\ broker'[o].filled = broker[o].filled
    BY <1>1, <2>1 DEF TypeOK
  <2>3. Reached(o)'
    BY <1>1, <1>3, <1>4, <2>2 DEF Reached, AllReached
  <2> QED
    BY <1>1, <1>5, <2>1, <2>2, <2>3, SentStays DEF AllReached
<1>9. CASE BrokerFills(o)
  <2>1. PICK k \in 1..(Qty - broker[o].filled) :
          /\ broker' = [broker EXCEPT ![o].filled = broker[o].filled + k]
          /\ Send([order |-> o, kind |-> "Fill", lots |-> k,
                   upto |-> broker[o].filled + k])
    BY <1>9 DEF BrokerFills
  <2> DEFINE w == [order |-> o, kind |-> "Fill", lots |-> k,
                   upto |-> broker[o].filled + k]
  <2>2. sent' = sent \cup {w} /\ w.order = o /\ w.kind = "Fill"
    BY <2>1 DEF Send
  <2>3. broker[o].state = "open"
    BY <1>9 DEF BrokerFills
  <2>4. broker'[o].state = "open"
    BY <1>1, <2>1, <2>3 DEF TypeOK
  <2> HIDE DEF w
  <2>5. w \in FillsOf(o)'
    BY <2>2 DEF FillsOf, IsFill
  <2>6. Reached(o)'
    BY <1>1, <1>3, <2>4, <2>5 DEF Reached
  <2>7. \A u \in sent' \ sent : u.order = o /\ ~IsEnd(u)
    BY <2>2 DEF IsEnd
  <2> QED
    BY <1>1, <1>5, <2>4, <2>6, <2>7, SentStays DEF AllReached
<1> QED
  BY <1>6, <1>7, <1>8, <1>9 DEF AtBroker

\* Every step.
LEMMA NextReached ==
  ASSUME SafeInv, [Next]_vars
  PROVE  AllReached' /\ SentIsReached'
<1>1. TypeOK /\ AllReached /\ SentIsReached /\ LiveInv' /\ \A p \in Orders : Forward(p)
  BY NextLive, NextForward DEF SafeInv, FillsInv, LiveInv
<1>2. ASSUME NEW o \in Orders, Handler(o) PROVE AllReached' /\ SentIsReached'
  <2>1. \A p \in Orders :
          handler'[p] \in {"none", "checks"} => handler[p] \in {"none", "checks"}
    BY <1>1 DEF Forward
  <2>2. CASE ~Submit(o)
    <3>1. UNCHANGED <<broker, sent>>
      BY <1>2, <2>2 DEF Handler, Place, MarginRefused, LotSizeRefused, Confirmed,
        Refused, Uncertain, Link, LinkFails, HandlerCancels, HandlerRefunds,
        HandlerFails, atBroker
    <3> QED
      BY <1>1, <2>1, <3>1, ReachedStays
  <2>3. CASE Submit(o)
    <3>1. /\ handler[o] = "checks" /\ handler' = [handler EXCEPT ![o] = "waiting"]
          /\ broker' = [broker EXCEPT ![o].state = "called"] /\ sent' = sent
      BY <2>3 DEF Submit, HandlerAt
    <3>2. handler'[o] = "waiting" /\ broker'[o].state = "called"
          /\ broker'[o].filled = broker[o].filled
      BY <1>1, <3>1 DEF TypeOK
    <3>3. broker[o].state = "none" /\ broker[o].filled = 0
      BY <1>1, <3>1 DEF AllReached, Reached
    <3>4. \A p \in Orders \ {o} : handler'[p] = handler[p] /\ broker'[p] = broker[p]
      BY <1>1, <3>1 DEF TypeOK
    <3>5. \A p : FillsOf(p)' = FillsOf(p)
      BY <3>1 DEF FillsOf
    <3>6. Reached(o)'
      BY <3>2, <3>3 DEF Reached
    <3>7. \A p \in Orders \ {o} : Reached(p)'
      BY <1>1, <3>4, <3>5 DEF Reached, AllReached
    <3> QED
      BY <1>1, <3>1, <3>6, <3>7, SentStays DEF AllReached
  <2> QED
    BY <2>2, <2>3
<1>3. ASSUME NEW o \in Orders, User(o) PROVE AllReached' /\ SentIsReached'
  BY <1>1, <1>3, ReachedStays DEF User, AskCancel, UserCancels, UserRefunded,
    UserRefundFails, AskAmend, UserAmends, UserAmendFails, atBroker
<1>4. CASE Replay \/ Process \/ ProcessFails
  <2>1. UNCHANGED <<broker, sent, handler>>
    BY <1>4 DEF Replay, Process, ProcessFails, Receive, ReceiveFails, ApplyFill,
      FillFails, ApplyEnd, EndFails, LoopRefunds, LoopRefundFails, atBroker
  <2> QED
    BY <1>1, <2>1, ReachedStays
<1>5. CASE Crash
  <2>1. UNCHANGED <<broker, sent>>
        /\ \A o \in Orders : handler'[o] = IF handler[o] = "none" THEN "none" ELSE "done"
    BY <1>5 DEF Crash
  <2> QED
    BY <1>1, <2>1, ReachedStays
<1>6. CASE UNCHANGED vars
  BY <1>1, <1>6, ReachedStays DEF vars
<1> QED
  BY <1>1, <1>2, <1>3, <1>4, <1>5, <1>6, BrokerReaches DEF Next

-----------------------------------------------------------------------------
(* Who may refund.                                                         *)

\* An end at hand, on an order that is still pending and of which no update
\* was lost: nothing was filled.
LEMMA EndIsTheEnd ==
  ASSUME SafeInv, NEW o \in Orders \ lost, EndHandled(o), row[o].status = "PENDING"
  PROVE  Dead(o)
<1>1. loop.update \in sent /\ loop.update.order = o /\ IsEnd(loop.update)
  BY DEF EndHandled, EndOf, SafeInv, FillsInv, OnlySent
<1>2. broker[o].state \in {"refused", "closed"}
  BY <1>1 DEF SafeInv, SentIsReached
<1>3. TypeOK /\ settled[o] = 0 /\ broker[o].filled \in Nat
  <2>1. TypeOK /\ StatusTellsFills
    BY DEF SafeInv, FillsInv, LiveInv, RefundInv
  <2>2. ~(settled[o] > 0) /\ settled[o] \in Nat
    BY <2>1 DEF StatusTellsFills, TypeOK
  <2> QED
    BY <2>1, <2>2, BrokerIs
<1>4. ASSUME NEW w \in FillsOf(o) PROVE FALSE
  <2>1. Due(w) /\ w.order = o /\ IsFill(w)
    BY DEF SafeInv, InOrder, FillsOf
  <2>2. <<o, w.upto>> \in claimed
    BY <1>1, <2>1 DEF Due, IsFill, IsEnd
  <2>3. w.lots \in Lots /\ w.upto \in Lots /\ w.lots <= w.upto
    BY <1>3, FillIs DEF SafeInv, FillsInv, SentIsFilled
  <2>4. w.upto \in LotsOf(w)
    <3>1. w.lots \in Nat /\ w.upto \in Nat /\ 1 <= w.lots
      BY <2>3, LotsAre
    <3> QED
      BY <3>1 DEF LotsOf
  <2>5. Applied(o) # {}
    BY <2>2, <2>3, <2>4 DEF Applied
  <2>6. IsFiniteSet(Applied(o))
    BY LotsAre, FS_Subset DEF Applied
  <2>7. Cardinality(Applied(o)) # 0
    BY <2>5, <2>6, FS_EmptySet
  <2> QED
    BY <1>3, <2>7 DEF SafeInv, FillsInv, SettledIsApplied
<1>5. broker[o].filled = 0
  BY <1>3, <1>4 DEF SafeInv, AllReached, Reached
<1> QED
  BY <1>2, <1>5 DEF Dead

\* Steps that give nobody a refund to make.
LEMMA RefundsStay ==
  ASSUME SafeInv, \A o \in Orders : Forward(o),
         \A o \in Orders :
           /\ handler'[o] \in {"cancel", "refund"} =>
                handler[o] \in {"cancel", "refund"} \/ Dead(o)'
           /\ (refunds'[o] > 0 \/ ByLoop(o)') =>
                \/ refunds[o] > 0 \/ ByLoop(o) \/ Dead(o)'
                \/ o \in lost' \cup withdrawn'
           /\ ByUser(o)' => ByUser(o) \/ o \in withdrawn',
         lost \subseteq lost', withdrawn \subseteq withdrawn'
  PROVE  Withdraws' /\ RefundsDead'
<1>1. \A o \in Orders : Dead(o) => Dead(o)'
  BY DeadForEver
<1>2. Withdraws'
  BY DEF SafeInv, Withdraws
<1>3. RefundsDead'
  <2> SUFFICES ASSUME NEW o \in Orders
               PROVE  /\ handler'[o] \in {"cancel", "refund"} => Dead(o)'
                      /\ o \notin lost' \cup withdrawn'
                           /\ (refunds'[o] > 0 \/ ByLoop(o)') => Dead(o)'
    BY DEF RefundsDead
  <2>1. /\ handler[o] \in {"cancel", "refund"} => Dead(o)
        /\ o \notin lost \cup withdrawn /\ (refunds[o] > 0 \/ ByLoop(o)) => Dead(o)
    BY DEF SafeInv, RefundsDead
  <2> QED
    BY <1>1, <2>1
<1> QED
  BY <1>2, <1>3

\* The placing request's steps.
LEMMA HandlerRefundsDead ==
  ASSUME SafeInv, \A p \in Orders : Forward(p), NEW o \in Orders, Handler(o)
  PROVE  Withdraws' /\ RefundsDead'
<1>1. TypeOK /\ AllReached /\ UNCHANGED <<user, loop, lost, withdrawn, amended>>
  BY DEF SafeInv, FillsInv, LiveInv, Handler, Place, MarginRefused, LotSizeRefused,
    Submit, Confirmed, Refused, Uncertain, Link, LinkFails, HandlerCancels,
    HandlerRefunds, HandlerFails, history
<1>2. \A p \in Orders \ {o} : handler'[p] = handler[p]
  BY <1>1 DEF Handler, Place, MarginRefused, LotSizeRefused,
    Submit, Confirmed, Refused, Uncertain, Link, LinkFails, HandlerCancels,
    HandlerRefunds, HandlerFails, HandlerAt, TypeOK
<1>3. CASE MarginRefused(o) \/ LotSizeRefused(o)
  <2>1. handler[o] = "checks" /\ handler'[o] = "cancel" /\ UNCHANGED <<broker, refunds>>
    BY <1>1, <1>3 DEF MarginRefused, LotSizeRefused, HandlerAt, TypeOK, atBroker, money
  <2>2. Dead(o)'
    BY <1>1, <2>1 DEF AllReached, Reached, Dead
  <2> QED
    BY <1>1, <1>2, <2>1, <2>2, RefundsStay DEF ByLoop, ByUser
<1>4. CASE Refused(o)
  <2>1. handler'[o] = "cancel" /\ broker[o].state = "refused" /\ UNCHANGED <<broker, refunds>>
    BY <1>1, <1>4 DEF Refused, HandlerAt, TypeOK, atBroker, money
  <2>2. Dead(o)'
    BY <1>1, <2>1 DEF AllReached, Reached, Dead
  <2> QED
    BY <1>1, <1>2, <2>1, <2>2, RefundsStay DEF ByLoop, ByUser
<1>5. CASE HandlerRefunds(o)
  <2>1. handler[o] = "refund" /\ handler'[o] = "done"
        /\ \A p \in Orders \ {o} : refunds'[p] = refunds[p]
    BY <1>1, <1>5 DEF HandlerRefunds, HandlerAt, Refund, TypeOK
  <2>2. Dead(o)'
    BY <2>1, DeadForEver DEF SafeInv, RefundsDead
  <2> QED
    BY <1>1, <1>2, <2>1, <2>2, RefundsStay DEF ByLoop, ByUser
<1>6. CASE Place(o) \/ Submit(o) \/ Confirmed(o) \/ Uncertain(o) \/ Link(o)
           \/ LinkFails(o) \/ HandlerCancels(o) \/ HandlerFails(o)
  <2>1. refunds' = refunds
    BY <1>6 DEF Place, Submit, Confirmed, Uncertain, Link, LinkFails, HandlerCancels,
      HandlerFails, money
  <2>2. handler'[o] \in {"cancel", "refund"} => handler[o] \in {"cancel", "refund"}
    BY <1>1, <1>6 DEF Place, Submit, Confirmed, Uncertain, Link, LinkFails,
      HandlerCancels, HandlerFails, HandlerAt, AfterUncertain, TypeOK
  <2> QED
    BY <1>1, <1>2, <2>1, <2>2, RefundsStay DEF ByLoop, ByUser
<1> QED
  BY <1>3, <1>4, <1>5, <1>6 DEF Handler

\* The user's steps.
LEMMA UserRefundsDead ==
  ASSUME SafeInv, \A p \in Orders : Forward(p), NEW o \in Orders, User(o)
  PROVE  Withdraws' /\ RefundsDead'
<1>1. TypeOK /\ Withdraws /\ UNCHANGED <<handler, loop, lost>>
      /\ withdrawn \subseteq withdrawn'
  BY DEF SafeInv, FillsInv, LiveInv, User, AskCancel, UserCancels, UserRefunded,
    UserRefundFails, AskAmend, UserAmends, UserAmendFails, history
<1>2. \A p \in Orders \ {o} : user'[p] = user[p] /\ refunds'[p] = refunds[p]
  BY <1>1 DEF User, AskCancel, UserCancels, UserRefunded, UserRefundFails,
      AskAmend, UserAmends, UserAmendFails, UserAt, Refund, money, TypeOK
<1>3. CASE UserRefunded(o)
  <2>1. user'[o] = "idle" /\ o \in withdrawn
    BY <1>1, <1>3 DEF UserRefunded, UserAt, Withdraws, ByUser, TypeOK
  <2> QED
    BY <1>1, <1>2, <2>1, RefundsStay DEF ByLoop, ByUser
<1>4. CASE AskCancel(o) \/ UserCancels(o) \/ UserRefundFails(o)
           \/ AskAmend(o) \/ UserAmends(o) \/ UserAmendFails(o)
  <2>1. refunds' = refunds
    BY <1>4 DEF AskCancel, UserCancels, UserRefundFails, AskAmend, UserAmends,
      UserAmendFails, money
  <2>2. user'[o] = "refund" => o \in withdrawn'
    BY <1>1, <1>4 DEF AskCancel, UserCancels, UserRefundFails, AskAmend,
      UserAmends, UserAmendFails, UserAt, TypeOK
  <2> QED
    BY <1>1, <1>2, <2>1, <2>2, RefundsStay DEF ByLoop, ByUser
<1> QED
  BY <1>3, <1>4 DEF User

\* The event loop's steps, and a crash.
LEMMA LoopRefundsDead ==
  ASSUME SafeInv, \A p \in Orders : Forward(p),
         Replay \/ Process \/ ProcessFails \/ Crash
  PROVE  Withdraws' /\ RefundsDead'
<1>1. TypeOK /\ loop \in Doings /\ loop.stage \in {"idle", "handling", "refund"}
  BY DoingsAre DEF SafeInv, FillsInv, LiveInv, TypeOK
<1>2. withdrawn' = withdrawn /\ lost \subseteq lost'
  BY DEF Replay, Process, ProcessFails, Receive, ReceiveFails, ApplyFill,
    FillFails, ApplyEnd, EndFails, LoopRefunds, LoopRefundFails, Crash, history
<1>3. \A p \in Orders : /\ handler'[p] \in {"cancel", "refund"} => handler'[p] = handler[p]
                        /\ ByUser(p)' => ByUser(p)
  BY DEF Replay, Process, ProcessFails, Receive, ReceiveFails, ApplyFill,
    FillFails, ApplyEnd, EndFails, LoopRefunds, LoopRefundFails, Crash, ByUser
<1>4. CASE ApplyEnd
  <2>1. PICK o \in Orders : loop.update.order = o
    BY <1>1, <1>4, DoingsAre, UpdatesAre DEF ApplyEnd, Handling
  <2>2. UNCHANGED <<handler, refunds, row>> \/ UNCHANGED <<handler, refunds>>
    BY <1>4 DEF ApplyEnd, money
  <2>3. EndHandled(o)
    BY <1>4, <2>1 DEF ApplyEnd, Handling, EndHandled, EndOf, IsEnd
  <2>4. CASE loop.seen = "PENDING" /\ Cancellable(o)
    <3>1. loop' = [stage |-> "refund", order |-> o]
      BY <1>4, <2>1, <2>4 DEF ApplyEnd
    <3>2. o \in lost \/ Dead(o)'
      BY <2>3, <2>4, EndIsTheEnd, DeadForEver DEF Cancellable
    <3>3. \A p \in Orders : ByLoop(p)' => p = o
      BY <3>1 DEF ByLoop
    <3> QED
      BY <1>2, <1>3, <2>2, <3>2, <3>3, RefundsStay
  <2>5. CASE ~(loop.seen = "PENDING" /\ Cancellable(o))
    <3>1. \A p \in Orders : ~ByLoop(p)'
      BY <1>4, <2>1, <2>5, DoingsAre DEF ApplyEnd, ByLoop
    <3> QED
      BY <1>2, <1>3, <2>2, <3>1, RefundsStay
  <2> QED
    BY <2>4, <2>5
<1>5. CASE LoopRefunds
  <2>1. PICK o \in Orders : loop.order = o
    BY <1>1, <1>5, DoingsAre DEF LoopRefunds
  <2>2. ByLoop(o) /\ \A p \in Orders \ {o} : refunds'[p] = refunds[p]
    BY <1>1, <1>5, <2>1 DEF LoopRefunds, Refund, ByLoop, TypeOK
  <2>3. \A p \in Orders : ~ByLoop(p)'
    BY <1>5, DoingsAre DEF LoopRefunds, ByLoop
  <2> QED
    BY <1>2, <1>3, <2>2, <2>3, RefundsStay
<1>6. CASE Replay \/ Receive \/ ApplyFill \/ ProcessFails \/ Crash
  <2>1. refunds' = refunds
    BY <1>6 DEF Replay, Receive, ApplyFill, ProcessFails, ReceiveFails, FillFails,
      EndFails, LoopRefundFails, Crash, money
  <2>2. loop' = loop \/ loop'.stage # "refund"
    BY <1>6, DoingsAre DEF Replay, Receive, ApplyFill, ProcessFails, ReceiveFails,
      FillFails, EndFails, LoopRefundFails, Crash
  <2>3. \A p \in Orders : ByLoop(p)' => ByLoop(p)
    BY <2>2 DEF ByLoop
  <2> QED
    BY <1>2, <1>3, <2>1, <2>3, RefundsStay
<1> QED
  BY <1>4, <1>5, <1>6 DEF Process

\* Every step.
LEMMA NextSafe ==
  ASSUME SafeInv, [Next]_vars
  PROVE  SafeInv'
<1>1. FillsInv' /\ InOrder' /\ AllReached' /\ SentIsReached'
  BY NextFills, NextInOrder, NextReached DEF SafeInv
<1>2. \A p \in Orders : Forward(p)
  BY NextForward DEF SafeInv, FillsInv, LiveInv
<1>3. ASSUME NEW o \in Orders, AtBroker(o) PROVE Withdraws' /\ RefundsDead'
  <2>1. UNCHANGED <<handler, user, loop, refunds, lost, withdrawn, amended>>
    BY <1>3 DEF AtBroker, Accept, Refuse, BrokerFills, Close, money, history
  <2> QED
    BY <1>2, <2>1, RefundsStay DEF ByLoop, ByUser
<1>4. CASE UNCHANGED vars
  <2>1. Withdraws' /\ RefundsDead'
    BY <1>2, <1>4, RefundsStay DEF vars, ByLoop, ByUser
  <2> QED
    BY <1>1, <2>1 DEF SafeInv
<1> QED
  BY <1>1, <1>2, <1>3, <1>4, HandlerRefundsDead, UserRefundsDead, LoopRefundsDead
    DEF Next, SafeInv

\* The initial states.
LEMMA InitSafe ==
  ASSUME Init
  PROVE  SafeInv
<1>1. FillsInv
  BY InitFills
<1>2. AllReached /\ SentIsReached
  BY DEF Init, AllReached, Reached, SentIsReached
<1>3. InOrder
  BY DEF Init, InOrder, FillsOf
<1>4. Withdraws /\ RefundsDead
  BY DoingsAre DEF Init, Withdraws, RefundsDead, ByUser, ByLoop
<1> QED
  BY <1>1, <1>2, <1>3, <1>4 DEF SafeInv

\* A debit is given back only when nothing of the order can be filled any
\* more, whatever comes late, twice or not at all (place_live_order leaves
\* uncertain orders alone, _handle_reject_or_cancel works in the feed's
\* order), unless the user cancelled it or an update of it was lost.
THEOREM RefundsAreSafe == Spec => []RefundIsSafe
<1>1. Init => SafeInv
  BY InitSafe
<1>2. SafeInv /\ [Next]_vars => SafeInv'
  BY NextSafe
<1>3. SafeInv => RefundIsSafe
  BY DEF SafeInv, RefundsDead, Dead, RefundIsSafe
<1> QED
  BY <1>1, <1>2, <1>3, PTL DEF Spec
=============================================================================
