----------------------------- MODULE LiveOrders -----------------------------
(***************************************************************************)
(* F&O orders that are placed for real at the broker: the handler of       *)
(* POST /createLiveOrder, the broker, the feed of order updates and the    *)
(* task that applies them, and the users who cancel or amend meanwhile.    *)
(* Internal matching takes no part: a live order has no order_book row.    *)
(*                                                                         *)
(* A step is one committed transaction, one call or answer of the broker,  *)
(* or one in-memory decision between two of them.                          *)
(***************************************************************************)
EXTENDS Integers, Sequences

CONSTANTS
  Orders,
  Qty,          \* quantity of every order, in lots
  MaxReplays,   \* bound: updates the broker sends twice
  Cached,       \* whether the user's position in the contract is in Redis
  Faults        \* whether transactions may fail and the process may die

ASSUME QtyAssumption == Qty \in Nat \ {0}
ASSUME ReplaysAssumption == MaxReplays \in Nat
ASSUME FaultsAssumption == Faults \in BOOLEAN /\ Cached \in BOOLEAN

VARIABLES
  row,        \* orders.status; whether it is an option BUY, debited when it
              \* was placed; whether orders.broker_order_id is set;
              \* orders.quantity, Qty until its user amends it
  handler,    \* how far the request that places an order is
  user,       \* how far its user is with cancelling or amending it
  broker,     \* the order at the broker
  feed,       \* updates on their way, in the order the event loop takes them
  sent,       \* the updates the broker has sent
  replays,    \* how many of them it has sent again
  loop,       \* what the event loop is doing
  claimed,    \* processed_broker_fills
  settled,    \* lots in the order's rows of trade_history
  refunds,    \* how often the debit of the order was given back
  lost,       \* history variable: orders an update of which was lost
  withdrawn,  \* history variable: orders their user has cancelled
  amended     \* history variable: orders their user has amended

vars == <<row, handler, user, broker, feed, sent, replays, loop,
          claimed, settled, refunds, lost, withdrawn, amended>>

atBroker == <<broker, feed, sent, replays>>
history == <<lost, withdrawn, amended>>
money == <<claimed, settled, refunds>>

Lots == 1..Qty
Statuses == {"none", "PENDING", "CANCELLED", "PARTIALLY_EXECUTED", "EXECUTED"}
Asked == 1..(Qty + 1)   \* what an amendment may ask for, more or less
OrderRows == [status : Statuses, cash : BOOLEAN, linked : BOOLEAN,
              quantity : Asked]
Idle == [stage |-> "idle"]

\* upto identifies a fill: the lots filled with it.  It plays the role of flid.
Fills == [order : Orders, kind : {"Fill"}, lots : Lots, upto : Lots]
Ends == [order : Orders, kind : {"Rejected", "Canceled"}]
Updates == Fills \cup Ends

Doings == {Idle} \cup [stage : {"handling"}, update : Updates,
                       seen : Statuses, quantity : Asked]
                 \cup [stage : {"refund"}, order : Orders]

TypeOK ==
  /\ row \in [Orders -> OrderRows]
  /\ handler \in [Orders -> {"none", "checks", "waiting", "link", "cancel",
                             "refund", "done"}]
  /\ user \in [Orders -> {"idle", "checked", "refund", "amending"}]
  /\ broker \in [Orders ->
       [state : {"none", "called", "open", "refused", "closed"},
        filled : 0..Qty]]
  /\ feed \in Seq(Updates) /\ sent \subseteq Updates
  /\ replays \in 0..MaxReplays
  /\ loop \in Doings
  /\ claimed \subseteq (Orders \X Lots)
  /\ settled \in [Orders -> Nat] /\ refunds \in [Orders -> Nat]
  /\ lost \subseteq Orders /\ withdrawn \subseteq Orders
  /\ amended \subseteq Orders

Init ==
  /\ row = [o \in Orders |-> [status |-> "none", cash |-> FALSE,
                              linked |-> FALSE, quantity |-> Qty]]
  /\ handler = [o \in Orders |-> "none"]
  /\ user = [o \in Orders |-> "idle"]
  /\ broker = [o \in Orders |-> [state |-> "none", filled |-> 0]]
  /\ feed = <<>> /\ sent = {} /\ replays = 0 /\ loop = Idle
  /\ claimed = {} /\ settled = [o \in Orders |-> 0]
  /\ refunds = [o \in Orders |-> 0]
  /\ lost = {} /\ withdrawn = {} /\ amended = {}

-----------------------------------------------------------------------------
\* Cancelling: the handler, the user and the event loop all do it.

\* A slip: the UPDATE takes cancelled orders again.
CancellableAgain(o) == row[o].status \in {"PENDING", "CANCELLED"}

\* UPDATE ... WHERE status IN (PENDING, PENDING_TRIGGER).  "PENDING" stands
\* for both here: nothing a live order meets tells them apart.
Cancellable(o) == row[o].status = "PENDING"

CancelRow(o) == row' = [row EXCEPT ![o].status = "CANCELLED"]

\* Only a cash BUY was debited; margin blocks are released elsewhere.
Refund(o) ==
  refunds' = IF row[o].cash THEN [refunds EXCEPT ![o] = @ + 1] ELSE refunds

-----------------------------------------------------------------------------
\* POST /createLiveOrder

HandlerAt(o, stage) == handler' = [handler EXCEPT ![o] = stage]

\* The debit and the orders row: the order is PENDING.
Place(o) ==
  /\ handler[o] = "none" /\ HandlerAt(o, "checks")
  /\ \E cash \in BOOLEAN :
       row' = [row EXCEPT ![o] = [status |-> "PENDING", cash |-> cash,
                                  linked |-> FALSE, quantity |-> Qty]]
  /\ UNCHANGED <<user, atBroker, loop, money, history>>

MarginRefused(o) ==
  /\ handler[o] = "checks" /\ ~row[o].cash /\ HandlerAt(o, "cancel")
  /\ UNCHANGED <<row, user, atBroker, loop, money, history>>

LotSizeRefused(o) ==
  /\ handler[o] = "checks" /\ HandlerAt(o, "cancel")
  /\ UNCHANGED <<row, user, atBroker, loop, money, history>>

\* The call is handed to a thread of its own; nothing reads the row again.
Submit(o) ==
  /\ handler[o] = "checks" /\ HandlerAt(o, "waiting")
  /\ broker' = [broker EXCEPT ![o].state = "called"]
  /\ UNCHANGED <<row, user, feed, sent, replays, loop, money, history>>

\* stat = Ok with an order number
Confirmed(o) ==
  /\ handler[o] = "waiting" /\ broker[o].state \in {"open", "closed"}
  /\ HandlerAt(o, "link")
  /\ UNCHANGED <<row, user, atBroker, loop, money, history>>

\* stat = Not_Ok
Refused(o) ==
  /\ handler[o] = "waiting" /\ broker[o].state = "refused"
  /\ HandlerAt(o, "cancel")
  /\ UNCHANGED <<row, user, atBroker, loop, money, history>>

\* A slip: no answer is taken for a rejection.
AfterUncertainCancel == "cancel"

\* No answer is no rejection: the order is left as it is.
AfterUncertain == "done"

\* Timeout, an exception, or an answer of another shape.  The call goes on.
Uncertain(o) ==
  /\ handler[o] = "waiting" /\ HandlerAt(o, AfterUncertain)
  /\ UNCHANGED <<row, user, atBroker, loop, money, history>>

Link(o) ==
  /\ handler[o] = "link" /\ HandlerAt(o, "done")
  /\ row' = [row EXCEPT ![o].linked = TRUE]
  /\ UNCHANGED <<user, atBroker, loop, money, history>>

\* Three attempts have failed.
LinkFails(o) ==
  /\ Faults /\ handler[o] = "link" /\ HandlerAt(o, "done")
  /\ UNCHANGED <<row, user, atBroker, loop, money, history>>

HandlerCancels(o) ==
  /\ handler[o] = "cancel"
  /\ IF Cancellable(o) THEN CancelRow(o) /\ HandlerAt(o, "refund")
                       ELSE UNCHANGED row /\ HandlerAt(o, "done")
  /\ UNCHANGED <<user, atBroker, loop, money, history>>

HandlerRefunds(o) ==
  /\ handler[o] = "refund" /\ HandlerAt(o, "done") /\ Refund(o)
  /\ UNCHANGED <<row, user, atBroker, loop, claimed, settled, history>>

\* The cancel or the refund raises.
HandlerFails(o) ==
  /\ Faults /\ handler[o] \in {"cancel", "refund"} /\ HandlerAt(o, "done")
  /\ UNCHANGED <<row, user, atBroker, loop, money, history>>

-----------------------------------------------------------------------------
\* The broker

Send(u) == feed' = Append(feed, u) /\ sent' = sent \cup {u}

Accept(o) ==
  /\ broker[o].state = "called"
  /\ broker' = [broker EXCEPT ![o].state = "open"]
  /\ UNCHANGED <<row, handler, user, feed, sent, replays, loop, money, history>>

\* It answers Not_Ok, and may report the rejection on the feed as well.
Refuse(o) ==
  /\ broker[o].state = "called"
  /\ broker' = [broker EXCEPT ![o].state = "refused"]
  /\ \/ Send([order |-> o, kind |-> "Rejected"])
     \/ UNCHANGED <<feed, sent>>
  /\ UNCHANGED <<row, handler, user, replays, loop, money, history>>

BrokerFills(o) ==
  /\ broker[o].state = "open"
  /\ \E n \in 1..(Qty - broker[o].filled) :
       /\ broker' = [broker EXCEPT ![o].filled = @ + n]
       /\ Send([order |-> o, kind |-> "Fill", lots |-> n,
                upto |-> broker[o].filled + n])
  /\ UNCHANGED <<row, handler, user, replays, loop, money, history>>

\* Rejected by the exchange, or what is left of it cancelled at the broker.
Close(o) ==
  /\ broker[o].state = "open" /\ broker[o].filled < Qty
  /\ broker' = [broker EXCEPT ![o].state = "closed"]
  /\ \/ Send([order |-> o, kind |-> "Canceled"])
     \/ broker[o].filled = 0 /\ Send([order |-> o, kind |-> "Rejected"])
  /\ UNCHANGED <<row, handler, user, replays, loop, money, history>>

\* After a reconnection the broker repeats an update.
Replay ==
  /\ replays < MaxReplays /\ replays' = replays + 1
  /\ \E u \in sent : feed' = Append(feed, u)
  /\ UNCHANGED <<row, handler, user, broker, sent, loop, money, history>>

-----------------------------------------------------------------------------
\* OrderUpdateService: no await in it, so the event loop runs one update to
\* its end before the next; request handlers run in threads beside it.

\* A slip: the broker's id is the only way to find an order.
FoundByBrokerId(o) == row[o].linked

\* By the broker's id, or else by the order's own id in the remarks tag.
Found(o) == row[o].linked \/ row[o].status # "none"

\* The row is read, and its broker id filled in if it was missing; the
\* update is applied even when that write fails.
Receive ==
  /\ loop = Idle /\ feed # <<>> /\ feed' = Tail(feed)
  /\ LET o == Head(feed).order IN
       IF Found(o)
       THEN /\ loop' = [stage |-> "handling", update |-> Head(feed),
                        seen |-> row[o].status, quantity |-> row[o].quantity]
            /\ \/ row' = [row EXCEPT ![o].linked = TRUE]
               \/ Faults /\ UNCHANGED row
       ELSE UNCHANGED <<loop, row>>
  /\ UNCHANGED <<handler, user, broker, sent, replays, money, history>>

\* The row cannot be read: the update is logged and gone.
ReceiveFails ==
  /\ Faults /\ loop = Idle /\ feed # <<>> /\ feed' = Tail(feed)
  /\ lost' = lost \cup {Head(feed).order}
  /\ UNCHANGED <<row, handler, user, broker, sent, replays, loop, money,
                 withdrawn, amended>>

Handling(kinds) == loop.stage = "handling" /\ loop.update.kind \in kinds

\* A slip: the fill ids are not looked at.
DuplicateNever(u) == FALSE

\* The primary key of processed_broker_fills
Duplicate(u) == <<u.order, u.upto>> \in claimed

\* A slip: the status of the order at the broker is stored.
FilledStatusOfBroker(u, total) ==
  IF total >= loop.quantity THEN "COMPLETE" ELSE "OPEN"

\* A slip: the fill at hand is compared, not all fills together.
FilledStatusOfOne(u, total) ==
  IF u.lots >= loop.quantity THEN "EXECUTED" ELSE "PARTIALLY_EXECUTED"

\* Compared with the quantity of the row as it was read.
FilledStatus(u, total) ==
  IF total >= loop.quantity THEN "EXECUTED" ELSE "PARTIALLY_EXECUTED"

\* Settling a fill raises when the position is not cached (MarginLedger).
Settleable(u) == Cached \/ Duplicate(u)

\* Claim, trade_history, settlement and status in one transaction, whatever
\* the order's status is by now.
ApplyFill ==
  /\ Handling({"Fill"}) /\ Settleable(loop.update) /\ loop' = Idle
  /\ LET u == loop.update
         total == settled[u.order] + u.lots
     IN IF Duplicate(u) THEN UNCHANGED <<row, claimed, settled>>
        ELSE /\ claimed' = claimed \cup {<<u.order, u.upto>>}
             /\ settled' = [settled EXCEPT ![u.order] = total]
             /\ row' = [row EXCEPT ![u.order].status = FilledStatus(u, total)]
  /\ UNCHANGED <<handler, user, atBroker, refunds, history>>

\* Rolled back and logged; nothing tries again.
FillFails ==
  /\ Handling({"Fill"}) /\ (Faults \/ ~Settleable(loop.update)) /\ loop' = Idle
  /\ lost' = lost \cup {loop.update.order}
  /\ UNCHANGED <<row, handler, user, atBroker, money, withdrawn, amended>>

\* Rejected or Canceled: the status seen decides, then the guarded UPDATE.
ApplyEnd ==
  /\ Handling({"Rejected", "Canceled"})
  /\ LET o == loop.update.order IN
       IF loop.seen = "PENDING" /\ Cancellable(o)
       THEN CancelRow(o) /\ loop' = [stage |-> "refund", order |-> o]
       ELSE UNCHANGED row /\ loop' = Idle
  /\ UNCHANGED <<handler, user, atBroker, money, history>>

EndFails ==
  /\ Faults /\ Handling({"Rejected", "Canceled"}) /\ loop' = Idle
  /\ lost' = lost \cup {loop.update.order}
  /\ UNCHANGED <<row, handler, user, atBroker, money, withdrawn, amended>>

LoopRefunds ==
  /\ loop.stage = "refund" /\ loop' = Idle /\ Refund(loop.order)
  /\ UNCHANGED <<row, handler, user, atBroker, claimed, settled, history>>

LoopRefundFails ==
  /\ Faults /\ loop.stage = "refund" /\ loop' = Idle
  /\ UNCHANGED <<row, handler, user, atBroker, money, history>>

-----------------------------------------------------------------------------
\* POST /orders/{id}/cancel

UserAt(o, stage) == user' = [user EXCEPT ![o] = stage]

\* Refused for an order with a broker id, when it is read.
AskCancel(o) ==
  /\ user[o] = "idle" /\ row[o].status # "none" /\ ~row[o].linked
  /\ UserAt(o, "checked")
  /\ UNCHANGED <<row, handler, atBroker, loop, money, history>>

UserCancels(o) ==
  /\ user[o] = "checked"
  /\ IF Cancellable(o)
     THEN CancelRow(o) /\ UserAt(o, "refund")
          /\ withdrawn' = withdrawn \cup {o}
     ELSE UserAt(o, "idle") /\ UNCHANGED <<row, withdrawn>>
  /\ UNCHANGED <<handler, atBroker, loop, money, lost, amended>>

UserRefunded(o) ==
  /\ user[o] = "refund" /\ UserAt(o, "idle") /\ Refund(o)
  /\ UNCHANGED <<row, handler, atBroker, loop, claimed, settled, history>>

UserRefundFails(o) ==
  /\ Faults /\ user[o] = "refund" /\ UserAt(o, "idle")
  /\ UNCHANGED <<row, handler, atBroker, loop, money, history>>

-----------------------------------------------------------------------------
\* PUT /orders/{id}.  The difference to the debit, taken or given before the
\* write and reversed when that fails, is the subject of CashOrders.

\* Refused for an order that is not pending, that needs margin, or that has a
\* broker id, when it is read.
AskAmend(o) ==
  /\ user[o] = "idle" /\ row[o].status = "PENDING"
  /\ row[o].cash /\ ~row[o].linked /\ UserAt(o, "amending")
  /\ UNCHANGED <<row, handler, atBroker, loop, money, history>>

\* The guarded UPDATE.  A user makes one request at a time, so the quantity
\* expected is the quantity there; the broker is not told.
UserAmends(o) ==
  /\ user[o] = "amending" /\ Cancellable(o) /\ UserAt(o, "idle")
  /\ \E n \in Asked : row' = [row EXCEPT ![o].quantity = n]
  /\ amended' = amended \cup {o}
  /\ UNCHANGED <<handler, atBroker, loop, money, lost, withdrawn>>

UserAmendFails(o) ==
  /\ user[o] = "amending" /\ (Faults \/ ~Cancellable(o)) /\ UserAt(o, "idle")
  /\ UNCHANGED <<row, handler, atBroker, loop, money, history>>

-----------------------------------------------------------------------------
\* The process dies: the updates it has received and not applied are gone.
Unapplied == {feed[i].order : i \in 1..Len(feed)}
               \cup (IF loop.stage = "handling" THEN {loop.update.order} ELSE {})

Crash ==
  /\ Faults
  /\ handler' = [o \in Orders |-> IF handler[o] = "none" THEN "none" ELSE "done"]
  /\ user' = [o \in Orders |-> "idle"]
  /\ loop' = Idle /\ feed' = <<>>
  /\ lost' = lost \cup Unapplied
  /\ UNCHANGED <<row, broker, sent, replays, money, withdrawn, amended>>

Handler(o) ==
  \/ Place(o) \/ MarginRefused(o) \/ LotSizeRefused(o) \/ Submit(o)
  \/ Confirmed(o) \/ Refused(o) \/ Uncertain(o) \/ Link(o) \/ LinkFails(o)
  \/ HandlerCancels(o) \/ HandlerRefunds(o) \/ HandlerFails(o)
AtBroker(o) == Accept(o) \/ Refuse(o) \/ BrokerFills(o) \/ Close(o)
User(o) ==
  \/ AskCancel(o) \/ UserCancels(o) \/ UserRefunded(o) \/ UserRefundFails(o)
  \/ AskAmend(o) \/ UserAmends(o) \/ UserAmendFails(o)
Process == Receive \/ ApplyFill \/ ApplyEnd \/ LoopRefunds
ProcessFails == ReceiveFails \/ FillFails \/ EndFails \/ LoopRefundFails

Next ==
  \/ \E o \in Orders : Handler(o) \/ AtBroker(o) \/ User(o)
  \/ Replay \/ Process \/ ProcessFails \/ Crash

Spec == Init /\ [][Next]_vars

\* The event loop runs on; nobody is obliged to anything else.
FairSpec == Spec /\ WF_vars(Process)

-----------------------------------------------------------------------------
\* Fills that are repeated, early or late: no lot is settled that the broker
\* has not filled, or settled twice (the claim of flid in _handle_fill).
SettledIsFilled == \A o \in Orders : settled[o] <= broker[o].filled

\* The placing request, the user and the event loop may all cancel an order,
\* with stale reads of its status: its debit is given back at most once.
RefundedOnce == \A o \in Orders : refunds[o] <= 1

\* Through all those cancels and amendments the status of an order tells what
\* was settled of it, so that a filled order is never taken for a cancellable
\* one.  Whether it is filled up is told by the quantity placed, unless its
\* user has amended the row: the broker's order keeps the quantity it had.
StatusTellsFills ==
  \A o \in Orders :
    /\ settled[o] > 0 <=> row[o].status \in {"PARTIALLY_EXECUTED", "EXECUTED"}
    /\ o \notin amended =>
         (settled[o] >= Qty <=> row[o].status = "EXECUTED")

\* An order is refunded only when nothing of it can be filled any more:
\* place_live_order leaves uncertain orders alone and updates are applied in
\* order.  (Not so when its user cancels it, or one of its updates is lost.)
RefundIsSafe ==
  \A o \in Orders \ (lost \cup withdrawn) :
    refunds[o] > 0 => /\ broker[o].filled = 0
                      /\ broker[o].state \in {"none", "refused", "closed"}

\* A lot filled at the broker is settled in the end, even when the answer to
\* the placement, or the write of the broker's id, never comes.
FillsAreSettled ==
  \A o \in Orders, n \in Lots :
    broker[o].filled = n ~> (settled[o] >= n \/ o \in lost)

\* What the modify endpoint announces by refusing orders with a broker id: the
\* row of an order that is at the broker has the quantity the broker has.
QuantityIsTheBrokers == \A o \in Orders : row[o].linked => row[o].quantity = Qty

\* What the cancel endpoint announces by refusing orders with a broker id:
\* no order fills for real with its wallet already refunded.
NoUnfundedFill ==
  \A o \in Orders : refunds[o] > 0 => broker[o].filled = 0
=============================================================================
