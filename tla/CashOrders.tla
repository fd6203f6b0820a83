----------------------------- MODULE CashOrders -----------------------------
(***************************************************************************)
(* The simulated exchange of the backend for one cash-equity symbol: order *)
(* placement, peer matching, dormant STOP/STOPLIMIT orders, cancel and     *)
(* amend, with the cash wallet and the holdings they move.                 *)
(*                                                                         *)
(* Every step is one committed database transaction of a request handler.  *)
(* Handlers run in a pool of Workers and interleave between transactions,  *)
(* which is all that READ COMMITTED and one connection per call give them. *)
(***************************************************************************)
EXTENDS MatchingEngine, Sequences, SequencesExt

CONSTANTS
  Users, Orders, Workers,
  NoOrder,        \* not an order: the "order" of a price check
  Requests,       \* the bodies of POST /orders: user, side, type, price, ...
  Amendments,     \* the bodies of PUT /orders/{id}; 0 is a field not sent
  InitialCash, InitialShares,   \* wallets and holdings at the start
  EagerClients,   \* may a client cancel or amend an order that GET /orders
                  \* shows before its own POST has returned?
  Faults,         \* may a worker die, or a statement fail?
  MaxAmends       \* bound: how many PUT /orders/{id} are answered at all

Terms   == [price : Nat, qty : Nat, trigger : Nat]
NoTerms == [price |-> 0, qty |-> 0, trigger |-> 0]
RequestType == [user : Users, side : {"BUY", "SELL"},
                type : {"MARKET", "LIMIT", "STOP", "STOPLIMIT"},
                price : Nat, qty : Nat \ {0}, trigger : Nat]

ASSUME FiniteAssumption ==
  IsFiniteSet(Users) /\ IsFiniteSet(Orders) /\ IsFiniteSet(Workers)
ASSUME NoOrderAssumption == NoOrder \notin Orders
ASSUME RequestAssumption == Requests \subseteq RequestType
ASSUME AmendmentAssumption == Amendments \subseteq (Terms \ {NoTerms})
ASSUME InitialAssumption ==
  InitialCash \in [Users -> Nat] /\ InitialShares \in [Users -> Nat]
ASSUME MaxAmendsAssumption == MaxAmends \in Nat
ASSUME FlagAssumption == EagerClients \in BOOLEAN /\ Faults \in BOOLEAN

VARIABLES
  wallet,     \* wallets.balance of every user
  holdings,   \* holdings.quantity of every user
  req,        \* the body each order is (or will be) submitted with: the
              \* in-memory OrderCreate the handler goes on matching with
  sent,       \* the orders whose POST has been accepted
  orders,     \* the orders table
  book,       \* the order_book table
  history,    \* trade_history summed per order: shares and rupees traded
  paid,       \* history variable: cash taken from the wallet for an order,
              \* less what was handed back for it
  cancels,    \* history variable: how often the order was cancelled (a BUY is
              \* refunded each time)
  amends,     \* the PUT requests so far, to bound them
  worker      \* what every worker of the pool is doing

tables == <<wallet, holdings, orders, book, history>>
ghosts == <<paid, cancels>>
vars   == <<wallet, holdings, req, sent, orders, book, history, paid,
            cancels, amends, worker>>

Statuses == {"ABSENT", "PENDING", "PENDING_TRIGGER", "PARTIALLY_EXECUTED",
             "EXECUTED", "CANCELLED", "FAILED"}
Unfilled == {"PENDING", "PENDING_TRIGGER"}          \* cancellable, amendable
Resting  == {"PENDING", "PARTIALLY_EXECUTED"}       \* matchable

\* The columns that matter; a row with status ABSENT is no row.
OrderRow == [status : Statuses, price : Nat, qty : Nat, trigger : Nat]
BookRow  == [status : Statuses, price : Nat, rem : Int, trigger : Nat,
             at : Nat]   \* at: its place in created_at order

User(o) == req[o].user
Side(o) == req[o].side
IsBuy(o) == Side(o) = "BUY"
\* is_dormant_order_type
Dormant(o) == req[o].type \in {"STOP", "STOPLIMIT"}

\* What a worker still has to do after its current transaction.  An item with
\* an order is a matching pass for it, with the quantity and price held in
\* memory; an item without is a check_and_trigger for a traded price.
Item == [order : Orders \cup {NoOrder}, price : Nat, qty : Int]

\* A worker at one step of a request for order o.
At(op, o, seen, want) ==
  [op |-> op, order |-> o, seen |-> seen, want |-> want, delta |-> 0,
   agenda |-> <<>>]
Idle == At("idle", NoOrder, NoTerms, NoTerms)
\* What a busy worker is doing: each op but "run" is one transaction to come.
Job ==
  [op     : {"insert", "book", "run", "refund", "charge", "amend", "undo"},
   order  : Orders,           \* the order of the request being handled
   seen   : Terms,            \* the terms read before a wallet call
   want   : Terms,            \* the amendment asked for
   delta  : Int,              \* wallet delta already applied by an amend
   agenda : Seq(Item)]

TypeOK ==
  /\ wallet \in [Users -> Int]
  /\ holdings \in [Users -> Int]
  /\ req \in [Orders -> Requests]
  /\ sent \subseteq Orders
  /\ orders \in [Orders -> OrderRow]
  /\ book \in [Orders -> BookRow]
  /\ history \in [Orders -> [qty : Nat, value : Nat]]
  /\ paid \in [Orders -> Int]
  /\ cancels \in [Orders -> Nat]
  /\ amends \in Nat
  /\ worker \in [Workers -> Job \cup {Idle}]

Init ==
  /\ wallet = InitialCash
  /\ holdings = InitialShares
  /\ req \in [Orders -> Requests]
  /\ sent = {}
  /\ orders = [o \in Orders |-> [status |-> "ABSENT", price |-> 0, qty |-> 0,
                                 trigger |-> 0]]
  /\ book = [o \in Orders |-> [status |-> "ABSENT", price |-> 0, rem |-> 0,
                               trigger |-> 0, at |-> 0]]
  /\ history = [o \in Orders |-> [qty |-> 0, value |-> 0]]
  /\ paid = [o \in Orders |-> 0]
  /\ cancels = [o \in Orders |-> 0]
  /\ amends = 0
  /\ worker = [w \in Workers |-> Idle]

Becomes(w, job) == worker' = [worker EXCEPT ![w] = job]

\* The worker goes on with this agenda, or returns to the pool.
Proceed(w, agenda) ==
  Becomes(w, IF agenda = <<>> THEN Idle
             ELSE [worker[w] EXCEPT !.op = "run", !.agenda = agenda])

\* A row another transaction holds, seen by FOR UPDATE NOWAIT or as a
\* deadlock: it takes a second worker.
Contended(w) == \E v \in Workers : v # w

-----------------------------------------------------------------------------
(* POST /orders up to the matching pass: three transactions.               *)

\* quantity * price, debited from the wallet of a BUY; a SELL pays nothing.
Hold(r) == IF r.side = "BUY" THEN r.qty * r.price ELSE 0

\* A slip: the balance is not compared with the amount.
AffordableUnchecked(u, amount) == TRUE

\* UPDATE wallets ... WHERE balance >= amount
Affordable(u, amount) == wallet[u] >= amount

\* A POST is accepted: a BUY needs a price and is debited atomically.  A POST
\* that is refused changes nothing, and is not a step.
Submit(w, o) ==
  /\ worker[w] = Idle /\ o \notin sent
  /\ IsBuy(o) => req[o].price > 0 /\ Affordable(User(o), Hold(req[o]))
  /\ sent' = sent \cup {o}
  /\ wallet' = [wallet EXCEPT ![User(o)] = @ - Hold(req[o])]
  /\ paid' = [paid EXCEPT ![o] = Hold(req[o])]
  /\ Becomes(w, At("insert", o, NoTerms, NoTerms))
  /\ UNCHANGED <<holdings, req, orders, book, history, cancels, amends>>

InitialStatus(o) == IF Dormant(o) THEN "PENDING_TRIGGER" ELSE "PENDING"

\* INSERT INTO orders: from here on GET /orders shows the order.
InsertOrder(w) ==
  LET o == worker[w].order IN
  /\ worker[w].op = "insert"
  /\ orders' = [orders EXCEPT ![o] =
       [status |-> InitialStatus(o), price |-> req[o].price,
        qty |-> req[o].qty, trigger |-> req[o].trigger]]
  /\ Becomes(w, [worker[w] EXCEPT !.op = "book"])
  /\ UNCHANGED <<wallet, holdings, req, sent, book, history, ghosts, amends>>

\* OrderPersistence.create_order raises on every failure, so the refund that
\* follows `order_id is None` is never reached and the debit stays.
InsertOrderFails(w) ==
  /\ Faults /\ worker[w].op = "insert"
  /\ Becomes(w, Idle)
  /\ UNCHANGED <<tables, req, sent, ghosts, amends>>

Booked == {x \in Orders : book[x].status # "ABSENT"}

\* Phase 2 of execute_order: the order_book row is made from the request held
\* in memory, whatever has become of the orders row meanwhile.  A dormant
\* order ends here, any other goes on to its matching pass.
InsertBookRow(w) ==
  LET o == worker[w].order IN
  /\ worker[w].op = "book"
  /\ book' = [book EXCEPT ![o] =
       [status |-> InitialStatus(o), price |-> req[o].price,
        rem |-> req[o].qty, trigger |-> req[o].trigger,
        at |-> Cardinality(Booked) + 1]]
  /\ Proceed(w, IF Dormant(o) THEN <<>>
                ELSE <<[order |-> o, price |-> req[o].price,
                        qty |-> req[o].qty]>>)
  /\ UNCHANGED <<wallet, holdings, req, sent, orders, history, ghosts, amends>>

\* The INSERT fails: the handler marks the order FAILED and answers 500.
InsertBookRowFails(w) ==
  /\ Faults /\ worker[w].op = "book"
  /\ orders' = [orders EXCEPT ![worker[w].order].status = "FAILED"]
  /\ Becomes(w, Idle)
  /\ UNCHANGED <<wallet, holdings, req, sent, book, history, ghosts, amends>>

-----------------------------------------------------------------------------
(* The matching pass of one order (Phase 3): one transaction.              *)

Current(w) == Head(worker[w].agenda)
Matching(w) == /\ worker[w].op = "run" /\ worker[w].agenda # <<>>
               /\ Current(w).order # NoOrder

\* A slip: the SELECT takes the rows created before the order only.
CandidatesOlder(o) ==
  {c \in Orders : /\ Side(c) # Side(o) /\ User(c) # User(o)
                  /\ book[c].status \in Resting /\ book[c].rem > 0
                  /\ book[c].at < book[o].at}

\* select_sell_orders / select_buy_orders: the rows it locks, whether or not
\* they will cross.
Candidates(o) ==
  {c \in Orders : /\ Side(c) # Side(o) /\ User(c) # User(o)
                  /\ book[c].status \in Resting /\ book[c].rem > 0}
Rows(o) == [c \in Candidates(o) |-> book[c]]

Raises(t) == MatchRaises(Side(t.order), t.price, t.qty, Rows(t.order))

\* What the pass t trades, per order and on both sides: shares, and rupees at
\* the price of the resting row.
Deal(t) ==
  LET rows  == Rows(t.order)
      fill  == Allocation(Side(t.order), t.price, t.qty, rows)
      worth == [c \in DOMAIN rows |-> fill[c] * rows[c].price]
      Whole(f) == [x \in Orders |->
                     IF x = t.order THEN SumFunctionOnSet(f, DOMAIN rows)
                     ELSE IF x \in DOMAIN rows THEN f[x] ELSE 0]
  IN  [qty |-> Whole(fill), value |-> Whole(worth)]

\* Shares or rupees of a deal per user, on one side of it.
PerUser(f, side) ==
  [u \in Users |->
     SumFunctionOnSet(f, {x \in Orders : User(x) = u /\ Side(x) = side})]

\* A slip: process_seller does not compare the quantity with the holding.
SettlesShort(d) ==
  /\ d \in [qty : [Orders -> Nat], value : [Orders -> Nat]]
  /\ PerUser(d.qty, "BUY") \in [Users -> Nat]
  /\ PerUser(d.value, "SELL") \in [Users -> Nat]

\* None of the checks of the settlement raises: process_seller wants shares
\* the seller has, creditWallet an amount that is a credit.
Settles(d) ==
  /\ d \in [qty : [Orders -> Nat], value : [Orders -> Nat]]
  /\ PerUser(d.qty, "BUY") \in [Users -> Nat]
  /\ PerUser(d.value, "SELL") \in [Users -> Nat]
  /\ \A u \in Users : PerUser(d.qty, "SELL")[u] \in 0..holdings[u]

\* Nobody to trade with: the order rests.
MatchNothing(w) ==
  LET t == Current(w) IN
  /\ Matching(w) /\ ~Raises(t) /\ Deal(t).qty[t.order] = 0
  /\ Proceed(w, Tail(worker[w].agenda))
  /\ UNCHANGED <<tables, req, sent, ghosts, amends>>

\* A slip: the broker's word for a completed order.
FilledStatusOfBroker(rem) ==
  IF rem > 0 THEN "PARTIALLY_EXECUTED" ELSE "COMPLETE"

FilledStatus(rem) == IF rem > 0 THEN "PARTIALLY_EXECUTED" ELSE "EXECUTED"

\* remaining_quantity of an order that took part in the deal: the incoming one
\* counts down from the quantity in memory, not from its row.
RemAfter(t, d, x) ==
  IF x = t.order THEN t.qty - d.qty[x] ELSE book[x].rem - d.qty[x]

\* The price checks that follow the commit, one per trade in trade order.
Checks(side, makers) ==
  {[i \in DOMAIN q |-> [order |-> NoOrder, price |-> book[q[i]].price,
                        qty |-> 0]] :
     q \in {s \in SetToSeqs(makers) : \A i, j \in DOMAIN s :
              i < j => ServedBefore(side, book[s[i]], book[s[j]])}}

\* _process_trades: all trades of the pass, both sides of each, in one commit.
Match(w) ==
  LET t == Current(w)
      d == Deal(t)
      traded == {x \in Orders : d.qty[x] > 0}
  IN
  /\ Matching(w) /\ ~Raises(t) /\ d.qty[t.order] > 0 /\ Settles(d)
  /\ book' = [x \in Orders |->
       IF x \in traded
       THEN [book[x] EXCEPT !.rem = RemAfter(t, d, x),
                            !.status = FilledStatus(RemAfter(t, d, x))]
       ELSE book[x]]
  /\ orders' = [x \in Orders |->
       IF x \in traded
       THEN [orders[x] EXCEPT !.status = FilledStatus(RemAfter(t, d, x))]
       ELSE orders[x]]
  /\ history' = [x \in Orders |-> [qty   |-> history[x].qty + d.qty[x],
                                   value |-> history[x].value + d.value[x]]]
  /\ holdings' = [u \in Users |-> holdings[u] + PerUser(d.qty, "BUY")[u]
                                              - PerUser(d.qty, "SELL")[u]]
  /\ wallet' = [u \in Users |-> wallet[u] + PerUser(d.value, "SELL")[u]]
  /\ \E checks \in Checks(Side(t.order), traded \ {t.order}) :
       Proceed(w, checks \o Tail(worker[w].agenda))
  /\ UNCHANGED <<req, sent, ghosts, amends>>

\* Why a pass is rolled back with its order marked FAILED.  A row held by
\* another transaction counts: the persistence layer turns LockNotAvailable
\* into a plain Exception, so the retry loop of _execute_matching is not taken.
MustFail(t) ==
  Raises(t) \/ (Deal(t).qty[t.order] > 0 /\ ~Settles(Deal(t)))

\* So does any other error of a statement that the persistence layer wraps.
\* The order_book row of the FAILED order stays as it is.
MatchFails(w) ==
  LET t == Current(w) IN
  /\ Matching(w)
  /\ MustFail(t) \/ Faults \/ (Contended(w) /\ Candidates(t.order) # {})
  /\ orders' = [orders EXCEPT ![t.order].status = "FAILED"]
  /\ Proceed(w, Tail(worker[w].agenda))
  /\ UNCHANGED <<wallet, holdings, req, sent, book, history, ghosts, amends>>

\* The pass is the victim of a deadlock in a statement that lets psycopg2.Error
\* through (the update of orders), or loses its connection, and with it the
\* means to mark its order: rolled back, and not marked FAILED.
MatchAborts(w) ==
  LET t == Current(w) IN
  /\ Matching(w)
  /\ Faults \/ (Contended(w) /\ ~Raises(t) /\ Deal(t).qty[t.order] > 0)
  /\ Proceed(w, Tail(worker[w].agenda))
  /\ UNCHANGED <<tables, req, sent, ghosts, amends>>

-----------------------------------------------------------------------------
(* check_and_trigger for a traded price.                                   *)

Checking(w) == /\ worker[w].op = "run" /\ worker[w].agenda # <<>>
               /\ Current(w).order = NoOrder

\* _trigger_condition_met: has the price reached the stop?
TriggerMet(o, ltp) ==
  /\ book[o].trigger # 0
  /\ IF IsBuy(o) THEN ltp >= book[o].trigger ELSE ltp <= book[o].trigger

\* A STOP adopts the traded price, a STOPLIMIT keeps the limit it has.
EffectivePrice(o, ltp) ==
  IF req[o].type = "STOP" \/ book[o].price = 0 THEN ltp ELSE book[o].price

\* A slip: the rows stay dormant, and the next check takes them again.
AfterTriggerDormant(o, ltp) ==
  [book[o] EXCEPT !.price = EffectivePrice(o, ltp)]

AfterTrigger(o, ltp) ==
  [book[o] EXCEPT !.status = "PENDING", !.price = EffectivePrice(o, ltp)]

\* All dormant rows the price reaches become matchable in one commit, orders
\* and order_book alike; their passes come next, in the order (none in
\* particular) in which the SELECT returned the rows.
Trigger(w) ==
  LET ltp == Current(w).price
      hit == {o \in Orders : book[o].status = "PENDING_TRIGGER"
                             /\ TriggerMet(o, ltp)}
  IN
  /\ Checking(w)
  /\ book' = [o \in Orders |-> IF o \in hit THEN AfterTrigger(o, ltp)
                               ELSE book[o]]
  /\ orders' = [o \in Orders |->
       IF o \in hit
       THEN [orders[o] EXCEPT !.status = "PENDING",
                              !.price = EffectivePrice(o, ltp)]
       ELSE orders[o]]
  /\ \E queue \in SetToSeqs(hit) :
       Proceed(w, [i \in DOMAIN queue |->
                     [order |-> queue[i],
                      price |-> EffectivePrice(queue[i], ltp),
                      qty   |-> book[queue[i]].rem]]
                  \o Tail(worker[w].agenda))
  /\ UNCHANGED <<wallet, holdings, req, sent, history, ghosts, amends>>

\* The check itself is rolled back and its error swallowed.
TriggerFails(w) ==
  /\ Checking(w) /\ (Faults \/ Contended(w))
  /\ Proceed(w, Tail(worker[w].agenda))
  /\ UNCHANGED <<tables, req, sent, ghosts, amends>>

-----------------------------------------------------------------------------
(* POST /orders/{id}/cancel                                                *)

\* Has the POST that placed the order answered its client?
Answered(o) ==
  \A w \in Workers :
    worker[w].order = o => worker[w].op \notin {"insert", "book", "run"}

\* May the owner address the order?  Its row exists, so GET /orders lists it.
Known(o) == orders[o].status # "ABSENT" /\ (EagerClients \/ Answered(o))

\* The terms of the row, as a SELECT or a RETURNING reads them.
ReadTerms(o) == [price |-> orders[o].price, qty |-> orders[o].qty,
                 trigger |-> orders[o].trigger]

\* A slip: cancel leaves order_book alone, as it did before its fix.
AfterCancelUntouched(o) == book[o]

\* cancel_order_book_by_order_id
AfterCancel(o) ==
  IF book[o].status \in {"PENDING", "PARTIALLY_EXECUTED", "PENDING_TRIGGER"}
  THEN [book[o] EXCEPT !.status = "CANCELLED"]
  ELSE book[o]

\* A slip: the cancel's WHERE also takes orders already cancelled.
CancellableAgain(o) == orders[o].status \in Unfilled \cup {"CANCELLED"}

\* UPDATE orders ... WHERE status IN ('PENDING', 'PENDING_TRIGGER')
Cancellable(o) == orders[o].status \in Unfilled

\* Both rows in one commit; what it RETURNs is refunded by a later one.
Cancel(w, o) ==
  /\ worker[w] = Idle /\ Known(o) /\ Cancellable(o)
  /\ orders' = [orders EXCEPT ![o].status = "CANCELLED"]
  /\ book' = [book EXCEPT ![o] = AfterCancel(o)]
  /\ cancels' = [cancels EXCEPT ![o] = @ + 1]
  /\ Becomes(w, IF IsBuy(o) THEN At("refund", o, ReadTerms(o), NoTerms)
                ELSE Idle)
  /\ UNCHANGED <<wallet, holdings, req, sent, history, paid, amends>>

\* A slip: the price is refunded for one share.
RefundAmountOfOne(terms) == terms.price

\* quantity * price of the cancelled row, however many shares it has traded.
RefundAmount(terms) == terms.qty * terms.price

Refund(w) ==
  LET o == worker[w].order
      amount == RefundAmount(worker[w].seen)
  IN
  /\ worker[w].op = "refund"
  /\ wallet' = [wallet EXCEPT ![User(o)] = @ + amount]
  /\ paid' = [paid EXCEPT ![o] = @ - amount]
  /\ Becomes(w, Idle)
  /\ UNCHANGED <<holdings, req, sent, orders, book, history, cancels,
                 amends>>

-----------------------------------------------------------------------------
(* PUT /orders/{id}: read, wallet delta, guarded update, reversal.         *)

Coalesce(new, old) == IF new = 0 THEN old ELSE new

AmendRead(w, o) ==
  /\ worker[w] = Idle /\ Known(o) /\ orders[o].status \in Unfilled
  /\ amends < MaxAmends /\ amends' = amends + 1
  /\ \E a \in Amendments :
       Becomes(w, At(IF IsBuy(o) THEN "charge" ELSE "amend", o,
                     ReadTerms(o), a))
  /\ UNCHANGED <<tables, req, sent, ghosts>>

\* A slip: the old quantity is charged at the new price.
DeltaOfPriceOnly(job) ==
  job.seen.qty * Coalesce(job.want.price, job.seen.price)
    - job.seen.qty * job.seen.price

\* new_required - old_required, from the terms that were read.
Delta(job) ==
  Coalesce(job.want.qty, job.seen.qty) * Coalesce(job.want.price, job.seen.price)
    - job.seen.qty * job.seen.price

\* A BUY pays the increase, or is handed the decrease, before its row changes.
Charge(w) ==
  LET o == worker[w].order
      delta == Delta(worker[w])
  IN
  /\ worker[w].op = "charge"
  /\ delta > 0 => Affordable(User(o), delta)
  /\ wallet' = [wallet EXCEPT ![User(o)] = @ - delta]
  /\ paid' = [paid EXCEPT ![o] = @ + delta]
  /\ Becomes(w, [worker[w] EXCEPT !.op = "amend", !.delta = delta])
  /\ UNCHANGED <<holdings, req, sent, orders, book, history, cancels, amends>>

ChargeRefused(w) ==
  /\ worker[w].op = "charge"
  /\ Delta(worker[w]) > 0
  /\ ~Affordable(User(worker[w].order), Delta(worker[w]))
  /\ Becomes(w, Idle)
  /\ UNCHANGED <<tables, req, sent, ghosts, amends>>

\* modify_order: still unfilled, and still with the terms that were read.
Amendable(job) ==
  /\ orders[job.order].status \in Unfilled
  /\ ReadTerms(job.order) = job.seen

\* A slip: order_book.remaining_quantity keeps its old value.
AfterAmendSameRem(o, a) ==
  IF book[o].status \in Unfilled
  THEN [book[o] EXCEPT !.price = Coalesce(a.price, @),
                       !.trigger = Coalesce(a.trigger, @)]
  ELSE book[o]

\* modify_order_book_by_order_id
AfterAmend(o, a) ==
  IF book[o].status \in Unfilled
  THEN [book[o] EXCEPT !.price = Coalesce(a.price, @),
                       !.rem = Coalesce(a.qty, @),
                       !.trigger = Coalesce(a.trigger, @)]
  ELSE book[o]

Amend(w) ==
  LET o == worker[w].order
      a == worker[w].want
  IN
  /\ worker[w].op = "amend" /\ Amendable(worker[w])
  /\ orders' = [orders EXCEPT ![o].price = Coalesce(a.price, @),
                              ![o].qty = Coalesce(a.qty, @),
                              ![o].trigger = Coalesce(a.trigger, @)]
  /\ book' = [book EXCEPT ![o] = AfterAmend(o, a)]
  /\ Becomes(w, Idle)
  /\ UNCHANGED <<wallet, holdings, req, sent, history, ghosts, amends>>

\* The update matched no row (the order was matched, cancelled or amended
\* meanwhile) or raised: the wallet delta is to be reversed.
AmendLost(w) ==
  /\ worker[w].op = "amend"
  /\ ~Amendable(worker[w]) \/ Faults
  /\ Becomes(w, IF worker[w].delta = 0 THEN Idle
                ELSE [worker[w] EXCEPT !.op = "undo"])
  /\ UNCHANGED <<tables, req, sent, ghosts, amends>>

\* _reverse_wallet_delta gives the delta back or, negative, takes it again.
\* Taking a credit back is a debit like any other: when the balance no longer
\* covers it nothing happens, and nobody looks at the result.
Undo(w) ==
  LET o == worker[w].order
      back == worker[w].delta
  IN
  /\ worker[w].op = "undo"
  /\ IF back < 0 /\ ~Affordable(User(o), -back)
     THEN UNCHANGED <<wallet, paid>>
     ELSE /\ wallet' = [wallet EXCEPT ![User(o)] = @ + back]
          /\ paid' = [paid EXCEPT ![o] = @ - back]
  /\ Becomes(w, Idle)
  /\ UNCHANGED <<holdings, req, sent, orders, book, history, cancels, amends>>

-----------------------------------------------------------------------------

\* The process of a worker dies: its current transaction is rolled back and
\* what was to follow is forgotten.
Crash(w) ==
  /\ Faults /\ worker[w] # Idle
  /\ Becomes(w, Idle)
  /\ UNCHANGED <<tables, req, sent, ghosts, amends>>

\* A handler that has started goes on by itself ...
Step(w) ==
  \/ InsertOrder(w) \/ InsertOrderFails(w)
  \/ InsertBookRow(w) \/ InsertBookRowFails(w)
  \/ MatchNothing(w) \/ Match(w) \/ MatchFails(w) \/ MatchAborts(w)
  \/ Trigger(w) \/ TriggerFails(w)
  \/ Refund(w)
  \/ Charge(w) \/ ChargeRefused(w) \/ Amend(w) \/ AmendLost(w) \/ Undo(w)

\* ... what clients ask for, nobody can promise.
Request(w, o) == Submit(w, o) \/ Cancel(w, o) \/ AmendRead(w, o)

Next == \E w \in Workers : \/ Step(w)
                           \/ Crash(w)
                           \/ \E o \in Orders : Request(w, o)

Spec == Init /\ [][Next]_vars

\* The event loop and its thread pool run every handler they have started.
FairSpec == Spec /\ \A w \in Workers : WF_vars(Step(w))

-----------------------------------------------------------------------------
(* Properties of every schedule.                                           *)

\* No interleaving of debits, refunds, amendments, reversals and settlements
\* overdraws a wallet (debitWalletIfSufficient instead of read-then-write).
WalletNeverNegative == \A u \in Users : wallet[u] >= 0

\* Trades move shares between users and never create, lose or short them, even
\* when several orders of one seller fill in one pass (process_seller).
SharesConserved ==
  /\ \A u \in Users : holdings[u] >= 0
  /\ SumFunction(holdings) = SumFunction(InitialShares)

\* An order is never in two matching passes at once, nor queued for a second
\* one: not by two price signals (FOR UPDATE in check_and_trigger), and not by
\* its own POST after it was left dormant.
MatchedOnce ==
  \A v, w \in Workers :
    \A i \in DOMAIN worker[v].agenda, j \in DOMAIN worker[w].agenda :
      /\ worker[v].agenda[i].order # NoOrder
      /\ worker[v].agenda[i].order = worker[w].agenda[j].order
      => v = w /\ i = j

\* An order is cancelled, and its cash handed back, at most once, whatever
\* cancels, amendments, triggers and passes run at the same time.
CancelledOnce == \A o \in Orders : cancels[o] <= 1

\* A matching pass serves price first and then time: when a resting order
\* trades, every better one the pass could have had is used up.
PriceTimePriority ==
  [][\A o, c, d \in Orders :
       /\ history'[o].qty > history[o].qty
       /\ history'[c].qty > history[c].qty
       /\ {c, d} \subseteq Candidates(o)
       /\ \E w \in Workers : Matching(w) /\ Current(w).order = o
                             /\ worker'[w] # worker[w]
       /\ book[d].price # 0 /\ ServedBefore(Side(o), book[d], book[c])
       => book'[d].rem = 0]_vars

-----------------------------------------------------------------------------
(* Properties of a schedule without overlapping handlers (one worker).     *)
(* The first two say which orders the ones after them are about.           *)

\* All stops wait on one side.  A pass the trigger has queued goes on with the
\* remaining_quantity the trigger read, also when a pass before it has filled
\* the same order, as only a stop of the other side can do.
StopsOnOneSide ==
  \A o, p \in Orders : Dormant(o) /\ Dormant(p) => Side(o) = Side(p)

\* No BUY takes the price that triggers it in place of the one it paid for.
NoStopBuys == \A o \in Orders : IsBuy(o) => req[o].type # "STOP"

\* What a client reads in orders is what the matching engine reads in
\* order_book: same status and price, and the remaining quantity is what the
\* order still has to trade.  Only an order marked FAILED differs.
BookMirrorsOrders ==
  \A o \in Booked :
    /\ orders[o].status # "FAILED" => book[o].status = orders[o].status
    /\ book[o].price = orders[o].price
    /\ book[o].rem >= 0
    /\ book[o].rem = orders[o].qty - history[o].qty

\* A cancelled order has not traded and never will: its refund is for the
\* whole quantity.
CancelledStaysUnfilled ==
  \A o \in Orders : cancels[o] > 0 => history[o].qty = 0

\* What the sellers of a BUY were credited was taken from its buyer before:
\* no fill creates money.
FillsPrepaid ==
  \A o \in Orders : IsBuy(o) => history[o].value <= paid[o]

\* Between requests, a BUY that is not cancelled holds exactly its quantity
\* times its price, and one that is cancelled holds nothing.
InHand(o) == \E w \in Workers :
  \/ worker[w].order = o
  \/ \E i \in DOMAIN worker[w].agenda : worker[w].agenda[i].order = o
ReservationExact ==
  \A o \in Orders : IsBuy(o) /\ orders[o].status # "ABSENT" /\ ~InHand(o) =>
    paid[o] = IF cancels[o] > 0 THEN 0
              ELSE orders[o].qty * orders[o].price

\* The refund of a cancelled BUY is its debit: no more and no less.
RefundIsTheDebit ==
  \A o \in Orders : cancels[o] > 0 /\ ~InHand(o) => paid[o] = 0

\* A cancelled order never waits for a trade or a trigger again.
CancelledStaysClosed ==
  \A o \in Orders : cancels[o] > 0 => orders[o].status \notin Unfilled

\* An order is marked FAILED when its matching pass could not be settled, not
\* because another transaction held a row for a moment.
FailedForCause ==
  [][\A w \in Workers :
       /\ Matching(w) /\ worker'[w] # worker[w]
       /\ orders[Current(w).order].status # "FAILED"
       /\ orders'[Current(w).order].status = "FAILED"
       => MustFail(Current(w))]_vars

\* An order the client was told has failed does not trade afterwards.
FailedStaysUnfilled ==
  [][\A o \in Orders : orders[o].status = "FAILED" =>
       history'[o].qty = history[o].qty]_vars

-----------------------------------------------------------------------------
(* Properties of a schedule in which no handler fails over another's row.  *)

\* Does o wait for a trade, for the client and for the matching engine?
Waits(o) == /\ orders[o].status \in Resting
            /\ book[o].status \in Resting /\ book[o].rem > 0

\* Once the handlers are done, nobody offers for sale at a price that another
\* user bids: of two orders placed at the same time, of a stop woken behind a
\* newer order, or of two stops woken by one price, one is matched with the
\* other.  A pair that both passes miss is never looked at again.
NothingLeftCrossed ==
  (\A w \in Workers : worker[w] = Idle) =>
    \A s, b \in {o \in Orders : Waits(o)} :
      Side(s) = "SELL" /\ IsBuy(b) /\ book[s].price <= book[b].price
        => User(s) = User(b)


\* A stop that the price of a committed trade has reached does not stay
\* dormant.
Signalled(o) ==
  /\ book[o].status = "PENDING_TRIGGER"
  /\ \E w \in Workers : \E i \in DOMAIN worker[w].agenda :
       /\ worker[w].agenda[i].order = NoOrder
       /\ TriggerMet(o, worker[w].agenda[i].price)
ReachedStopsTrigger ==
  \A o \in Orders : Signalled(o) ~> (book[o].status # "PENDING_TRIGGER")
=============================================================================
