# Formal models of the exchange

TLA+ models of the order, matching, live-trading, margin, wallet, market-feed,
broker-session and fund-history parts of MyProductComplete (a FastAPI backend over
PostgreSQL, Redis, Razorpay and the Shoonya broker), with TLC runs on small
instances of all of them and TLAPS proofs of the safety properties they check (all but one,
section 5).  Paths such as
`service/executionEngine.py` are relative to `src/`.

Contents: 1 the system, 2 the modules and how they correspond to the code,
3 the runs, 4 bounds and fairness, 5 what is proved, 6 what the code does
otherwise than it says, 7 what is not modelled, 8 the plan.

## 1. The system

### Components, their state and operations

| component | state it keeps | operations |
|---|---|---|
| Order placement (`api/orders.py`, `service/executionEngine.py`, `database/orderPersistence.py`) | tables `orders`, `order_book`; `wallets.balance` | `POST /orders`: debit of a BUY, INSERT into `orders`, INSERT into `order_book`, matching pass |
| Matching engine (`service/matchingEngine/`) | none: rows locked by `SELECT ... FOR UPDATE NOWAIT` | select the opposite rows, allocate in price-time order |
| Settlement (`service/executionEngine.py`, `service/tradeSettlementService.py`, `database/portfolioPersistence.py`) | `trade_history`, `holdings`, both order tables, sellers' wallets | one transaction for all trades of a pass |
| Dormant stops (`service/stopOrderTriggerService.py`) | rows in `PENDING_TRIGGER` | `check_and_trigger(ltp)`: after a trade, and on ticks of options in which somebody has a position |
| Cancel and modify (`api/orders.py`, `service/orderService.py`) | both order tables, wallet | guarded UPDATE and refund; read, wallet delta, guarded UPDATE, reversal |
| Cash wallet (`database/walletbalancepersistence/`) | `wallets.balance` | conditional debit, relative credit |
| Wallet top-ups (`service/razorpay/`, `database/razorpaypersistence/`) | `wallet_ledger`, `wallets` | order at Razorpay, background INSERT, webhook, credit |
| Live order routing (`service/liveOrderRoutingService.py`) | `orders.broker_order_id`; a call in a thread of its own | `POST /createLiveOrder` |
| Broker order updates (`service/orderUpdateService.py`) | `processed_broker_fills`, `trade_history`, `orders.status` | apply a fill, a reject, a cancel |
| Margin engine (`service/marginengine/`) | `margin_blocks`, `wallets.blocked_margin`, `positions.blocked_margin` | block, release on cancel, reconcile on fill |
| EOD sweep (`service/marginengine/eod_sweep_service.py`) | the same | release expired positions, snapshots, flags |
| Positions and cache (`service/positionService.py`, `positionTickService.py`, `database/positionCache.py`) | Redis hash per user, watch sets, table `positions` | fill, tick, close |
| Option chain (`api/optionChain.py`, `service/optionChain/`) | cache and number of holders per chain | look up, hold, release, evict |
| Option feed (`marketengine/ShoonyaOptionFeed.py`) | number of holders per token, websocket, reconnect flag | `ensure_subscribed`, `release`, `start`, callbacks, reconnect loop |
| Broker session (`marketengine/ShoonyaConnection.py`, `app.py`) | instance of the broker's library, connected or not | log in at start-up, every morning, and with a pasted code |
| Mutual funds (`mutualfunds/`, `api/mutual_funds.py`) | row, Parquet file and returns of every scheme; a cache | daily job (list, backfill, sync), write-through of a chart |
| Everything else | authentication, market quotes, candles, movers, sectors, equity curve, dashboard, scripts | request forwarding, reports, batch loads |

### How they interact

* FastAPI runs the `def` endpoints in a thread pool: requests interleave, each
  database call of a handler opens its own connection and commits on its own.
  A `POST /orders` alone is four transactions (debit, `orders`, `order_book`,
  matching) and everything may happen between them.
* Matching calls `check_and_trigger` for the price of each trade after its
  commit; that triggers orders and runs their matching passes, which trade and
  check again: a depth-first recursion inside the request of somebody else.
* The broker calls back on the websocket thread of its library, which hands
  each order update to the event loop (`run_coroutine_threadsafe`).  The handler
  is `async` but awaits nothing, so updates are applied one at a time while
  requests run in threads beside it.
* Razorpay is told to create an order inside the request; the ledger row is
  inserted by a background task *after* the response, and the webhook is
  processed by another background task.
* A margin engine call is made by placement, cancel and fill of F&O orders;
  positions are kept in Redis between fills and refreshed by ticks.
* Streams of an option chain and the fills of positions share the subscriptions
  of one feed: each counts its tokens, in a thread of an executor, and whoever
  is the first or the last calls the broker, outside the lock of the counts.
* A login, of whomever, builds a new instance of the broker's library on the
  connection; the feed is restarted on it by the caller, or by its own reconnect
  loop, or not at all (exchange-code).  The library calls the feed back from the
  thread of the websocket.
* The daily job of the mutual funds and the chart endpoint are coroutines of one
  event loop; each database call and file access is a thread they await, and they
  write the same rows and files without a transaction around them.

### What is hard here

1. **Interleaving between transactions.**  The matching pass uses the order held
   in memory and never looks at its own row again; a modify charges the wallet
   before its guarded UPDATE; a refund follows the cancel in another transaction.
2. **Partial failure.**  A debit without an order, an `order_book` row whose
   order has failed, a ledger row in SUCCESS whose credit failed.
3. **Unreliable parties.**  A broker call that times out and yet succeeds;
   updates that are repeated, early or lost; webhooks that are repeated.
4. **Recursion.**  Triggered stops trade and trigger.
5. **Stale or duplicated state.**  `orders` against `order_book`, Redis against
   PostgreSQL, `orders.broker_order_id` against the broker, a stream's cache
   against the one that gets the ticks, a fund's returns against its file.
6. **Replaced connections.**  Callbacks of a websocket that is no longer the one
   in use, calls that wait for ever on an instance that was replaced, reconnect
   loops and logins that overtake one another.

`PROJECT.json` lists the hazards one by one, at their lines.

### What makes each component correct

* *Placement, settlement*: no wallet is overdrawn, no share is created or
  shorted, every fill was paid for, the two tables agree.
* *Matching*: price first, then time; no order in two passes at once.
* *Stops*: a stop that a trade price reached does not stay dormant, and is matched
  with what it crosses.
* *Cancel, modify*: one refund, of what was debited; a cancelled order does not
  come back and does not trade; the reservation of a BUY equals its value.
* *Top-ups*: a deposit is credited once and whole, no update of a balance is lost.
* *Live orders*: a fill is settled once, and every fill is; an order is refunded
  once, and only if it cannot fill any more; the status tells the fills.
* *Margin*: `wallets.blocked_margin` is the sum of the active blocks and of the
  position's margin, which is that of the filled quantity; a cancelled order
  holds none.
* *Positions*: the cached position is what the fills have made of it; nobody
  writes it back over something else than what was read.
* *Chains, feed*: a stream's cache is the one that gets ticks; the tokens of a
  cached chain are counted; what is counted is subscribed, through reconnections.
* *Session*: some login always succeeds in the end, the feed is reopened on the
  newest instance, a feed without a websocket has (a feed, a close to be reported, a loop asleep)ion under way.
* *Funds*: no stored point is lost, returns are those of the stored series, every
  listed scheme is judged.

## 2. The modules

    MatchingEngine  <- MatchingLoop            closed form = loop
         ^                  ^
    CashOrders      <- CashOrdersProofs        the exchange for cash equities
         ^
    MCCashOrders    <- MCRaces

    Wallets  <== TopUps <- MCTopUps            TopUps implements Wallets
                   ^
              TopUpsProofs

    LiveOrders <- MCLiveOrders                 orders at the real broker
         ^
    LiveOrdersProofs

    MarginLedger <- MCMarginLedger             an F&O position and its margin
         ^
    MarginLedgerProofs

    FeedSocket  <== BrokerSession              the session implements the socket
         ^                ^
         |          SessionProofs
     OptionFeed <- OptionChains <- MCOptionChains
                        ^
                   ChainsProofs

    FundHistory <- MCFundHistory               NAV history of mutual funds
         ^
    FundHistoryProofs

    SumLemmas: what a sum over a finite set is when an element or a value
    changes; CashOrdersProofs and MarginLedgerProofs extend it

                                   (<- , ^ : EXTENDED BY, <== : INSTANCE)

**`MatchingEngine`** has the operators of one matching pass: which rows cross,
which is served before which, how much each gets (`Allocation`), and when the
comparison raises because a MARKET or STOP SELL rests with a NULL price (0 in the
model).  The code loops over the rows in the order of its SELECT; the module says
in closed form what every row gets, which is what the exchange model needs.
**`MatchingLoop`** is the loop itself, one row a step, over every book with the
rows `Names`; its invariant is that the two agree.  Its definitions and variables
have names of their own, so that `CashOrdersProofs` can be about both.

**`CashOrders`** is the exchange for one cash-equity symbol.  A *step* is one
committed transaction of one handler.  A `worker` is a thread of the pool; its
record holds the request it handles and an `agenda` of what comes after the
present transaction: an item with an order is a matching pass for it, with the
price and quantity *held in memory*; an item without is a price check.  `Match`
puts the checks of its trades in front of the agenda and `Trigger` the passes of
the orders it triggered, which is the recursion of the code, depth first.  With `Faults` any statement may
fail for a reason of its own, with one worker as well.

| action | code |
|---|---|
| `Submit`, `InsertOrder`, `InsertBookRow` and their failures | `_create_order_row_with_checks`, `OrderPersistence.create_order`, phase 2 of `execute_order` |
| `MatchNothing`, `Match`, `MatchFails`, `MatchAborts` | phase 3: `_execute_matching`, `_process_trades`, its rollback |
| `Trigger`, `TriggerFails` | `check_and_trigger` |
| `Cancel`, `Refund` | `cancel_order_by_id` and the refund that follows it |
| `AmendRead`, `Charge`, `ChargeRefused`, `Amend`, `AmendLost`, `Undo` | `modify_order` and `_reverse_wallet_delta` |
| `Crash` | the process ends between two transactions |

Abstractions: one symbol; a matching pass with its locks is one step, because
the rows it reads are locked until its commit, and `Contended` (another worker
exists) is what a lock held by somebody else looks like to it; `trigger_price`,
which a match overwrites in passing, average prices, and
`order_book.quantity` beside `remaining_quantity` are left out; users have wallets
from the start (`TopUps` is about those who do not).  The typed conjuncts of
`Settles` stand for the checks by which `process_seller`, `process_buyer` and
`creditWallet` raise.  History variables (`paid`, `cancels`) only record.

**`TopUps`** is a payment from the order at Razorpay to the credit: the ledger
row inserted by a background task, deliveries of the webhook that run side by
side, the PENDING -> SUCCESS gate in one transaction and the credit in the next,
the advisory lock of a first deposit, and orders that debit the same wallet
meanwhile.  **`Wallets`** is what it promises: a credit comes in at most once and
whole, nobody takes out more than there is.

**`LiveOrders`** is an F&O order placed at the broker: the placing request
(`handler`), the broker and its feed of updates, the event loop that applies them
(`loop`), and the user who cancels or amends (`user`), for `POST /createLiveOrder`,
`OrderUpdateService`, `POST /orders/{id}/cancel` and `PUT /orders/{id}`.

| action | code |
|---|---|
| `Place`, `MarginRefused`, `LotSizeRefused` | `_create_order_row_with_checks`, the refusals after the row exists |
| `Submit`, `Confirmed`, `Refused`, `Uncertain` | the broker call in its own thread: `Ok`, `Not_Ok`, timeout, exception or any other answer |
| `Link`, `LinkFails` | storing `broker_order_id`, three attempts |
| `HandlerCancels`, `HandlerRefunds`, `HandlerFails` | the cancel of a refused order |
| `Accept`, `Refuse`, `BrokerFills`, `Close`, `Replay` | the broker (external) |
| `Receive`, `ApplyFill`, `ApplyEnd`, `LoopRefunds` and their failures | `handle_order_update` and its three handlers |
| `AskCancel`, `UserCancels`, `UserRefunded`, `UserRefundFails` | the cancel endpoint: look for a broker id, guarded UPDATE, refund |
| `AskAmend`, `UserAmends`, `UserAmendFails` | the modify endpoint: look for status, margin and broker id, guarded UPDATE of `orders.quantity`; the broker is not told |
| `Crash` | the process ends; updates received and not applied are gone |

Abstractions: `"PENDING"` stands for PENDING and PENDING_TRIGGER, which nothing
in a live order's life tells apart; the user of an order makes one request at a
time, and what an amendment changes is its quantity, not its debit (`CashOrders` has
that arithmetic); a fill is identified by the order and the
lots filled with it, in place of `flid`; a refund counts for orders that were
debited (option BUYs), the release of margin blocks is the margin engine's; the
position and margin arithmetic of a settled fill is left out.  `Cached` says
whether the position of the order is cached: when it is not, settling a fill
raises (section 6, 5), and the fill is rolled back, logged and lost.  `lost` and
`withdrawn` are history variables.

**`MarginLedger`** is one user's position in one contract and the money behind
it: the position in Redis (`cache`) under its `lock`, its row and
`wallets.blocked_margin` (`books`, locked by `ledger` from the first statement
that takes them to the end of the transaction, whose writes are the `draft`),
and the margin `block` of every order.

| action | code |
|---|---|
| `Place`, `CheckLocks`, `CheckReads`, `CheckBlocks`, `CheckFails` | `_create_order_row_with_checks`, `MarginEngine.check_and_block`, `_cancel_after_margin_failure` |
| `Cancel`, `Release`, `ReleaseFails` | the cancel UPDATE, `release_on_cancel` in a transaction of its own, its error logged |
| `Trade` | the next fill of a matching pass, or a fill reported by the broker |
| `FillLocks`, `FillReads`, `FillSaves`, `FillCloses`, `FillRaises` | `PositionService.apply_fill`: lock, read, save to Redis or close the row and evict |
| `Reconcile`, `ReconcileSkipped` | `reconcile_on_fill`; a `MarginEngineError` is logged and the fill goes on |
| `Credit`, `Commit`, `PassFails` | the seller's wallet, the end of the transaction (`RollBack` does not reach Redis) |
| `Expire` | the 15 s time to live of the lock, while its holder waits for rows |
| `TickReads`, `TickWrites` | `PositionCache.apply_tick` |
| `SweepLists`, `SweepCloses`, `SweepEnds` | `EodMarginSweepService`, without the lock in Redis |

Abstractions: one user and one contract; the rows of the wallet and of the
position are one lock, because whoever locks the second holds it to the same end;
the wallet's balance, which cash orders change, is any of `Balances` whenever it
is read; calculators and price resolver are a choice of a rate per lot from
`Rates`; quantities are in lots.  Average prices, P&L, watch sets, audit rows and
the sweep's snapshots are left out.  An open position is cached to begin with:
the present code opens none by itself (section 6, 5), so it is one that was
opened before the statement got its third parameter.  Orders that need margin
cannot be modified (`api/orders.py:619`), so there is no modify.  `mishaps`, which
says what went wrong so far, and `held` are history variables.

**`OptionFeed`** is the feed as its users see it: the holders of every token, the
calls that threads are making, what the broker has subscribed, and the websocket,
about which it assumes no more than **`FeedSocket`** says: a login builds a new
instance, the websocket is opened on the newest, there is one at most.
**`OptionChains`** composes the feed with its two users.

| action | code |
|---|---|
| `Count`, `Address`, `Send` | `ensure_subscribed` and `release`: the part under the lock, the look-up of the instance after it, and the call to the broker |
| `Opened`, `Aimed`, `Resubscribed` | `_on_open`: its list of tokens, the look-up of the instance, and the call |
| `Renewed`, `Started`, `Dropped` | a login, `start`, a websocket that closes |
| `Visit`, `LookAgain`, `GoesOn`, `Get` | `get_cache_for_stream` before the response, and again in the stream's task: the look-up, and `_acquire` after the awaits; the plain `GET` |
| `PickUp`, `LeaveEarly`, `Leave` | the stream gets its cache; the client goes before that (nothing is released) or after (`release_chain`, `_release`) |
| `Fill`, `Close` | `PositionTickService`, from `apply_fill` |
| `Restart` | a new process; positions are in Redis, nothing else survives |

A call waits until *its* instance has a websocket: on an instance that was
replaced it stays `"send"` for ever, as the loop in the library does.  So do the lists
of `_on_open`: one that waits outlives its websocket, and is subscribed on the next
one if its instance is connected once more.  `lists` is a set, so two equal lists that
wait at the same time are one (subscribing twice adds nothing), and one that waits for
an instance which is gone is left out, as it is never sent.  A thread for the next
call is assumed to be free (section 7).  Quotes, strikes, ticks and
the contents of a cache are left out.  `crossed` and `taken` are history
variables: tokens two calls for which were under way together, and tokens
released for a position of an earlier process.

**`BrokerSession`** is who logs in to the broker and what becomes of the feed: the
start-up (`boot`, with its time-out), `schedule_daily_refresh` under its supervisor
(`loop`), the administrator's `exchange-code` (`admin`).  A login is a thread of
its own on a `ShoonyaConnection`: `Built` replaces the instance, `Verified` or
`Rejected` follows its test quote; `Refused` is everything before.  Each actor may
have made a connection of its own; it is named after it, `current` is the one in
`app.state`.

| action | code |
|---|---|
| `BootAsks`, `BootLogsIn`, `BootSucceeds`, `BootFails`, `TimesOut` | the connection phase of `lifespan` |
| `Picks`, `Crashes`, `Retries`, `Rests`, `Refreshes`, `LoopSucceeds`, `LoopFails` | the supervisor, `schedule_daily_refresh`, `_auto_login` |
| `Pastes`, `Answers` | `POST /admin/shoonya/exchange-code` |
| `Opened`, `Dropped`, `Closed`, `Reconnected`, `NotReconnected` | `_on_open`; the websocket closes; `_on_close`/`_on_error` run, some time after it; the reconnect loop |

`StartFeed` is `ShoonyaOptionFeed.start` with what closing the old websocket does:
its callback runs not at all, before, or after the flag is reset.  `stuck` is the
instance for which `_on_open` waits when a login has replaced the one that opened: until
then the websocket's thread reports no close, and once the feed is started on that
instance it goes on and may report one late, to the newer websocket.  The lists it holds
are those of `OptionFeed`; here the tokens are left out, and waiting is a choice of
`Opened`.  `lost` is a history variable.  Browser automation is one step that may fail.

**`FundHistory`** is the daily job (`sync`, `backfill`, `daily`) with one coroutine
per scheme, and users who open charts.  A coroutine is a list of steps
(`Program`), with an await between any two; a step is one call to mfapi.in, one
statement, or one access to the file.  A file is the set of its dates, and
`Returns` the dates of the three NAVs `compute_trailing_returns` looks at.
`Sync` is one batch of the list, of any schemes, until all are listed.
`Fails` gives a coroutine up at any step, `Aborts` the job, `Restart` the process.
The cache in memory is an entry that may have expired at any time, so that a
chart may always write through.  `mixed` and `torn` are history variables.

Every module also has a few operators introduced by "A slip:".  No action uses
them: each is a plausible mistake in the definition after it (a dropped guard, a
missing decrement), against which the properties are tested.

## 3. The runs

`tlc -config <run>.cfg <module>.tla`, where the module is `MatchingLoop` for `loop`,
`MCRaces` for `concurrent` and `cascade`, `MCCashOrders` for `sequential`,
`MCTopUps`, `MCLiveOrders` (`live`, `live_cancel`), `MCMarginLedger` (`margin`,
`double_block`), `MCOptionChains`, `BrokerSession` and `MCFundHistory` for the others.

| run | question | states, time |
|---|---|---|
| `loop` | does the closed form of the allocation equal the loop? | 95k, 8 s |
| `concurrent` | what survives any interleaving of two handlers, with a crash, a failed INSERT, a modify, more shares offered than held, and little cash? | 395k, 70 s |
| `sequential` | does one handler at a time, over two modifies, with all stops on one side and no STOP BUY, keep the tables equal, fills paid, reservations exact and priority? | 133k, 15 s |
| `cascade` | two handlers whose transactions take turns: does every stop that a price has reached wake (liveness), when the trade of a triggered stop triggers the next, and is no pair of orders left waiting that could trade? | 64k, 30 s |
| `topups` | do top-ups implement the wallet promise, and is a payment credited? | 62k, 21 s |
| `live` | is a live order settled and refunded once and safely, also when its user cancels or amends it, and is every fill settled? | 274k, 50 s |
| `margin` | do two orders of a position, filled by two transactions, among ticks, cancels, the sweep and a failing call, keep margin, wallet and cached position consistent, and never wait for ever? | 102k, 75 s |
| `chains` | do two viewers of a chain and the fills of a position that share tokens keep their subscriptions, through dropped websockets, renewed sessions and restarts? | 1093k, 60 s |
| `session` | do logins at start-up, every morning and by hand, which fail, time out and overlap, bring the session back, and does the websocket follow? | 275k, 70 s |
| `funds` | do the daily job and a chart, with failing steps and restarts, keep points, returns and the queue of schemes right? | 132k, 45 s |
| `live_cancel`, `double_block` | the first two disagreements of section 6 | counterexamples |

### What the properties say

`WalletNeverNegative`, `SharesConserved`, `MatchedOnce`, `CancelledOnce` and
`CancelledStaysClosed` hold in every schedule of two handlers (`concurrent`); the last two
for clients that cancel and modify an order only after its own POST has answered
(`EagerClients = FALSE`, see below for the others).  `AllocationIsTheLoop`
ties the closed form of `MatchingEngine` to the code's loop.  `BookMirrorsOrders`,
`CancelledStaysUnfilled`, `FillsPrepaid`, `ReservationExact` hold when handlers do
not overlap (`sequential`), and say what the transactions achieve by themselves; each
is broken by a second worker, which is what section 6 and the notes below are about.
Two things break them without any overlap, and `sequential` leaves both out: a STOP
BUY, whose price the trigger replaces (section 6, 4 and 12), and stops on both sides
that one price wakes (section 6, 13); `CancelledStaysUnfilled` needs neither
exclusion.  `PriceTimePriority` is an action property: when a resting order trades in
a pass, every better one of the pass is used up.  `ReachedStopsTrigger` is about the
recursion, in two handlers at once.  `NothingLeftCrossed`: each order is entered (or
woken) by one transaction and matched by a later one, and only the passes of two orders
ever look at the pair; still, once the handlers are done, no pair is left that could
trade.  It holds for transactions that take turns; a pass that is refused a row marks its
order FAILED (section 6, 6).  A modify starts no pass, so that an amended order may well
cross another and rest: `cascade` has no modifies.  `KeepsPromise` is refinement;
`PaidInTimeIsCredited` is the liveness beside it.  `SettledIsFilled`, `RefundedOnce`,
`StatusTellsFills`, `RefundIsSafe` and `FillsAreSettled` are about live orders; the
last two speak of orders none of whose updates was lost, and `RefundIsSafe` of orders
their user has not cancelled (`live_cancel` shows why).  `StatusTellsFills` does not say
when an order that its user has amended counts as EXECUTED: the row then has another
quantity than the broker (section 6, 14).  `LedgerBalances` relates
three records of one sum of money through every interleaving, the rollbacks, the
sweep and failed calls included; it is also why the clamp at zero in
`release_order_margin` never hides a double release.  `ReadsAreCurrent` is what the
lock in Redis is for, `KeepsFills` what follows from it: no fill is lost from the
cached position, unless a transaction is rolled back after it was saved (Redis is
not), a lock expires under its holder, or the sweep, which does not take it, evicts
the position.  `MarginFollowsPosition` ties the margin of a position to its committed
fills, `CancelledHoldsNothing` the block of an order to its status.  `PassesFinish`:
a transaction that holds the wallet from its first fill waits for the lock in Redis
while its holder waits for the wallet; no one of the two has a timeout but the lock
itself, and that ends it.  `ViewersKeepTheirChain`: a stream looks a chain up, awaits
and then counts itself, twice over, while others leave and evict; yet whoever streams
looks at the cache that gets the ticks.  What makes it true is the hold each stream
takes too many and never gives back (section 6, 8): with one hold per stream, a
viewer that leaves between the look-up and the hold of another evicts the cache the
other streams from.  `CachedIsCounted` relates the two levels of counting, chains and
tokens, and the two users of the second; `QuietIsSubscribed` the counts and the
broker.  `ImplementsSocket` is the refinement that joins `BrokerSession` and
`OptionFeed`.  `ReconnectIsDue` is about the one flag three parties write: whenever
the websocket is down somebody is about to open it, or a login whose feed is still to be
started has left its thread waiting (without that case it is violated; with it, nothing
but `FeedFollowsSession` says that the start comes).  `SessionComesBack` and
`FeedFollowsSession` are liveness over everything that may fail a bounded number of
times.  `ReturnsMatch` ties the row to the file although four paths write them in
different orders, capped and uncapped; `PointsKept` is what "merge" promises;
`EveryoneIsJudged` says that a batch of the first schemes by code starves nobody.

### Behaviours that are not in a run of their own

* *Two workers and `ReservationExact`.*  The wallet delta of a modify and its
  reversal keep the reservation exact as long as modifies only raise it:
  `sequential.cfg` with `Workers <- TwoWorkers`, `Amendments <- UpOnly`,
  `SYMMETRY Symmetry` and this invariant alone passes with 746k states.

* *A second worker and `FillsPrepaid`.*  Besides the cancel of section 6, a modify
  will do: one that hands back cash reads the order, credits the wallet, and only
  then finds the order filled; between the credit and its reversal the fill is not
  paid for, and it stays so if the process ends there.  Reproduce: `sequential.cfg`
  with `Workers <- TwoWorkers`.
* *A reversal that is refused.*  `_reverse_wallet_delta` takes a credit back by a
  conditional debit and drops the result (`api/orders.py:703`); if another order
  has spent the money, the order keeps a smaller reservation than its value.
  Reproduce: `sequential.cfg` with `Workers <- TwoWorkers`,
  `InitialCash <- LowCash` and the invariant `ReservationExact` alone.
* *A cancelled order that comes back.*  A client that cancels from the order list
  before its own POST has answered makes the cancel run before the `order_book`
  INSERT, which is then made from the request in memory.  A stop revived this way
  is later triggered, which sets `orders.status` to PENDING again.  Reproduce:
  `concurrent.cfg` with `EagerClients = TRUE`: `CancelledStaysClosed` fails.
* *A webhook faster than the background INSERT.*  The UPDATE finds no row, the
  delivery is taken for a duplicate and dropped, and the payment is credited only
  if Razorpay delivers again later.  `PaidInTimeIsCredited` excludes it by its
  precondition.
* *A cancel that overtakes a margin check.*  A client that cancels while its POST
  is still checking margin makes `release_on_cancel` run before the block is made;
  the block of the cancelled order is never released.  Reproduce: `margin.cfg` with
  `EagerClients = TRUE`: `CancelledHoldsNothing` fails.
* *Two closing orders.*  Each is compared with the whole position, needs no margin,
  and together they turn it around: the margin is only made good by the
  reconciliation of the second fill, which does not compare it with the balance
  (`Reconcile` has no guard).
* *Two calls for a token at once.*  The last holder's unsubscription and the next
  one's subscription are sent after the lock is given back and may cross; the
  token then stays without ticks, or subscribed for nobody, until the next
  reconnection.  `QuietIsSubscribed` excludes such tokens by `crossed`.
* *Two writers of a file.*  A chart and the daily job read, merge and write the
  same Parquet file: the later one takes back the points of the earlier.
  `PointsKept` and `ReturnsMatch` exclude schemes while they are `mixed`; the next
  clean task of the scheme restores the returns, a backfill or chart the points.
* *Overlapping logins on one connection.*  A test quote made on one instance may
  vouch for another that replaced it meanwhile: `connected` is then TRUE for an
  instance whose own test was refused.  `BrokerSession` has it (`Verified`), and
  nothing in the code tells it from a good login before the next morning.
* *A late close.*  `_on_close` of a websocket that was replaced stops the one in
  use and schedules another reconnection (`Closed`); the churn ends when no close
  is late any more, which `FeedFollowsSession` shows.
* *A rollback after a fill was saved.*  Redis keeps the fill and the margin of the
  next one is computed from it: `KeepsFills` and `MarginFollowsPosition` exclude it
  by `mishaps`.

## 4. Bounds and fairness

* `MCCashOrders`: three orders, three users, two workers, and sets of three to six
  request bodies covering every order type, both sides, a NULL price, two sellers,
  and a seller with two orders.  Three orders are the least with which a pass meets
  two resting rows (priority, short sales).  `SequentialInit` keeps the stops on one
  side and leaves STOP BUYs out, as the theorems do (section 5); a STOPLIMIT BUY,
  which keeps its price, is among the requests.  A race needs two handlers; a third
  would only add another of the same.  Cash of 9 pays for everything, 6 for one and a
  half orders.
* `MCRaces`, for `concurrent`: four orders, the least with which two trades of two
  handlers reach the same dormant order (with three, `MatchedOnce` holds even if the
  trigger forgets to claim the order).  To keep it small the requests are fixed: a
  BUY of two, two SELLs of one, and a STOP BUY; with one modify the seller of two
  shares may offer four, and the buyer run out of cash.
* `MCRaces`, for `cascade`: five orders, the least with which a triggered stop
  trades at another price and thereby triggers a second stop; two fixed books, one
  of which rises and one of which falls.  Two workers, so that two handlers enter or wake
  orders that cross at the same time.  Nobody cancels, since a cancel only
  changes what a handler starts from.
* Both: `MaxAmends` bounds the modifies; two let one modify be stale with respect
  to the other.  Symmetry is used for invariants only, not with liveness.
  `CHECK_DEADLOCK FALSE`: when all orders are placed and done, the exchange is
  quiet.
* `MatchingLoop`: three rows (`Names`), prices 1, 2 and NULL, quantities up to 3: a row
  taken whole, in part, and not at all, before and after a tie in price.
* `MCTopUps`: two deposits of a user without a wallet, another user, three
  deliveries each: two that run side by side and a late one.
* `MCLiveOrders`: one order of three lots (partial fills of different sizes), one
  repeated update (a duplicate is told by the claim of its fill, however often it
  comes), amended to anything from one lot to four.  Orders share nothing but the queue of the event loop, and an
  update may wait in it for any time anyway.

* `MCMarginLedger`: a SELL of two lots and a BUY of one on a long position of one:
  the SELL closes and turns it around in one fill, or closes it in the first of
  two; the BUY closes half of what is then short.  Two transactions of up to two
  fills each, the least in which one holds the wallet and wants the lock in Redis.
  Two rates (a price that moves between block and fill) and two balances, one of
  which pays for one lot and not for all; at most one failing call (`MaxFaults`).

* `MCOptionChains`: one chain, of one token that is traded as well: every guard and
  every property is about one token at a time, and the proofs are for any of them; two
  viewers, the least with which one evicts what another has looked up; two
  threads, the least with which calls cross.  `MaxHolds` of 4 lets both viewers
  hold twice; `MaxApis` of 2 lets the session of each process be renewed once, so that
  calls and resubscriptions of an instance meet its successor; `MaxCaches` of 2 is not
  reached, since a chain is never evicted; `MaxCount` of 2 allows a second fill.  A
  process may be replaced any number of times.
* `session.cfg`: two failing steps wherever they happen, two codes pasted, two
  reconnect loops asleep at a time (`MaxLoops`; the code has no cap, and three occur
  without it: a close that would start another one waits until one of them wakes), one
  websocket lost, one morning with a session that is still good: the least with
  which both start-up logins fail, an overlap of two logins is followed by a
  third, and a close is reported after the start that replaced its websocket.
* `MCFundHistory`: two schemes, one of which mfapi.in knows and users open;
  batches of one, so that one scheme waits for the other; three days with every
  pattern of missing NAVs that leaves no gap longer than the buffer (`Publish`), so not a
  first and a third day without the second; a staleness of one day and a longest period of one,
  so that a scheme becomes dormant, is revived by a chart, and points leave the
  capped window; two failures.  With one viewer a chart overlaps the job, and with
  it any other writer.

Fairness.  `CashOrders`: weak fairness of `Step(w)`: a handler that has started
is run on by its thread; nothing is promised for clients.  `cascade` uses it
without crashes, written as `KeepsGoing`: a busy worker whose transactions nobody disturbs
can always go on, so this is the same as `WF_vars(Undisturbed(w))`, which TLC evaluates far
more slowly.  `TopUps`: background tasks run on, and the provider delivers a
webhook at least once.  `LiveOrders`: the event loop applies what it has
received; nothing is promised for the broker, the users, or the placing request,
so `FillsAreSettled` holds although the answer to a placement, or the write of
the broker id, may never come.  `MarginLedger`: strong fairness for each margin
check and each transaction, because they wait for locks that are free again and
again, and both locks are granted to a waiter some time (a spinning client of
Redis, the queue of a row lock); weak fairness for the tick handler, the end of
the sweep's transaction, and the expiry of a lock that is not given back; nothing
for clients, fills, ticks, faults or the start of the sweep.  `BrokerSession`: weak
fairness of every thread and coroutine (a login ends, `asyncio.sleep` ends, a close
is reported), strong fairness of `Opened`: a websocket that is tried again and
again is accepted some time; nothing for the administrator or for what breaks.
Failures are bounded, so "in the end some login succeeds" is shown for a broker
that does not refuse for ever, which is the least it needs.  `FundHistory`: weak
fairness of the job and of each coroutine's next step; nothing for users, days,
publications or faults.

## 5. What is proved

Every invariant and every action property of a passing run but
`NothingLeftCrossed`, and both refinements, are theorems: they hold for every value of the constants that the
modules' named ASSUMEs allow, that is for any number of orders, users, workers,
rows, deliveries, viewers, tokens, schemes and days.  Where a theorem has a
further hypothesis the table names it, and the text below says why it is needed.

| theorem | says | argument |
|---|---|---|
| `CashOrdersProofs!TypeCorrect` | `[]TypeOK` | `TypeOK` is inductive; the lemmas say what agendas, sums over finite sets and record updates return |
| `WalletSafe` | `[]WalletNeverNegative` | every debit is guarded by `Affordable`, every other change adds; for `Match` the credit of each user is a natural number by `Settles` |
| `SharesAreConserved` | `[]SharesConserved` | `DealBalances`: what a pass takes from its candidates is what the incoming order gets, so that the buyers' and the sellers' shares have the same sum; `Settles` leaves no seller short |
| `OrdersMatchOnce` | `[]MatchedOnce` | `OnceInv`: an order with a pass in an agenda has a row that is not dormant, no agenda has two passes for it, no two agendas have one each, and the worker that places an order has not inserted its row yet |
| `PriorityIsKept` | `PriceTimePriority` | of two rows of one pass the better is counted in what is taken before the worse: if the worse gets something, the better is used up |
| `CancelledAtMostOnce`, `CancelledForGood` (`~EagerClients`) | `[]CancelledOnce`, `[]CancelledStaysClosed` | `CancelInv`: a cancelled order is in no state that an UPDATE reopens (in particular `order_book` is not PENDING_TRIGGER), only placed orders have rows or jobs, and no job that still inserts rows is for a cancelled order |
| `CancelledUnfilled` (one worker) | `[]CancelledStaysUnfilled` | `AloneInv`: the two rows of an order agree unless it is marked FAILED, what is unfilled in either has not traded, and no pass is queued for a cancelled order |
| `BookMirrorsTheOrders` (one worker, `StopsOnOneSide`) | `[]BookMirrorsOrders` | with `AloneInv`, `StockInv`: the passes still to come have the price and the quantity of their rows |
| `ReservationIsExact` (one worker, `~Faults`, `NoStopBuys`) | `[]ReservationExact` | `ReservedInv`: a BUY holds what is `Due` while the one job runs (the new value from the charge of a modify on, the old one until the refund of a cancel), and the terms the job has read are still those of the row |
| `FillsArePrepaid` (all of these) | `[]FillsPrepaid` | the last two, and `WithinLimit`: no BUY trades above its price |
| `LoopIsTheAllocation` | `LoopSpec => []AllocationIsTheLoop` | `LoopInv`: the rows done with precede those waiting in the order of the SELECT, have what the closed form gives them, and `incoming_qty` is what they left |
| `TopUpsProofs!TypeCorrect`, `Implements` | `[]TypeOK`, `KeepsPromise` | `GateInv`: a delivery is past the gate only if the ledger says SUCCESS, at most one delivery of a deposit is past it, and a deposit one of whose deliveries is about to credit has not been credited; every step is an `Apply`, a `Take` or a stutter of `Wallets` |
| `LiveOrdersProofs!LiveTypeCorrect`, `RefundedAtMostOnce`, `StatusTells` | `[]TypeOK`, `[]RefundedOnce`, `[]StatusTellsFills` | `LiveInv`: while an order is PENDING nobody has refunded it or is about to; afterwards at most one of the placing request, the user and the event loop holds the refund, before the only one; and an order that was never amended is compared with the quantity it was placed with |
| `SettledWasFilled` | `[]SettledIsFilled` | `FillsInv`: the fills the broker has sent are intervals of lots apart from each other and within what it filled, and what is settled is as many lots as the claimed ones have together |
| `RefundsAreSafe` | `[]RefundIsSafe` | `SafeInv`: unless an update was lost, every fill sent is claimed, in hand, or ahead of the end of its order in the feed; a request cancels only what was never at the broker or was refused |
| `MarginLedgerProofs!TypesHold`, `CurrentReads` | `[]TypeOK`, `[]ReadsAreCurrent` | `LockInv`: until a lock expires or the sweep runs, whoever is between reading and writing the cached position holds its lock, so at most one is |
| `CancelReleases` (`~EagerClients`) | `[]CancelledHoldsNothing` | `CancelInv`: an order has no block before its margin check is done and is not CANCELLED before that, so no block can follow its release |
| `BooksBalance` | `[]LedgerBalances` | `LedgerInv`: the committed rows balance with the blocks, and so does the draft of whoever holds the rows; nothing is blocked for an order whose check is not done |
| `NoFillIsLost` | `[]KeepsFills` | `NetInv`: until a mishap the cached quantity is the one to start with, plus the sum of the fills committed, plus those of the open transactions; `SavedInv`: between the save and the reconciliation it is that of the transaction which saved |
| `MarginIsThePositions` | `[]MarginFollowsPosition` | `MarginInv`: a transaction with fills has the rows, and its draft has the margin of the quantity its commit will leave |
| `ChainsProofs!ChainTypeCorrect`, `StreamsStayLive` | `[]TypeOK`, `[]ViewersKeepTheirChain` | `ViewersInv`: the holders of a chain are at least the viewers counted once and those counted twice together, and each looks at the cache there is |
| `CachedStayCounted` | `[]CachedIsCounted` | `CountsInv`: the count of a token and the calls about to raise it cover its cached chains, the position of this process and the calls about to lower it |
| `QuietStaysSubscribed` | `[]QuietIsSubscribed` | `FeedInv`: a counted token is subscribed, or will be by a call under way or by `_on_open`, and no call under way ends that; conversely for one that is not counted |
| `SessionProofs!SessionTypeCorrect`, `SessionImplementsSocket`, `ReconnectionIsDue` | `[]TypeOK`, `ImplementsSocket`, `[]ReconnectIsDue` | `SessionInv`: whatever there is of a websocket (a feed, a close to be reported, a loop asleep) is there only after a login has built an instance, which is never taken away; the reconnect flag is only set while a loop sleeps; every step is a `Login`, a `Start`, an `Opens`, a `Drops` or a stutter of `FeedSocket` |
| `FundHistoryProofs!FundTypeCorrect`, `StoredReturnsMatch`, `StoredPointsKept` | `[]TypeOK`, `[]ReturnsMatch`, `PointsKept` | `FundInv`: the only task on a scheme has prepared what still fits the file (a series with all its points, capped or not, or their merge), and returns differ from those of the file only between the two writes of a task |

### Why the strengthening is needed

Apart from the types, `WalletNeverNegative` and the priority of a pass, no property is
inductive by itself.  `CancelledOnce` alone does not exclude
that a cancelled order is reopened by a trigger or by the INSERT of its own request,
and cancelled again; `MatchedOnce` alone not that a dormant order is triggered while
it has a pass; `RefundedOnce` alone not two refunds on their way; `SettledIsFilled`
alone not two claimed fills with a lot in common; `LedgerBalances` alone not a draft
that is about to be committed and does not balance; `CachedIsCounted` alone not a
queued release that takes the count of a chain; `QuietIsSubscribed` alone not a call
under way that ends a subscription; `ReconnectIsDue` alone not a flag left set with no
loop behind it, which would swallow the next close; `ReturnsMatch` alone not a task
that is about to write returns of a series it has not stored.

### What the hypotheses are for

* `~EagerClients`: a client that cancels an order whose POST has not answered
  overtakes its INSERT or its margin check ("A cancelled order that comes back", "A
  cancel that overtakes a margin check" in section 3).
* One worker (`OneHandler`): each of the four theorems is false for two (section 6,
  3, and section 3).  Any number of requests, modifies, triggers and cascades, and
  of crashes where `~Faults` is not asked for, remains.
* `~Faults`: a handler that dies between a debit and its order, or between a cancel
  and its refund, leaves a reservation that is not the value of an order.
* `NoStopBuys`: the trigger gives a STOP BUY the traded price in place of the one it
  was paid at (section 6, 4 and 12).
* `StopsOnOneSide`: a pass queued by the trigger has the quantity the trigger read,
  which a pass before it may have filled, if it was that of a stop of the other side
  (section 6, 13).  The last two are conditions on what is asked for, which TLC
  checks as part of `SequentialInit`.

The ASSUMEs ask for finite sets of users, orders, workers, transactions, chains,
viewers and callers, for natural numbers where the code has them (a quantity and a
deposit are at least 1, as the request models demand; so are the longest period of
returns and the batch of a backfill), and for names that differ; the bounds
(`MaxAmends`, `MaxFills`, `MaxDay` and the like) may be any numbers.

### How sums are reasoned about

What a wallet, a deal or a position adds up to is a fold over a finite set.  The
library's induction theorems take an operator as a parameter, which the provers cannot
instantiate; `SumLemmas` proves induction over the subsets of a finite set in the
form "a set of subsets that has the empty one, and with a set the set with one more
element, has them all", for which a *set* is all the parameter that is needed, and
from it what `SumFunctionOnSet` does when an element is added, a value is
changed, two functions are added, or the set is split into groups.

### Only model-checked

`NothingLeftCrossed`, which needs an invariant about the passes still to come of *both*
orders of every pair, over two handlers with stale quantities.  The liveness properties (`ReachedStopsTrigger`,
`PaidInTimeIsCredited`, `FillsAreSettled`, `PassesFinish`, `SessionComesBack`,
`FeedFollowsSession`, `EveryoneIsJudged`), which need fairness and ENABLED and are out of the
prover's reach.  The counterexamples (`NoUnfundedFill`, `FilledHoldsNothing`, and those
of section 6) are TLC's by nature.

## 6. What the code does otherwise than it says

1. **A live order can be cancelled and refunded and fill at the broker**
   (`live_cancel`).  The cancel endpoint refuses orders with a broker id, to
   prevent "a direct path to an unfunded real position"; but there is none until
   the broker has answered, and none at all after an uncertain answer.
2. **A filled order keeps its margin blocked** (`double_block`).  `reconcile_on_fill`
   releases the block of the order whose id is in the snapshot it is given
   (`service/marginengine/margin_engine.py:332`); no snapshot has one, so the block
   stays beside the margin of the position, which the class comment says "can never
   be double-blocked".

The next ones are properties stated in the modules that a small change of a
configuration violates.  Each says how: the configuration with its INVARIANT and
PROPERTY lines replaced by the one named.

3. **A cancelled order can still fill.**  The pass of a triggered or newly booked
   order trades with what is in memory.  Between the commit of its row and its
   pass the owner cancels and is refunded, and the order trades.
   `service/orderService.py:301` says a successful cancel is "always for an order
   with zero fills".  Reproduce: `sequential.cfg` with `Workers <- TwoWorkers`,
   `SYMMETRY Symmetry` and `INVARIANT CancelledStaysUnfilled`.
4. **A triggered STOP BUY is refunded another amount than it was debited.**  The
   trigger replaces the price in `orders`, the cancel refunds quantity times that
   price (`service/orderService.py:287` says it refunds "the cash debited at
   order-creation time").  Reproduce: `sequential.cfg` with `SPECIFICATION Spec`,
   `Requests <- StopRequests` and `INVARIANT RefundIsTheDebit`.
5. **No fill opens a position.**  For a position that is not cached `get_position`
   passes two values to a statement with three parameters
   (`queries/positions.yaml:1`), which raises; the margin check reads the same way.
   The same holds for a position that was closed and is to be opened again.
   `service/positionService.py:2` says that "Postgres is written on the fill that
   first opens a position".  Reproduce: `double_block.cfg` with
   `Positions <- Flat` and `INVARIANT FirstFillOpens`.
6. **A locked row fails the order.**  The persistence layer wraps every exception
   in a plain one, so the retry on `LockNotAvailable` in `_execute_matching` never
   happens; its log line (`service/executionEngine.py:311`) speaks of orders
   "queued".  Reproduce: `sequential.cfg` with `Workers <- TwoWorkers`,
   `Requests <- LimitRequests`, no SYMMETRY and `PROPERTY FailedForCause`.
7. **A failed order can still fill.**  The `order_book` row of an order whose pass
   failed stays matchable although the client was told "Failed to create order"
   (`api/orders.py:298`).  Reproduce: `sequential.cfg` with no SYMMETRY and
   `PROPERTY FailedStaysUnfilled`.
8. **A stream takes two holds and gives back one.**  The endpoint looks its chain up
   before the response starts and again inside it (`api/optionChain.py:103`), each
   look-up acquires, and only one release follows; a client that leaves early
   releases nothing.  The chain is never evicted and its tokens stay subscribed for
   the life of the process, while `service/optionChain/OptionChainService.py:59`
   speaks of unsubscribing with the last viewer.  A plain `GET` creates a chain that
   nobody holds at all.  `OptionChains` models it as it is; no property asks for
   eviction, since none would hold.
9. **A position of an earlier process takes the count of a chain.**  After a restart
   positions are still cached but not counted; the release at their close lowers a
   count that is the chain's, whose token is then unsubscribed
   (`marketengine/ShoonyaOptionFeed.py:10` says only when no active cache
   references it anymore).  Reproduce: `chains.cfg` with `INVARIANT NeverTaken`.
   Conversely a position counts once per fill
   (`service/positionTickService.py:62`) and is released once, so its token is never
   unsubscribed after more than one.
10. **A pasted code does not reach the feed.**  `exchange-code`
   (`marketengine/ShoonyaConnection.py:574`) replaces the instance and leaves the
   feed on the old one, until its websocket drops or the next morning; a code that
   is refused leaves the session disconnected until then, since the refresh loop
   sleeps.  `FeedFollowsSession` excludes it by `lost`, `SessionComesBack` holds
   because of the next morning.
11. **A scheme that counts as backfilled may have no history.**  A chart marks the
   row before it writes the file (`mutualfunds/service.py:156`); if that fails, or
   the process ends, the daily job only ever appends the NAV of the day.  Reproduce:
   `funds.cfg` with `INVARIANT BackfilledHasHistory`.
12. **A STOP BUY can fill for more than was paid.**  The same replaced price is the
   limit its pass trades at, so that one debited at a low price buys at a higher one
   and the sellers are credited what nobody paid, while
   `service/executionEngine.py:481` says "the buyer's wallet was already debited at
   order-creation time".  Reproduce: `sequential.cfg` with `SPECIFICATION Spec`,
   `Requests <- StopRequests` and `INVARIANT FillsPrepaid`.
13. **Opposing stops over-fill.**  One price wakes a STOP SELL and a STOP BUY; the
   pass of the first fills the second, whose own pass then offers the
   `remaining_quantity` the trigger read for it
   (`service/stopOrderTriggerService.py:97`) and trades it once more: of one share
   asked for two are bought, one of which was not paid for, and the row says nothing
   is left.  No second handler is needed.  Reproduce with `MCRaces`:
   `concurrent.cfg` with `SPECIFICATION OpposedSpec`, `Workers <- OneWorker`,
   `Requests <- OpposedRequests`, `Faults = FALSE`, no SYMMETRY, and `INVARIANT
   BookMirrorsOrders` or `INVARIANT FillsPrepaid`.
14. **A live order can be amended without the broker.**  The modify endpoint refuses
   orders with a broker id, since "modifying only the internal row would desync from
   the real resting order at the broker" (`api/orders.py:587`); as in 1, there is no id
   to see until the broker has answered.  The row and the debit then follow the
   amendment, the fills the quantity placed, and what a fill is compared with
   (`service/orderUpdateService.py:255`) is the row as it was read.  Reproduce:
   `live.cfg` with `INVARIANT QuantityIsTheBrokers`.

Met while reading, and not modelled: the upsert of a position names `ON CONFLICT
(user_id, tsym)`, while migration 0005 makes the primary key `(user_id, tsym,
product_type)`: a fill that closes a position would raise as well (`MarginLedger`
assumes the constraint the statement names); the conditional debit of a cash order
compares with `balance` and does not subtract `blocked_margin`.  If the login of the
start-up fails no feed is ever created (`app.py:267`), and a restart of the feed
that raises is only printed (`marketengine/ShoonyaConnection.py:586`).  The daily
sync appends the latest NAV only, so days on which it did not run stay missing (a
chart fills them); series with gaps longer than the boundary buffer give other
returns from a chart, which is not capped, than from the file;
`MFNavHistoryStorage.bulk_insert` says it overwrites and merges;
`mutualfunds/scheduler.py:13` calls a sweep every 15 minutes "well below" a time to
live of ten.

## 7. What is not modelled

* F&O orders in the *simulated* exchange as a composition of `CashOrders` and
  `MarginLedger`.  Ticks of the live feed that call `check_and_trigger` belong here:
  only options have them (`find_tsym_aliases_by_token`), cash equities have none.
* Several contracts or users behind one wallet in `MarginLedger`.
* The pools of threads: `positionTickService.py:48` has two workers, the default
  executor of the event loop a few.  A call on an instance that was replaced never
  returns (the library waits for its websocket without a limit), `wait_for` gives up
  the waiting and not the thread, and a job still queued when its waiter gives up is
  cancelled, so that its tokens are never counted.  `OptionFeed` has the stuck
  calls and assumes a free thread for the next one.
* What a chain's cache holds: legs, implied volatilities, generations.  (The snapshot
  `seed_leg` writes from REST may be older than a tick that came while it was
  fetched, although its comment has it "before ticks start arriving"; the next tick
  of the leg makes it good.)
* Black-Scholes, margin formulas, trailing returns as numbers: real-valued.
* Market data, candles, movers, sectors, dashboards: forwarding and reports without
  shared state that a schedule could disturb; a cache of one value, replaced whole,
  behind some of them.
* Curation, search and listing of mutual funds: one statement each, of columns
  nothing in `FundHistory` reads.  An entry of the cache that outlives a failed
  write-through delays its repetition by ten minutes.
* Authentication, entitlements, linking of broker accounts, scripts.

## 8. Plan

Done, in the order of importance: `MatchingEngine`, `MatchingLoop`, `CashOrders`;
`Wallets` and `TopUps` with the refinement; `LiveOrders`; `MarginLedger`;
`FeedSocket`, `OptionFeed` and `OptionChains`; `BrokerSession` with the refinement;
`FundHistory`; and the theorems of section 5, which state all but one safety property of the
runs.

Next theorems: what two handlers keep of `ReservationExact` (modifies that only raise
it, section 3) and of `FillsPrepaid` (nobody modifies or cancels); what a cancel
refunds at most, with any number of handlers; `KeepsFills` after a mishap (the cache
differs from the fills by no more than what was rolled back); that the closed form is
the only allocation with price-time priority that serves as much as crosses.

Next modules and compositions: the tick path from the websocket to a stream
(generations of a chain's cache); `MarginRates`, the calculators and the tiers of the
price resolver as pure operators in place of the set `Rates`; the wallets of
`CashOrders` against `Wallets`; `MarginLedger` with live orders; an abstract
specification of the position (a register with atomic fills) that `MarginLedger`
implements while no mishap occurs.
