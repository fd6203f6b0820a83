---------------------------- MODULE MarginLedger ----------------------------
(***************************************************************************)
(* One user's position in one F&O contract and the margin behind it: the   *)
(* position in Redis and its row in Postgres, wallets.blocked_margin, and  *)
(* the margin blocks of the orders.  Requests place and cancel orders,     *)
(* transactions (matching passes, or fills reported by the broker) fill    *)
(* them, ticks refresh the cached position, and the end-of-day sweep       *)
(* closes what has expired.                                                *)
(*                                                                         *)
(* Two kinds of lock are taken: the lock of the position in Redis, given   *)
(* back before the transaction ends, and the rows of the wallet and the    *)
(* position, kept until it ends.  A step is what happens between two of    *)
(* these.                                                                  *)
(***************************************************************************)
EXTENDS Integers, FiniteSets, FiniteSetsExt, Functions

CONSTANTS
  Orders,
  Lots,         \* signed quantity of every order: a SELL is negative
  Passes,       \* transactions that fill orders
  Ticks,        \* the handler of ticks, as a holder of the Redis lock
  Sweep,        \* the sweep, as a holder of rows
  Nobody,
  Contract,     \* "OPTION" or "FUTURES"
  Rates,        \* margin of one lot, at the prices there may be
  Balances,     \* wallets.balance, which others change, when it is read
  Positions,    \* net quantities to start with
  MaxFills,     \* bound: fills of the user's orders in one transaction
  EagerClients, \* whether an order is cancelled before its own POST is done
  MaxFaults,    \* bound: calls that fail
  Expiry        \* whether the contract has expired, and the sweep is run

Size(o) == IF Lots[o] < 0 THEN -Lots[o] ELSE Lots[o]

ASSUME LotsAssumption == Lots \in [Orders -> Int \ {0}]
ASSUME RatesAssumption == Rates \subseteq Nat \ {0} /\ Rates # {}
ASSUME ContractAssumption == Contract \in {"OPTION", "FUTURES"}
ASSUME BoundsAssumption ==
  Balances \subseteq Nat /\ MaxFills \in Nat \ {0} /\ MaxFaults \in Nat
ASSUME SwitchAssumption == {EagerClients, Expiry} \subseteq BOOLEAN
ASSUME PositionsAssumption == Positions \subseteq Int
ASSUME FiniteAssumption == IsFiniteSet(Orders) /\ IsFiniteSet(Passes)
ASSUME ActorsAssumption ==
  /\ Orders \cap Passes = {}
  /\ {Ticks, Sweep, Nobody} \cap (Orders \cup Passes) = {}
  /\ Nobody # Ticks /\ Nobody # Sweep /\ Ticks # Sweep
  /\ Orders # {}

VARIABLES
  cache,      \* net quantity of the position in Redis; 0: nothing cached
  lock,       \* holder of the lock of the position in Redis
  books,      \* positions.status, positions and wallets.blocked_margin
  ledger,     \* who has locked these rows
  draft,      \* what their holder has written, and not committed
  order,      \* orders.status, and how far the request that places it is
  block,      \* blocked_amount of the order's ACTIVE margin block, or 0
  releasing,  \* cancelled orders whose block is still to be released
  filled,     \* lots filled, committed
  pass,       \* how far a transaction is, and what it has filled
  tick,       \* net quantity a tick has read, 0 when none is at work
  sweep,      \* how far the sweep is
  held,       \* history variable: the position to start with
  faults,     \* how many calls have failed
  mishaps     \* history variable: what went wrong so far

vars == <<cache, lock, books, ledger, draft, order, block, releasing, filled,
          pass, tick, sweep, held, faults, mishaps>>

requests == <<order, block, releasing>>
history == <<held, faults, mishaps>>

Books == [open : BOOLEAN, margin : Nat, blocked : Nat]
NoDraft == [open |-> FALSE, margin |-> 0, blocked |-> 0]
NoFills == [o \in Orders |-> 0]
Requests == [status : {"none", "PENDING", "CANCELLED"},
             at : {"new", "lock", "read", "block", "done"}, opening : Nat]
Transactions ==
  [at : {"off", "lock", "read", "save", "reconcile", "credit", "settled"},
   order : Orders, lots : Nat, seen : Int,
   fills : [Orders -> Nat], count : 0..MaxFills]

TypeOK ==
  /\ cache \in Int /\ tick \in Int /\ held \in Int
  /\ lock \in Orders \cup Passes \cup {Ticks, Nobody}
  /\ ledger \in Passes \cup {Sweep, Nobody}
  /\ books \in Books /\ draft \in Books
  /\ order \in [Orders -> Requests]
  /\ block \in [Orders -> Nat] /\ releasing \subseteq Orders
  /\ filled \in [Orders -> Nat]
  /\ pass \in [Passes -> Transactions]
  /\ sweep \in {"off", "listed", "closed", "done"}
  /\ faults \in 0..MaxFaults
  /\ mishaps \subseteq {"rollback", "expiry", "skip", "sweep", "unreleased"}

\* Margin of a position: a long option was paid for, and needs none.
Required(n, rate) ==
  CASE n < 0 -> rate * (-n)
    [] n > 0 /\ Contract = "FUTURES" -> rate * n
    [] OTHER -> 0

Idle == [at |-> "off", order |-> CHOOSE o \in Orders : TRUE, lots |-> 0,
         seen |-> 0, fills |-> NoFills, count |-> 0]

\* An open position is cached, and has its row and its margin.
Init ==
  /\ held \in Positions /\ cache = held
  /\ \E rate \in Rates : LET need == Required(held, rate) IN
       books = [open |-> held # 0, margin |-> need, blocked |-> need]
  /\ draft = NoDraft /\ ledger = Nobody /\ lock = Nobody
  /\ order = [o \in Orders |->
                [status |-> "none", at |-> "new", opening |-> 0]]
  /\ block = NoFills /\ releasing = {} /\ filled = NoFills
  /\ pass = [p \in Passes |-> Idle]
  /\ tick = 0 /\ sweep = "off" /\ faults = 0 /\ mishaps = {}

-----------------------------------------------------------------------------
\* The locks

\* A slip: nobody waits for the lock.
LockAnyway == TRUE

LockIsFree == lock = Nobody
Take(actor) == LockIsFree /\ lock' = actor
\* Releasing a lock that has expired, or is another's by now, does nothing.
GiveBack(actor) == lock' = IF lock = actor THEN Nobody ELSE lock

\* The transaction ends.
GiveUpRows(actor) ==
  /\ ledger' = IF ledger = actor THEN Nobody ELSE ledger
  /\ draft' = IF ledger = actor THEN NoDraft ELSE draft
RowsFree(actor) == ledger \in {Nobody, actor}
Rows(actor) == IF ledger = actor THEN draft ELSE books

\* A slip: the closing part of an order is not capped by its size.
Unclamped(n) == n

\* max(0, n)
Clamp(n) == IF n < 0 THEN 0 ELSE n

-----------------------------------------------------------------------------
\* Placing: _create_order_row_with_checks and MarginEngine.check_and_block

MarginRequired(o) == Contract = "FUTURES" \/ Lots[o] < 0

\* The part of an order that does not reduce the position.
Opening(o, net) ==
  IF net * Lots[o] >= 0 THEN Size(o)
  ELSE Clamp(Size(o) - (IF net < 0 THEN -net ELSE net))

At(o, where) == order' = [order EXCEPT ![o].at = where]
\* _cancel_after_margin_failure
Refused(o) ==
  order' = [order EXCEPT ![o] =
              [status |-> "CANCELLED", at |-> "done", opening |-> 0]]

Place(o) ==
  /\ order[o].at = "new"
  /\ order' = [order EXCEPT ![o].status = "PENDING",
                 ![o].at = IF MarginRequired(o) THEN "lock" ELSE "done"]
  /\ UNCHANGED <<cache, lock, books, ledger, draft, block, releasing, filled,
                 pass, tick, sweep, history>>

CheckLocks(o) ==
  /\ order[o].at = "lock" /\ Take(o) /\ At(o, "read")
  /\ UNCHANGED <<cache, books, ledger, draft, block, releasing, filled,
                 pass, tick, sweep, history>>

\* What is not cached is looked up in Postgres, with a statement that has
\* three parameters and is given two: this raises.
Unknown == cache = 0

CheckReads(o) ==
  /\ order[o].at = "read"
  /\ IF Unknown THEN Refused(o) /\ GiveBack(o)
     ELSE IF Opening(o, cache) = 0 THEN At(o, "done") /\ GiveBack(o)
     ELSE /\ order' = [order EXCEPT ![o].at = "block",
                                    ![o].opening = Opening(o, cache)]
          /\ UNCHANGED lock
  /\ UNCHANGED <<cache, books, ledger, draft, block, releasing, filled,
                 pass, tick, sweep, history>>

\* block_order_margin: the block's row, and the wallet's total.
BlockMargin(o, need) ==
  /\ block' = [block EXCEPT ![o] = need]
  /\ books' = [books EXCEPT !.blocked = @ + need]

CheckBlocks(o) ==
  /\ order[o].at = "block" /\ RowsFree(o) /\ GiveBack(o)
  /\ \E rate \in Rates, balance \in Balances :
     LET need == rate * order[o].opening IN
       IF balance - books.blocked < need
       THEN Refused(o) /\ UNCHANGED <<books, block>>
       ELSE /\ order' = [order EXCEPT ![o].at = "done", ![o].opening = 0]
            /\ BlockMargin(o, need)
  /\ UNCHANGED <<cache, ledger, draft, releasing, filled, pass, tick, sweep,
                 history>>

Fault == faults < MaxFaults /\ faults' = faults + 1

\* No price, no connection, no wallet.
CheckFails(o) ==
  /\ Fault /\ order[o].at \in {"lock", "read", "block"}
  /\ Refused(o) /\ GiveBack(o)
  /\ UNCHANGED <<cache, books, ledger, draft, block, releasing, filled,
                 pass, tick, sweep, held, mishaps>>

-----------------------------------------------------------------------------
\* Cancelling

InHand(p, o) ==
  /\ pass[p].at # "off"
  /\ pass[p].order = o \/ pass[p].fills[o] > 0

\* A slip: only cash is given back when an order is cancelled.
CashOnly(o) == releasing

ToRelease(o) == releasing \cup {o}

\* The guarded UPDATE, in the way of which a pass that fills the order is.
Cancel(o) ==
  /\ order[o].status = "PENDING" /\ filled[o] = 0
  /\ EagerClients \/ order[o].at = "done"
  /\ \A p \in Passes : ~InHand(p, o)
  /\ order' = [order EXCEPT ![o].status = "CANCELLED"]
  /\ releasing' = ToRelease(o)
  /\ UNCHANGED <<cache, lock, books, ledger, draft, block, filled, pass,
                 tick, sweep, history>>

\* release_on_cancel: a transaction of its own, without the Redis lock
Release(o) ==
  /\ o \in releasing /\ releasing' = releasing \ {o}
  /\ RowsFree(o)
  /\ block' = [block EXCEPT ![o] = 0]
  /\ books' = [books EXCEPT !.blocked = Clamp(@ - block[o])]
  /\ UNCHANGED <<cache, lock, ledger, draft, order, filled, pass, tick,
                 sweep, history>>

\* Logged: the cancel has succeeded.
ReleaseFails(o) ==
  /\ Fault /\ o \in releasing /\ releasing' = releasing \ {o}
  /\ mishaps' = mishaps \cup {"unreleased"}
  /\ UNCHANGED <<cache, lock, books, ledger, draft, order, block, filled,
                 pass, tick, sweep, held>>

-----------------------------------------------------------------------------
\* Filling: TradeSettlementService.settle_fill, PositionService.apply_fill and
\* MarginEngine.reconcile_on_fill, for each fill of a transaction

Fresh(p) == [pass EXCEPT ![p] = Idle]
Signed(o, n) == IF Lots[o] < 0 THEN -n ELSE n
NewNet(p) == pass[p].seen + Signed(pass[p].order, pass[p].lots)
Step(p, from, to) ==
  pass[p].at = from /\ pass' = [pass EXCEPT ![p].at = to]

Left(p, o) == Size(o) - filled[o] - pass[p].fills[o]

Matched(p, o, n) == [pass[p] EXCEPT !.at = "lock", !.order = o, !.lots = n,
                                    !.count = @ + 1]

\* The next trade: the rows of a pass are of one side, and locked by it.
Trade(p) ==
  /\ pass[p].at \in {"off", "settled"} /\ pass[p].count < MaxFills
  /\ \E o \in Orders : \E n \in 1..Left(p, o) :
       /\ order[o].status = "PENDING" /\ order[o].at = "done"
       /\ \A q \in Passes \ {p} : ~InHand(q, o)
       /\ \A x \in Orders :
            pass[p].fills[x] > 0 => (Lots[x] < 0 <=> Lots[o] < 0)
       /\ pass' = [pass EXCEPT ![p] = Matched(p, o, n)]
  /\ UNCHANGED <<cache, lock, books, ledger, draft, requests, filled, tick,
                 sweep, history>>

FillLocks(p) ==
  /\ Step(p, "lock", "read") /\ Take(p)
  /\ UNCHANGED <<cache, books, ledger, draft, requests, filled, tick, sweep,
                 history>>

FillReads(p) ==
  /\ pass[p].at = "read" /\ ~Unknown
  /\ pass' = [pass EXCEPT ![p].at = "save", ![p].seen = cache]
  /\ UNCHANGED <<cache, lock, books, ledger, draft, requests, filled, tick,
                 sweep, history>>

\* An open position is written to Redis, and nowhere else.
FillSaves(p) ==
  /\ NewNet(p) # 0 /\ cache' = NewNet(p) /\ Step(p, "save", "reconcile")
  /\ UNCHANGED <<lock, books, ledger, draft, requests, filled, tick, sweep,
                 history>>

\* upsert_position of a position that has netqty 0
ClosedRow(rows) == [rows EXCEPT !.open = FALSE]

\* A closed one is written to its row, which is waited for, and evicted.
FillCloses(p) ==
  /\ NewNet(p) = 0 /\ RowsFree(p) /\ Step(p, "save", "reconcile")
  /\ ledger' = p /\ draft' = ClosedRow(Rows(p))
  /\ cache' = 0
  /\ UNCHANGED <<lock, books, requests, filled, tick, sweep, history>>

\* A slip: the margin of the position is added, never replaced.
WalletAdded(rows, need) == Clamp(rows.blocked + need)

WalletAfter(rows, need) == Clamp(rows.blocked + (need - rows.margin))

\* A slip: the margin is that of the position before the fill.
NetBefore(p) == pass[p].seen

NetForMargin(p) == NewNet(p)

\* Not one of the snapshots has the id of the order: its block stays.
ReleasedByFill(p) == block

FillsWith(p) ==
  [pass[p].fills EXCEPT ![pass[p].order] = @ + pass[p].lots]
Settled(p, next) ==
  pass' = [pass EXCEPT ![p] = [@ EXCEPT !.at = next, !.lots = 0, !.seen = 0,
                                        !.fills = FillsWith(p)]]

Reconcile(p) ==
  /\ pass[p].at = "reconcile" /\ Settled(p, "settled")
  /\ RowsFree(p) /\ ledger' = p /\ GiveBack(p)
  /\ \E rate \in Rates : LET need == Required(NetForMargin(p), rate) IN
       draft' = [Rows(p) EXCEPT !.margin = need,
                                !.blocked = WalletAfter(Rows(p), need)]
  /\ block' = ReleasedByFill(p)
  /\ UNCHANGED <<cache, books, order, releasing, filled, tick, sweep, history>>

\* A MarginEngineError, for want of a price, is logged; the fill goes on.
ReconcileSkipped(p) ==
  /\ Fault /\ pass[p].at = "reconcile" /\ GiveBack(p)
  /\ Settled(p, IF Lots[pass[p].order] < 0 THEN "credit" ELSE "settled")
  /\ mishaps' = mishaps \cup {"skip"}
  /\ UNCHANGED <<cache, books, ledger, draft, requests, filled, tick, sweep,
                 held>>

\* The seller is paid, which locks the wallet if nothing has before.
Credit(p) ==
  /\ Step(p, "credit", "settled") /\ RowsFree(p)
  /\ ledger' = p /\ draft' = Rows(p)
  /\ UNCHANGED <<cache, lock, books, requests, filled, tick, sweep, history>>

Commit(p) ==
  /\ pass[p].at = "settled" /\ pass' = Fresh(p)
  /\ filled' = [o \in Orders |-> filled[o] + pass[p].fills[o]]
  /\ books' = Rows(p) /\ GiveUpRows(p)
  /\ UNCHANGED <<cache, lock, requests, tick, sweep, history>>

\* The position in Redis is not rolled back with the rest.
RollBack(p) ==
  /\ pass' = Fresh(p) /\ GiveBack(p) /\ GiveUpRows(p)
  /\ mishaps' = IF pass[p].at = "reconcile" \/ pass[p].fills # NoFills
                THEN mishaps \cup {"rollback"} ELSE mishaps
  /\ UNCHANGED <<cache, books, requests, filled, tick, sweep, held>>

\* apply_fill raises when the position is not cached.
FillRaises(p) ==
  pass[p].at = "read" /\ Unknown /\ RollBack(p) /\ UNCHANGED faults

PassFails(p) == pass[p].at # "off" /\ RollBack(p) /\ Fault

\* A slip: the lock has no time to live.
NeverStalled == FALSE

\* The holder of the Redis lock waits for rows, for which there is no limit.
Stalled ==
  \/ \E o \in Orders : lock = o /\ order[o].at = "block" /\ ~RowsFree(o)
  \/ \E p \in Passes :
       /\ lock = p /\ ~RowsFree(p)
       /\ pass[p].at = "reconcile" \/ (pass[p].at = "save" /\ NewNet(p) = 0)

Expire ==
  /\ Stalled /\ lock' = Nobody /\ mishaps' = mishaps \cup {"expiry"}
  /\ UNCHANGED <<cache, books, ledger, draft, requests, filled, pass, tick,
                 sweep, held, faults>>

-----------------------------------------------------------------------------
\* Ticks: PositionCache.apply_tick rewrites the whole cached position.

TickReads ==
  /\ tick = 0 /\ cache # 0 /\ Take(Ticks) /\ tick' = cache
  /\ UNCHANGED <<cache, books, ledger, draft, requests, filled, pass, sweep,
                 history>>

TickWrites ==
  /\ tick # 0 /\ cache' = tick /\ tick' = 0 /\ GiveBack(Ticks)
  /\ UNCHANGED <<books, ledger, draft, requests, filled, pass, sweep, history>>

-----------------------------------------------------------------------------
\* EodMarginSweepService: without the Redis lock

SweepLists ==
  /\ Expiry /\ sweep = "off"
  /\ sweep' = IF books.open THEN "listed" ELSE "done"
  /\ UNCHANGED <<cache, lock, books, ledger, draft, requests, filled, pass,
                 tick, history>>

\* The margin is released; the position is closed if it is still open and a
\* price for it is found.
SweepCloses ==
  /\ sweep = "listed" /\ RowsFree(Sweep) /\ ledger' = Sweep
  /\ LET released == [books EXCEPT !.margin = 0,
                                   !.blocked = WalletAfter(books, 0)] IN
       \/ /\ books.open /\ cache' = 0
          /\ draft' = ClosedRow(released)
       \/ cache' = cache /\ draft' = released
  /\ sweep' = "closed" /\ mishaps' = mishaps \cup {"sweep"}
  /\ UNCHANGED <<lock, books, requests, filled, pass, tick, held, faults>>

\* The commit, or a rollback after a failure.
SweepEnds ==
  /\ sweep = "closed" /\ sweep' = "done" /\ GiveUpRows(Sweep)
  /\ \/ books' = draft /\ UNCHANGED faults
     \/ books' = books /\ Fault
  /\ UNCHANGED <<cache, lock, requests, filled, pass, tick, held, mishaps>>

-----------------------------------------------------------------------------
Checks(o) == CheckLocks(o) \/ CheckReads(o) \/ CheckBlocks(o)
Request(o) == Place(o) \/ CheckFails(o) \/ Cancel(o) \/ Release(o) \/ ReleaseFails(o)
Fills(p) ==
  \/ FillLocks(p) \/ FillReads(p) \/ FillSaves(p) \/ FillCloses(p)
  \/ Reconcile(p) \/ Credit(p) \/ Commit(p) \/ FillRaises(p)
Feed == TickReads \/ TickWrites
EndOfDay == SweepLists \/ SweepCloses \/ SweepEnds

Next ==
  \/ \E o \in Orders : Request(o) \/ Checks(o)
  \/ \E p \in Passes : Trade(p) \/ Fills(p) \/ ReconcileSkipped(p) \/ PassFails(p)
  \/ Expire \/ Feed \/ EndOfDay

Spec == Init /\ [][Next]_vars

\* Threads run on; whoever waits for a lock is served some time; a time to
\* live runs out.
FairSpec ==
  /\ Spec /\ WF_vars(Expire) /\ WF_vars(TickWrites) /\ WF_vars(SweepEnds)
  /\ \A o \in Orders : SF_vars(Checks(o))
  /\ \A p \in Passes : SF_vars(Fills(p))

-----------------------------------------------------------------------------
\* reconcile_position_margin and the block of an order change two records of
\* the same money: through all interleavings what the wallet has blocked is
\* what the orders' blocks and the position have, so blocked_margin is never
\* clamped at 0, which would hide a double release.
LedgerBalances == books.blocked = books.margin + SumFunction(block)

\* What was filled in transactions that have not been undone
SignedSum(fills) == SumFunction([o \in Orders |-> Signed(o, fills[o])])
Saved(p) ==
  SignedSum(pass[p].fills)
    + (IF pass[p].at = "reconcile" THEN Signed(pass[p].order, pass[p].lots) ELSE 0)
Net ==
  held + SignedSum(filled) + SumFunction([p \in Passes |-> Saved(p)])

\* PositionCache.lock: fills and ticks of one position do not clobber each
\* other, although each reads, waits, and writes the whole of it.
KeepsFills == mishaps \cap {"rollback", "expiry", "sweep"} = {} => cache = Net

\* The reason: whoever writes the cached position back writes it over what it
\* has read, until a lock expires or the sweep, which takes none, evicts it.
ReadsAreCurrent ==
  mishaps \cap {"expiry", "sweep"} = {} =>
    /\ \A p \in Passes : pass[p].at = "save" => pass[p].seen = cache
    /\ tick # 0 => tick = cache

\* reconcile_on_fill: when the books are at rest, the margin is that of the
\* quantity that committed fills have left, at some price.
MarginFollowsPosition ==
  mishaps \subseteq {"unreleased"} =>
    \E rate \in Rates :
      books.margin = Required(held + SignedSum(filled), rate)

\* release_on_cancel: a cancelled order has given its margin back.
CancelledHoldsNothing ==
  \A o \in Orders :
    /\ order[o].status = "CANCELLED" /\ o \notin releasing
    /\ "unreleased" \notin mishaps
    => block[o] = 0

\* A transaction that holds the wallet and wants the Redis lock, and a holder
\* of the Redis lock that wants the wallet, do not wait for each other for ever.
PassesFinish == \A p \in Passes : pass[p].at # "off" ~> pass[p].at = "off"

\* margin_engine.py:10: the block of an order is released "once" by its fills,
\* so that it "can never be double-blocked" beside the position's margin.
FilledHoldsNothing ==
  \A o \in Orders : filled[o] = Size(o) => block[o] = 0

\* positionService.py:2: the first fill of a position opens it.
FirstFillOpens == \A p \in Passes : ~(pass[p].at = "read" /\ Unknown)
=============================================================================
