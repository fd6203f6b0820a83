------------------------- MODULE MarginLedgerProofs -------------------------
(***************************************************************************)
(* MarginLedger for any orders, transactions, rates and bounds: the types; *)
(* that cached positions are written over what was read, and keep every    *)
(* fill; that what the wallet has blocked is the margin of the position    *)
(* and of the orders' blocks; that the margin of the position follows its  *)
(* fills; and that cancelled orders give their margin back.                *)
(*                                                                         *)
(* What a wallet has blocked is a sum over the orders, what a position has *)
(* become a sum over orders and transactions: SumLemmas says how such a    *)
(* sum moves when one of its parts does.                                   *)
(***************************************************************************)
EXTENDS MarginLedger, SumLemmas

USE LotsAssumption, RatesAssumption, ContractAssumption, BoundsAssumption,
    SwitchAssumption, PositionsAssumption, FiniteAssumption,
    ActorsAssumption

-----------------------------------------------------------------------------
\* Arithmetic

LEMMA Products == \A m, n \in Nat : m * n \in Nat
  OBVIOUS

LEMMA ClampIsNat == \A n \in Int : Clamp(n) \in Nat
  BY DEF Clamp

\* The lots of an order are counted up, and its signed quantity down or up.
LEMMA Sizes ==
  ASSUME NEW o \in Orders
  PROVE  /\ Size(o) \in Nat /\ Lots[o] \in Int
         /\ \A n \in Nat : Signed(o, n) \in Int
         /\ \A net \in Int : Opening(o, net) \in Nat
<1>1. Lots[o] \in Int
  OBVIOUS
<1>2. Size(o) \in Nat
  BY <1>1 DEF Size
<1>3. \A n \in Nat : Signed(o, n) \in Int
  BY <1>1 DEF Signed
<1>4. ASSUME NEW net \in Int
      PROVE  Opening(o, net) \in Nat
  BY <1>2, ClampIsNat DEF Opening
<1> QED BY <1>1, <1>2, <1>3, <1>4

LEMMA RequiredIsNat ==
  ASSUME NEW n \in Int, NEW rate \in Rates
  PROVE  Required(n, rate) \in Nat
<1>1. rate \in Nat
  OBVIOUS
<1>2. CASE n < 0
  <2>1. -n \in Nat
    BY <1>2
  <2>2. rate * (-n) \in Nat
    BY <1>1, <2>1, Products
  <2> QED BY <1>2, <2>2 DEF Required
<1>3. CASE n >= 0
  <2>1. rate * n \in Nat
    BY <1>1, <1>3, Products
  <2> QED BY <1>3, <2>1 DEF Required
<1> QED BY <1>2, <1>3

-----------------------------------------------------------------------------
\* What the fields of the records are, and that writes to them keep the types

LEMMA Fields ==
  ASSUME TypeOK
  PROVE  /\ \A o \in Orders : /\ order[o] \in Requests
                              /\ order[o].opening \in Nat
                              /\ block[o] \in Nat
         /\ \A p \in Passes : /\ pass[p] \in Transactions
                              /\ pass[p].order \in Orders
                              /\ pass[p].lots \in Nat
                              /\ pass[p].seen \in Int
                              /\ pass[p].count \in 0..MaxFills
                              /\ pass[p].fills \in [Orders -> Nat]
         /\ books.margin \in Nat /\ books.blocked \in Nat
         /\ draft.margin \in Nat /\ draft.blocked \in Nat
         /\ NoDraft \in Books
  BY DEF TypeOK, Requests, Transactions, Books, NoDraft

LEMMA IdleIsTransaction == Idle \in Transactions
<1>1. (CHOOSE o \in Orders : TRUE) \in Orders
  OBVIOUS
<1>2. NoFills \in [Orders -> Nat]
  BY DEF NoFills
<1> QED BY <1>1, <1>2 DEF Idle, Transactions

LEMMA RowsAreBooks ==
  ASSUME TypeOK, NEW a
  PROVE  /\ Rows(a) \in Books
         /\ Rows(a).margin \in Nat /\ Rows(a).blocked \in Nat
<1>1. Rows(a) \in Books
  BY DEF Rows, TypeOK
<1> QED BY <1>1 DEF Books

LEMMA EndsOfTransactions ==
  ASSUME TypeOK, NEW a, GiveUpRows(a)
  PROVE  /\ ledger' \in Passes \cup {Sweep, Nobody} /\ draft' \in Books
  BY Fields DEF GiveUpRows, TypeOK

LEMMA LocksGivenBack ==
  ASSUME TypeOK, NEW a, GiveBack(a)
  PROVE  lock' \in Orders \cup Passes \cup {Ticks, Nobody}
  BY DEF GiveBack, TypeOK

LEMMA RequestsWritten ==
  ASSUME TypeOK, NEW o \in Orders
  PROVE  /\ Refused(o) => order' \in [Orders -> Requests]
         /\ \A a \in {"lock", "read", "block", "done"} :
              At(o, a) => order' \in [Orders -> Requests]
         /\ \A s \in {"PENDING", "CANCELLED"} :
              [order EXCEPT ![o].status = s] \in [Orders -> Requests]
         /\ \A a \in {"lock", "read", "block", "done"} :
              [order EXCEPT ![o].status = "PENDING", ![o].at = a]
                \in [Orders -> Requests]
         /\ \A a \in {"block", "done"}, n \in Nat :
              [order EXCEPT ![o].at = a, ![o].opening = n]
                \in [Orders -> Requests]
<1>1. order \in [Orders -> Requests]
  BY DEF TypeOK
<1>2. \A r \in Requests : [order EXCEPT ![o] = r] \in [Orders -> Requests]
  BY <1>1
<1>3. Refused(o) => order' \in [Orders -> Requests]
  BY <1>1 DEF Refused, Requests
<1>4. ASSUME NEW a \in {"lock", "read", "block", "done"}, At(o, a)
      PROVE  order' \in [Orders -> Requests]
  BY <1>1, <1>4 DEF At, Requests
<1>5. ASSUME NEW s \in {"PENDING", "CANCELLED"}
      PROVE  [order EXCEPT ![o].status = s] \in [Orders -> Requests]
  BY <1>1 DEF Requests
<1>6. ASSUME NEW a \in {"lock", "read", "block", "done"}
      PROVE  [order EXCEPT ![o].status = "PENDING", ![o].at = a]
               \in [Orders -> Requests]
  <2> DEFINE r == [order[o] EXCEPT !.status = "PENDING", !.at = a]
  <2>1. r \in Requests
    BY <1>1 DEF Requests
  <2>2. [order EXCEPT ![o].status = "PENDING", ![o].at = a]
          = [order EXCEPT ![o] = r]
    BY <1>1 DEF Requests
  <2> HIDE DEF r
  <2> QED BY <1>2, <2>1, <2>2
<1>7. ASSUME NEW a \in {"block", "done"}, NEW n \in Nat
      PROVE  [order EXCEPT ![o].at = a, ![o].opening = n]
               \in [Orders -> Requests]
  <2> DEFINE r == [order[o] EXCEPT !.at = a, !.opening = n]
  <2>1. r \in Requests
    BY <1>1 DEF Requests
  <2>2. [order EXCEPT ![o].at = a, ![o].opening = n] = [order EXCEPT ![o] = r]
    BY <1>1 DEF Requests
  <2> HIDE DEF r
  <2> QED BY <1>2, <2>1, <2>2
<1> QED BY <1>3, <1>4, <1>5, <1>6, <1>7

LEMMA StepsWritten ==
  ASSUME TypeOK, NEW p \in Passes, NEW from,
         NEW to \in {"off", "lock", "read", "save", "reconcile", "credit",
                     "settled"}
  PROVE  Step(p, from, to) => pass' \in [Passes -> Transactions]
  BY DEF TypeOK, Transactions, Step

LEMMA TransactionsSettled ==
  ASSUME NEW t \in Transactions, NEW f \in [Orders -> Nat],
         NEW to \in {"credit", "settled"}
  PROVE  [t EXCEPT !.at = to, !.lots = 0, !.seen = 0, !.fills = f]
           \in Transactions
<1> DEFINE t1 == [t EXCEPT !.at = to, !.lots = 0]
           t2 == [t1 EXCEPT !.seen = 0]
           t3 == [t2 EXCEPT !.fills = f]
<1>1. t1 \in Transactions
  BY DEF Transactions
<1>2. [t EXCEPT !.at = to, !.lots = 0, !.seen = 0, !.fills = f] = t3
  OBVIOUS
<1> HIDE DEF t1
<1>3. t2 \in Transactions
  BY <1>1 DEF Transactions
<1> HIDE DEF t2
<1>4. t3 \in Transactions
  BY <1>3 DEF Transactions
<1> QED BY <1>2, <1>4

LEMMA TransactionsTaken ==
  ASSUME NEW t \in Transactions, NEW o \in Orders, NEW n \in Nat,
         t.count + 1 \in 0..MaxFills
  PROVE  [t EXCEPT !.at = "lock", !.order = o, !.lots = n, !.count = @ + 1]
           \in Transactions
<1> DEFINE t1 == [t EXCEPT !.at = "lock", !.order = o]
           t2 == [t1 EXCEPT !.lots = n]
           t3 == [t2 EXCEPT !.count = t.count + 1]
<1>1. t1 \in Transactions
  BY DEF Transactions
<1>2. [t EXCEPT !.at = "lock", !.order = o, !.lots = n, !.count = @ + 1] = t3
  BY DEF Transactions
<1> HIDE DEF t1
<1>3. t2 \in Transactions
  BY <1>1 DEF Transactions
<1> HIDE DEF t2
<1>4. t3 \in Transactions
  BY <1>3 DEF Transactions
<1> QED BY <1>2, <1>4

LEMMA TransactionsRead ==
  ASSUME TypeOK, NEW p \in Passes, NEW n \in Int
  PROVE  [pass EXCEPT ![p].at = "save", ![p].seen = n]
           \in [Passes -> Transactions]
<1> DEFINE t == [pass[p] EXCEPT !.at = "save", !.seen = n]
<1>1. t \in Transactions
  BY Fields DEF Transactions
<1>2. [pass EXCEPT ![p].at = "save", ![p].seen = n] = [pass EXCEPT ![p] = t]
  BY DEF TypeOK
<1> HIDE DEF t
<1> QED BY <1>1, <1>2 DEF TypeOK

LEMMA SettledWritten ==
  ASSUME TypeOK, NEW p \in Passes, NEW to \in {"credit", "settled"},
         Settled(p, to)
  PROVE  pass' \in [Passes -> Transactions]
<1> DEFINE new == [pass[p] EXCEPT !.at = to, !.lots = 0, !.seen = 0,
                                  !.fills = FillsWith(p)]
<1>1. FillsWith(p) \in [Orders -> Nat]
  <2>1. pass[p].fills[pass[p].order] + pass[p].lots \in Nat
    BY Fields
  <2> QED BY <2>1, Fields DEF FillsWith
<1>2. new \in Transactions
  BY <1>1, Fields, TransactionsSettled
<1>3. pass' = [pass EXCEPT ![p] = new]
  BY DEF Settled
<1> HIDE DEF new
<1> QED BY <1>2, <1>3 DEF TypeOK

-----------------------------------------------------------------------------
\* The steps keep the types.

LEMMA RequestTypes ==
  ASSUME TypeOK, NEW o \in Orders, Request(o) \/ Checks(o)
  PROVE  TypeOK'
<1> USE DEF requests, history
<1>1. CASE Place(o)
  <2>1. order' \in [Orders -> Requests]
    BY <1>1, RequestsWritten DEF Place
  <2> QED BY <1>1, <2>1 DEF Place, TypeOK
<1>2. CASE CheckLocks(o)
  <2>1. order' \in [Orders -> Requests]
    BY <1>2, RequestsWritten DEF CheckLocks
  <2> QED BY <1>2, <2>1 DEF CheckLocks, Take, TypeOK
<1>3. CASE CheckReads(o)
  <2>1. Opening(o, cache) \in Nat
    BY Sizes DEF TypeOK
  <2>0. /\ Refused(o) => order' \in [Orders -> Requests]
        /\ At(o, "done") => order' \in [Orders -> Requests]
        /\ [order EXCEPT ![o].at = "block", ![o].opening = Opening(o, cache)]
             \in [Orders -> Requests]
    BY <2>1, RequestsWritten
  <2>2. order' \in [Orders -> Requests]
    BY <1>3, <2>0 DEF CheckReads
  <2>3. GiveBack(o) \/ UNCHANGED lock
    BY <1>3 DEF CheckReads
  <2>4. lock' \in Orders \cup Passes \cup {Ticks, Nobody}
    BY <2>3, LocksGivenBack DEF TypeOK
  <2> QED BY <1>3, <2>2, <2>4 DEF CheckReads, TypeOK
<1>4. CASE CheckBlocks(o)
  <2>1. PICK rate \in Rates, balance \in Balances :
          LET need == rate * order[o].opening IN
            IF balance - books.blocked < need
            THEN Refused(o) /\ UNCHANGED <<books, block>>
            ELSE /\ order' = [order EXCEPT ![o].at = "done", ![o].opening = 0]
                 /\ block' = [block EXCEPT ![o] = need]
                 /\ books' = [books EXCEPT !.blocked = @ + need]
    BY <1>4 DEF CheckBlocks, BlockMargin
  <2>2. rate * order[o].opening \in Nat
    BY Products, Fields
  <2>0. /\ Refused(o) => order' \in [Orders -> Requests]
        /\ [order EXCEPT ![o].at = "done", ![o].opening = 0]
             \in [Orders -> Requests]
    BY RequestsWritten
  <2>3. order' \in [Orders -> Requests]
    BY <2>0, <2>1
  <2>4. block' \in [Orders -> Nat]
    BY <2>1, <2>2 DEF TypeOK
  <2>5. books' \in Books
    BY <2>1, <2>2, Fields DEF TypeOK, Books
  <2>6. lock' \in Orders \cup Passes \cup {Ticks, Nobody}
    BY <1>4, LocksGivenBack DEF CheckBlocks, BlockMargin
  <2> QED BY <1>4, <2>3, <2>4, <2>5, <2>6 DEF CheckBlocks, BlockMargin, TypeOK
<1>5. CASE CheckFails(o)
  <2>1. order' \in [Orders -> Requests]
    BY <1>5, RequestsWritten DEF CheckFails
  <2>2. lock' \in Orders \cup Passes \cup {Ticks, Nobody}
    BY <1>5, LocksGivenBack DEF CheckFails
  <2> QED BY <1>5, <2>1, <2>2 DEF CheckFails, Fault, TypeOK
<1>6. CASE Cancel(o)
  <2>1. order' \in [Orders -> Requests]
    BY <1>6, RequestsWritten DEF Cancel
  <2> QED BY <1>6, <2>1 DEF Cancel, ToRelease, TypeOK
<1>7. CASE Release(o)
  <2>1. Clamp(books.blocked - block[o]) \in Nat
    BY Fields, ClampIsNat
  <2>2. books' \in Books
    BY <1>7, <2>1 DEF Release, TypeOK, Books
  <2> QED BY <1>7, <2>2 DEF Release, TypeOK
<1>8. CASE ReleaseFails(o)
  BY <1>8 DEF ReleaseFails, Fault, TypeOK
<1> QED BY <1>1, <1>2, <1>3, <1>4, <1>5, <1>6, <1>7, <1>8
        DEF Request, Checks

LEMMA RollBackTypes ==
  ASSUME TypeOK, NEW p \in Passes, RollBack(p),
         UNCHANGED faults \/ Fault
  PROVE  TypeOK'
<1>1. pass' \in [Passes -> Transactions]
  BY IdleIsTransaction DEF RollBack, Fresh, TypeOK
<1>2. lock' \in Orders \cup Passes \cup {Ticks, Nobody}
  BY LocksGivenBack DEF RollBack
<1>3. ledger' \in Passes \cup {Sweep, Nobody} /\ draft' \in Books
  BY EndsOfTransactions DEF RollBack
<1> QED BY <1>1, <1>2, <1>3 DEF RollBack, Fault, requests, TypeOK

LEMMA FillTypes ==
  ASSUME TypeOK, NEW p \in Passes,
         Trade(p) \/ Fills(p) \/ ReconcileSkipped(p) \/ PassFails(p)
  PROVE  TypeOK'
<1> USE DEF requests, history
<1>1. CASE Trade(p)
  <2>1. PICK o \in Orders : \E n \in 1..Left(p, o) :
          pass' = [pass EXCEPT ![p] = Matched(p, o, n)]
    BY <1>1 DEF Trade
  <2>2. PICK n \in 1..Left(p, o) : pass' = [pass EXCEPT ![p] = Matched(p, o, n)]
    BY <2>1
  <2>3. n \in Nat
    BY <2>2, Sizes, Fields DEF Left, TypeOK
  <2>4. pass[p].count \in 0..MaxFills /\ pass[p].count < MaxFills
    BY <1>1, Fields DEF Trade
  <2>5. pass[p].count + 1 \in 0..MaxFills
    BY <2>4
  <2>6. Matched(p, o, n) \in Transactions
    BY <2>3, <2>5, Fields, TransactionsTaken DEF Matched
  <2>7. pass' \in [Passes -> Transactions]
    BY <2>2, <2>6 DEF TypeOK
  <2> QED BY <1>1, <2>7 DEF Trade, TypeOK
<1>2. CASE FillLocks(p)
  <2>1. pass' \in [Passes -> Transactions]
    BY <1>2, StepsWritten DEF FillLocks
  <2> QED BY <1>2, <2>1 DEF FillLocks, Take, TypeOK
<1>3. CASE FillReads(p)
  <2>1. pass' \in [Passes -> Transactions]
    BY <1>3, TransactionsRead DEF FillReads, TypeOK
  <2> QED BY <1>3, <2>1 DEF FillReads, TypeOK
<1>4. NewNet(p) \in Int
  BY Fields, Sizes DEF NewNet
<1>5. CASE FillSaves(p)
  <2>1. pass' \in [Passes -> Transactions]
    BY <1>5, StepsWritten DEF FillSaves
  <2> QED BY <1>4, <1>5, <2>1 DEF FillSaves, TypeOK
<1>6. CASE FillCloses(p)
  <2>1. pass' \in [Passes -> Transactions]
    BY <1>6, StepsWritten DEF FillCloses, ClosedRow
  <2>2. draft' \in Books
    BY <1>6, RowsAreBooks DEF FillCloses, ClosedRow, Books
  <2> QED BY <1>6, <2>1, <2>2 DEF FillCloses, ClosedRow, TypeOK
<1>7. CASE Reconcile(p)
  <2>1. pass' \in [Passes -> Transactions]
    BY <1>7, SettledWritten DEF Reconcile
  <2>2. lock' \in Orders \cup Passes \cup {Ticks, Nobody}
    BY <1>7, LocksGivenBack DEF Reconcile
  <2>3. PICK rate \in Rates :
          draft' = [Rows(p) EXCEPT
                      !.margin = Required(NetForMargin(p), rate),
                      !.blocked = WalletAfter(Rows(p),
                                    Required(NetForMargin(p), rate))]
    BY <1>7 DEF Reconcile
  <2>4. Required(NetForMargin(p), rate) \in Nat
    BY <1>4, RequiredIsNat DEF NetForMargin
  <2>5. \A need \in Nat : WalletAfter(Rows(p), need) \in Nat
    BY RowsAreBooks, ClampIsNat DEF WalletAfter
  <2>6. draft' \in Books
    BY <2>3, <2>4, <2>5, RowsAreBooks DEF Books
  <2> QED BY <1>7, <2>1, <2>2, <2>6 DEF Reconcile, ReleasedByFill, TypeOK
<1>8. CASE ReconcileSkipped(p)
  <2>1. pass' \in [Passes -> Transactions]
    BY <1>8, SettledWritten DEF ReconcileSkipped
  <2>2. lock' \in Orders \cup Passes \cup {Ticks, Nobody}
    BY <1>8, LocksGivenBack DEF ReconcileSkipped
  <2> QED BY <1>8, <2>1, <2>2 DEF ReconcileSkipped, Fault, TypeOK
<1>9. CASE Credit(p)
  <2>1. pass' \in [Passes -> Transactions]
    BY <1>9, StepsWritten DEF Credit
  <2> QED BY <1>9, <2>1, RowsAreBooks DEF Credit, TypeOK
<1>10. CASE Commit(p)
  <2>1. pass' \in [Passes -> Transactions]
    BY <1>10, IdleIsTransaction DEF Commit, Fresh, TypeOK
  <2>2. \A o \in Orders : filled[o] + pass[p].fills[o] \in Nat
    BY Fields DEF TypeOK
  <2>3. filled' \in [Orders -> Nat]
    BY <1>10, <2>2 DEF Commit
  <2>4. ledger' \in Passes \cup {Sweep, Nobody} /\ draft' \in Books
    BY <1>10, EndsOfTransactions DEF Commit
  <2> QED BY <1>10, <2>1, <2>3, <2>4, RowsAreBooks DEF Commit, TypeOK
<1>11. CASE FillRaises(p)
  BY <1>11, RollBackTypes DEF FillRaises
<1>12. CASE PassFails(p)
  BY <1>12, RollBackTypes DEF PassFails
<1> QED BY <1>1, <1>2, <1>3, <1>5, <1>6, <1>7, <1>8, <1>9, <1>10, <1>11,
           <1>12 DEF Fills

LEMMA OtherTypes ==
  ASSUME TypeOK, Expire \/ Feed \/ EndOfDay
  PROVE  TypeOK'
<1> USE DEF requests, history
<1>1. CASE Expire
  BY <1>1 DEF Expire, TypeOK
<1>2. CASE TickReads
  BY <1>2 DEF TickReads, Take, TypeOK
<1>3. CASE TickWrites
  <2>1. lock' \in Orders \cup Passes \cup {Ticks, Nobody}
    BY <1>3, LocksGivenBack DEF TickWrites
  <2> QED BY <1>3, <2>1 DEF TickWrites, TypeOK
<1>4. CASE SweepLists
  BY <1>4 DEF SweepLists, TypeOK
<1>5. CASE SweepCloses
  <2>1. WalletAfter(books, 0) \in Nat
    BY Fields, ClampIsNat DEF WalletAfter
  <2> DEFINE released == [books EXCEPT !.margin = 0,
                                       !.blocked = WalletAfter(books, 0)]
  <2>2. released \in Books
    BY <2>1 DEF TypeOK, Books
  <2>3. [released EXCEPT !.open = FALSE] \in Books
    BY <2>2 DEF Books
  <2>4. draft' = released \/ draft' = [released EXCEPT !.open = FALSE]
    BY <1>5 DEF SweepCloses, ClosedRow
  <2> HIDE DEF released
  <2>5. draft' \in Books
    BY <2>2, <2>3, <2>4
  <2>6. cache' \in Int
    BY <1>5 DEF SweepCloses, ClosedRow, TypeOK
  <2> QED BY <1>5, <2>5, <2>6 DEF SweepCloses, ClosedRow, TypeOK
<1>6. CASE SweepEnds
  <2>1. ledger' \in Passes \cup {Sweep, Nobody} /\ draft' \in Books
    BY <1>6, EndsOfTransactions DEF SweepEnds
  <2>2. books' \in Books /\ faults' \in 0..MaxFaults
    BY <1>6 DEF SweepEnds, Fault, TypeOK
  <2> QED BY <1>6, <2>1, <2>2 DEF SweepEnds, TypeOK
<1> QED BY <1>1, <1>2, <1>3, <1>4, <1>5, <1>6 DEF Feed, EndOfDay

\* The records and quantities keep their shape, and margins stay naturals.
THEOREM TypesHold == Spec => []TypeOK
<1>1. Init => TypeOK
  <2> SUFFICES ASSUME Init
               PROVE  TypeOK
    OBVIOUS
  <2>1. held \in Int
    BY DEF Init
  <2>2. PICK rate \in Rates :
          books = [open |-> held # 0, margin |-> Required(held, rate),
                   blocked |-> Required(held, rate)]
    BY DEF Init
  <2>3. books \in Books
    BY <2>1, <2>2, RequiredIsNat DEF Books
  <2>4. draft \in Books /\ block \in [Orders -> Nat]
        /\ filled \in [Orders -> Nat]
    BY DEF Init, NoDraft, NoFills, Books
  <2>5. order \in [Orders -> Requests] /\ pass \in [Passes -> Transactions]
    BY IdleIsTransaction DEF Init, Requests
  <2> QED BY <2>1, <2>3, <2>4, <2>5 DEF Init, TypeOK
<1>2. TypeOK /\ [Next]_vars => TypeOK'
  <2> SUFFICES ASSUME TypeOK, [Next]_vars
               PROVE  TypeOK'
    OBVIOUS
  <2>1. CASE UNCHANGED vars
    BY <2>1 DEF vars, TypeOK
  <2> QED BY <2>1, RequestTypes, FillTypes, OtherTypes DEF Next
<1> QED BY <1>1, <1>2, PTL DEF Spec

-----------------------------------------------------------------------------
\* The lock of the position.  What was read is current because its reader
\* still has the lock, and nobody without it writes: the invariant says that
\* the lock is had from the read to the write.

Undisturbed == mishaps \cap {"expiry", "sweep"} = {}
Inside(p) == pass[p].at \in {"read", "save", "reconcile"}

LockInv ==
  Undisturbed =>
    /\ \A p \in Passes : Inside(p) => lock = p
    /\ tick # 0 => lock = Ticks
    /\ \A p \in Passes : pass[p].at = "save" => pass[p].seen = cache
    /\ tick # 0 => tick = cache

\* Orders and ticks are no transactions, and nobody is anybody.
LEMMA ActorsDiffer ==
  /\ \A p \in Passes : p # Nobody /\ p # Ticks
  /\ \A o \in Orders, p \in Passes : o # p
  /\ \A o \in Orders : o # Ticks /\ o # Nobody
  /\ Ticks # Nobody
  OBVIOUS

\* A step that leaves the position, ticks and transactions alone may take the
\* lock when it is free, and give back its own.
LEMMA LockOfOthers ==
  ASSUME TypeOK, LockInv, NEW a,
         a \in Orders,
         Take(a) \/ GiveBack(a) \/ UNCHANGED lock,
         UNCHANGED <<cache, pass, tick>>,
         mishaps \subseteq mishaps'
  PROVE  LockInv'
<1>1. Undisturbed' => Undisturbed
  BY DEF Undisturbed
<1>2. ASSUME NEW p \in Passes, lock = p
      PROVE  lock' = p
  BY <1>2, ActorsDiffer DEF Take, LockIsFree, GiveBack
<1>3. lock = Ticks => lock' = Ticks
  BY ActorsDiffer DEF Take, LockIsFree, GiveBack
<1> QED BY <1>1, <1>2, <1>3 DEF LockInv, Inside

LEMMA RequestsKeepLock ==
  ASSUME TypeOK, LockInv, NEW o \in Orders, Request(o) \/ Checks(o)
  PROVE  LockInv'
<1>1. /\ UNCHANGED <<cache, pass, tick>>
      /\ mishaps \subseteq mishaps'
  BY DEF Request, Checks, Place, CheckLocks, CheckReads, CheckBlocks,
         BlockMargin, CheckFails, Cancel, Release, ReleaseFails, history
<1>2. Take(o) \/ GiveBack(o) \/ UNCHANGED lock
  BY DEF Request, Checks, Place, CheckLocks, CheckReads, CheckBlocks,
         BlockMargin, CheckFails, Cancel, Release, ReleaseFails
<1> QED BY <1>1, <1>2, LockOfOthers

\* A transaction that is not inside, or leaves, disturbs nobody.
LEMMA LockLeft ==
  ASSUME TypeOK, LockInv, NEW p \in Passes,
         \A q \in Passes \ {p} : pass'[q] = pass[q],
         pass'[p].at \notin {"read", "save", "reconcile"},
         GiveBack(p) \/ UNCHANGED lock,
         UNCHANGED <<cache, tick>>,
         mishaps \subseteq mishaps'
  PROVE  LockInv'
<1>1. Undisturbed' => Undisturbed
  BY DEF Undisturbed
<1>2. ASSUME NEW q \in Passes \ {p}, lock = q
      PROVE  lock' = q
  BY <1>2 DEF GiveBack
<1>3. lock = Ticks => lock' = Ticks
  BY ActorsDiffer DEF GiveBack
<1> QED BY <1>1, <1>2, <1>3 DEF LockInv, Inside

\* pass is written for one transaction at a time.
LEMMA OnlyOne ==
  ASSUME TypeOK, NEW p \in Passes,
         Trade(p) \/ Fills(p) \/ ReconcileSkipped(p) \/ PassFails(p)
  PROVE  \A q \in Passes \ {p} : pass'[q] = pass[q]
  BY DEF Trade, Fills, FillLocks, FillReads, FillSaves, FillCloses,
         ClosedRow, Reconcile, Credit, Commit, FillRaises, ReconcileSkipped, PassFails, RollBack,
         Step, Settled, Fresh, TypeOK

LEMMA FillsKeepLock ==
  ASSUME TypeOK, LockInv, NEW p \in Passes,
         Trade(p) \/ Fills(p) \/ ReconcileSkipped(p) \/ PassFails(p)
  PROVE  LockInv'
<1> DEFINE others == \A q \in Passes \ {p} : pass'[q] = pass[q]
<1>1. others
  BY OnlyOne
<1>2. pass \in [Passes -> Transactions]
  BY DEF TypeOK
<1> HIDE DEF others
<1>3. CASE Trade(p)
  <2>1. pass'[p].at = "lock"
    <3>1. PICK o \in Orders : \E n \in 1..Left(p, o) :
            pass' = [pass EXCEPT ![p] = Matched(p, o, n)]
      BY <1>3 DEF Trade
    <3>2. PICK n \in 1..Left(p, o) :
            pass' = [pass EXCEPT ![p] = Matched(p, o, n)]
      BY <3>1
    <3>3. Matched(p, o, n).at = "lock"
      BY Fields DEF Matched, Transactions
    <3> QED BY <1>2, <3>2, <3>3
  <2> QED BY <1>1, <1>3, <2>1, LockLeft DEF Trade, history, others
<1>4. CASE FillLocks(p)
  <2>1. lock = Nobody /\ lock' = p /\ UNCHANGED <<cache, tick, mishaps>>
    BY <1>4 DEF FillLocks, Take, LockIsFree, history
  <2>2. pass'[p].at = "read"
    BY <1>2, <1>4, Fields DEF FillLocks, Step, Transactions
  <2>3. Undisturbed => tick = 0 /\ \A q \in Passes : ~Inside(q)
    BY <2>1, ActorsDiffer DEF LockInv
  <2>4. Undisturbed' => Undisturbed
    BY <2>1 DEF Undisturbed
  <2> QED BY <1>1, <2>1, <2>2, <2>3, <2>4 DEF LockInv, Inside, others
<1>5. CASE FillReads(p)
  <2>1. pass'[p].at = "save" /\ pass'[p].seen = cache
    BY <1>2, <1>5, Fields DEF FillReads, Transactions
  <2>2. Inside(p) /\ UNCHANGED <<cache, lock, tick, mishaps>>
    BY <1>5 DEF FillReads, Inside, history
  <2>3. Undisturbed' => Undisturbed
    BY <2>2 DEF Undisturbed
  <2> QED BY <1>1, <2>1, <2>2, <2>3 DEF LockInv, Inside, others
<1>6. CASE FillSaves(p) \/ FillCloses(p)
  <2>1. pass[p].at = "save" /\ pass'[p].at = "reconcile"
    BY <1>2, <1>6, Fields
    DEF FillSaves, FillCloses, ClosedRow, Step, Transactions
  <2>2. UNCHANGED <<lock, tick, mishaps>>
    BY <1>6 DEF FillSaves, FillCloses, ClosedRow, history
  <2>3. Undisturbed => /\ lock = p /\ tick = 0
                       /\ \A q \in Passes \ {p} : ~Inside(q)
    BY <2>1, ActorsDiffer DEF LockInv, Inside
  <2>4. Undisturbed' => Undisturbed
    BY <2>2 DEF Undisturbed
  <2> QED BY <1>1, <2>1, <2>2, <2>3, <2>4 DEF LockInv, Inside, others
<1>7. CASE Reconcile(p) \/ ReconcileSkipped(p)
  <2>1. PICK to \in {"credit", "settled"} : Settled(p, to)
    BY <1>7 DEF Reconcile, ReconcileSkipped
  <2>2. pass'[p].at = to
    BY <1>2, <2>1, Fields DEF Settled, Transactions
  <2>3. GiveBack(p) /\ UNCHANGED <<cache, tick>> /\ mishaps \subseteq mishaps'
    BY <1>7 DEF Reconcile, ReconcileSkipped, history
  <2> QED BY <1>1, <2>2, <2>3, LockLeft DEF others
<1>8. CASE Credit(p)
  <2>1. pass'[p].at = "settled"
    BY <1>2, <1>8, Fields DEF Credit, Step, Transactions
  <2> QED BY <1>1, <1>8, <2>1, LockLeft DEF Credit, history, others
<1>9. CASE Commit(p)
  <2>1. pass'[p].at = "off"
    BY <1>2, <1>9 DEF Commit, Fresh, Idle
  <2> QED BY <1>1, <1>9, <2>1, LockLeft DEF Commit, history, others
<1>10. CASE FillRaises(p) \/ PassFails(p)
  <2>1. pass'[p].at = "off"
    BY <1>2, <1>10 DEF FillRaises, PassFails, RollBack, Fresh, Idle
  <2>2. GiveBack(p) /\ UNCHANGED <<cache, tick>> /\ mishaps \subseteq mishaps'
    BY <1>10 DEF FillRaises, PassFails, RollBack
  <2> QED BY <1>1, <2>1, <2>2, LockLeft DEF others
<1> QED BY <1>3, <1>4, <1>5, <1>6, <1>7, <1>8, <1>9, <1>10 DEF Fills

LEMMA OthersKeepLock ==
  ASSUME TypeOK, LockInv, Expire \/ Feed \/ EndOfDay
  PROVE  LockInv'
<1>1. CASE Expire
  BY <1>1 DEF Expire, LockInv, Undisturbed
<1>2. CASE TickReads
  <2>1. lock = Nobody /\ lock' = Ticks /\ tick' = cache
        /\ UNCHANGED <<cache, pass, mishaps>>
    BY <1>2 DEF TickReads, Take, LockIsFree, history
  <2>2. Undisturbed => \A q \in Passes : ~Inside(q)
    BY <2>1, ActorsDiffer DEF LockInv
  <2>3. Undisturbed' => Undisturbed
    BY <2>1 DEF Undisturbed
  <2> QED BY <2>1, <2>2, <2>3 DEF LockInv, Inside
<1>3. CASE TickWrites
  <2>1. tick # 0 /\ tick' = 0 /\ cache' = tick /\ GiveBack(Ticks)
        /\ UNCHANGED <<pass, mishaps>>
    BY <1>3 DEF TickWrites, history
  <2>2. Undisturbed => lock = Ticks
    BY <2>1 DEF LockInv
  <2>3. Undisturbed => \A q \in Passes : ~Inside(q)
    BY <2>2, ActorsDiffer DEF LockInv
  <2>4. Undisturbed' => Undisturbed
    BY <2>1 DEF Undisturbed
  <2> QED BY <2>1, <2>3, <2>4 DEF LockInv, Inside
<1>4. CASE SweepCloses
  BY <1>4 DEF SweepCloses, ClosedRow, LockInv, Undisturbed
<1>5. CASE SweepLists \/ SweepEnds
  <2>1. UNCHANGED <<cache, lock, pass, tick, mishaps>>
    BY <1>5 DEF SweepLists, SweepEnds, history
  <2> QED BY <2>1 DEF LockInv, Inside, Undisturbed
<1> QED BY <1>1, <1>2, <1>3, <1>4, <1>5 DEF Feed, EndOfDay

LEMMA LocksHold == Spec => []LockInv
<1>1. Init => LockInv
  BY DEF Init, Idle, LockInv, Inside
<1>2. TypeOK /\ LockInv /\ [Next]_vars => LockInv'
  <2> SUFFICES ASSUME TypeOK, LockInv, [Next]_vars
               PROVE  LockInv'
    OBVIOUS
  <2>1. CASE UNCHANGED vars
    BY <2>1 DEF vars, LockInv, Inside, Undisturbed
  <2> QED BY <2>1, RequestsKeepLock, FillsKeepLock, OthersKeepLock DEF Next
<1> QED BY <1>1, <1>2, TypesHold, PTL DEF Spec

\* Whatever the locks are waited for in between, a fill or a tick writes the
\* position back over the one that it read.
THEOREM CurrentReads == Spec => []ReadsAreCurrent
<1>1. LockInv => ReadsAreCurrent
  BY DEF LockInv, ReadsAreCurrent, Undisturbed
<1> QED BY <1>1, LocksHold, PTL

-----------------------------------------------------------------------------
\* Cancelling.  An order has no block before its check is done, and is not
\* cancelled before that, so that no block can follow its release.

NoBlockYet(o) ==
  /\ order[o].at # "done" => block[o] = 0
  /\ order[o].status = "CANCELLED" => order[o].at = "done"

Given(o) ==
  order[o].status = "CANCELLED" /\ o \notin releasing
    /\ "unreleased" \notin mishaps => block[o] = 0

CancelInv == \A o \in Orders : NoBlockYet(o) /\ Given(o)

\* What leaves the requests alone.
LEMMA RequestsUnchanged ==
  ASSUME CancelInv, UNCHANGED requests, mishaps \subseteq mishaps'
  PROVE  CancelInv'
  BY DEF CancelInv, NoBlockYet, Given, requests

LEMMA CancelStep ==
  ASSUME TypeOK, CancelInv, EagerClients = FALSE,
         NEW o \in Orders, Request(o) \/ Checks(o)
  PROVE  CancelInv'
<1> USE DEF CancelInv, NoBlockYet, Given, history
<1>1. order \in [Orders -> Requests] /\ block \in [Orders -> Nat]
  BY DEF TypeOK
<1>2. CASE Place(o)
  <2>1. order'[o].status = "PENDING" /\ order[o].at = "new"
    BY <1>1, <1>2 DEF Place, Requests
  <2>2. \A x \in Orders \ {o} : order'[x] = order[x]
    BY <1>1, <1>2 DEF Place
  <2> QED BY <1>2, <2>1, <2>2 DEF Place
<1>3. CASE CheckLocks(o)
  <2>1. /\ order'[o].status = order[o].status
        /\ order[o].at = "lock" /\ order'[o].at = "read"
    BY <1>1, <1>3 DEF CheckLocks, At, Requests
  <2>2. \A x \in Orders \ {o} : order'[x] = order[x]
    BY <1>1, <1>3 DEF CheckLocks, At
  <2> QED BY <1>3, <2>1, <2>2 DEF CheckLocks
<1>4. CASE CheckReads(o)
  <2>1. /\ order[o].at = "read" /\ block[o] = 0
        /\ order'[o].status = "CANCELLED" => order'[o].at = "done"
    BY <1>1, <1>4 DEF CheckReads, Refused, At, Requests
  <2>2. \A x \in Orders \ {o} : order'[x] = order[x]
    BY <1>1, <1>4 DEF CheckReads, Refused, At
  <2> QED BY <1>4, <2>1, <2>2 DEF CheckReads
<1>5. CASE CheckBlocks(o)
  <2>1. order[o].at = "block" /\ order[o].status # "CANCELLED"
    BY <1>5 DEF CheckBlocks, BlockMargin
  <2>2. /\ order'[o].at = "done"
        /\ order'[o].status = "CANCELLED" => block'[o] = 0
    BY <1>1, <1>5, <2>1 DEF CheckBlocks, BlockMargin, Refused, Requests
  <2>3. \A x \in Orders \ {o} : order'[x] = order[x] /\ block'[x] = block[x]
    BY <1>1, <1>5 DEF CheckBlocks, BlockMargin, Refused
  <2>4. UNCHANGED <<releasing, mishaps>>
    BY <1>5 DEF CheckBlocks, BlockMargin
  <2> QED BY <2>2, <2>3, <2>4
<1>6. CASE CheckFails(o)
  <2>1. order'[o].at = "done" /\ block[o] = 0
    BY <1>1, <1>6 DEF CheckFails, Refused
  <2>2. \A x \in Orders \ {o} : order'[x] = order[x]
    BY <1>1, <1>6 DEF CheckFails, Refused
  <2> QED BY <1>6, <2>1, <2>2 DEF CheckFails
<1>7. CASE Cancel(o)
  <2>1. order'[o].at = "done" /\ o \in releasing'
    BY <1>1, <1>7 DEF Cancel, ToRelease, Requests
  <2>2. \A x \in Orders \ {o} : /\ order'[x] = order[x]
                                /\ x \in releasing' <=> x \in releasing
    BY <1>1, <1>7 DEF Cancel, ToRelease
  <2>3. UNCHANGED <<block, mishaps>>
    BY <1>7 DEF Cancel
  <2> QED BY <2>1, <2>2, <2>3
<1>8. CASE Release(o)
  <2>1. block'[o] = 0
    BY <1>1, <1>8 DEF Release
  <2>2. \A x \in Orders \ {o} : /\ block'[x] = block[x]
                                /\ x \in releasing' <=> x \in releasing
    BY <1>1, <1>8 DEF Release
  <2>3. UNCHANGED <<order, mishaps>>
    BY <1>8 DEF Release
  <2> QED BY <2>1, <2>2, <2>3
<1>9. CASE ReleaseFails(o)
  <2>1. "unreleased" \in mishaps' /\ UNCHANGED <<order, block>>
    BY <1>9 DEF ReleaseFails
  <2> QED BY <2>1
<1> QED BY <1>2, <1>3, <1>4, <1>5, <1>6, <1>7, <1>8, <1>9
        DEF Request, Checks

LEMMA OthersKeepBlocks ==
  ASSUME CancelInv,
         \/ \E p \in Passes :
              Trade(p) \/ Fills(p) \/ ReconcileSkipped(p) \/ PassFails(p)
         \/ Expire \/ Feed \/ EndOfDay \/ UNCHANGED vars
  PROVE  CancelInv'
<1>1. UNCHANGED requests /\ mishaps \subseteq mishaps'
  <2>1. ASSUME NEW p \in Passes, Trade(p) \/ Fills(p)
        PROVE  UNCHANGED requests /\ mishaps \subseteq mishaps'
    BY <2>1 DEF Trade, Fills, FillLocks, FillReads, FillSaves, FillCloses,
                ClosedRow, Reconcile, ReleasedByFill, Credit, Commit, FillRaises, RollBack,
                requests, history
  <2>2. ASSUME NEW p \in Passes, ReconcileSkipped(p) \/ PassFails(p)
        PROVE  UNCHANGED requests /\ mishaps \subseteq mishaps'
    BY <2>2 DEF ReconcileSkipped, PassFails, RollBack, requests
  <2>3. ASSUME Expire \/ Feed \/ EndOfDay \/ UNCHANGED vars
        PROVE  UNCHANGED requests /\ mishaps \subseteq mishaps'
    BY <2>3 DEF Expire, Feed, TickReads, TickWrites, EndOfDay, SweepLists,
                SweepCloses, ClosedRow, SweepEnds, requests, history, vars
  <2> QED BY <2>1, <2>2, <2>3
<1> QED BY <1>1, RequestsUnchanged

\* When clients wait for the answer to their POST before they cancel, a
\* cancelled order has given its margin back, unless the release has failed.
THEOREM CancelReleases ==
  ASSUME EagerClients = FALSE
  PROVE  Spec => []CancelledHoldsNothing
<1>1. Init => CancelInv
  BY DEF Init, NoFills, CancelInv, NoBlockYet, Given
<1>2. TypeOK /\ CancelInv /\ [Next]_vars => CancelInv'
  BY CancelStep, OthersKeepBlocks DEF Next
<1>3. CancelInv => CancelledHoldsNothing
  BY DEF CancelInv, Given, CancelledHoldsNothing
<1> QED BY <1>1, <1>2, <1>3, TypesHold, PTL DEF Spec

-----------------------------------------------------------------------------
\* What the wallet has blocked.  Rows are balanced, those of the holder of the
\* locks no less than the committed ones: whoever writes one of the three
\* amounts writes the total with it.  The block of an order is written when it
\* has none yet, and while the rows are free, so that nobody's draft is older.

Balanced(rows) == rows.blocked = rows.margin + SumFunction(block)
NothingYet == \A o \in Orders : order[o].at # "done" => block[o] = 0

LedgerInv ==
  /\ NothingYet /\ Balanced(books)
  /\ ledger # Nobody => Balanced(draft)
  /\ sweep = "closed" => ledger = Sweep

LEMMA BlocksAddUp ==
  ASSUME TypeOK
  PROVE  SumFunction(block) \in Nat
<1>1. DOMAIN block = Orders /\ \A o \in Orders : block[o] \in Nat
  BY DEF TypeOK
<1>2. SumFunctionOnSet(block, Orders) \in Nat
  BY <1>1, SumIsNat
<1> QED BY <1>1, <1>2 DEF SumFunction

LEMMA BlockReplaced ==
  ASSUME TypeOK, NEW o \in Orders, NEW n \in Nat,
         block' = [block EXCEPT ![o] = n]
  PROVE  /\ SumFunction(block') = SumFunction(block) - block[o] + n
         /\ SumFunction(block') \in Nat
<1>1. /\ DOMAIN block = Orders /\ DOMAIN block' = Orders
      /\ \A x \in Orders : block[x] \in Nat /\ block'[x] \in Nat
      /\ block'[o] = n /\ \A x \in Orders \ {o} : block'[x] = block[x]
  BY DEF TypeOK
<1>2. n \in Int /\ IsFiniteSet(Orders) /\ \A x \in Orders : block[x] \in Int
  BY <1>1
<1>3. SumFunctionOnSet(block', Orders)
        = SumFunctionOnSet(block, Orders) - block[o] + n
  <2> DEFINE b == block  c == block'
  <2>1. /\ \A x \in Orders : b[x] \in Int
        /\ c[o] = n /\ \A x \in Orders \ {o} : c[x] = b[x]
    BY <1>1, <1>2
  <2> HIDE DEF b, c
  <2>2. SumFunctionOnSet(c, Orders) = SumFunctionOnSet(b, Orders) - b[o] + n
    BY <1>2, <2>1, SumOfUpdate
  <2> QED BY <2>2 DEF b, c
<1>4. SumFunctionOnSet(block', Orders) \in Nat
  BY <1>1, SumIsNat
<1> QED BY <1>1, <1>3, <1>4 DEF SumFunction

\* A wallet that has at least what a position has is not clamped.
LEMMA MarginReplaced ==
  ASSUME TypeOK, NEW rows, rows.margin \in Nat, rows.blocked \in Nat,
         Balanced(rows), NEW need \in Nat
  PROVE  WalletAfter(rows, need) = need + SumFunction(block)
<1>1. SumFunction(block) \in Nat
  BY BlocksAddUp
<1>2. rows.blocked + (need - rows.margin) = need + SumFunction(block)
  BY <1>1 DEF Balanced
<1> QED BY <1>1, <1>2 DEF WalletAfter, Clamp

LEMMA RowsBalanced ==
  ASSUME TypeOK, LedgerInv, NEW p \in Passes
  PROVE  Balanced(Rows(p))
  BY ActorsDiffer DEF LedgerInv, Rows

\* Requests have the rows only while nobody else has them.
LEMMA RequestsNeedFreeRows ==
  ASSUME TypeOK, NEW o \in Orders, RowsFree(o)
  PROVE  ledger = Nobody
  BY DEF RowsFree, TypeOK

LEMMA RequestsBalance ==
  ASSUME TypeOK, LedgerInv, NEW o \in Orders, Request(o) \/ Checks(o)
  PROVE  LedgerInv'
<1> USE DEF history
<1>1. order \in [Orders -> Requests] /\ block \in [Orders -> Nat]
  BY DEF TypeOK
<1>2. CASE /\ UNCHANGED <<books, ledger, draft, block, sweep>>
           /\ \A x \in Orders : order'[x].at # "done" => order[x].at # "done"
  <2>1. NothingYet'
    BY <1>2 DEF LedgerInv, NothingYet
  <2>2. /\ Balanced(books)' = Balanced(books)
        /\ Balanced(draft)' = Balanced(draft)
    BY <1>2 DEF Balanced
  <2> QED BY <1>2, <2>1, <2>2 DEF LedgerInv
<1>3. CASE Place(o)
  BY <1>1, <1>2, <1>3 DEF Place, Requests
<1>4. CASE CheckLocks(o)
  BY <1>1, <1>2, <1>4 DEF CheckLocks, At, Requests
<1>5. CASE CheckReads(o)
  BY <1>1, <1>2, <1>5 DEF CheckReads, At, Refused, Requests
<1>6. CASE CheckFails(o)
  BY <1>1, <1>2, <1>6 DEF CheckFails, Refused, Requests
<1>7. CASE Cancel(o)
  BY <1>1, <1>2, <1>7 DEF Cancel, Requests
<1>8. CASE ReleaseFails(o)
  BY <1>1, <1>2, <1>8 DEF ReleaseFails
<1>9. CASE CheckBlocks(o)
  <2>1. PICK rate \in Rates, balance \in Balances :
          LET need == rate * order[o].opening IN
            IF balance - books.blocked < need
            THEN Refused(o) /\ UNCHANGED <<books, block>>
            ELSE /\ order' = [order EXCEPT ![o].at = "done", ![o].opening = 0]
                 /\ block' = [block EXCEPT ![o] = need]
                 /\ books' = [books EXCEPT !.blocked = @ + need]
    BY <1>9 DEF CheckBlocks, BlockMargin
  <2> DEFINE need == rate * order[o].opening
  <2>2. need \in Nat
    BY Products, Fields
  <2>3. order[o].at = "block" /\ ledger = Nobody
    BY <1>9, RequestsNeedFreeRows DEF CheckBlocks, BlockMargin
  <2>4. UNCHANGED <<ledger, draft, sweep>>
    BY <1>9 DEF CheckBlocks, BlockMargin
  <2>5. CASE balance - books.blocked < need
    <3>1. Refused(o) /\ UNCHANGED <<books, block>>
      BY <2>1, <2>5
    <3> QED BY <1>1, <1>2, <2>4, <3>1 DEF Refused
  <2>6. CASE ~(balance - books.blocked < need)
    <3>1. /\ order' = [order EXCEPT ![o].at = "done", ![o].opening = 0]
          /\ block' = [block EXCEPT ![o] = need]
          /\ books' = [books EXCEPT !.blocked = @ + need]
      BY <2>1, <2>6
    <3>2. block[o] = 0
      BY <2>3 DEF LedgerInv, NothingYet
    <3> HIDE DEF need
    <3>3. SumFunction(block') = SumFunction(block) - block[o] + need
      BY <2>2, <3>1, BlockReplaced
    <3>4. /\ books'.margin = books.margin
          /\ books'.blocked = books.blocked + need
      BY <3>1, Fields DEF TypeOK, Books
    <3>5. books.blocked = books.margin + SumFunction(block)
      BY DEF LedgerInv, Balanced
    <3>6. SumFunction(block) \in Nat /\ books.margin \in Nat
      BY BlocksAddUp, Fields
    <3>7. Balanced(books)'
      BY <2>2, <3>2, <3>3, <3>4, <3>5, <3>6 DEF Balanced
    <3>8. /\ order'[o].at = "done"
          /\ \A x \in Orders \ {o} : order'[x] = order[x] /\ block'[x] = block[x]
      BY <1>1, <3>1 DEF Requests
    <3>9. NothingYet'
      BY <3>8 DEF LedgerInv, NothingYet
    <3> QED BY <2>3, <2>4, <3>7, <3>9 DEF LedgerInv
  <2> QED BY <2>5, <2>6
<1>10. CASE Release(o)
  <2>1. /\ block' = [block EXCEPT ![o] = 0]
        /\ books' = [books EXCEPT !.blocked = Clamp(@ - block[o])]
        /\ UNCHANGED <<ledger, draft, order, sweep>>
    BY <1>10 DEF Release
  <2>2. ledger = Nobody
    BY <1>10, RequestsNeedFreeRows DEF Release
  <2>3. /\ SumFunction(block') = SumFunction(block) - block[o] + 0
        /\ SumFunction(block') \in Nat
    BY <2>1, BlockReplaced
  <2>4. books.blocked = books.margin + SumFunction(block)
    BY DEF LedgerInv, Balanced
  <2>5. /\ SumFunction(block) \in Nat /\ books.margin \in Nat
        /\ block[o] \in Nat
    BY BlocksAddUp, Fields
  <2>6. books.blocked - block[o] = books.margin + SumFunction(block')
    BY <2>3, <2>4, <2>5
  <2>7. Clamp(books.blocked - block[o]) = books.margin + SumFunction(block')
    BY <2>3, <2>5, <2>6 DEF Clamp
  <2>8. books'.margin = books.margin
        /\ books'.blocked = Clamp(books.blocked - block[o])
    BY <2>1 DEF TypeOK, Books
  <2>9. Balanced(books)'
    BY <2>7, <2>8 DEF Balanced
  <2>10. NothingYet'
    BY <1>1, <2>1 DEF LedgerInv, NothingYet
  <2> QED BY <2>1, <2>2, <2>9, <2>10 DEF LedgerInv
<1> QED BY <1>3, <1>4, <1>5, <1>6, <1>7, <1>8, <1>9, <1>10
        DEF Request, Checks

\* Steps that leave requests alone need only say what becomes of the rows.
LEMMA RowsWritten ==
  ASSUME LedgerInv, UNCHANGED requests,
         Balanced(books'), ledger' # Nobody => Balanced(draft'),
         sweep' = "closed" => ledger' = Sweep
  PROVE  LedgerInv'
<1>1. NothingYet'
  BY DEF LedgerInv, NothingYet, requests
<1>2. Balanced(books)' /\ (ledger' # Nobody => Balanced(draft)')
  BY DEF Balanced, requests
<1> QED BY <1>1, <1>2 DEF LedgerInv

LEMMA RowsKept ==
  ASSUME LedgerInv, UNCHANGED <<requests, books, ledger, draft, sweep>>
  PROVE  LedgerInv'
  BY DEF LedgerInv, NothingYet, Balanced, requests

LEMMA FillsBalance ==
  ASSUME TypeOK, LedgerInv, NEW p \in Passes,
         Trade(p) \/ Fills(p) \/ ReconcileSkipped(p) \/ PassFails(p)
  PROVE  LedgerInv'
<1> USE DEF history
<1>1. Balanced(books) /\ Balanced(Rows(p)) /\ (ledger # Nobody => Balanced(draft))
      /\ (sweep = "closed" => ledger = Sweep) /\ p # Sweep /\ p # Nobody
  BY RowsBalanced, ActorsDiffer DEF LedgerInv
<1>2. CASE \/ Trade(p) \/ FillLocks(p) \/ FillReads(p) \/ FillSaves(p)
           \/ ReconcileSkipped(p)
  BY <1>2, RowsKept
     DEF Trade, FillLocks, FillReads, FillSaves, ReconcileSkipped
\* The sweep does not have the rows that p takes.
<1>3. ASSUME RowsFree(p) PROVE sweep # "closed"
  BY <1>1, <1>3, ActorsDiffer DEF RowsFree
<1>4. CASE FillCloses(p)
  <2>1. /\ RowsFree(p) /\ draft' = ClosedRow(Rows(p))
        /\ UNCHANGED <<requests, books, sweep>>
    BY <1>4 DEF FillCloses
  <2>2. Balanced(draft')
    <3>1. ClosedRow(Rows(p)).margin = Rows(p).margin
          /\ ClosedRow(Rows(p)).blocked = Rows(p).blocked
      BY RowsAreBooks DEF ClosedRow, Books
    <3> QED BY <1>1, <2>1, <3>1 DEF Balanced
  <2> QED BY <1>1, <1>3, <2>1, <2>2, RowsWritten
<1>5. CASE Reconcile(p)
  <2>1. PICK rate \in Rates :
          draft' = [Rows(p) EXCEPT
                      !.margin = Required(NetForMargin(p), rate),
                      !.blocked = WalletAfter(Rows(p),
                                    Required(NetForMargin(p), rate))]
    BY <1>5 DEF Reconcile
  <2> DEFINE need == Required(NetForMargin(p), rate)
  <2>2. need \in Nat
    <3>1. NewNet(p) \in Int
      BY Fields, Sizes DEF NewNet
    <3> QED BY <3>1, RequiredIsNat DEF NetForMargin
  <2>3. draft' = [Rows(p) EXCEPT !.margin = need,
                                 !.blocked = WalletAfter(Rows(p), need)]
    BY <2>1
  <2> HIDE DEF need
  <2>4. draft'.margin = need /\ draft'.blocked = WalletAfter(Rows(p), need)
    BY <2>3, RowsAreBooks DEF Books
  <2>5. WalletAfter(Rows(p), need) = need + SumFunction(block)
    BY <1>1, <2>2, RowsAreBooks, MarginReplaced
  <2>6. Balanced(draft')
    BY <2>4, <2>5 DEF Balanced
  <2>7. RowsFree(p) /\ UNCHANGED <<requests, books, sweep>>
    BY <1>5 DEF Reconcile, ReleasedByFill, requests
  <2> QED BY <1>1, <1>3, <2>6, <2>7, RowsWritten
<1>6. CASE Credit(p)
  <2>1. /\ RowsFree(p) /\ draft' = Rows(p)
        /\ UNCHANGED <<requests, books, sweep>>
    BY <1>6 DEF Credit
  <2> QED BY <1>1, <1>3, <2>1, RowsWritten
<1>7. ASSUME GiveUpRows(p)
      PROVE  /\ ledger' # Nobody => Balanced(draft')
             /\ sweep = "closed" => ledger' = Sweep
  BY <1>1, <1>7 DEF GiveUpRows
<1>8. CASE Commit(p)
  <2>1. books' = Rows(p) /\ GiveUpRows(p) /\ UNCHANGED <<requests, sweep>>
    BY <1>8 DEF Commit
  <2> QED BY <1>1, <1>7, <2>1, RowsWritten
<1>9. CASE FillRaises(p) \/ PassFails(p)
  <2>1. GiveUpRows(p) /\ UNCHANGED <<requests, books, sweep>>
    BY <1>9 DEF FillRaises, PassFails, RollBack
  <2> QED BY <1>1, <1>7, <2>1, RowsWritten
<1> QED BY <1>2, <1>4, <1>5, <1>6, <1>8, <1>9 DEF Fills

LEMMA SweepBalances ==
  ASSUME TypeOK, LedgerInv, Expire \/ Feed \/ EndOfDay
  PROVE  LedgerInv'
<1> USE DEF history
<1>1. CASE Expire \/ Feed
  BY <1>1, RowsKept DEF Expire, Feed, TickReads, TickWrites
<1>2. CASE SweepLists
  <2>1. UNCHANGED <<requests, books, ledger, draft>> /\ sweep' # "closed"
    BY <1>2 DEF SweepLists
  <2> QED BY <2>1, RowsWritten DEF LedgerInv
<1>3. CASE SweepCloses
  <2> DEFINE released == [books EXCEPT !.margin = 0,
                                       !.blocked = WalletAfter(books, 0)]
  <2>1. /\ draft' = ClosedRow(released) \/ draft' = released
        /\ ledger' = Sweep /\ UNCHANGED <<requests, books>>
    BY <1>3 DEF SweepCloses
  <2>2. released.margin = 0 /\ released.blocked = WalletAfter(books, 0)
        /\ ClosedRow(released).margin = released.margin
        /\ ClosedRow(released).blocked = released.blocked
    BY DEF TypeOK, Books, ClosedRow
  <2>3. WalletAfter(books, 0) = 0 + SumFunction(block)
    BY Fields, MarginReplaced DEF LedgerInv
  <2> HIDE DEF released
  <2>4. Balanced(draft')
    BY <2>1, <2>2, <2>3 DEF Balanced
  <2> QED BY <2>1, <2>4, RowsWritten DEF LedgerInv
<1>4. CASE SweepEnds
  <2>1. /\ ledger = Sweep /\ ledger' = Nobody
        /\ books' = draft \/ books' = books
        /\ UNCHANGED requests /\ sweep' # "closed"
    BY <1>4 DEF SweepEnds, GiveUpRows, LedgerInv
  <2>2. Balanced(draft) /\ Balanced(books)
    BY <2>1, ActorsDiffer DEF LedgerInv
  <2> QED BY <2>1, <2>2, RowsWritten
<1> QED BY <1>1, <1>2, <1>3, <1>4 DEF Feed, EndOfDay

\* Through all interleavings the wallet's total is that of the position and
\* the orders, so that no release is ever cut off at 0.
THEOREM BooksBalance == Spec => []LedgerBalances
<1>1. Init => LedgerInv
  <2> SUFFICES ASSUME Init PROVE LedgerInv
    OBVIOUS
  <2>1. block = [o \in Orders |-> 0] /\ DOMAIN block = Orders
    BY DEF Init, NoFills
  <2>2. SumFunction(block) = 0
    BY <2>1, SumOfZeroes DEF SumFunction
  <2>3. PICK rate \in Rates :
          books = [open |-> held # 0, margin |-> Required(held, rate),
                   blocked |-> Required(held, rate)]
    BY DEF Init
  <2>4. Required(held, rate) \in Nat
    BY RequiredIsNat DEF Init
  <2>5. Balanced(books)
    <3> HIDE DEF Required
    <3> QED BY <2>2, <2>3, <2>4 DEF Balanced
  <2> QED BY <2>1, <2>5 DEF Init, LedgerInv, NothingYet
<1>2. TypeOK /\ LedgerInv /\ [Next]_vars => LedgerInv'
  <2> SUFFICES ASSUME TypeOK, LedgerInv, [Next]_vars
               PROVE  LedgerInv'
    OBVIOUS
  <2>1. CASE UNCHANGED vars
    BY <2>1, RowsKept DEF vars, requests
  <2> QED BY <2>1, RequestsBalance, FillsBalance, SweepBalances DEF Next
<1>3. LedgerInv => LedgerBalances
  BY DEF LedgerInv, Balanced, LedgerBalances
<1> QED BY <1>1, <1>2, <1>3, TypesHold, PTL DEF Spec

-----------------------------------------------------------------------------
\* Signed sums of fills

LEMMA SignedSums ==
  ASSUME NEW f \in [Orders -> Nat]
  PROVE  SignedSum(f) \in Int
<1> DEFINE g == [o \in Orders |-> Signed(o, f[o])]
<1>1. DOMAIN g = Orders /\ \A o \in Orders : g[o] \in Int
  BY Sizes
<1> HIDE DEF g
<1>2. SumFunctionOnSet(g, Orders) \in Int
  BY <1>1, SumIsInt
<1> QED BY <1>1, <1>2 DEF SignedSum, SumFunction, g

LEMMA SignedNone == SignedSum(NoFills) = 0
<1> DEFINE g == [o \in Orders |-> Signed(o, NoFills[o])]
<1>1. DOMAIN g = Orders /\ \A o \in Orders : g[o] = 0
  <2>1. \A o \in Orders : NoFills[o] = 0
    BY DEF NoFills
  <2>2. \A o \in Orders : Signed(o, 0) = 0
    <3>1. \A n \in Nat : 0 - n = -n
      OBVIOUS
    <3>2. 0 - 0 = 0
      OBVIOUS
    <3>3. -0 = 0
      BY <3>1, <3>2, Zenon
    <3> QED BY <3>3, Zenon DEF Signed
  <2> QED BY <2>1, <2>2
<1> HIDE DEF g
<1>2. SumFunctionOnSet(g, Orders) = 0
  BY <1>1, SumOfZeroes
<1> QED BY <1>1, <1>2 DEF SignedSum, SumFunction, g

LEMMA SignedBoth ==
  ASSUME NEW e \in [Orders -> Nat], NEW f \in [Orders -> Nat],
         NEW g \in [Orders -> Nat],
         \A o \in Orders : e[o] = f[o] + g[o]
  PROVE  SignedSum(e) = SignedSum(f) + SignedSum(g)
<1> DEFINE E == [o \in Orders |-> Signed(o, e[o])]
           F == [o \in Orders |-> Signed(o, f[o])]
           G == [o \in Orders |-> Signed(o, g[o])]
           Z == [o \in Orders |-> 0]
<1>1. ASSUME NEW o \in Orders
      PROVE  /\ F[o] \in Int /\ G[o] \in Int /\ Z[o] \in Int
             /\ E[o] = F[o] + G[o] - Z[o] /\ Z[o] = 0
  <2>1. e[o] = f[o] + g[o] /\ f[o] \in Nat /\ g[o] \in Nat
    OBVIOUS
  <2>2. Signed(o, e[o]) = Signed(o, f[o]) + Signed(o, g[o]) - 0
    BY <2>1 DEF Signed
  <2> QED BY <2>1, <2>2, Sizes
<1>2. DOMAIN E = Orders /\ DOMAIN F = Orders /\ DOMAIN G = Orders
  OBVIOUS
<1> HIDE DEF E, F, G, Z
<1>3. SumFunctionOnSet(E, Orders) = SumFunctionOnSet(F, Orders)
        + SumFunctionOnSet(G, Orders) - SumFunctionOnSet(Z, Orders)
  BY <1>1, SumCombines
<1>4. SumFunctionOnSet(Z, Orders) = 0
  BY <1>1, SumOfZeroes
<1>5. SumFunctionOnSet(F, Orders) \in Int /\ SumFunctionOnSet(G, Orders) \in Int
  BY <1>1, SumIsInt
<1>6. SumFunction(E) = SumFunction(F) + SumFunction(G)
  BY <1>2, <1>3, <1>4, <1>5 DEF SumFunction
<1> QED BY <1>6 DEF SignedSum, E, F, G

\* One fill more changes the sum by its signed quantity.
LEMMA SignedFill ==
  ASSUME NEW f \in [Orders -> Nat], NEW o \in Orders, NEW n \in Nat
  PROVE  SignedSum([f EXCEPT ![o] = @ + n]) = SignedSum(f) + Signed(o, n)
<1> DEFINE g == [f EXCEPT ![o] = @ + n]
           F == [x \in Orders |-> Signed(x, f[x])]
           G == [x \in Orders |-> Signed(x, g[x])]
<1>1. \A x \in Orders : F[x] \in Int /\ G[x] \in Int
  BY Sizes
<1>2. /\ DOMAIN F = Orders /\ DOMAIN G = Orders
      /\ \A x \in Orders \ {o} : G[x] = F[x]
  OBVIOUS
<1>3. G[o] = F[o] + Signed(o, n)
  <2>1. g[o] = f[o] + n /\ f[o] \in Nat
    OBVIOUS
  <2>2. Signed(o, f[o] + n) = Signed(o, f[o]) + Signed(o, n)
    BY <2>1 DEF Signed
  <2> QED BY <2>1, <2>2
<1> HIDE DEF F, G
<1>4. SumFunctionOnSet(G, Orders) = SumFunctionOnSet(F, Orders) - F[o] + G[o]
  BY <1>1, <1>2, SumOfUpdate
<1>5. SumFunctionOnSet(F, Orders) \in Int /\ Signed(o, n) \in Int
  BY <1>1, SumIsInt, Sizes
<1>6. SumFunction(G) = SumFunction(F) + Signed(o, n)
  BY <1>1, <1>2, <1>3, <1>4, <1>5 DEF SumFunction
<1> QED BY <1>6 DEF SignedSum, F, G

-----------------------------------------------------------------------------
\* What transactions have saved

LEMMA SavedIsInt ==
  ASSUME TypeOK, NEW p \in Passes
  PROVE  Saved(p) \in Int
<1>1. SignedSum(pass[p].fills) \in Int
  BY Fields, SignedSums
<1>2. Signed(pass[p].order, pass[p].lots) \in Int
  BY Fields, Sizes
<1> QED BY <1>1, <1>2 DEF Saved

AllSaved == SumFunction([p \in Passes |-> Saved(p)])

\* The sum changes by what one transaction saves.
LEMMA OneSaves ==
  ASSUME TypeOK, TypeOK', NEW p \in Passes,
         \A q \in Passes \ {p} : pass'[q] = pass[q]
  PROVE  /\ AllSaved' = AllSaved - Saved(p) + Saved(p)'
         /\ AllSaved \in Int
<1> DEFINE F == [q \in Passes |-> Saved(q)]
           G == [q \in Passes |-> Saved(q)']
<1>1. \A q \in Passes : Saved(q) \in Int /\ Saved(q)' \in Int
  <2>1. \A q \in Passes : Saved(q) \in Int
    BY SavedIsInt
  <2>2. /\ pass'[p].fills \in [Orders -> Nat]
        /\ pass'[p].order \in Orders /\ pass'[p].lots \in Nat
    BY DEF TypeOK, Transactions
  <2>3. /\ SignedSum(pass'[p].fills) \in Int
        /\ Signed(pass'[p].order, pass'[p].lots) \in Int
    BY <2>2, SignedSums, Sizes
  <2>4. Saved(p)' \in Int
    BY <2>3 DEF Saved
  <2>5. \A q \in Passes \ {p} : Saved(q)' = Saved(q)
    BY DEF Saved
  <2> QED BY <2>1, <2>4, <2>5
<1>2. \A q \in Passes \ {p} : G[q] = F[q]
  BY DEF Saved
<1>3. /\ DOMAIN F = Passes /\ DOMAIN G = Passes
      /\ \A q \in Passes : F[q] \in Int /\ G[q] \in Int
      /\ F[p] = Saved(p) /\ G[p] = Saved(p)'
  BY <1>1
<1>4. AllSaved = SumFunction(F) /\ AllSaved' = SumFunction(G)
  BY DEF AllSaved
<1> HIDE DEF F, G
<1>5. SumFunctionOnSet(G, Passes) = SumFunctionOnSet(F, Passes) - F[p] + G[p]
  BY <1>2, <1>3, SumOfUpdate
<1>6. SumFunctionOnSet(F, Passes) \in Int
  BY <1>3, SumIsInt
<1> QED BY <1>3, <1>4, <1>5, <1>6 DEF SumFunction

\* When the others have saved nothing, it is what one has.
LEMMA AloneSaved ==
  ASSUME TypeOK, NEW p \in Passes,
         \A q \in Passes \ {p} : Saved(q) = 0
  PROVE  AllSaved = Saved(p)
<1> DEFINE F == [q \in Passes |-> Saved(q)]
<1>1. /\ DOMAIN F = Passes /\ F[p] = Saved(p)
      /\ \A q \in Passes \ {p} : F[q] = 0
  OBVIOUS
<1>2. \A q \in Passes : F[q] \in Int
  BY SavedIsInt
<1>3. AllSaved = SumFunction(F)
  BY DEF AllSaved
<1> HIDE DEF F
<1>4. SumFunctionOnSet(F, Passes) = F[p] + SumFunctionOnSet(F, Passes \ {p})
  BY <1>2, SumTakesAny
<1>5. SumFunctionOnSet(F, Passes \ {p}) = 0
  <2>1. IsFiniteSet(Passes \ {p})
    BY FS_RemoveElement
  <2> QED BY <1>1, <2>1, SumOfZeroes
<1> QED BY <1>1, <1>2, <1>3, <1>4, <1>5 DEF SumFunction

-----------------------------------------------------------------------------
\* The cached position is the one to start with and what was filled: what the
\* holder of the lock has read is what it writes over, as far as nothing was
\* rolled back, has expired or was swept.

Steady == mishaps \cap {"rollback", "expiry", "sweep"} = {}

SavedInv ==
  Undisturbed =>
    \A p \in Passes : pass[p].at = "reconcile" => cache = NewNet(p)

NetInv == Steady => cache = Net

LEMMA SteadySteps ==
  ASSUME mishaps \subseteq mishaps'
  PROVE  /\ Steady' => Steady
         /\ Undisturbed' => Undisturbed
         /\ Steady => Undisturbed
  BY DEF Steady, Undisturbed

LEMMA NetIsInt ==
  ASSUME TypeOK
  PROVE  Net = held + SignedSum(filled) + AllSaved /\ held \in Int
         /\ SignedSum(filled) \in Int
  BY SignedSums DEF Net, AllSaved, TypeOK

\* What neither fills nor writes the position.
LEMMA PositionLeft ==
  ASSUME NetInv, SavedInv, UNCHANGED <<cache, filled, pass, held>>,
         mishaps \subseteq mishaps'
  PROVE  NetInv' /\ SavedInv'
<1>1. Net' = Net
  BY DEF Net, Saved
<1>2. \A p \in Passes : NewNet(p)' = NewNet(p)
  BY DEF NewNet
<1> QED BY <1>1, <1>2, SteadySteps DEF NetInv, SavedInv

LEMMA RequestsLeavePosition ==
  ASSUME NetInv, SavedInv, NEW o \in Orders, Request(o) \/ Checks(o)
  PROVE  NetInv' /\ SavedInv'
<1>1. UNCHANGED <<cache, filled, pass, held>> /\ mishaps \subseteq mishaps'
  BY DEF Request, Checks, Place, CheckLocks, CheckReads, CheckBlocks,
         BlockMargin, CheckFails, Cancel, Release, ReleaseFails, history
<1> QED BY <1>1, PositionLeft

LEMMA OthersLeavePosition ==
  ASSUME TypeOK, LockInv, NetInv, SavedInv, Expire \/ Feed \/ EndOfDay
  PROVE  NetInv' /\ SavedInv'
<1> USE DEF history
<1>1. CASE Expire \/ SweepCloses
  <2>1. ~Steady' /\ ~Undisturbed'
    BY <1>1 DEF Expire, SweepCloses, Steady, Undisturbed
  <2> QED BY <2>1 DEF NetInv, SavedInv
<1>2. CASE TickReads \/ SweepLists \/ SweepEnds
  BY <1>2, PositionLeft DEF TickReads, SweepLists, SweepEnds
<1>3. CASE TickWrites
  <2>1. /\ tick # 0 /\ cache' = tick
        /\ UNCHANGED <<filled, pass, held, mishaps>>
    BY <1>3 DEF TickWrites
  <2>2. CASE Undisturbed
    <3>1. UNCHANGED cache
      BY <2>1, <2>2 DEF LockInv
    <3> QED BY <2>1, <3>1, PositionLeft
  <2>3. CASE ~Undisturbed
    <3>1. ~Undisturbed' /\ ~Steady'
      BY <2>1, <2>3 DEF Undisturbed, Steady
    <3> QED BY <3>1 DEF NetInv, SavedInv
  <2> QED BY <2>2, <2>3
<1> QED BY <1>1, <1>2, <1>3 DEF Feed, EndOfDay

\* A step of one transaction that is not at its reconciliation afterwards.
LEMMA SavedOfOthers ==
  ASSUME TypeOK, SavedInv, NEW p \in Passes, UNCHANGED cache,
         mishaps \subseteq mishaps',
         \A q \in Passes \ {p} : pass'[q] = pass[q],
         pass'[p].at # "reconcile"
  PROVE  SavedInv'
<1>1. \A q \in Passes \ {p} : NewNet(q)' = NewNet(q)
  BY DEF NewNet
<1> QED BY <1>1, SteadySteps DEF SavedInv

\* Net after a step of one transaction that commits nothing.
LEMMA NetAfter ==
  ASSUME TypeOK, TypeOK', NEW p \in Passes, UNCHANGED <<filled, held>>,
         \A q \in Passes \ {p} : pass'[q] = pass[q]
  PROVE  Net' = Net - Saved(p) + Saved(p)' /\ Net \in Int
<1>1. AllSaved' = AllSaved - Saved(p) + Saved(p)' /\ AllSaved \in Int
  BY OneSaves
<1>2. Net = held + SignedSum(filled) + AllSaved
  BY NetIsInt
<1>3. held \in Int /\ SignedSum(filled) \in Int
  BY NetIsInt
<1>4. Net' = held + SignedSum(filled) + AllSaved'
  BY DEF Net, AllSaved
<1>5. Saved(p) \in Int /\ Saved(p)' \in Int
  <2>1. /\ pass'[p].fills \in [Orders -> Nat]
        /\ pass'[p].order \in Orders /\ pass'[p].lots \in Nat
    BY DEF TypeOK, Transactions
  <2>2. /\ SignedSum(pass'[p].fills) \in Int
        /\ Signed(pass'[p].order, pass'[p].lots) \in Int
    BY <2>1, SignedSums, Sizes
  <2> QED BY <2>2, SavedIsInt DEF Saved
<1> QED BY <1>1, <1>2, <1>3, <1>4, <1>5

\* Where a transaction has nothing in hand, only its fills count.
LEMMA SavedWhere ==
  ASSUME TypeOK, NEW p \in Passes
  PROVE  /\ pass[p].at # "reconcile" => Saved(p) = SignedSum(pass[p].fills)
         /\ pass[p].at = "reconcile" =>
              Saved(p) = SignedSum(pass[p].fills)
                           + Signed(pass[p].order, pass[p].lots)
         /\ SignedSum(pass[p].fills) \in Int
         /\ Signed(pass[p].order, pass[p].lots) \in Int
<1>1. /\ SignedSum(pass[p].fills) \in Int
      /\ Signed(pass[p].order, pass[p].lots) \in Int
  BY Fields, SignedSums, Sizes
<1> QED BY <1>1 DEF Saved

LEMMA FillsKeepNet ==
  ASSUME TypeOK, TypeOK', LockInv, NetInv, SavedInv, NEW p \in Passes,
         Trade(p) \/ Fills(p) \/ ReconcileSkipped(p) \/ PassFails(p)
  PROVE  NetInv' /\ SavedInv'
<1> USE DEF history
<1> DEFINE others == \A q \in Passes \ {p} : pass'[q] = pass[q]
<1>1. others
  BY OnlyOne
<1>2. pass \in [Passes -> Transactions] /\ mishaps \subseteq mishaps'
  <2>1. pass \in [Passes -> Transactions]
    BY DEF TypeOK
  <2>2. mishaps \subseteq mishaps'
    BY DEF Trade, Fills, FillLocks, FillReads, FillSaves, FillCloses,
           Reconcile, Credit, Commit, FillRaises, ReconcileSkipped,
           PassFails, RollBack
  <2> QED BY <2>1, <2>2
<1> HIDE DEF others
\* Nothing is filled or saved.
<1>3. ASSUME UNCHANGED <<cache, filled, held>>, Saved(p)' = Saved(p),
             pass'[p].at # "reconcile"
      PROVE  NetInv' /\ SavedInv'
  <2>1. Net' = Net - Saved(p) + Saved(p)' /\ Net \in Int
    BY <1>1, <1>3, NetAfter DEF others
  <2>2. Saved(p) \in Int
    BY SavedIsInt
  <2>3. Net' = Net
    BY <1>3, <2>1, <2>2
  <2>4. SavedInv'
    BY <1>1, <1>2, <1>3, SavedOfOthers DEF others
  <2> QED BY <1>2, <1>3, <2>3, <2>4, SteadySteps DEF NetInv
<1>4. ASSUME UNCHANGED <<cache, filled, held>>,
             pass'[p].fills = pass[p].fills, pass[p].at # "reconcile",
             pass'[p].at # "reconcile"
      PROVE  NetInv' /\ SavedInv'
  <2>1. Saved(p) = SignedSum(pass[p].fills)
    BY <1>4, SavedWhere
  <2>2. Saved(p)' = SignedSum(pass[p].fills) + 0
    BY <1>4 DEF Saved
  <2>3. SignedSum(pass[p].fills) \in Int
    BY SavedWhere
  <2> QED BY <1>3, <1>4, <2>1, <2>2, <2>3
<1>5. CASE Trade(p)
  <2>1. PICK o \in Orders : \E n \in 1..Left(p, o) :
          pass' = [pass EXCEPT ![p] = Matched(p, o, n)]
    BY <1>5 DEF Trade
  <2>2. PICK n \in 1..Left(p, o) :
          pass' = [pass EXCEPT ![p] = Matched(p, o, n)]
    BY <2>1
  <2>3. Matched(p, o, n).at = "lock" /\ Matched(p, o, n).fills = pass[p].fills
    BY Fields DEF Matched, Transactions
  <2>4. pass'[p] = Matched(p, o, n)
    BY <1>2, <2>2
  <2>5. pass[p].at # "reconcile" /\ UNCHANGED <<cache, filled, held>>
    BY <1>5 DEF Trade
  <2> QED BY <1>4, <2>3, <2>4, <2>5
<1>6. CASE FillLocks(p)
  <2>1. pass'[p].at = "read" /\ pass'[p].fills = pass[p].fills
    BY <1>2, <1>6, Fields DEF FillLocks, Step, Transactions
  <2>2. pass[p].at # "reconcile" /\ UNCHANGED <<cache, filled, held>>
    BY <1>6 DEF FillLocks, Step
  <2> QED BY <1>4, <2>1, <2>2
<1>7. CASE FillReads(p)
  <2>1. pass'[p].at = "save" /\ pass'[p].fills = pass[p].fills
    BY <1>2, <1>7, Fields DEF FillReads, Transactions
  <2>2. pass[p].at # "reconcile" /\ UNCHANGED <<cache, filled, held>>
    BY <1>7 DEF FillReads
  <2> QED BY <1>4, <2>1, <2>2
<1>8. CASE Credit(p)
  <2>1. pass'[p].at = "settled" /\ pass'[p].fills = pass[p].fills
    BY <1>2, <1>8, Fields DEF Credit, Step, Transactions
  <2>2. pass[p].at # "reconcile" /\ UNCHANGED <<cache, filled, held>>
    BY <1>8 DEF Credit, Step
  <2> QED BY <1>4, <2>1, <2>2
<1>9. CASE FillSaves(p) \/ FillCloses(p)
  <2>1. pass[p].at = "save" /\ pass' = [pass EXCEPT ![p].at = "reconcile"]
    BY <1>9 DEF FillSaves, FillCloses, Step
  <2>2. /\ pass'[p].at = "reconcile" /\ pass'[p].fills = pass[p].fills
        /\ pass'[p].order = pass[p].order /\ pass'[p].lots = pass[p].lots
        /\ pass'[p].seen = pass[p].seen
    BY <1>2, <2>1, Fields DEF Transactions
  <2>3. cache' = NewNet(p) /\ UNCHANGED <<filled, held, mishaps>>
    BY <1>9 DEF FillSaves, FillCloses
  <2>4. NewNet(p)' = NewNet(p)
    BY <2>2 DEF NewNet
  <2>5. Saved(p)' = Saved(p) + Signed(pass[p].order, pass[p].lots)
    BY <2>1, <2>2, SavedWhere DEF Saved
  <2>6. Net' = Net - Saved(p) + Saved(p)' /\ Net \in Int
    BY <1>1, <2>3, NetAfter DEF others
  <2>7. Saved(p) \in Int /\ Signed(pass[p].order, pass[p].lots) \in Int
    BY SavedIsInt, SavedWhere
  <2>8. Net' = Net + Signed(pass[p].order, pass[p].lots)
    BY <2>5, <2>6, <2>7
  <2>9. Undisturbed => pass[p].seen = cache
    BY <2>1 DEF LockInv
  <2>10. NetInv'
    BY <1>2, <2>3, <2>8, <2>9, SteadySteps DEF NetInv, NewNet
  <2>11. Undisturbed => \A q \in Passes \ {p} : pass[q].at # "reconcile"
    BY <2>1 DEF LockInv, Inside
  <2>12. SavedInv'
    BY <1>1, <1>2, <2>3, <2>4, <2>11, SteadySteps DEF SavedInv, others
  <2> QED BY <2>10, <2>12
<1>10. CASE Reconcile(p) \/ ReconcileSkipped(p)
  <2>1. PICK to \in {"credit", "settled"} : Settled(p, to)
    BY <1>10 DEF Reconcile, ReconcileSkipped
  <2>2. pass'[p].at = to /\ pass'[p].fills = FillsWith(p)
    BY <1>2, <2>1, Fields DEF Settled, Transactions
  <2>3. pass[p].at = "reconcile" /\ UNCHANGED <<cache, filled, held>>
    BY <1>10 DEF Reconcile, ReconcileSkipped
  <2>4. SignedSum(FillsWith(p))
          = SignedSum(pass[p].fills) + Signed(pass[p].order, pass[p].lots)
    BY Fields, SignedFill DEF FillsWith
  <2>5. Saved(p)' = SignedSum(FillsWith(p)) + 0
    BY <2>2 DEF Saved
  <2>6. Saved(p)' = Saved(p)
    BY <2>3, <2>4, <2>5, SavedWhere
  <2> QED BY <1>3, <2>2, <2>3, <2>6
<1>11. CASE Commit(p)
  <2>1. /\ pass[p].at = "settled" /\ pass'[p] = Idle
        /\ filled' = [o \in Orders |-> filled[o] + pass[p].fills[o]]
        /\ UNCHANGED <<cache, held, mishaps>>
    BY <1>2, <1>11 DEF Commit, Fresh
  <2>2. /\ filled \in [Orders -> Nat] /\ filled' \in [Orders -> Nat]
        /\ pass[p].fills \in [Orders -> Nat]
        /\ \A o \in Orders : filled'[o] = filled[o] + pass[p].fills[o]
    BY <2>1, Fields DEF TypeOK
  <2>3. SignedSum(filled') = SignedSum(filled) + SignedSum(pass[p].fills)
    BY <2>2, SignedBoth
  <2>4. Saved(p) = SignedSum(pass[p].fills)
    BY <2>1, SavedWhere
  <2>5. Saved(p)' = 0
    <3>1. pass'[p].at = "off" /\ pass'[p].fills = NoFills
      BY <2>1 DEF Idle
    <3>2. Saved(p)' = SignedSum(NoFills) + 0
      BY <3>1 DEF Saved
    <3> QED BY <3>2, SignedNone
  <2>6. AllSaved' = AllSaved - Saved(p) + Saved(p)' /\ AllSaved \in Int
    BY <1>1, OneSaves DEF others
  <2>7. Net = held + SignedSum(filled) + AllSaved
    BY NetIsInt
  <2>8. Net' = held + SignedSum(filled') + AllSaved'
    BY <2>1 DEF Net, AllSaved
  <2>9. /\ held \in Int /\ SignedSum(filled) \in Int
        /\ SignedSum(pass[p].fills) \in Int
    BY NetIsInt, SavedWhere
  <2>10. Net' = Net
    BY <2>3, <2>4, <2>5, <2>6, <2>7, <2>8, <2>9
  <2>11. SavedInv'
    <3>1. pass'[p].at # "reconcile"
      BY <2>1 DEF Idle
    <3> QED BY <1>1, <1>2, <2>1, <3>1, SavedOfOthers DEF others
  <2> QED BY <1>2, <2>1, <2>10, <2>11, SteadySteps DEF NetInv
<1>12. CASE FillRaises(p) \/ PassFails(p)
  <2>1. /\ pass'[p] = Idle /\ UNCHANGED <<cache, filled, held>>
        /\ mishaps' = IF pass[p].at = "reconcile" \/ pass[p].fills # NoFills
                      THEN mishaps \cup {"rollback"} ELSE mishaps
    BY <1>2, <1>12 DEF FillRaises, PassFails, RollBack, Fresh
  <2>2. pass'[p].at # "reconcile" /\ pass'[p].fills = NoFills
    BY <2>1 DEF Idle
  <2>3. CASE pass[p].at = "reconcile" \/ pass[p].fills # NoFills
    <3>1. ~Steady'
      BY <2>1, <2>3 DEF Steady
    <3>2. SavedInv'
      BY <1>1, <1>2, <2>1, <2>2, SavedOfOthers DEF others
    <3> QED BY <3>1, <3>2 DEF NetInv
  <2>4. CASE pass[p].at # "reconcile" /\ pass[p].fills = NoFills
    BY <1>4, <2>1, <2>2, <2>4
  <2> QED BY <2>3, <2>4
<1> QED BY <1>5, <1>6, <1>7, <1>8, <1>9, <1>10, <1>11, <1>12 DEF Fills

LEMMA NetHolds == Spec => [](NetInv /\ SavedInv)
<1>1. Init => NetInv /\ SavedInv
  <2> SUFFICES ASSUME Init PROVE NetInv /\ SavedInv
    OBVIOUS
  <2>1. /\ cache = held /\ held \in Int /\ filled = NoFills
        /\ \A p \in Passes : pass[p] = Idle
    BY DEF Init
  <2>2. \A p \in Passes : Saved(p) = 0 /\ pass[p].at # "reconcile"
    <3>0. Idle.fills = NoFills /\ Idle.at = "off"
      BY DEF Idle
    <3>1. \A p \in Passes : pass[p].fills = NoFills /\ pass[p].at = "off"
      BY <2>1, <3>0
    <3>2. \A p \in Passes : Saved(p) = SignedSum(NoFills) + 0
      BY <3>1 DEF Saved
    <3> QED BY <3>1, <3>2, SignedNone
  <2> DEFINE F == [p \in Passes |-> Saved(p)]
  <2>3. DOMAIN F = Passes /\ \A p \in Passes : F[p] = 0
    BY <2>2
  <2>4. Net = held + SignedSum(filled) + SumFunction(F)
    BY DEF Net
  <2> HIDE DEF F
  <2>5. SumFunctionOnSet(F, Passes) = 0
    BY <2>3, SumOfZeroes
  <2>6. Net = cache
    <3>1. SumFunction(F) = 0
      BY <2>3, <2>5 DEF SumFunction
    <3>2. SignedSum(filled) = 0
      BY <2>1, SignedNone
    <3> QED BY <2>1, <2>4, <3>1, <3>2
  <2> QED BY <2>2, <2>6 DEF NetInv, SavedInv
<1>2. TypeOK /\ TypeOK' /\ LockInv /\ NetInv /\ SavedInv /\ [Next]_vars
        => NetInv' /\ SavedInv'
  <2> SUFFICES ASSUME TypeOK, TypeOK', LockInv, NetInv, SavedInv, [Next]_vars
               PROVE  NetInv' /\ SavedInv'
    OBVIOUS
  <2>1. CASE UNCHANGED vars
    BY <2>1, PositionLeft DEF vars
  <2> QED BY <2>1, RequestsLeavePosition, FillsKeepNet, OthersLeavePosition
          DEF Next
<1>3. Spec => [](TypeOK /\ LockInv)
  BY TypesHold, LocksHold, PTL
<1> QED BY <1>1, <1>2, <1>3, PTL DEF Spec

\* Fills and ticks of one position do not clobber each other.
THEOREM NoFillIsLost == Spec => []KeepsFills
<1>1. NetInv => KeepsFills
  BY DEF NetInv, Steady, KeepsFills
<1> QED BY <1>1, NetHolds, PTL

-----------------------------------------------------------------------------
\* The margin of the position.  A transaction with fills has the rows, and its
\* draft has the margin of what the position will be when it commits; that the
\* position it reconciles is this one is so because it has the lock, so that
\* no other has saved a fill, and the rows, so that no other has any fills.

Quiet == mishaps \subseteq {"unreleased"}

IsMargin(rows, net) == \E rate \in Rates : rows.margin = Required(net, rate)

\* What the position is when p commits what it has filled.
NetWith(p) == held + SignedSum(filled) + SignedSum(pass[p].fills)

MarginInv ==
  Quiet =>
    /\ IsMargin(books, held + SignedSum(filled))
    /\ sweep # "closed" /\ ledger # Sweep
    /\ \A p \in Passes : /\ pass[p].at # "credit"
                         /\ pass[p].fills # NoFills => ledger = p
                         /\ ledger = p => IsMargin(draft, NetWith(p))

LEMMA QuietIsSteady ==
  /\ Quiet => Steady /\ Undisturbed
  /\ mishaps \subseteq mishaps' => (Quiet' => Quiet)
  BY DEF Quiet, Steady, Undisturbed

\* Requests change what is blocked, and no margin of the position.
LEMMA RequestsKeepMargin ==
  ASSUME TypeOK, MarginInv, NEW o \in Orders, Request(o) \/ Checks(o)
  PROVE  MarginInv'
<1> USE DEF history
<1>1. UNCHANGED <<ledger, draft, filled, pass, sweep, held>>
  BY DEF Request, Checks, Place, CheckLocks, CheckReads, CheckBlocks,
         BlockMargin, CheckFails, Cancel, Release, ReleaseFails
<1>2. mishaps \subseteq mishaps'
  BY DEF Request, Checks, Place, CheckLocks, CheckReads, CheckBlocks,
         BlockMargin, CheckFails, Cancel, Release, ReleaseFails
<1>3. books'.margin = books.margin
  <2>1. \A n : [books EXCEPT !.blocked = n].margin = books.margin
    BY DEF TypeOK, Books
  <2>2. CASE CheckBlocks(o)
    <3>1. books' = books \/ \E n : books' = [books EXCEPT !.blocked = n]
      BY <2>2 DEF CheckBlocks, BlockMargin
    <3> QED BY <2>1, <3>1
  <2>3. CASE Release(o)
    BY <2>1, <2>3 DEF Release
  <2>4. CASE ~CheckBlocks(o) /\ ~Release(o)
    BY <2>4 DEF Request, Checks, Place, CheckLocks, CheckReads, CheckFails,
                Cancel, ReleaseFails
  <2> QED BY <2>2, <2>3, <2>4
<1> QED BY <1>1, <1>2, <1>3, QuietIsSteady
        DEF MarginInv, IsMargin, NetWith

LEMMA OthersKeepMargin ==
  ASSUME MarginInv, Expire \/ Feed \/ EndOfDay
  PROVE  MarginInv'
<1> USE DEF history
<1>1. CASE Expire \/ SweepCloses
  <2>1. ~Quiet'
    BY <1>1 DEF Expire, SweepCloses, Quiet
  <2> QED BY <2>1 DEF MarginInv
<1>2. CASE Feed \/ SweepLists
  <2>1. /\ UNCHANGED <<books, ledger, draft, filled, pass, held, mishaps>>
        /\ sweep' = sweep \/ sweep' # "closed"
    BY <1>2 DEF Feed, TickReads, TickWrites, SweepLists
  <2> QED BY <2>1 DEF MarginInv, IsMargin, NetWith, Quiet
<1>3. CASE SweepEnds
  <2>1. sweep = "closed" /\ UNCHANGED mishaps
    BY <1>3 DEF SweepEnds
  <2> QED BY <2>1 DEF MarginInv, Quiet
<1> QED BY <1>1, <1>2, <1>3 DEF EndOfDay

\* A transaction that finds the rows free starts from the margin of what was
\* committed, and one that has them goes on from its own.
LEMMA RowsAtHand ==
  ASSUME TypeOK, MarginInv, Quiet, NEW p \in Passes, RowsFree(p)
  PROVE  IsMargin(Rows(p), NetWith(p))
<1>1. CASE ledger = p
  BY <1>1 DEF MarginInv, Rows
<1>2. CASE ledger # p
  <2>1. pass[p].fills = NoFills
    BY <1>2 DEF MarginInv
  <2>2. NetWith(p) = held + SignedSum(filled)
    BY <2>1, SignedNone, NetIsInt DEF NetWith
  <2> QED BY <1>2, <2>2 DEF MarginInv, Rows
<1> QED BY <1>1, <1>2

\* Only the holder of the rows has fills.
LEMMA OthersHaveNone ==
  ASSUME TypeOK, MarginInv, Quiet, NEW p \in Passes, RowsFree(p)
  PROVE  \A q \in Passes \ {p} : pass[q].fills = NoFills /\ ledger # q
  BY ActorsDiffer DEF MarginInv, RowsFree

\* The position that a transaction reconciles is what it will commit.
LEMMA ReconcilesItsOwn ==
  ASSUME TypeOK, LockInv, NetInv, SavedInv, MarginInv, Quiet,
         NEW p \in Passes, RowsFree(p), pass[p].at = "reconcile"
  PROVE  NewNet(p) = held + SignedSum(filled) + SignedSum(FillsWith(p))
<1>1. NewNet(p) = Net
  BY QuietIsSteady DEF SavedInv, NetInv
<1>2. ASSUME NEW q \in Passes \ {p}
      PROVE  Saved(q) = 0
  <2>1. pass[q].at # "reconcile"
    BY QuietIsSteady DEF LockInv, Inside
  <2>2. pass[q].fills = NoFills
    BY OthersHaveNone
  <2> QED BY <2>1, <2>2, SignedNone, SavedWhere
<1>3. AllSaved = Saved(p)
  BY <1>2, AloneSaved
<1>4. Saved(p) = SignedSum(FillsWith(p))
  BY Fields, SavedWhere, SignedFill DEF FillsWith
<1> QED BY <1>1, <1>3, <1>4, NetIsInt

\* A step of p that commits nothing, and takes the rows when they are free.
LEMMA DraftWritten ==
  ASSUME TypeOK, MarginInv, NEW p \in Passes,
         UNCHANGED <<books, filled, sweep, held>>,
         mishaps \subseteq mishaps',
         \A q \in Passes \ {p} : pass'[q] = pass[q],
         Quiet' => /\ pass'[p].at # "credit"
                   /\ RowsFree(p) /\ ledger' = p
                   /\ IsMargin(draft', NetWith(p)')
  PROVE  MarginInv'
<1> SUFFICES ASSUME Quiet' PROVE MarginInv'
  BY DEF MarginInv
<1>1. Quiet
  BY QuietIsSteady
<1>2. \A q \in Passes \ {p} : pass[q].fills = NoFills
  BY <1>1, OthersHaveNone
<1>3. IsMargin(draft, NetWith(p))'
  BY DEF IsMargin
<1>4. IsMargin(books, held + SignedSum(filled))'
  BY <1>1 DEF MarginInv, IsMargin
<1> QED BY <1>1, <1>2, <1>3, <1>4, ActorsDiffer DEF MarginInv

\* One that leaves the rows alone, and its fills.
LEMMA RowsLeft ==
  ASSUME TypeOK, MarginInv, NEW p \in Passes,
         UNCHANGED <<books, ledger, draft, filled, sweep, held>>,
         mishaps \subseteq mishaps',
         \A q \in Passes \ {p} : pass'[q] = pass[q],
         pass'[p].fills = pass[p].fills,
         pass'[p].at # "credit"
  PROVE  MarginInv'
<1>1. \A q \in Passes : NetWith(q)' = NetWith(q)
  BY DEF NetWith
<1> QED BY <1>1, QuietIsSteady DEF MarginInv, IsMargin

\* One that ends p, and leaves the books with the margin of their quantity.
LEMMA RowsGiven ==
  ASSUME TypeOK, MarginInv, NEW p \in Passes, GiveUpRows(p),
         UNCHANGED <<sweep, held>>, mishaps \subseteq mishaps',
         \A q \in Passes \ {p} : pass'[q] = pass[q], pass'[p] = Idle,
         Quiet' => /\ IsMargin(books', held + SignedSum(filled'))
                   /\ ledger = p \/ filled' = filled
  PROVE  MarginInv'
<1> SUFFICES ASSUME Quiet' PROVE MarginInv'
  BY DEF MarginInv
<1>1. Quiet
  BY QuietIsSteady
<1>2. pass'[p].at = "off" /\ pass'[p].fills = NoFills
  BY DEF Idle
<1>3. ledger' # p /\ ledger' # Sweep /\ sweep' # "closed"
  BY <1>1, ActorsDiffer DEF GiveUpRows, MarginInv
<1>4. ASSUME NEW q \in Passes \ {p}
      PROVE  /\ pass'[q].at # "credit"
             /\ pass'[q].fills # NoFills => ledger' = q
             /\ ledger' = q => IsMargin(draft, NetWith(q))'
  <2>1. ledger' = q <=> ledger = q
    BY ActorsDiffer DEF GiveUpRows
  <2>2. ledger = q => filled' = filled /\ draft' = draft
    BY DEF GiveUpRows
  <2>3. ledger = q => NetWith(q)' = NetWith(q)
    BY <2>2 DEF NetWith
  <2> QED BY <1>1, <2>1, <2>2, <2>3 DEF MarginInv, IsMargin
<1>5. IsMargin(books, held + SignedSum(filled))'
  BY DEF IsMargin
<1> QED BY <1>2, <1>3, <1>4, <1>5 DEF MarginInv

LEMMA FillsKeepMargin ==
  ASSUME TypeOK, LockInv, NetInv, SavedInv, MarginInv, NEW p \in Passes,
         Trade(p) \/ Fills(p) \/ ReconcileSkipped(p) \/ PassFails(p)
  PROVE  MarginInv'
<1> USE DEF history
<1> DEFINE others == \A q \in Passes \ {p} : pass'[q] = pass[q]
<1>1. others
  BY OnlyOne
<1>2. pass \in [Passes -> Transactions] /\ mishaps \subseteq mishaps'
  <2>1. pass \in [Passes -> Transactions]
    BY DEF TypeOK
  <2>2. mishaps \subseteq mishaps'
    BY DEF Trade, Fills, FillLocks, FillReads, FillSaves, FillCloses,
           Reconcile, Credit, Commit, FillRaises, ReconcileSkipped,
           PassFails, RollBack
  <2> QED BY <2>1, <2>2
<1> HIDE DEF others
<1>3. CASE Trade(p)
  <2>1. PICK o \in Orders : \E n \in 1..Left(p, o) :
          pass' = [pass EXCEPT ![p] = Matched(p, o, n)]
    BY <1>3 DEF Trade
  <2>2. PICK n \in 1..Left(p, o) :
          pass' = [pass EXCEPT ![p] = Matched(p, o, n)]
    BY <2>1
  <2>3. Matched(p, o, n).at = "lock" /\ Matched(p, o, n).fills = pass[p].fills
    BY Fields DEF Matched, Transactions
  <2>4. pass'[p] = Matched(p, o, n)
    BY <1>2, <2>2
  <2>5. UNCHANGED <<books, ledger, draft, filled, sweep, held>>
    BY <1>3 DEF Trade
  <2> QED BY <1>1, <1>2, <2>3, <2>4, <2>5, RowsLeft DEF others
<1>4. CASE FillLocks(p) \/ FillSaves(p)
  <2>1. pass'[p].at \in {"read", "reconcile"} /\ pass'[p].fills = pass[p].fills
    BY <1>2, <1>4, Fields DEF FillLocks, FillSaves, Step, Transactions
  <2>2. UNCHANGED <<books, ledger, draft, filled, sweep, held>>
    BY <1>4 DEF FillLocks, FillSaves
  <2> QED BY <1>1, <1>2, <2>1, <2>2, RowsLeft DEF others
<1>5. CASE FillReads(p)
  <2>1. pass'[p].at = "save" /\ pass'[p].fills = pass[p].fills
    BY <1>2, <1>5, Fields DEF FillReads, Transactions
  <2>2. UNCHANGED <<books, ledger, draft, filled, sweep, held>>
    BY <1>5 DEF FillReads
  <2> QED BY <1>1, <1>2, <2>1, <2>2, RowsLeft DEF others
<1>6. CASE FillCloses(p)
  <2>1. /\ pass'[p].at = "reconcile" /\ pass'[p].fills = pass[p].fills
    BY <1>2, <1>6, Fields DEF FillCloses, Step, Transactions
  <2>2. /\ RowsFree(p) /\ ledger' = p /\ draft' = ClosedRow(Rows(p))
        /\ UNCHANGED <<books, filled, sweep, held, mishaps>>
    BY <1>6 DEF FillCloses
  <2>3. ClosedRow(Rows(p)).margin = Rows(p).margin
    BY RowsAreBooks DEF ClosedRow, Books
  <2>4. NetWith(p)' = NetWith(p)
    BY <2>1, <2>2 DEF NetWith
  <2>5. Quiet' => IsMargin(draft', NetWith(p)')
    BY <1>2, <2>2, <2>3, <2>4, RowsAtHand, QuietIsSteady DEF IsMargin
  <2> QED BY <1>1, <1>2, <2>1, <2>2, <2>5, DraftWritten DEF others
<1>7. CASE Reconcile(p)
  <2>1. /\ pass[p].at = "reconcile" /\ Settled(p, "settled")
        /\ RowsFree(p) /\ ledger' = p
        /\ UNCHANGED <<books, filled, sweep, held, mishaps>>
    BY <1>7 DEF Reconcile
  <2>2. pass'[p].at = "settled" /\ pass'[p].fills = FillsWith(p)
    BY <1>2, <2>1, Fields DEF Settled, Transactions
  <2>3. PICK rate \in Rates :
          draft' = [Rows(p) EXCEPT
                      !.margin = Required(NetForMargin(p), rate),
                      !.blocked = WalletAfter(Rows(p),
                                    Required(NetForMargin(p), rate))]
    BY <1>7 DEF Reconcile
  <2>4. draft'.margin = Required(NewNet(p), rate)
    BY <2>3, RowsAreBooks DEF Books, NetForMargin
  <2>5. Quiet => NewNet(p) = held + SignedSum(filled) + SignedSum(FillsWith(p))
    BY <2>1, ReconcilesItsOwn
  <2>6. NetWith(p)' = held + SignedSum(filled) + SignedSum(FillsWith(p))
    BY <2>1, <2>2 DEF NetWith
  <2>7. Quiet' => IsMargin(draft', NetWith(p)')
    BY <1>2, <2>4, <2>5, <2>6, QuietIsSteady DEF IsMargin
  <2> QED BY <1>1, <1>2, <2>1, <2>2, <2>7, DraftWritten DEF others
<1>8. CASE ReconcileSkipped(p)
  <2>1. ~Quiet'
    BY <1>8 DEF ReconcileSkipped, Quiet
  <2> QED BY <2>1 DEF MarginInv
<1>9. CASE Credit(p)
  <2>1. pass[p].at = "credit"
    BY <1>9 DEF Credit, Step
  <2>2. ~Quiet'
    BY <1>2, <2>1, QuietIsSteady, <1>9 DEF MarginInv
  <2> QED BY <2>2 DEF MarginInv
<1>10. CASE Commit(p)
  <2>1. /\ pass'[p] = Idle /\ books' = Rows(p) /\ GiveUpRows(p)
        /\ filled' = [o \in Orders |-> filled[o] + pass[p].fills[o]]
        /\ UNCHANGED <<sweep, held, mishaps>>
    BY <1>2, <1>10 DEF Commit, Fresh
  <2>2. /\ filled \in [Orders -> Nat] /\ filled' \in [Orders -> Nat]
        /\ pass[p].fills \in [Orders -> Nat]
        /\ \A o \in Orders : filled'[o] = filled[o] + pass[p].fills[o]
    BY <2>1, Fields DEF TypeOK
  <2>3. SignedSum(filled') = SignedSum(filled) + SignedSum(pass[p].fills)
    BY <2>2, SignedBoth
  <2>4. held + SignedSum(filled') = NetWith(p)
    BY <2>3, NetIsInt, SavedWhere DEF NetWith
  <2>5. CASE ledger = p
    <3>1. Quiet' => IsMargin(books', held + SignedSum(filled'))
      BY <1>2, <2>1, <2>4, <2>5, QuietIsSteady DEF MarginInv, Rows
    <3> QED BY <1>1, <1>2, <2>1, <2>5, <3>1, RowsGiven DEF others
  <2>6. CASE ledger # p
    <3>1. Quiet => pass[p].fills = NoFills
      BY <2>6 DEF MarginInv
    <3>2. Quiet => filled' = filled
      BY <2>2, <3>1 DEF NoFills
    <3>3. Quiet => IsMargin(books', held + SignedSum(filled'))
      BY <2>1, <2>6, <3>2 DEF MarginInv, Rows
    <3> QED BY <1>1, <1>2, <2>1, <3>2, <3>3, QuietIsSteady, RowsGiven
            DEF others
  <2> QED BY <2>5, <2>6
<1>11. CASE FillRaises(p) \/ PassFails(p)
  <2>1. /\ pass'[p] = Idle /\ GiveUpRows(p)
        /\ UNCHANGED <<books, filled, sweep, held>>
    BY <1>2, <1>11 DEF FillRaises, PassFails, RollBack, Fresh
  <2>2. Quiet' => IsMargin(books', held + SignedSum(filled'))
    BY <1>2, <2>1, QuietIsSteady DEF MarginInv
  <2> QED BY <1>1, <1>2, <2>1, <2>2, RowsGiven DEF others
<1> QED BY <1>3, <1>4, <1>5, <1>6, <1>7, <1>8, <1>9, <1>10, <1>11 DEF Fills

\* When nothing was skipped, rolled back, expired or swept, the margin that is
\* committed is that of the quantity that committed fills have left.
THEOREM MarginIsThePositions == Spec => []MarginFollowsPosition
<1>1. Init => MarginInv
  <2> SUFFICES ASSUME Init PROVE MarginInv
    OBVIOUS
  <2>1. PICK rate \in Rates :
          books = [open |-> held # 0, margin |-> Required(held, rate),
                   blocked |-> Required(held, rate)]
    BY DEF Init
  <2>2. books.margin = Required(held, rate)
    <3> HIDE DEF Required
    <3> QED BY <2>1
  <2>3. held \in Int /\ filled = NoFills /\ ledger = Nobody /\ sweep = "off"
    BY DEF Init
  <2>4. held + SignedSum(filled) = held
    BY <2>3, SignedNone
  <2>5. \A p \in Passes : pass[p].fills = NoFills /\ pass[p].at = "off"
    <3>1. Idle.fills = NoFills /\ Idle.at = "off"
      BY DEF Idle
    <3> QED BY <3>1 DEF Init
  <2>6. IsMargin(books, held + SignedSum(filled))
    BY <2>2, <2>4 DEF IsMargin
  <2> QED BY <2>3, <2>5, <2>6, ActorsDiffer DEF MarginInv
<1>2. TypeOK /\ LockInv /\ NetInv /\ SavedInv /\ MarginInv /\ [Next]_vars
        => MarginInv'
  <2> SUFFICES ASSUME TypeOK, LockInv, NetInv, SavedInv, MarginInv,
                      [Next]_vars
               PROVE  MarginInv'
    OBVIOUS
  <2>1. CASE UNCHANGED vars
    BY <2>1 DEF vars, MarginInv, IsMargin, NetWith, Quiet
  <2> QED BY <2>1, RequestsKeepMargin, FillsKeepMargin, OthersKeepMargin
          DEF Next
<1>3. MarginInv => MarginFollowsPosition
  BY DEF MarginInv, Quiet, IsMargin, MarginFollowsPosition
<1> QED BY <1>1, <1>2, <1>3, TypesHold, LocksHold, NetHolds, PTL DEF Spec

=============================================================================
