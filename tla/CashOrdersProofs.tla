-------------------------- MODULE CashOrdersProofs --------------------------
(***************************************************************************)
(* Theorems of CashOrders, for every set of users, orders, workers and     *)
(* requests; and, at the end, of the loop behind its matching.             *)
(***************************************************************************)
EXTENDS CashOrders, MatchingLoop, SumLemmas, SequenceTheorems

\* The constants are what the module assumes them to be.
USE FiniteAssumption, NoOrderAssumption, RequestAssumption,
    AmendmentAssumption, InitialAssumption, FlagAssumption,
    MaxAmendsAssumption

-----------------------------------------------------------------------------
(* Types of the parts.                                                     *)

\* A worker that is given a well-typed job leaves all workers well-typed.
LEMMA BecomesType ==
  ASSUME TypeOK, NEW w \in Workers, NEW job \in Job \cup {Idle},
         Becomes(w, job)
  PROVE  worker' \in [Workers -> Job \cup {Idle}]
BY DEF TypeOK, Becomes

\* A worker that returns to the pool leaves all workers well-typed.
LEMMA ReleaseType ==
  ASSUME TypeOK, NEW w \in Workers, Becomes(w, Idle)
  PROVE  worker' \in [Workers -> Job \cup {Idle}]
BY DEF TypeOK, Becomes

\* A worker that is doing something has a well-typed job.
LEMMA JobType ==
  ASSUME TypeOK, NEW w \in Workers, worker[w].op # "idle"
  PROVE  worker[w] \in Job
BY DEF TypeOK, Idle, At

\* A worker that goes on with a well-typed agenda leaves all well-typed.
LEMMA ProceedType ==
  ASSUME TypeOK, NEW w \in Workers, worker[w].op # "idle",
         NEW a \in Seq(Item), Proceed(w, a)
  PROVE  worker' \in [Workers -> Job \cup {Idle}]
<1> DEFINE job == IF a = <<>> THEN Idle
                  ELSE [worker[w] EXCEPT !.op = "run", !.agenda = a]
<1>1. worker[w] \in Job
  BY JobType
<1>2. [worker[w] EXCEPT !.op = "run", !.agenda = a] \in Job
  BY <1>1 DEF Job
<1>3. job \in Job \cup {Idle}
  BY <1>2
<1>4. Becomes(w, job)
  BY DEF Proceed
<1> QED BY <1>3, <1>4, BecomesType

\* The agenda of a worker that has work left: its head is an item and its tail
\* an agenda.
LEMMA AgendaType ==
  ASSUME TypeOK, NEW w \in Workers, worker[w].op = "run",
         worker[w].agenda # <<>>
  PROVE  /\ Current(w) \in Item
         /\ Tail(worker[w].agenda) \in Seq(Item)
<1>1. worker[w].agenda \in Seq(Item)
  BY JobType DEF Job
<1> QED BY <1>1, HeadTailProperties DEF Current

\* A worker that drops the item it is at leaves all workers well-typed.
LEMMA DropType ==
  ASSUME TypeOK, NEW w \in Workers, worker[w].op = "run",
         worker[w].agenda # <<>>, Proceed(w, Tail(worker[w].agenda))
  PROVE  worker' \in [Workers -> Job \cup {Idle}]
BY AgendaType, ProceedType

\* A worker that takes up a request for an order has a well-typed job.
LEMMA NewJobType ==
  ASSUME NEW o \in Orders, NEW op \in {"insert", "refund", "charge", "amend"},
         NEW seen \in Terms, NEW want \in Terms
  PROVE  At(op, o, seen, want) \in Job
BY DEF At, Job

\* The terms of no order are terms.
LEMMA NoTermsType == NoTerms \in Terms
BY DEF NoTerms, Terms

\* A row of orders whose status is set is still a row.
LEMMA StatusType ==
  ASSUME TypeOK, NEW o \in Orders, NEW s \in Statuses
  PROVE  [orders[o] EXCEPT !.status = s] \in OrderRow
BY DEF TypeOK, OrderRow

\* Wallets hold whole rupees after a debit or a credit of whole rupees.
LEMMA PaymentType ==
  ASSUME TypeOK, NEW u \in Users, NEW n \in Int
  PROVE  /\ [wallet EXCEPT ![u] = @ - n] \in [Users -> Int]
         /\ [wallet EXCEPT ![u] = @ + n] \in [Users -> Int]
BY DEF TypeOK

\* What was paid for an order is whole rupees after a debit or a refund.
LEMMA PaidType ==
  ASSUME TypeOK, NEW o \in Orders, NEW n \in Int
  PROVE  /\ [paid EXCEPT ![o] = @ - n] \in [Orders -> Int]
         /\ [paid EXCEPT ![o] = @ + n] \in [Orders -> Int]
BY DEF TypeOK

\* The terms of an order, read from its row.
LEMMA TermsType ==
  ASSUME TypeOK, NEW o \in Orders
  PROVE  ReadTerms(o) \in Terms
BY DEF TypeOK, ReadTerms, Terms, OrderRow

\* The body of a request is well-typed.
LEMMA ReqType ==
  ASSUME TypeOK, NEW o \in Orders
  PROVE  /\ req[o] \in RequestType
         /\ User(o) \in Users
         /\ req[o].price \in Nat /\ req[o].qty \in Nat /\ req[o].trigger \in Nat
BY DEF TypeOK, RequestType, User

\* What a request holds for a BUY is a natural number of rupees.
LEMMA HoldType ==
  ASSUME TypeOK, NEW o \in Orders
  PROVE  Hold(req[o]) \in Nat
<1>1. req[o].qty \in Nat /\ req[o].price \in Nat
  BY ReqType
<1>2. req[o].qty * req[o].price \in Nat
  BY <1>1
<1> QED BY <1>2 DEF Hold

\* A coalesced field is a number when both of its sources are.
LEMMA CoalesceType ==
  ASSUME NEW m \in Nat, NEW n \in Nat
  PROVE  Coalesce(m, n) \in Nat
BY DEF Coalesce

\* The number of order_book rows is a natural number.
LEMMA BookedType == Cardinality(Booked) \in Nat
BY FS_Subset, FS_CardinalityType DEF Booked

\* The refund of a BUY is a natural number of rupees.
LEMMA RefundType ==
  ASSUME NEW t \in Terms
  PROVE  RefundAmount(t) \in Nat
<1>1. t.qty \in Nat /\ t.price \in Nat
  BY DEF Terms
<1>2. t.qty * t.price \in Nat
  BY <1>1
<1> QED BY <1>2 DEF RefundAmount

\* The wallet delta of an amendment is a whole number of rupees.
LEMMA DeltaType ==
  ASSUME NEW job \in Job
  PROVE  Delta(job) \in Int
<1>1. /\ job.want.qty \in Nat /\ job.seen.qty \in Nat
      /\ job.want.price \in Nat /\ job.seen.price \in Nat
  BY DEF Job, Terms
<1>2. /\ Coalesce(job.want.qty, job.seen.qty) \in Nat
      /\ Coalesce(job.want.price, job.seen.price) \in Nat
  BY <1>1, CoalesceType
<1>3. /\ Coalesce(job.want.qty, job.seen.qty)
           * Coalesce(job.want.price, job.seen.price) \in Int
      /\ job.seen.qty * job.seen.price \in Int
  BY <1>1, <1>2
<1> QED BY <1>3 DEF Delta

-----------------------------------------------------------------------------
(* Types of the tables and the workers, step by step.                      *)

\* The tables start well-typed.
LEMMA InitType == Init => TypeOK
<1> SUFFICES ASSUME Init PROVE TypeOK
  OBVIOUS
<1>1. wallet \in [Users -> Int] /\ holdings \in [Users -> Int]
  BY DEF Init
<1>2. orders \in [Orders -> OrderRow]
  BY DEF Init, OrderRow, Statuses
<1>3. book \in [Orders -> BookRow]
  BY DEF Init, BookRow, Statuses
<1>4. history \in [Orders -> [qty : Nat, value : Nat]]
  BY DEF Init
<1>5. worker \in [Workers -> Job \cup {Idle}]
  BY DEF Init
<1> QED BY <1>1, <1>2, <1>3, <1>4, <1>5 DEF TypeOK, Init

\* POST /orders up to its matching pass keeps the types.
LEMMA PlacementType ==
  ASSUME TypeOK, NEW w \in Workers,
         \/ \E o \in Orders : Submit(w, o)
         \/ InsertOrder(w) \/ InsertOrderFails(w)
         \/ InsertBookRow(w) \/ InsertBookRowFails(w)
  PROVE  TypeOK'
<1>1. ASSUME NEW o \in Orders, Submit(w, o) PROVE TypeOK'
  <2>1. Hold(req[o]) \in Nat /\ User(o) \in Users
    BY HoldType, ReqType
  <2>2. wallet' \in [Users -> Int]
    BY <1>1, <2>1, PaymentType DEF Submit
  <2>3. paid' \in [Orders -> Int]
    BY <1>1, <2>1 DEF Submit, TypeOK
  <2>4. At("insert", o, NoTerms, NoTerms) \in Job
    BY NewJobType, NoTermsType
  <2>5. worker' \in [Workers -> Job \cup {Idle}]
    BY <1>1, <2>4, BecomesType DEF Submit
  <2> QED BY <1>1, <2>2, <2>3, <2>5 DEF Submit, TypeOK
<1>2. ASSUME InsertOrder(w) PROVE TypeOK'
  <2> DEFINE o == worker[w].order
  <2>1. worker[w] \in Job
    BY <1>2, JobType DEF InsertOrder
  <2>2. o \in Orders /\ [worker[w] EXCEPT !.op = "book"] \in Job
    BY <2>1 DEF Job
  <2>3. worker' \in [Workers -> Job \cup {Idle}]
    BY <1>2, <2>2, BecomesType DEF InsertOrder
  <2>4. [status |-> InitialStatus(o), price |-> req[o].price,
         qty |-> req[o].qty, trigger |-> req[o].trigger] \in OrderRow
    BY <2>2, ReqType DEF OrderRow, InitialStatus, Statuses
  <2>5. orders' \in [Orders -> OrderRow]
    BY <1>2, <2>2, <2>4 DEF InsertOrder, TypeOK
  <2> QED BY <1>2, <2>3, <2>5 DEF InsertOrder, TypeOK, ghosts
<1>3. ASSUME InsertOrderFails(w) PROVE TypeOK'
  <2>1. worker' \in [Workers -> Job \cup {Idle}]
    BY <1>3, ReleaseType DEF InsertOrderFails
  <2> QED BY <1>3, <2>1 DEF InsertOrderFails, TypeOK, tables, ghosts
<1>4. ASSUME InsertBookRow(w) PROVE TypeOK'
  <2> DEFINE o == worker[w].order
             pass == [order |-> o, price |-> req[o].price, qty |-> req[o].qty]
             row == [status |-> InitialStatus(o), price |-> req[o].price,
                     rem |-> req[o].qty, trigger |-> req[o].trigger,
                     at |-> Cardinality(Booked) + 1]
  <2>1. worker[w] \in Job
    BY <1>4, JobType DEF InsertBookRow
  <2>2. o \in Orders
    BY <2>1 DEF Job
  <2>3. pass \in Item
    BY <2>2, ReqType DEF Item
  <2>4. (IF Dormant(o) THEN <<>> ELSE <<pass>>) \in Seq(Item)
    BY <2>3
  <2>5. worker' \in [Workers -> Job \cup {Idle}]
    <3>1. Proceed(w, IF Dormant(o) THEN <<>> ELSE <<pass>>)
      BY <1>4 DEF InsertBookRow
    <3>2. worker[w].op # "idle"
      BY <1>4 DEF InsertBookRow
    <3> HIDE DEF pass, o
    <3> QED BY <2>4, <3>1, <3>2, ProceedType
  <2>6. row \in BookRow
    BY <2>2, ReqType, BookedType DEF BookRow, InitialStatus, Statuses
  <2>7. book' \in [Orders -> BookRow]
    BY <1>4, <2>2, <2>6 DEF InsertBookRow, TypeOK
  <2> QED BY <1>4, <2>5, <2>7 DEF InsertBookRow, TypeOK, ghosts
<1>5. ASSUME InsertBookRowFails(w) PROVE TypeOK'
  <2>1. worker' \in [Workers -> Job \cup {Idle}]
    BY <1>5, ReleaseType DEF InsertBookRowFails
  <2>2. orders' \in [Orders -> OrderRow]
    <3>1. worker[w].order \in Orders
      BY <1>5, JobType DEF InsertBookRowFails, Job
    <3>2. orders' = [orders EXCEPT ![worker[w].order] =
                       [orders[worker[w].order] EXCEPT !.status = "FAILED"]]
      BY <1>5 DEF InsertBookRowFails
    <3> QED BY <3>1, <3>2, StatusType DEF TypeOK, Statuses
  <2> QED BY <1>5, <2>1, <2>2 DEF InsertBookRowFails, TypeOK, ghosts
<1> QED BY <1>1, <1>2, <1>3, <1>4, <1>5

\* A row of order_book that is filled, or triggered, is still a row.
LEMMA BookRowType ==
  ASSUME NEW row \in BookRow, NEW st \in Statuses
  PROVE  /\ \A r \in Int : [row EXCEPT !.rem = r, !.status = st] \in BookRow
         /\ \A p \in Nat : [row EXCEPT !.status = st, !.price = p] \in BookRow
BY DEF BookRow

\* A sequence of distinct orders, each turned into an item, is an agenda.
LEMMA ItemsType ==
  ASSUME NEW S \in SUBSET Orders, NEW q \in SetToSeqs(S), NEW f,
         \A i \in DOMAIN q : f[i] \in Item,
         f = [i \in DOMAIN q |-> f[i]]
  PROVE  f \in Seq(Item)
<1>1. Cardinality(S) \in Nat
  BY FS_Subset, FS_CardinalityType
<1>2. DOMAIN q = 1..Cardinality(S)
  BY DEF SetToSeqs
<1> DEFINE n == Cardinality(S)
<1>3. f = [i \in 1..n |-> f[i]] /\ \A i \in 1..n : f[i] \in Item
  BY <1>2
<1>4. f \in [1..n -> Item]
  BY <1>3
<1>5. n \in Nat
  BY <1>1
<1> HIDE DEF n
<1> QED BY <1>4, <1>5

\* What RemAfter leaves is a number, and FilledStatus a status.
LEMMA RemAfterType ==
  ASSUME TypeOK, NEW t \in Item, NEW d, NEW x \in Orders, d.qty[x] \in Nat
  PROVE  /\ RemAfter(t, d, x) \in Int
         /\ FilledStatus(RemAfter(t, d, x)) \in Statuses
<1>1. t.qty \in Int /\ book[x].rem \in Int
  BY DEF TypeOK, Item, BookRow
<1> QED BY <1>1 DEF RemAfter, FilledStatus, Statuses

\* A pass that trades keeps the types.
LEMMA MatchType ==
  ASSUME TypeOK, NEW w \in Workers, Match(w)
  PROVE  TypeOK'
<1> DEFINE t == Current(w)
           d == Deal(t)
           traded == {x \in Orders : d.qty[x] > 0}
<1>1. /\ worker[w].op = "run" /\ worker[w].agenda # <<>>
      /\ Settles(d)
  BY DEF Match, Matching
<1>2. t \in Item /\ Tail(worker[w].agenda) \in Seq(Item)
  BY <1>1, AgendaType
<1>3. d.qty \in [Orders -> Nat] /\ d.value \in [Orders -> Nat]
  BY <1>1 DEF Settles
<1>4. /\ PerUser(d.qty, "BUY") \in [Users -> Nat]
      /\ PerUser(d.value, "SELL") \in [Users -> Nat]
      /\ \A u \in Users : PerUser(d.qty, "SELL")[u] \in 0..holdings[u]
  BY <1>1 DEF Settles
<1>5. \A x \in Orders : /\ RemAfter(t, d, x) \in Int
                        /\ FilledStatus(RemAfter(t, d, x)) \in Statuses
  BY <1>2, <1>3, RemAfterType
<1>6. book' \in [Orders -> BookRow]
  <2>1. book' = [x \in Orders |->
          IF x \in traded
          THEN [book[x] EXCEPT !.rem = RemAfter(t, d, x),
                               !.status = FilledStatus(RemAfter(t, d, x))]
          ELSE book[x]]
    BY DEF Match
  <2>2. \A x \in Orders : book[x] \in BookRow
    BY DEF TypeOK
  <2>3. \A x \in Orders :
          [book[x] EXCEPT !.rem = RemAfter(t, d, x),
                          !.status = FilledStatus(RemAfter(t, d, x))]
            \in BookRow
    BY <1>5, <2>2, BookRowType
  <2> HIDE DEF t, d, traded
  <2> QED BY <2>1, <2>2, <2>3
<1>7. orders' \in [Orders -> OrderRow]
  <2>1. orders' = [x \in Orders |->
          IF x \in traded
          THEN [orders[x] EXCEPT !.status = FilledStatus(RemAfter(t, d, x))]
          ELSE orders[x]]
    BY DEF Match
  <2>2. \A x \in Orders : orders[x] \in OrderRow
    BY DEF TypeOK
  <2>3. \A x \in Orders :
          [orders[x] EXCEPT !.status = FilledStatus(RemAfter(t, d, x))]
            \in OrderRow
    BY <1>5, StatusType
  <2> HIDE DEF t, d, traded
  <2> QED BY <2>1, <2>2, <2>3
<1>8. history' \in [Orders -> [qty : Nat, value : Nat]]
  <2>1. history' = [x \in Orders |-> [qty   |-> history[x].qty + d.qty[x],
                                      value |-> history[x].value + d.value[x]]]
    BY DEF Match
  <2>2. \A x \in Orders : history[x].qty \in Nat /\ history[x].value \in Nat
    BY DEF TypeOK
  <2> HIDE DEF d
  <2> QED BY <1>3, <2>1, <2>2
<1>9. holdings' \in [Users -> Int] /\ wallet' \in [Users -> Int]
  <2>1. /\ holdings' = [u \in Users |-> holdings[u] + PerUser(d.qty, "BUY")[u]
                                                - PerUser(d.qty, "SELL")[u]]
        /\ wallet' = [u \in Users |-> wallet[u] + PerUser(d.value, "SELL")[u]]
    BY DEF Match
  <2>2. \A u \in Users : holdings[u] \in Int /\ wallet[u] \in Int
    BY DEF TypeOK
  <2> HIDE DEF d
  <2> QED BY <1>4, <2>1, <2>2
<1>10. worker' \in [Workers -> Job \cup {Idle}]
  <2>1. PICK checks \in Checks(Side(t.order), traded \ {t.order}) :
          Proceed(w, checks \o Tail(worker[w].agenda))
    BY DEF Match
  <2>2. PICK q \in SetToSeqs(traded \ {t.order}) :
          checks = [i \in DOMAIN q |-> [order |-> NoOrder,
                                        price |-> book[q[i]].price, qty |-> 0]]
    BY DEF Checks
  <2>3. \A i \in DOMAIN q : q[i] \in Orders
    BY DEF SetToSeqs
  <2>4. \A i \in DOMAIN q : checks[i] \in Item
    BY <2>2, <2>3 DEF Item, TypeOK, BookRow
  <2>5. checks \in Seq(Item)
    BY <2>2, <2>4, ItemsType
  <2>6. checks \o Tail(worker[w].agenda) \in Seq(Item)
    BY <1>2, <2>5, ConcatProperties
  <2> QED BY <1>1, <2>1, <2>6, ProceedType
<1> QED BY <1>6, <1>7, <1>8, <1>9, <1>10 DEF TypeOK, Match, ghosts

\* A price check that makes stops matchable keeps the types.
LEMMA TriggerType ==
  ASSUME TypeOK, NEW w \in Workers, Trigger(w)
  PROVE  TypeOK'
<1> DEFINE ltp == Current(w).price
           hit == {o \in Orders : book[o].status = "PENDING_TRIGGER"
                                  /\ TriggerMet(o, ltp)}
<1>1. /\ worker[w].op = "run" /\ worker[w].agenda # <<>>
  BY DEF Trigger, Checking
<1>2. ltp \in Nat /\ Tail(worker[w].agenda) \in Seq(Item)
  BY <1>1, AgendaType DEF Item
<1>3. \A o \in Orders : EffectivePrice(o, ltp) \in Nat
  BY <1>2 DEF EffectivePrice, TypeOK, BookRow
<1>4. book' \in [Orders -> BookRow]
  <2>1. book' = [o \in Orders |-> IF o \in hit THEN AfterTrigger(o, ltp)
                                  ELSE book[o]]
    BY DEF Trigger
  <2>2. \A o \in Orders : book[o] \in BookRow
    BY DEF TypeOK
  <2>3. "PENDING" \in Statuses
    BY DEF Statuses
  <2>4. \A o \in Orders : AfterTrigger(o, ltp) \in BookRow
    BY <1>3, <2>2, <2>3, BookRowType DEF AfterTrigger
  <2> HIDE DEF hit, ltp
  <2> QED BY <2>1, <2>2, <2>4
<1>5. orders' \in [Orders -> OrderRow]
  <2>1. orders' = [o \in Orders |->
          IF o \in hit
          THEN [orders[o] EXCEPT !.status = "PENDING",
                                 !.price = EffectivePrice(o, ltp)]
          ELSE orders[o]]
    BY DEF Trigger
  <2>2. \A o \in Orders : orders[o] \in OrderRow
    BY DEF TypeOK
  <2>3. ASSUME NEW row \in OrderRow, NEW p \in Nat
        PROVE  [row EXCEPT !.status = "PENDING", !.price = p] \in OrderRow
    BY DEF OrderRow, Statuses
  <2>4. \A o \in Orders :
          [orders[o] EXCEPT !.status = "PENDING",
                            !.price = EffectivePrice(o, ltp)] \in OrderRow
    BY <1>3, <2>2, <2>3
  <2> HIDE DEF hit, ltp
  <2> QED BY <2>1, <2>2, <2>4
<1>6. worker' \in [Workers -> Job \cup {Idle}]
  <2>1. PICK q \in SetToSeqs(hit) :
          Proceed(w, [i \in DOMAIN q |->
                        [order |-> q[i], price |-> EffectivePrice(q[i], ltp),
                         qty   |-> book[q[i]].rem]]
                     \o Tail(worker[w].agenda))
    BY DEF Trigger
  <2> DEFINE passes == [i \in DOMAIN q |->
                          [order |-> q[i], price |-> EffectivePrice(q[i], ltp),
                           qty   |-> book[q[i]].rem]]
  <2>2. \A i \in DOMAIN q : q[i] \in Orders
    BY DEF SetToSeqs
  <2>3. \A i \in DOMAIN q : book[q[i]].rem \in Int
    BY <2>2 DEF TypeOK, BookRow
  <2>4. \A i \in DOMAIN q : passes[i] \in Item
    BY <1>3, <2>2, <2>3 DEF Item
  <2>5. passes \in Seq(Item)
    <3> HIDE DEF ltp
    <3> QED BY <2>4, ItemsType
  <2>6. passes \o Tail(worker[w].agenda) \in Seq(Item)
    <3> HIDE DEF passes, ltp
    <3> QED BY <1>2, <2>5, ConcatProperties
  <2> QED BY <1>1, <2>1, <2>6, ProceedType
<1> QED BY <1>4, <1>5, <1>6 DEF TypeOK, Trigger, ghosts

\* The steps of a pass or a price check that change no order_book row keep the
\* types.
LEMMA QuietRunType ==
  ASSUME TypeOK, NEW w \in Workers,
         \/ MatchNothing(w) \/ MatchFails(w) \/ MatchAborts(w)
         \/ TriggerFails(w)
  PROVE  TypeOK'
<1>1. /\ worker[w].op = "run" /\ worker[w].agenda # <<>>
      /\ Proceed(w, Tail(worker[w].agenda))
  BY DEF MatchNothing, MatchFails, MatchAborts, TriggerFails, Matching,
         Checking
<1>2. worker' \in [Workers -> Job \cup {Idle}]
  BY <1>1, DropType
<1>3. CASE MatchFails(w)
  <2> DEFINE o == Current(w).order
  <2>1. o \in Orders
    BY <1>1, <1>3, AgendaType DEF MatchFails, Matching, Item
  <2>2. orders' = [orders EXCEPT ![o] = [orders[o] EXCEPT !.status = "FAILED"]]
    BY <1>3 DEF MatchFails
  <2>3. orders' \in [Orders -> OrderRow]
    BY <2>1, <2>2, StatusType DEF TypeOK, Statuses
  <2> QED BY <1>2, <1>3, <2>3 DEF MatchFails, TypeOK, ghosts
<1>4. CASE MatchNothing(w) \/ MatchAborts(w) \/ TriggerFails(w)
  BY <1>2, <1>4 DEF MatchNothing, MatchAborts, TriggerFails, TypeOK, tables,
                    ghosts
<1> QED BY <1>3, <1>4

\* A cancel and the refund that follows it keep the types.
LEMMA CancelType ==
  ASSUME TypeOK, NEW w \in Workers,
         (\E o \in Orders : Cancel(w, o)) \/ Refund(w)
  PROVE  TypeOK'
<1>1. ASSUME NEW o \in Orders, Cancel(w, o) PROVE TypeOK'
  <2>1. orders' = [orders EXCEPT ![o] =
                     [orders[o] EXCEPT !.status = "CANCELLED"]]
    BY <1>1 DEF Cancel
  <2>2. orders' \in [Orders -> OrderRow]
    BY <2>1, StatusType DEF TypeOK, Statuses
  <2>3. book[o] \in BookRow
    BY DEF TypeOK
  <2>4. AfterCancel(o) \in BookRow
    BY <2>3 DEF AfterCancel, BookRow, Statuses
  <2>5. book' \in [Orders -> BookRow]
    BY <1>1, <2>4 DEF Cancel, TypeOK
  <2>6. At("refund", o, ReadTerms(o), NoTerms) \in Job
    BY TermsType, NoTermsType, NewJobType
  <2>7. worker' \in [Workers -> Job \cup {Idle}]
    BY <1>1, <2>6, BecomesType DEF Cancel
  <2>8. cancels' \in [Orders -> Nat]
    BY <1>1 DEF Cancel, TypeOK
  <2> QED BY <1>1, <2>2, <2>5, <2>7, <2>8 DEF Cancel, TypeOK
<1>2. ASSUME Refund(w) PROVE TypeOK'
  <2> DEFINE o == worker[w].order
             amount == RefundAmount(worker[w].seen)
  <2>1. worker[w] \in Job
    BY <1>2, JobType DEF Refund
  <2>2. o \in Orders /\ User(o) \in Users /\ amount \in Int
    BY <2>1, ReqType, RefundType DEF Job
  <2>3. wallet' \in [Users -> Int] /\ paid' \in [Orders -> Int]
    BY <1>2, <2>2, PaymentType, PaidType DEF Refund
  <2>4. worker' \in [Workers -> Job \cup {Idle}]
    BY <1>2, ReleaseType DEF Refund
  <2> QED BY <1>2, <2>3, <2>4 DEF Refund, TypeOK
<1> QED BY <1>1, <1>2

\* An amendment, from its read to its reversal, keeps the types.
LEMMA AmendmentType ==
  ASSUME TypeOK, NEW w \in Workers,
         \/ \E o \in Orders : AmendRead(w, o)
         \/ Charge(w) \/ ChargeRefused(w) \/ Amend(w) \/ AmendLost(w)
         \/ Undo(w)
  PROVE  TypeOK'
<1>1. ASSUME NEW o \in Orders, AmendRead(w, o) PROVE TypeOK'
  <2>1. PICK a \in Amendments :
          Becomes(w, At(IF IsBuy(o) THEN "charge" ELSE "amend", o,
                        ReadTerms(o), a))
    BY <1>1 DEF AmendRead
  <2>2. At(IF IsBuy(o) THEN "charge" ELSE "amend", o, ReadTerms(o), a) \in Job
    BY TermsType, NewJobType
  <2>3. worker' \in [Workers -> Job \cup {Idle}]
    BY <2>1, <2>2, BecomesType
  <2> QED BY <1>1, <2>3 DEF AmendRead, TypeOK, tables, ghosts
<1>2. ASSUME Charge(w) PROVE TypeOK'
  <2> DEFINE o == worker[w].order
             delta == Delta(worker[w])
  <2>1. worker[w] \in Job
    BY <1>2, JobType DEF Charge
  <2>2. o \in Orders /\ User(o) \in Users /\ delta \in Int
    BY <2>1, ReqType, DeltaType DEF Job
  <2>3. wallet' \in [Users -> Int] /\ paid' \in [Orders -> Int]
    BY <1>2, <2>2, PaymentType, PaidType DEF Charge
  <2>4. [worker[w] EXCEPT !.op = "amend", !.delta = delta] \in Job
    BY <2>1, <2>2 DEF Job
  <2>5. worker' \in [Workers -> Job \cup {Idle}]
    BY <1>2, <2>4, BecomesType DEF Charge
  <2> QED BY <1>2, <2>3, <2>5 DEF Charge, TypeOK
<1>3. ASSUME ChargeRefused(w) PROVE TypeOK'
  <2>1. worker' \in [Workers -> Job \cup {Idle}]
    BY <1>3, ReleaseType DEF ChargeRefused
  <2> QED BY <1>3, <2>1 DEF ChargeRefused, TypeOK, tables, ghosts
<1>4. ASSUME Amend(w) PROVE TypeOK'
  <2> DEFINE o == worker[w].order
             a == worker[w].want
  <2>1. worker[w] \in Job
    BY <1>4, JobType DEF Amend
  <2>2. o \in Orders /\ a.price \in Nat /\ a.qty \in Nat /\ a.trigger \in Nat
    BY <2>1 DEF Job, Terms
  <2>3. orders[o] \in OrderRow /\ book[o] \in BookRow
    BY <2>2 DEF TypeOK
  <2>4. orders' \in [Orders -> OrderRow]
    <3>1. orders' = [orders EXCEPT ![o] =
            [orders[o] EXCEPT !.price = Coalesce(a.price, orders[o].price),
                              !.qty = Coalesce(a.qty, orders[o].qty),
                              !.trigger = Coalesce(a.trigger,
                                                   orders[o].trigger)]]
      BY <1>4, <2>2 DEF Amend, TypeOK
    <3>2. [orders[o] EXCEPT !.price = Coalesce(a.price, orders[o].price),
                            !.qty = Coalesce(a.qty, orders[o].qty),
                            !.trigger = Coalesce(a.trigger, orders[o].trigger)]
            \in OrderRow
      BY <2>2, <2>3, CoalesceType DEF OrderRow
    <3> QED BY <2>2, <3>1, <3>2 DEF TypeOK
  <2>5. AfterAmend(o, a) \in BookRow
    <3>1. /\ Coalesce(a.price, book[o].price) \in Nat
          /\ Coalesce(a.qty, book[o].rem) \in Int
          /\ Coalesce(a.trigger, book[o].trigger) \in Nat
      BY <2>2, <2>3 DEF BookRow, Coalesce
    <3> QED BY <2>3, <3>1 DEF AfterAmend, BookRow
  <2>6. book' \in [Orders -> BookRow]
    BY <1>4, <2>2, <2>5 DEF Amend, TypeOK
  <2>7. worker' \in [Workers -> Job \cup {Idle}]
    BY <1>4, ReleaseType DEF Amend
  <2> QED BY <1>4, <2>4, <2>6, <2>7 DEF Amend, TypeOK, ghosts
<1>5. ASSUME AmendLost(w) PROVE TypeOK'
  <2>1. worker[w] \in Job
    BY <1>5, JobType DEF AmendLost
  <2>2. [worker[w] EXCEPT !.op = "undo"] \in Job
    BY <2>1 DEF Job
  <2>3. worker' \in [Workers -> Job \cup {Idle}]
    BY <1>5, <2>2, BecomesType, ReleaseType DEF AmendLost
  <2> QED BY <1>5, <2>3 DEF AmendLost, TypeOK, tables, ghosts
<1>6. ASSUME Undo(w) PROVE TypeOK'
  <2> DEFINE o == worker[w].order
             back == worker[w].delta
  <2>1. worker[w] \in Job
    BY <1>6, JobType DEF Undo
  <2>2. o \in Orders /\ User(o) \in Users /\ back \in Int
    BY <2>1, ReqType DEF Job
  <2>3. wallet' \in [Users -> Int] /\ paid' \in [Orders -> Int]
    <3>1. \/ UNCHANGED <<wallet, paid>>
          \/ /\ wallet' = [wallet EXCEPT ![User(o)] = @ + back]
             /\ paid' = [paid EXCEPT ![o] = @ - back]
      BY <1>6 DEF Undo
    <3>2. wallet \in [Users -> Int] /\ paid \in [Orders -> Int]
      BY DEF TypeOK
    <3>3. /\ [wallet EXCEPT ![User(o)] = @ + back] \in [Users -> Int]
          /\ [paid EXCEPT ![o] = @ - back] \in [Orders -> Int]
      BY <2>2, PaymentType, PaidType
    <3> QED BY <3>1, <3>2, <3>3
  <2>4. worker' \in [Workers -> Job \cup {Idle}]
    BY <1>6, ReleaseType DEF Undo
  <2> QED BY <1>6, <2>3, <2>4 DEF Undo, TypeOK
<1> QED BY <1>1, <1>2, <1>3, <1>4, <1>5, <1>6

\* A worker that dies leaves the tables as they are.
LEMMA CrashType ==
  ASSUME TypeOK, NEW w \in Workers, Crash(w)
  PROVE  TypeOK'
<1>1. worker' \in [Workers -> Job \cup {Idle}]
  BY ReleaseType DEF Crash
<1> QED BY <1>1 DEF Crash, TypeOK, tables, ghosts

\* No schedule of handlers, failures and crashes makes the tables or a worker
\* ill-typed: every status is one of the enumeration of the code, and every
\* pass and amendment works on well-formed terms.
THEOREM TypeCorrect == Spec => []TypeOK
<1>1. TypeOK /\ [Next]_vars => TypeOK'
  <2> SUFFICES ASSUME TypeOK, [Next]_vars PROVE TypeOK'
    OBVIOUS
  <2>1. CASE UNCHANGED vars
    BY <2>1 DEF TypeOK, vars
  <2>2. ASSUME NEW w \in Workers, Step(w) PROVE TypeOK'
    BY <2>2, PlacementType, MatchType, QuietRunType, TriggerType, CancelType,
       AmendmentType DEF Step
  <2>3. ASSUME NEW w \in Workers, Crash(w) PROVE TypeOK'
    BY <2>3, CrashType
  <2>4. ASSUME NEW w \in Workers, NEW o \in Orders, Request(w, o) PROVE TypeOK'
    BY <2>4, PlacementType, CancelType, AmendmentType DEF Request
  <2> QED BY <2>1, <2>2, <2>3, <2>4 DEF Next
<1> QED BY <1>1, InitType, PTL DEF Spec

-----------------------------------------------------------------------------
(* No wallet is overdrawn.                                                 *)

\* The wallet of u pays n rupees, or gets them when n is negative.
Pays(u, n) == wallet' = [wallet EXCEPT ![u] = @ - n]

\* To be credited n rupees is to pay -n.
LEMMA CreditPays ==
  ASSUME TypeOK, NEW u \in Users, NEW n \in Int,
         wallet' = [wallet EXCEPT ![u] = @ + n]
  PROVE  -n \in Int /\ Pays(u, -n)
<1>1. wallet[u] \in Int
  BY DEF TypeOK
<1>2. -n \in Int /\ wallet[u] + n = wallet[u] - (-n)
  BY <1>1
<1> QED BY <1>2 DEF Pays

\* A debit the balance covers, or a credit, leaves no wallet negative.
LEMMA PaymentNeverNegative ==
  ASSUME TypeOK, WalletNeverNegative, NEW u \in Users, NEW n \in Int,
         n > 0 => wallet[u] >= n,
         Pays(u, n)
  PROVE  WalletNeverNegative'
<1>1. \A v \in Users : wallet[v] \in Int /\ wallet[v] >= 0
  BY DEF TypeOK, WalletNeverNegative
<1>2. wallet \in [Users -> Int]
  BY DEF TypeOK
<1> QED BY <1>1, <1>2 DEF WalletNeverNegative, Pays

\* A request is debited, a refund credited and an amendment charged or
\* reversed, each against the balance of that moment.
LEMMA WalletStep ==
  ASSUME TypeOK, WalletNeverNegative, NEW w \in Workers,
         \/ \E o \in Orders : Submit(w, o)
         \/ Match(w) \/ Refund(w) \/ Charge(w) \/ Undo(w)
  PROVE  WalletNeverNegative'
<1>1. ASSUME NEW o \in Orders, Submit(w, o) PROVE WalletNeverNegative'
  <2>1. Hold(req[o]) \in Nat /\ User(o) \in Users
    BY HoldType, ReqType
  <2>2. Hold(req[o]) > 0 => wallet[User(o)] >= Hold(req[o])
    BY <1>1 DEF Submit, Hold, IsBuy, Side, Affordable
  <2>3. Pays(User(o), Hold(req[o]))
    BY <1>1 DEF Submit, Pays
  <2> QED BY <2>1, <2>2, <2>3, PaymentNeverNegative
<1>2. ASSUME Match(w) PROVE WalletNeverNegative'
  <2> DEFINE credit == PerUser(Deal(Current(w)).value, "SELL")
  <2>1. credit \in [Users -> Nat]
    BY <1>2 DEF Match, Settles
  <2>2. wallet' = [u \in Users |-> wallet[u] + credit[u]]
    BY <1>2 DEF Match
  <2>3. \A u \in Users : wallet[u] \in Int /\ wallet[u] >= 0
    BY DEF TypeOK, WalletNeverNegative
  <2> HIDE DEF credit
  <2> QED BY <2>1, <2>2, <2>3 DEF WalletNeverNegative
<1>3. ASSUME Refund(w) PROVE WalletNeverNegative'
  <2> DEFINE u == User(worker[w].order)
             amount == RefundAmount(worker[w].seen)
  <2>1. worker[w] \in Job
    BY <1>3, JobType DEF Refund
  <2>2. u \in Users /\ amount \in Nat /\ amount \in Int
    BY <2>1, ReqType, RefundType DEF Job
  <2>3. wallet' = [wallet EXCEPT ![u] = @ + amount]
    BY <1>3 DEF Refund
  <2> HIDE DEF u, amount
  <2>4. -amount \in Int /\ Pays(u, -amount)
    BY <2>2, <2>3, CreditPays
  <2>5. ~(-amount > 0)
    BY <2>2
  <2> QED BY <2>2, <2>4, <2>5, PaymentNeverNegative
<1>4. ASSUME Charge(w) PROVE WalletNeverNegative'
  <2> DEFINE u == User(worker[w].order)
             delta == Delta(worker[w])
  <2>1. worker[w] \in Job
    BY <1>4, JobType DEF Charge
  <2>2. u \in Users /\ delta \in Int
    BY <2>1, ReqType, DeltaType DEF Job
  <2>3. /\ delta > 0 => wallet[u] >= delta
        /\ Pays(u, delta)
    BY <1>4 DEF Charge, Affordable, Pays
  <2> HIDE DEF u, delta
  <2> QED BY <2>2, <2>3, PaymentNeverNegative
<1>5. ASSUME Undo(w) PROVE WalletNeverNegative'
  <2> DEFINE u == User(worker[w].order)
             back == worker[w].delta
  <2>1. worker[w] \in Job
    BY <1>5, JobType DEF Undo
  <2>2. u \in Users /\ back \in Int
    BY <2>1, ReqType DEF Job
  <2>3. CASE back < 0 /\ ~Affordable(u, -back)
    BY <1>5, <2>3 DEF Undo, WalletNeverNegative
  <2>4. CASE ~(back < 0 /\ ~Affordable(u, -back))
    <3>1. wallet' = [wallet EXCEPT ![u] = @ + back]
      BY <1>5, <2>4 DEF Undo
    <3> HIDE DEF u, back
    <3>2. -back \in Int /\ Pays(u, -back)
      BY <2>2, <3>1, CreditPays
    <3>3. -back > 0 => wallet[u] >= -back
      BY <2>2, <2>4 DEF Affordable
    <3> QED BY <2>2, <3>2, <3>3, PaymentNeverNegative
  <2> QED BY <2>3, <2>4
<1> QED BY <1>1, <1>2, <1>3, <1>4, <1>5

\* However debits, refunds, amendments, reversals and settlements interleave,
\* and wherever workers die, no wallet is overdrawn.
THEOREM WalletSafe == Spec => []WalletNeverNegative
<1>1. Init => WalletNeverNegative
  BY DEF Init, WalletNeverNegative
<1>2. TypeOK /\ WalletNeverNegative /\ [Next]_vars => WalletNeverNegative'
  <2> SUFFICES ASSUME TypeOK, WalletNeverNegative, [Next]_vars
               PROVE  WalletNeverNegative'
    OBVIOUS
  <2>1. CASE UNCHANGED wallet
    BY <2>1 DEF WalletNeverNegative
  <2>2. ASSUME NEW w \in Workers,
               \/ \E o \in Orders : Submit(w, o)
               \/ Match(w) \/ Refund(w) \/ Charge(w) \/ Undo(w)
        PROVE  WalletNeverNegative'
    BY <2>2, WalletStep
  <2>3. ASSUME NEW w \in Workers,
               \/ InsertOrder(w) \/ InsertOrderFails(w)
               \/ InsertBookRow(w) \/ InsertBookRowFails(w)
               \/ MatchNothing(w) \/ MatchFails(w) \/ MatchAborts(w)
               \/ Trigger(w) \/ TriggerFails(w)
        PROVE  UNCHANGED wallet
    BY <2>3 DEF InsertOrder, InsertOrderFails, InsertBookRow,
                InsertBookRowFails, MatchNothing, MatchFails, MatchAborts,
                Trigger, TriggerFails, tables
  <2>4. ASSUME NEW w \in Workers,
               \/ ChargeRefused(w) \/ Amend(w) \/ AmendLost(w) \/ Crash(w)
               \/ \E o \in Orders : Cancel(w, o) \/ AmendRead(w, o)
        PROVE  UNCHANGED wallet
    BY <2>4 DEF ChargeRefused, Amend, AmendLost, Crash, Cancel, AmendRead,
                tables
  <2>5. CASE UNCHANGED vars
    BY <2>1, <2>5 DEF vars
  <2>6. CASE Next
    BY <2>1, <2>2, <2>3, <2>4, <2>6 DEF Next, Step, Request
  <2> QED BY <2>5, <2>6
<1> QED BY <1>1, <1>2, TypeCorrect, PTL DEF Spec

-----------------------------------------------------------------------------
(* Sums of shares: a deal takes on one side what it gives on the other.    *)

\* The shares an order trades, user by user, are those of all orders of that
\* side.
LEMMA SumPerUser ==
  ASSUME TypeOK, NEW f, \A x \in Orders : f[x] \in Int, NEW side
  PROVE  SumFunctionOnSet(PerUser(f, side), Users) =
           SumFunctionOnSet(f, {x \in Orders : Side(x) = side})
<1> DEFINE S == {x \in Orders : Side(x) = side}
           group == [x \in Orders |-> User(x)]
           part == PerUser(f, side)
<1>1. IsFiniteSet(S) /\ S \subseteq Orders
  BY FS_Subset
<1>2. \A x \in S : f[x] \in Int /\ group[x] \in Users
  BY ReqType
<1>3. ASSUME NEW u \in Users
      PROVE  part[u] = SumFunctionOnSet(f, InGroup(S, group, u))
  <2>1. InGroup(S, group, u) = {x \in Orders : User(x) = u /\ Side(x) = side}
    BY DEF InGroup
  <2>2. part[u] =
          SumFunctionOnSet(f, {x \in Orders : User(x) = u /\ Side(x) = side})
    BY DEF PerUser
  <2> QED BY <2>1, <2>2
<1> HIDE DEF S, group, part
<1>4. SumFunctionOnSet(part, Users) = SumFunctionOnSet(f, S)
  BY <1>1, <1>2, <1>3, SumOfGroups
<1> QED BY <1>4 DEF S, part

\* The two sides of a deal trade the same number of shares: what the order of
\* the pass gets is what the rows it crosses give.
LEMMA DealBalances ==
  ASSUME TypeOK, NEW t \in Item, t.order \in Orders,
         NEW d, d = Deal(t), \A x \in Orders : d.qty[x] \in Int
  PROVE  SumFunctionOnSet(d.qty, {x \in Orders : Side(x) = "BUY"}) =
           SumFunctionOnSet(d.qty, {x \in Orders : Side(x) = "SELL"})
<1> DEFINE C == Candidates(t.order)
           fill == Allocation(Side(t.order), t.price, t.qty, Rows(t.order))
           Of(side) == {x \in Orders : Side(x) = side}
           Sum(S) == SumFunctionOnSet(d.qty, S)
           total == SumFunctionOnSet(fill, C)
<1>1. \A x \in Orders :
        d.qty[x] = IF x = t.order THEN total
                   ELSE IF x \in C THEN fill[x] ELSE 0
  BY DEF Deal, Rows
<1>2. C \subseteq Orders /\ t.order \notin C
      /\ \A x \in C : Side(x) # Side(t.order)
  BY DEF Candidates
<1>3. \A x \in Orders : Side(x) \in {"BUY", "SELL"}
  BY ReqType DEF Side, RequestType
<1>4. \A side : IsFiniteSet(Of(side)) /\ Of(side) \subseteq Orders
  BY FS_Subset
<1> DEFINE mine == Side(t.order)
           other == IF mine = "BUY" THEN "SELL" ELSE "BUY"
<1>5. Sum(Of(mine)) = total
  <2> DEFINE S == Of(mine) \ {t.order}
  <2>1. t.order \in Of(mine) /\ IsFiniteSet(S)
    BY <1>4, FS_RemoveElement
  <2>2. \A x \in S : d.qty[x] = 0
    BY <1>1, <1>2
  <2>3. SumFunctionOnSet(d.qty, S) = 0
    <3> HIDE DEF S
    <3> QED BY <2>1, <2>2, SumOfZeroes
  <2>4. Sum(Of(mine)) = d.qty[t.order] + Sum(Of(mine) \ {t.order})
    <3> HIDE DEF mine, Of
    <3>1. \A x \in Of(mine) : d.qty[x] \in Int
      BY <1>4
    <3> QED BY <1>4, <2>1, <3>1, SumTakesAny
  <2>5. d.qty[t.order] = total /\ d.qty[t.order] \in Int
    BY <1>1
  <2> HIDE DEF total, mine, Of
  <2> QED BY <2>3, <2>4, <2>5
<1>6. Sum(Of(other)) = total
  <2> DEFINE R == Of(other) \ C
  <2>1. C \subseteq Of(other) /\ t.order \notin Of(other)
    BY <1>2, <1>3
  <2>2. IsFiniteSet(C) /\ IsFiniteSet(R) /\ C \cap R = {}
    BY <1>4, <2>1, FS_Subset
  <2>3. \A x \in R : d.qty[x] = 0
    BY <1>1, <2>1
  <2>4. \A x \in C : d.qty[x] = fill[x] /\ fill[x] \in Int
    BY <1>1, <1>2
  <2>5. \A x \in C \cup R : d.qty[x] \in Int
    BY <1>4, <2>1
  <2>6. SumFunctionOnSet(d.qty, R) = 0
    <3> HIDE DEF R
    <3> QED BY <2>2, <2>3, SumOfZeroes
  <2>7. SumFunctionOnSet(d.qty, C) = total /\ total \in Int
    <3> HIDE DEF C, fill
    <3> QED BY <2>2, <2>4, SumOfSame, SumIsInt
  <2>8. SumFunctionOnSet(d.qty, C \cup R) =
          SumFunctionOnSet(d.qty, C) + SumFunctionOnSet(d.qty, R)
    <3> HIDE DEF C, R
    <3> QED BY <2>2, <2>5, SumOfUnion
  <2>9. Sum(Of(other)) = SumFunctionOnSet(d.qty, C \cup R)
    <3>1. Of(other) = C \cup R
      BY <2>1
    <3> QED BY <3>1
  <2> HIDE DEF C, R, total, Sum
  <2> QED BY <2>6, <2>7, <2>8, <2>9
<1>7. \/ mine = "BUY" /\ other = "SELL"
      \/ mine = "SELL" /\ other = "BUY"
  BY <1>3
<1> HIDE DEF mine, other, total
<1> QED BY <1>5, <1>6, <1>7

\* A deal that settles moves shares from its sellers to its buyers.
LEMMA MatchShares ==
  ASSUME TypeOK, SharesConserved, NEW w \in Workers, Match(w)
  PROVE  SharesConserved'
<1> DEFINE t == Current(w)
           d == Deal(t)
           buys == PerUser(d.qty, "BUY")
           sells == PerUser(d.qty, "SELL")
<1>1. t \in Item /\ t.order \in Orders
  BY AgendaType DEF Match, Matching, Item
<1>2. /\ d.qty \in [Orders -> Nat] /\ buys \in [Users -> Nat]
      /\ \A u \in Users : sells[u] \in 0..holdings[u]
  BY DEF Match, Settles
<1>3. holdings' = [u \in Users |-> holdings[u] + buys[u] - sells[u]]
  BY DEF Match
<1>4. /\ holdings \in [Users -> Int]
      /\ SumFunction(holdings) = SumFunction(InitialShares)
  BY DEF TypeOK, SharesConserved
<1>5. SumFunctionOnSet(buys, Users) = SumFunctionOnSet(sells, Users)
  <2>1. \A x \in Orders : d.qty[x] \in Int
    BY <1>2
  <2> HIDE DEF t
  <2> QED BY <1>1, <2>1, DealBalances, SumPerUser
<1>6. \A u \in Users : /\ holdings[u] \in Int /\ buys[u] \in Nat
                       /\ sells[u] \in Int /\ sells[u] <= holdings[u]
                       /\ holdings'[u] = holdings[u] + buys[u] - sells[u]
  <2> HIDE DEF buys, sells
  <2> QED BY <1>2, <1>3, <1>4
<1> HIDE DEF buys, sells
<1>7. \A u \in Users : holdings'[u] >= 0
  BY <1>6
<1>8. SumFunctionOnSet(holdings', Users) = SumFunctionOnSet(holdings, Users)
        + SumFunctionOnSet(buys, Users) - SumFunctionOnSet(sells, Users)
  BY <1>6, SumCombines
<1>9. SumFunctionOnSet(holdings, Users) \in Int
      /\ SumFunctionOnSet(sells, Users) \in Int
  BY <1>6, SumIsInt
<1>10. SumFunctionOnSet(holdings', Users) = SumFunctionOnSet(holdings, Users)
  BY <1>5, <1>8, <1>9
<1>11. DOMAIN holdings = Users /\ DOMAIN holdings' = Users
  BY <1>3, <1>4
<1>12. SumFunction(holdings)' = SumFunction(holdings)
  BY <1>10, <1>11 DEF SumFunction
<1> QED BY <1>4, <1>7, <1>12 DEF SharesConserved

\* However passes, failures and crashes interleave, shares are neither created
\* nor lost by the trades, and nobody sells what he has not.
THEOREM SharesAreConserved == Spec => []SharesConserved
<1>1. Init => SharesConserved
  <2> SUFFICES ASSUME Init PROVE SharesConserved
    OBVIOUS
  <2>1. holdings = InitialShares /\ \A u \in Users : InitialShares[u] \in Nat
    BY DEF Init
  <2> QED BY <2>1 DEF SharesConserved
<1>2. TypeOK /\ SharesConserved /\ [Next]_vars => SharesConserved'
  <2> SUFFICES ASSUME TypeOK, SharesConserved, [Next]_vars
               PROVE  SharesConserved'
    OBVIOUS
  <2>1. CASE UNCHANGED holdings
    BY <2>1 DEF SharesConserved
  <2>2. ASSUME NEW w \in Workers, Match(w) PROVE SharesConserved'
    BY <2>2, MatchShares
  <2>3. ASSUME NEW w \in Workers,
               \/ InsertOrder(w) \/ InsertOrderFails(w)
               \/ InsertBookRow(w) \/ InsertBookRowFails(w)
               \/ MatchNothing(w) \/ MatchFails(w) \/ MatchAborts(w)
               \/ Trigger(w) \/ TriggerFails(w) \/ Refund(w)
        PROVE  UNCHANGED holdings
    BY <2>3 DEF InsertOrder, InsertOrderFails, InsertBookRow,
                InsertBookRowFails, MatchNothing, MatchFails, MatchAborts,
                Trigger, TriggerFails, Refund, tables
  <2>4. ASSUME NEW w \in Workers,
               \/ Charge(w) \/ ChargeRefused(w) \/ Amend(w) \/ AmendLost(w)
               \/ Undo(w) \/ Crash(w)
               \/ \E o \in Orders :
                    Submit(w, o) \/ Cancel(w, o) \/ AmendRead(w, o)
        PROVE  UNCHANGED holdings
    BY <2>4 DEF Charge, ChargeRefused, Amend, AmendLost, Undo, Crash, Submit,
                Cancel, AmendRead, tables
  <2>5. CASE UNCHANGED vars
    BY <2>1, <2>5 DEF vars
  <2>6. CASE Next
    BY <2>1, <2>2, <2>3, <2>4, <2>6 DEF Next, Step, Request
  <2> QED BY <2>5, <2>6
<1> QED BY <1>1, <1>2, TypeCorrect, PTL DEF Spec

-----------------------------------------------------------------------------
(* Cancellation, for clients that wait for the answer to a POST before     *)
(* they address the order it placed.                                       *)

\* An agenda only names orders that were placed.
AgendaOK(a) == \A i \in 1..Len(a) : a[i].order \in sent \cup {NoOrder}

\* A worker handles placed orders, and while it still has to insert a row of
\* an order nobody has cancelled it.
JobOK(job) ==
  /\ job.op # "idle" => job.order \in sent
  /\ job.op \in {"insert", "book"} => cancels[job.order] = 0
  /\ AgendaOK(job.agenda)

\* Only placed orders have rows.  A cancelled one is neither waiting for a
\* trade, nor for a trigger that would make it wait for one again.
RowOK(o) ==
  /\ \/ cancels[o] > 0
     \/ orders[o].status # "ABSENT"
     \/ book[o].status # "ABSENT"
     => o \in sent
  /\ cancels[o] > 0 => /\ orders[o].status \notin Unfilled
                       /\ book[o].status # "PENDING_TRIGGER"
  /\ cancels[o] <= 1

RowsOK == \A o \in Orders : RowOK(o)
JobsOK == \A w \in Workers : JobOK(worker[w])

\* The inductive invariant behind the theorems below.
CancelInv == RowsOK /\ JobsOK

-----------------------------------------------------------------------------
(* Agendas.                                                                *)

\* What is left of an agenda names no new order.
LEMMA AgendaTailOK ==
  ASSUME NEW a \in Seq(Item), a # <<>>, AgendaOK(a)
  PROVE  /\ Head(a).order \in sent \cup {NoOrder}
         /\ AgendaOK(Tail(a))
<1>1. /\ Len(a) \in Nat /\ Len(a) > 0 /\ Head(a) = a[1]
      /\ Tail(a) \in Seq(Item) /\ Len(Tail(a)) = Len(a) - 1
      /\ \A i \in 1..Len(Tail(a)) : Tail(a)[i] = a[i + 1]
  BY HeadTailProperties, LenProperties, EmptySeq
<1>2. \A i \in 1..Len(Tail(a)) : i + 1 \in 1..Len(a)
  BY <1>1
<1>3. 1 \in 1..Len(a)
  BY <1>1
<1> QED BY <1>1, <1>2, <1>3 DEF AgendaOK

\* Two agendas one after the other name no order that neither names.
LEMMA AgendaConcatOK ==
  ASSUME NEW a \in Seq(Item), NEW b \in Seq(Item), AgendaOK(a), AgendaOK(b)
  PROVE  AgendaOK(a \o b)
<1>1. /\ Len(a \o b) = Len(a) + Len(b)
      /\ Len(a) \in Nat /\ Len(b) \in Nat
      /\ \A i \in 1..Len(a) + Len(b) :
           (a \o b)[i] = IF i <= Len(a) THEN a[i] ELSE b[i - Len(a)]
  BY ConcatProperties, LenProperties
<1>2. ASSUME NEW i \in 1..Len(a \o b)
      PROVE  (a \o b)[i].order \in sent \cup {NoOrder}
  <2>1. CASE i <= Len(a)
    <3>1. i \in 1..Len(a) /\ (a \o b)[i] = a[i]
      BY <1>1, <2>1
    <3> QED BY <3>1 DEF AgendaOK
  <2>2. CASE i > Len(a)
    <3>1. i - Len(a) \in 1..Len(b) /\ (a \o b)[i] = b[i - Len(a)]
      BY <1>1, <2>2
    <3> QED BY <3>1 DEF AgendaOK
  <2> QED BY <1>1, <2>1, <2>2
<1> QED BY <1>2 DEF AgendaOK

\* A step of a worker that places and cancels nothing keeps the jobs of all
\* workers, if the job it goes on with is one.
LEMMA BecomesOK ==
  ASSUME TypeOK, JobsOK, NEW w \in Workers, NEW job, Becomes(w, job),
         UNCHANGED <<sent, cancels>>, JobOK(job)
  PROVE  JobsOK'
BY DEF JobsOK, JobOK, AgendaOK, Becomes, TypeOK

\* Returning to the pool is such a job.
LEMMA IdleOK == JobOK(Idle)
<1>1. Len(<<>>) = 0
  OBVIOUS
<1> QED BY <1>1 DEF JobOK, Idle, At, AgendaOK

\* A worker may go on with any agenda of placed orders.
LEMMA ProceedOK ==
  ASSUME TypeOK, JobsOK, NEW w \in Workers, worker[w].op # "idle",
         NEW a \in Seq(Item), Proceed(w, a), AgendaOK(a),
         UNCHANGED <<sent, cancels>>
  PROVE  JobsOK'
<1> DEFINE job == IF a = <<>> THEN Idle
                  ELSE [worker[w] EXCEPT !.op = "run", !.agenda = a]
<1>1. worker[w] \in Job /\ JobOK(worker[w])
  BY JobType DEF JobsOK
<1>2. JobOK([worker[w] EXCEPT !.op = "run", !.agenda = a])
  BY <1>1 DEF JobOK, Job
<1>3. JobOK(job)
  BY <1>2, IdleOK
<1>4. Becomes(w, job)
  BY DEF Proceed
<1> QED BY <1>3, <1>4, BecomesOK

-----------------------------------------------------------------------------
(* The invariant, step by step.                                            *)

\* Nothing is placed, booked or cancelled to begin with.
LEMMA InitOK == Init => CancelInv
BY IdleOK DEF Init, CancelInv, RowsOK, RowOK, JobsOK

\* An order is placed that no row, job or cancel knew of.
LEMMA SubmitOK ==
  ASSUME TypeOK, CancelInv, NEW w \in Workers, NEW o \in Orders, Submit(w, o)
  PROVE  CancelInv'
<1>1. o \notin sent /\ sent' = sent \cup {o} /\ cancels' = cancels
  BY DEF Submit
<1>2. RowsOK'
  BY <1>1 DEF CancelInv, RowsOK, RowOK, Submit
<1>3. cancels[o] = 0
  BY <1>1 DEF CancelInv, RowsOK, RowOK, TypeOK
<1>4. JobOK(At("insert", o, NoTerms, NoTerms))'
  <2>1. Len(<<>>) = 0
    OBVIOUS
  <2> QED BY <1>1, <1>3, <2>1 DEF JobOK, AgendaOK, At
<1>5. ASSUME NEW v \in Workers PROVE JobOK(worker[v])'
  <2>1. JobOK(worker[v])
    BY DEF CancelInv, JobsOK
  <2>2. CASE v = w
    BY <1>4, <2>2 DEF Submit, Becomes, TypeOK
  <2>3. CASE v # w
    <3>1. worker'[v] = worker[v]
      BY <2>3 DEF Submit, Becomes, TypeOK
    <3> QED BY <1>1, <2>1, <3>1 DEF JobOK, AgendaOK
  <2> QED BY <2>2, <2>3
<1> QED BY <1>2, <1>5 DEF CancelInv, JobsOK

\* The rows of an order are inserted before anybody may cancel it.
LEMMA InsertOK ==
  ASSUME TypeOK, CancelInv, NEW w \in Workers,
         \/ InsertOrder(w) \/ InsertOrderFails(w)
         \/ InsertBookRow(w) \/ InsertBookRowFails(w)
  PROVE  CancelInv'
<1> DEFINE o == worker[w].order
<1>1. /\ worker[w].op \in {"insert", "book"}
      /\ UNCHANGED <<sent, cancels>>
  BY DEF InsertOrder, InsertOrderFails, InsertBookRow, InsertBookRowFails,
         tables, ghosts
<1>2. /\ worker[w] \in Job /\ JobOK(worker[w])
      /\ o \in Orders /\ o \in sent /\ cancels[o] = 0
  BY <1>1, JobType DEF CancelInv, JobsOK, JobOK, Job
<1>3. /\ \A x \in Orders : x # o => orders'[x] = orders[x]
      /\ \A x \in Orders : x # o => book'[x] = book[x]
  BY DEF InsertOrder, InsertOrderFails, InsertBookRow, InsertBookRowFails,
         tables, TypeOK
<1>4. RowsOK'
  <2>1. ASSUME NEW x \in Orders PROVE RowOK(x)'
    <3>1. CASE x = o
      BY <1>1, <1>2, <3>1 DEF RowOK
    <3>2. CASE x # o
      BY <1>1, <1>3, <3>2 DEF RowOK, CancelInv, RowsOK
    <3> QED BY <3>1, <3>2
  <2> QED BY <2>1 DEF RowsOK
<1>5. JobsOK'
  <2>1. CASE InsertOrder(w)
    <3>1. JobOK([worker[w] EXCEPT !.op = "book"])
      BY <1>2 DEF JobOK, Job
    <3> QED BY <1>1, <2>1, <3>1, BecomesOK DEF InsertOrder, CancelInv
  <2>2. CASE InsertOrderFails(w) \/ InsertBookRowFails(w)
    BY <1>1, <2>2, IdleOK, BecomesOK
       DEF InsertOrderFails, InsertBookRowFails, CancelInv
  <2>3. CASE InsertBookRow(w)
    <3> DEFINE pass == [order |-> o, price |-> req[o].price,
                        qty |-> req[o].qty]
               a == IF Dormant(o) THEN <<>> ELSE <<pass>>
    <3>1. pass \in Item
      BY <1>2, ReqType DEF Item
    <3>2. a \in Seq(Item)
      BY <3>1
    <3>3. AgendaOK(a)
      BY <1>2 DEF AgendaOK
    <3>4. Proceed(w, a)
      BY <2>3 DEF InsertBookRow
    <3> HIDE DEF a
    <3> QED BY <1>1, <3>2, <3>3, <3>4, ProceedOK DEF CancelInv
  <2> QED BY <2>1, <2>2, <2>3
<1> QED BY <1>4, <1>5 DEF CancelInv

\* A pass makes no order cancellable, and marks none dormant.
LEMMA MatchOK ==
  ASSUME TypeOK, CancelInv, NEW w \in Workers, Match(w)
  PROVE  CancelInv'
<1> DEFINE t == Current(w)
           d == Deal(t)
           traded == {x \in Orders : d.qty[x] > 0}
<1>1. /\ worker[w].op = "run" /\ worker[w].agenda # <<>>
      /\ UNCHANGED <<sent, cancels>>
  BY DEF Match, Matching, ghosts
<1>2. /\ worker[w].agenda \in Seq(Item) /\ AgendaOK(worker[w].agenda)
      /\ Tail(worker[w].agenda) \in Seq(Item)
  BY <1>1, JobType, AgendaType DEF CancelInv, JobsOK, JobOK, Job
<1>3. /\ t.order \in sent
      /\ AgendaOK(Tail(worker[w].agenda))
  BY <1>1, <1>2, AgendaTailOK DEF Current, Match, Matching
<1>4. ASSUME NEW x \in traded PROVE x \in sent
  <2>1. CASE x = t.order
    BY <1>3, <2>1
  <2>2. CASE x \in Candidates(t.order)
    <3>1. book[x].status # "ABSENT"
      BY <2>2 DEF Candidates, Resting
    <3> QED BY <3>1 DEF CancelInv, RowsOK, RowOK
  <2>3. CASE x # t.order /\ x \notin Candidates(t.order)
    <3>1. d.qty[x] = 0
      BY <2>3 DEF Deal, Rows
    <3> QED BY <3>1
  <2> QED BY <2>1, <2>2, <2>3
<1>5. RowsOK'
  <2>1. ASSUME NEW x \in Orders PROVE RowOK(x)'
    <3>1. CASE x \in traded
      <4>1. /\ orders'[x].status \in {"PARTIALLY_EXECUTED", "EXECUTED"}
            /\ book'[x].status \in {"PARTIALLY_EXECUTED", "EXECUTED"}
        <5>1. /\ orders'[x] = [orders[x] EXCEPT
                                 !.status = FilledStatus(RemAfter(t, d, x))]
              /\ book'[x] = [book[x] EXCEPT
                               !.rem = RemAfter(t, d, x),
                               !.status = FilledStatus(RemAfter(t, d, x))]
          BY <3>1 DEF Match
        <5>2. orders[x] \in OrderRow /\ book[x] \in BookRow
          BY DEF TypeOK
        <5>3. FilledStatus(RemAfter(t, d, x))
                \in {"PARTIALLY_EXECUTED", "EXECUTED"}
          BY DEF FilledStatus
        <5> HIDE DEF t, d
        <5> QED BY <5>1, <5>2, <5>3 DEF OrderRow, BookRow
      <4>2. cancels[x] <= 1
        BY DEF CancelInv, RowsOK, RowOK
      <4> QED BY <1>1, <1>4, <3>1, <4>1, <4>2 DEF RowOK, Unfilled
    <3>2. CASE x \notin traded
      <4>1. orders'[x] = orders[x] /\ book'[x] = book[x]
        BY <3>2 DEF Match
      <4> QED BY <1>1, <4>1 DEF RowOK, CancelInv, RowsOK
    <3> QED BY <3>1, <3>2
  <2> QED BY <2>1 DEF RowsOK
<1>6. JobsOK'
  <2>1. PICK checks \in Checks(Side(t.order), traded \ {t.order}) :
          Proceed(w, checks \o Tail(worker[w].agenda))
    BY DEF Match
  <2>2. PICK q \in SetToSeqs(traded \ {t.order}) :
          checks = [i \in DOMAIN q |-> [order |-> NoOrder,
                                        price |-> book[q[i]].price, qty |-> 0]]
    BY DEF Checks
  <2>3. \A i \in DOMAIN q : q[i] \in Orders
    BY DEF SetToSeqs
  <2>4. \A i \in DOMAIN q : checks[i] \in Item /\ checks[i].order = NoOrder
    BY <2>2, <2>3 DEF Item, TypeOK, BookRow
  <2>5. checks \in Seq(Item)
    BY <2>2, <2>4, ItemsType
  <2>6. AgendaOK(checks)
    <3>1. DOMAIN checks = DOMAIN q /\ DOMAIN checks = 1..Len(checks)
      BY <2>2, <2>5
    <3> QED BY <2>4, <3>1 DEF AgendaOK
  <2>7. /\ checks \o Tail(worker[w].agenda) \in Seq(Item)
        /\ AgendaOK(checks \o Tail(worker[w].agenda))
    BY <1>2, <1>3, <2>5, <2>6, ConcatProperties, AgendaConcatOK
  <2> QED BY <1>1, <2>1, <2>7, ProceedOK DEF CancelInv
<1> QED BY <1>5, <1>6 DEF CancelInv

\* A pass without trades and a failed check drop one item; a failed pass marks
\* its order FAILED, which nobody can cancel.
LEMMA QuietRunOK ==
  ASSUME TypeOK, CancelInv, NEW w \in Workers,
         \/ MatchNothing(w) \/ MatchFails(w) \/ MatchAborts(w)
         \/ TriggerFails(w)
  PROVE  CancelInv'
<1>1. /\ worker[w].op = "run" /\ worker[w].agenda # <<>>
      /\ Proceed(w, Tail(worker[w].agenda))
      /\ UNCHANGED <<sent, cancels, book>>
  BY DEF MatchNothing, MatchFails, MatchAborts, TriggerFails, Matching,
         Checking, tables, ghosts
<1>2. /\ worker[w].agenda \in Seq(Item) /\ AgendaOK(worker[w].agenda)
      /\ Tail(worker[w].agenda) \in Seq(Item)
  BY <1>1, JobType, AgendaType DEF CancelInv, JobsOK, JobOK, Job
<1>3. /\ Current(w).order \in sent \cup {NoOrder}
      /\ AgendaOK(Tail(worker[w].agenda))
  BY <1>1, <1>2, AgendaTailOK DEF Current
<1>4. JobsOK'
  BY <1>1, <1>2, <1>3, ProceedOK DEF CancelInv
<1>5. RowsOK'
  <2>1. CASE MatchFails(w)
    <3> DEFINE o == Current(w).order
    <3>1. o \in sent /\ o \in Orders
      BY <1>3, <2>1 DEF MatchFails, Matching, TypeOK
    <3>2. orders' = [orders EXCEPT ![o].status = "FAILED"]
      BY <2>1 DEF MatchFails
    <3>3. /\ orders'[o].status = "FAILED"
          /\ \A x \in Orders : x # o => orders'[x] = orders[x]
      BY <3>1, <3>2 DEF TypeOK, OrderRow
    <3> HIDE DEF o
    <3> QED BY <1>1, <3>1, <3>3 DEF RowsOK, RowOK, CancelInv, Unfilled
  <2>2. CASE MatchNothing(w) \/ MatchAborts(w) \/ TriggerFails(w)
    <3>1. UNCHANGED orders
      BY <2>2 DEF MatchNothing, MatchAborts, TriggerFails, tables
    <3> QED BY <1>1, <3>1 DEF RowsOK, RowOK, CancelInv
  <2> QED BY <2>1, <2>2
<1> QED BY <1>4, <1>5 DEF CancelInv

\* A price check makes dormant orders wait for a trade, and none of those was
\* ever cancelled.
LEMMA TriggerOK ==
  ASSUME TypeOK, CancelInv, NEW w \in Workers, Trigger(w)
  PROVE  CancelInv'
<1> DEFINE ltp == Current(w).price
           hit == {o \in Orders : book[o].status = "PENDING_TRIGGER"
                                  /\ TriggerMet(o, ltp)}
<1>1. /\ worker[w].op = "run" /\ worker[w].agenda # <<>>
      /\ UNCHANGED <<sent, cancels>>
  BY DEF Trigger, Checking, ghosts
<1>2. /\ worker[w].agenda \in Seq(Item) /\ AgendaOK(worker[w].agenda)
      /\ Tail(worker[w].agenda) \in Seq(Item) /\ ltp \in Nat
  BY <1>1, JobType, AgendaType DEF CancelInv, JobsOK, JobOK, Job, Item
<1>3. AgendaOK(Tail(worker[w].agenda))
  BY <1>1, <1>2, AgendaTailOK
<1>4. \A o \in hit : o \in sent /\ cancels[o] = 0
  BY DEF CancelInv, RowsOK, RowOK, TypeOK
<1>5. RowsOK'
  <2>1. ASSUME NEW x \in Orders PROVE RowOK(x)'
    <3>1. CASE x \in hit
      BY <1>1, <1>4, <3>1 DEF RowOK
    <3>2. CASE x \notin hit
      <4>1. orders'[x] = orders[x] /\ book'[x] = book[x]
        BY <3>2 DEF Trigger
      <4> QED BY <1>1, <4>1 DEF RowOK, CancelInv, RowsOK
    <3> QED BY <3>1, <3>2
  <2> QED BY <2>1 DEF RowsOK
<1>6. JobsOK'
  <2>1. PICK q \in SetToSeqs(hit) :
          Proceed(w, [i \in DOMAIN q |->
                        [order |-> q[i], price |-> EffectivePrice(q[i], ltp),
                         qty   |-> book[q[i]].rem]]
                     \o Tail(worker[w].agenda))
    BY DEF Trigger
  <2> DEFINE passes == [i \in DOMAIN q |->
                          [order |-> q[i], price |-> EffectivePrice(q[i], ltp),
                           qty   |-> book[q[i]].rem]]
  <2>2. \A i \in DOMAIN q : q[i] \in hit
    BY DEF SetToSeqs
  <2>3. \A i \in DOMAIN q : /\ book[q[i]].rem \in Int
                            /\ EffectivePrice(q[i], ltp) \in Nat
    BY <1>2, <2>2 DEF TypeOK, BookRow, EffectivePrice
  <2>4. \A i \in DOMAIN q : passes[i] \in Item /\ passes[i].order \in sent
    BY <1>4, <2>2, <2>3 DEF Item
  <2>5. passes \in Seq(Item)
    <3> HIDE DEF ltp
    <3> QED BY <2>4, ItemsType
  <2>6. AgendaOK(passes)
    <3>1. DOMAIN passes = DOMAIN q /\ DOMAIN passes = 1..Len(passes)
      BY <2>5
    <3> HIDE DEF passes
    <3> QED BY <2>4, <3>1 DEF AgendaOK
  <2>7. /\ passes \o Tail(worker[w].agenda) \in Seq(Item)
        /\ AgendaOK(passes \o Tail(worker[w].agenda))
    <3> HIDE DEF passes, ltp
    <3> QED BY <1>2, <1>3, <2>5, <2>6, ConcatProperties, AgendaConcatOK
  <2> QED BY <1>1, <2>1, <2>7, ProceedOK DEF CancelInv
<1> QED BY <1>5, <1>6 DEF CancelInv

\* A patient client cancels an order only when both its rows are in place, and
\* an order that was cancelled cannot be cancelled again.
LEMMA CancelOK ==
  ASSUME ~EagerClients, TypeOK, CancelInv, NEW w \in Workers,
         NEW o \in Orders, Cancel(w, o)
  PROVE  CancelInv'
<1>1. /\ Answered(o) /\ orders[o].status # "ABSENT"
      /\ orders[o].status \in Unfilled
      /\ sent' = sent
  BY DEF Cancel, Known, Cancellable
<1>2. o \in sent /\ cancels[o] = 0
  BY <1>1 DEF CancelInv, RowsOK, RowOK, TypeOK
<1>3. /\ cancels'[o] = 1
      /\ \A x \in Orders : x # o => cancels'[x] = cancels[x]
  BY <1>2 DEF Cancel, TypeOK
<1>4. RowsOK'
  <2>1. /\ orders'[o].status = "CANCELLED"
        /\ \A x \in Orders : x # o => orders'[x] = orders[x]
    BY DEF Cancel, TypeOK, OrderRow
  <2>2. /\ book'[o] = AfterCancel(o)
        /\ \A x \in Orders : x # o => book'[x] = book[x]
    BY DEF Cancel, TypeOK
  <2>3. AfterCancel(o).status # "PENDING_TRIGGER"
    <3>1. book[o] \in BookRow
      BY DEF TypeOK
    <3> QED BY <3>1 DEF AfterCancel, BookRow
  <2> QED BY <1>1, <1>2, <1>3, <2>1, <2>2, <2>3
          DEF RowsOK, RowOK, CancelInv, Unfilled
<1>5. ASSUME NEW v \in Workers PROVE JobOK(worker[v])'
  <2>1. JobOK(worker[v])
    BY DEF CancelInv, JobsOK
  <2>2. CASE v = w
    <3>1. worker'[v] = IF IsBuy(o)
                       THEN At("refund", o, ReadTerms(o), NoTerms) ELSE Idle
      BY <2>2 DEF Cancel, Becomes, TypeOK
    <3>2. Len(<<>>) = 0
      OBVIOUS
    <3> QED BY <1>1, <1>2, <3>1, <3>2 DEF JobOK, AgendaOK, Idle, At
  <2>3. CASE v # w
    <3>1. worker'[v] = worker[v]
      BY <2>3 DEF Cancel, Becomes, TypeOK
    <3>2. worker[v].op \in {"insert", "book"} =>
            worker[v].order \in Orders /\ worker[v].order # o
      BY <1>1, JobType DEF Answered, Job
    <3> QED BY <1>1, <1>3, <2>1, <3>1, <3>2 DEF JobOK, AgendaOK
  <2> QED BY <2>2, <2>3
<1> QED BY <1>4, <1>5 DEF CancelInv, JobsOK

\* Refunds and amendments change no status, and crashes nothing at all.
LEMMA OthersOK ==
  ASSUME TypeOK, CancelInv, NEW w \in Workers,
         \/ \E o \in Orders : AmendRead(w, o)
         \/ Refund(w) \/ Charge(w) \/ ChargeRefused(w) \/ Amend(w)
         \/ AmendLost(w) \/ Undo(w) \/ Crash(w)
  PROVE  CancelInv'
<1>1. UNCHANGED <<sent, cancels>>
  BY DEF AmendRead, Refund, Charge, ChargeRefused, Amend, AmendLost, Undo,
         Crash, ghosts
<1>2. ASSUME NEW x \in Orders
      PROVE  /\ orders'[x].status = orders[x].status
             /\ book'[x].status = book[x].status
  <2>1. orders[x] \in OrderRow /\ book[x] \in BookRow
    BY DEF TypeOK
  <2>2. CASE Amend(w)
    BY <2>1, <2>2 DEF Amend, AfterAmend, TypeOK, OrderRow, BookRow
  <2>3. CASE ~Amend(w)
    BY <2>3 DEF AmendRead, Refund, Charge, ChargeRefused, AmendLost, Undo,
                Crash, tables
  <2> QED BY <2>2, <2>3
<1>3. RowsOK'
  BY <1>1, <1>2 DEF RowsOK, RowOK, CancelInv
<1>4. JobsOK'
  <2>1. CASE Refund(w) \/ ChargeRefused(w) \/ Amend(w) \/ Undo(w) \/ Crash(w)
    BY <1>1, <2>1, IdleOK, BecomesOK
       DEF Refund, ChargeRefused, Amend, Undo, Crash, CancelInv
  <2>2. ASSUME NEW o \in Orders, AmendRead(w, o) PROVE JobsOK'
    <3>1. PICK a \in Amendments :
            Becomes(w, At(IF IsBuy(o) THEN "charge" ELSE "amend", o,
                          ReadTerms(o), a))
      BY <2>2 DEF AmendRead
    <3>2. o \in sent
      BY <2>2 DEF AmendRead, Known, CancelInv, RowsOK, RowOK
    <3>3. Len(<<>>) = 0
      OBVIOUS
    <3>4. JobOK(At(IF IsBuy(o) THEN "charge" ELSE "amend", o,
                   ReadTerms(o), a))
      BY <3>2, <3>3 DEF JobOK, At, AgendaOK
    <3> QED BY <1>1, <3>1, <3>4, BecomesOK DEF CancelInv
  <2>3. CASE Charge(w)
    <3>1. worker[w] \in Job /\ JobOK(worker[w])
      BY <2>3, JobType DEF Charge, CancelInv, JobsOK
    <3>2. JobOK([worker[w] EXCEPT !.op = "amend",
                                  !.delta = Delta(worker[w])])
      BY <3>1 DEF JobOK, Job
    <3> QED BY <1>1, <2>3, <3>2, BecomesOK DEF Charge, CancelInv
  <2>4. CASE AmendLost(w)
    <3>1. worker[w] \in Job /\ JobOK(worker[w])
      BY <2>4, JobType DEF AmendLost, CancelInv, JobsOK
    <3>2. JobOK([worker[w] EXCEPT !.op = "undo"])
      BY <3>1 DEF JobOK, Job
    <3> QED BY <1>1, <2>4, <3>2, IdleOK, BecomesOK DEF AmendLost, CancelInv
  <2> QED BY <2>1, <2>2, <2>3, <2>4
<1> QED BY <1>3, <1>4 DEF CancelInv

-----------------------------------------------------------------------------
(* The theorems.                                                           *)

\* Every step of every handler preserves the invariant.
LEMMA NextOK ==
  ASSUME ~EagerClients, TypeOK, CancelInv, [Next]_vars
  PROVE  CancelInv'
<1>1. CASE UNCHANGED vars
  BY <1>1 DEF vars, CancelInv, RowsOK, RowOK, JobsOK, JobOK, AgendaOK
<1>2. ASSUME NEW w \in Workers, Step(w) PROVE CancelInv'
  BY <1>2, InsertOK, MatchOK, QuietRunOK, TriggerOK, OthersOK DEF Step
<1>3. ASSUME NEW w \in Workers, Crash(w) PROVE CancelInv'
  BY <1>3, OthersOK
<1>4. ASSUME NEW w \in Workers, NEW o \in Orders, Request(w, o)
      PROVE  CancelInv'
  BY <1>4, SubmitOK, CancelOK, OthersOK DEF Request
<1> QED BY <1>1, <1>2, <1>3, <1>4 DEF Next

\* The invariant holds in every state of every schedule.
LEMMA CancelInvariant ==
  ASSUME ~EagerClients
  PROVE  Spec => []CancelInv
<1>1. TypeOK /\ CancelInv /\ [Next]_vars => CancelInv'
  BY NextOK
<1> QED BY <1>1, InitOK, TypeCorrect, PTL DEF Spec

\* Cancels, amendments, triggers and matching passes may interleave as they
\* like: an order is cancelled at most once, so a BUY is never refunded twice.
THEOREM CancelledAtMostOnce ==
  ASSUME ~EagerClients
  PROVE  Spec => []CancelledOnce
<1>1. CancelInv => CancelledOnce
  BY DEF CancelInv, RowsOK, RowOK, CancelledOnce
<1> QED BY <1>1, CancelInvariant, PTL

\* An order that was cancelled is never again one that waits for a trade or a
\* trigger in the eyes of GET /orders, whatever reads and commits overlap.
THEOREM CancelledForGood ==
  ASSUME ~EagerClients
  PROVE  Spec => []CancelledStaysClosed
<1>1. CancelInv => CancelledStaysClosed
  BY DEF CancelInv, RowsOK, RowOK, CancelledStaysClosed, TypeOK
<1> QED BY <1>1, CancelInvariant, PTL

-----------------------------------------------------------------------------
(* An order is in one pass at a time.                                      *)

\* The orders an agenda has a pass for.
Holds(a, o) == \E i \in DOMAIN a : a[i].order = o

\* An agenda has one pass for an order at most.
NoTwice(a) ==
  \A i, j \in DOMAIN a :
    a[i].order # NoOrder /\ a[i].order = a[j].order => i = j

\* A worker that is still placing its order.
Placing(w) == worker[w].op \in {"insert", "book"}

\* Only a worker in its passes has an agenda.
AgendasRun == \A w \in Workers : worker[w].op # "run" => worker[w].agenda = <<>>

\* A row of order_book is that of a placed order, and it is not there while
\* the one worker that places the order has not inserted it.
PlacedOnce ==
  /\ \A o \in Orders : book[o].status # "ABSENT" => o \in sent
  /\ \A w \in Workers : Placing(w) => /\ worker[w].order \in sent
                                      /\ book[worker[w].order].status = "ABSENT"
  /\ \A v, w \in Workers : Placing(v) /\ Placing(w) /\ v # w
                           => worker[v].order # worker[w].order

\* An order that has a pass is booked, and no longer dormant.
PassesAwake ==
  \A w \in Workers, o \in Orders :
    Holds(worker[w].agenda, o) =>
      book[o].status \notin {"ABSENT", "PENDING_TRIGGER"}

\* No order is in the agendas of two workers.
Apart ==
  \A v, w \in Workers, o \in Orders :
    v # w => ~(Holds(worker[v].agenda, o) /\ Holds(worker[w].agenda, o))

\* The inductive invariant behind MatchedOnce.
OnceInv ==
  /\ AgendasRun /\ PlacedOnce /\ PassesAwake /\ Apart
  /\ \A w \in Workers : NoTwice(worker[w].agenda)

\* A row that is not there, or dormant.
Asleep(o) == book[o].status \in {"ABSENT", "PENDING_TRIGGER"}

\* No row comes into being, and none falls asleep.
NoneAsleep ==
  \A o \in Orders : /\ book'[o].status = "ABSENT" <=> book[o].status = "ABSENT"
                    /\ book'[o].status = "PENDING_TRIGGER" => Asleep(o)

\* An agenda without items has no passes.
LEMMA NothingHeld ==
  /\ NoTwice(<<>>)
  /\ \A o : ~Holds(<<>>, o)
BY DEF NoTwice, Holds

\* A worker that takes up or goes on with a job, whose passes it had already or
\* takes over from rows that were asleep, and now are not.
LEMMA JobOnce ==
  ASSUME TypeOK, OnceInv, NEW w \in Workers, NEW job \in Job \cup {Idle},
         Becomes(w, job),
         job.op # "run" => job.agenda = <<>>,
         NoTwice(job.agenda),
         \A o \in Orders : Holds(job.agenda, o) =>
           /\ Holds(worker[w].agenda, o) \/ Asleep(o)
           /\ book'[o].status \notin {"ABSENT", "PENDING_TRIGGER"},
         job.op \in {"insert", "book"} =>
           /\ \/ Placing(w) /\ job.order = worker[w].order
              \/ job.order \notin sent
           /\ job.order \in sent' /\ book'[job.order].status = "ABSENT",
         sent \subseteq sent',
         \A o \in Orders :
           /\ book'[o].status # "ABSENT" =>
                \/ book[o].status # "ABSENT"
                \/ Placing(w) /\ o = worker[w].order
           /\ book[o].status # "ABSENT" => book'[o].status # "ABSENT"
           /\ book'[o].status = "PENDING_TRIGGER" => Asleep(o)
  PROVE  OnceInv'
<1>1. /\ worker'[w] = job
      /\ \A v \in Workers : v # w => worker'[v] = worker[v]
  BY DEF Becomes, TypeOK
<1>2. AgendasRun'
  BY <1>1 DEF AgendasRun, OnceInv
<1>3. \A v \in Workers : NoTwice(worker'[v].agenda)
  BY <1>1 DEF OnceInv
<1>4. \A v \in Workers : Placing(v) => worker[v].order \in Orders
  BY JobType DEF Placing, Job
<1>5. PlacedOnce'
  <2>1. \A o \in Orders : book'[o].status # "ABSENT" => o \in sent'
    BY DEF OnceInv, PlacedOnce
  <2>2. ASSUME NEW v \in Workers, Placing(v)'
        PROVE  /\ worker'[v].order \in sent'
               /\ book'[worker'[v].order].status = "ABSENT"
    <3>1. CASE v = w
      BY <1>1, <2>2, <3>1 DEF Placing
    <3>2. CASE v # w
      <4>1. worker'[v] = worker[v] /\ Placing(v)
        BY <1>1, <2>2, <3>2 DEF Placing
      <4>2. worker[v].order \in sent /\ book[worker[v].order].status = "ABSENT"
        BY <4>1 DEF OnceInv, PlacedOnce
      <4>3. ~(Placing(w) /\ worker[v].order = worker[w].order)
        BY <3>2, <4>1 DEF OnceInv, PlacedOnce
      <4> QED BY <1>4, <4>1, <4>2, <4>3
    <3> QED BY <3>1, <3>2
  <2>3. ASSUME NEW v \in Workers, Placing(v)', v # w, Placing(w)'
        PROVE  worker'[v].order # worker'[w].order
    <3>1. worker'[v] = worker[v] /\ Placing(v)
      BY <1>1, <2>3 DEF Placing
    <3>2. worker[v].order \in sent
      BY <3>1 DEF OnceInv, PlacedOnce
    <3>3. Placing(w) => worker[v].order # worker[w].order
      BY <2>3, <3>1 DEF OnceInv, PlacedOnce
    <3> QED BY <1>1, <2>3, <3>1, <3>2, <3>3 DEF Placing
  <2>4. ASSUME NEW u \in Workers, NEW v \in Workers, Placing(u)', Placing(v)',
               u # v, u # w, v # w
        PROVE  worker'[u].order # worker'[v].order
    <3>1. worker'[u] = worker[u] /\ worker'[v] = worker[v]
      BY <1>1, <2>4
    <3> QED BY <2>4, <3>1 DEF OnceInv, PlacedOnce, Placing
  <2>5. \A u, v \in Workers : Placing(u)' /\ Placing(v)' /\ u # v
                              => worker'[u].order # worker'[v].order
    BY <2>3, <2>4
  <2> QED BY <2>1, <2>2, <2>5 DEF PlacedOnce
<1>6. PassesAwake'
  <2> SUFFICES ASSUME NEW v \in Workers, NEW o \in Orders,
                      Holds(worker'[v].agenda, o)
               PROVE  book'[o].status \notin {"ABSENT", "PENDING_TRIGGER"}
    BY DEF PassesAwake, Holds
  <2>1. CASE v = w
    BY <1>1, <2>1
  <2>2. CASE v # w
    BY <1>1, <2>2 DEF OnceInv, PassesAwake, Asleep
  <2> QED BY <2>1, <2>2
<1>7. Apart'
  <2>1. ASSUME NEW v \in Workers, NEW o \in Orders, v # w,
               Holds(worker[v].agenda, o), Holds(job.agenda, o)
        PROVE  FALSE
    <3>1. ~Asleep(o)
      BY <2>1 DEF OnceInv, PassesAwake, Asleep
    <3> QED BY <2>1, <3>1 DEF OnceInv, Apart
  <2>2. \A u, v \in Workers, o \in Orders :
          u # v => ~(Holds(worker'[u].agenda, o) /\ Holds(worker'[v].agenda, o))
    BY <1>1, <2>1 DEF OnceInv, Apart
  <2> QED BY <2>2 DEF Apart, Holds
<1>8. \A v \in Workers : NoTwice(worker[v].agenda)'
  BY <1>3 DEF NoTwice
<1> QED BY <1>2, <1>5, <1>6, <1>7, <1>8 DEF OnceInv

\* A worker that takes up a job without passes, or returns to the pool.
LEMMA EmptyJobOnce ==
  ASSUME TypeOK, OnceInv, NEW w \in Workers, NEW job \in Job \cup {Idle},
         Becomes(w, job), job.agenda = <<>>, job.op \notin {"insert", "book"},
         sent' = sent, NoneAsleep
  PROVE  OnceInv'
<1>1. \A o \in Orders :
        /\ book'[o].status # "ABSENT" =>
             \/ book[o].status # "ABSENT"
             \/ Placing(w) /\ o = worker[w].order
        /\ book[o].status # "ABSENT" => book'[o].status # "ABSENT"
        /\ book'[o].status = "PENDING_TRIGGER" => Asleep(o)
  BY DEF NoneAsleep
<1> QED BY <1>1, NothingHeld, JobOnce

\* A worker that goes on with passes it had, or takes over.
LEMMA ProceedOnce ==
  ASSUME TypeOK, OnceInv, NEW w \in Workers, worker[w].op # "idle",
         NEW a \in Seq(Item), Proceed(w, a), NoTwice(a),
         \A o \in Orders : Holds(a, o) =>
           /\ Holds(worker[w].agenda, o) \/ Asleep(o)
           /\ book'[o].status \notin {"ABSENT", "PENDING_TRIGGER"},
         sent' = sent,
         \A o \in Orders :
           /\ book'[o].status # "ABSENT" =>
                \/ book[o].status # "ABSENT"
                \/ Placing(w) /\ o = worker[w].order
           /\ book[o].status # "ABSENT" => book'[o].status # "ABSENT"
           /\ book'[o].status = "PENDING_TRIGGER" => Asleep(o)
  PROVE  OnceInv'
<1> DEFINE job == IF a = <<>> THEN Idle
                  ELSE [worker[w] EXCEPT !.op = "run", !.agenda = a]
<1>1. worker[w] \in Job
  BY JobType
<1>2. [worker[w] EXCEPT !.op = "run", !.agenda = a] \in Job
  BY <1>1 DEF Job
<1>3. job \in Job \cup {Idle} /\ Becomes(w, job)
  BY <1>2 DEF Proceed
<1>4. /\ job.agenda = a /\ job.op \in {"run", "idle"}
      /\ job.op # "run" => a = <<>>
  BY <1>1 DEF Job, Idle, At
<1> HIDE DEF job
<1> QED BY <1>3, <1>4, JobOnce

\* Dropping the item in hand adds no pass.
LEMMA TailOnce ==
  ASSUME NEW a \in Seq(Item), a # <<>>, NoTwice(a)
  PROVE  /\ NoTwice(Tail(a))
         /\ \A o : Holds(Tail(a), o) => Holds(a, o)
<1>1. /\ Len(a) \in Nat /\ Tail(a) \in Seq(Item)
      /\ Len(Tail(a)) = Len(a) - 1
      /\ \A i \in 1..Len(Tail(a)) : Tail(a)[i] = a[i + 1]
      /\ DOMAIN a = 1..Len(a) /\ DOMAIN Tail(a) = 1..Len(Tail(a))
  BY HeadTailProperties, LenProperties
<1>2. \A i \in DOMAIN Tail(a) : i + 1 \in DOMAIN a /\ Tail(a)[i] = a[i + 1]
  BY <1>1
<1>3. \A i, j \in DOMAIN Tail(a) : i + 1 = j + 1 => i = j
  BY <1>1
<1> QED BY <1>2, <1>3 DEF NoTwice, Holds

\* Two agendas without a common order, one after the other.
LEMMA ConcatOnce ==
  ASSUME NEW a \in Seq(Item), NEW b \in Seq(Item), NoTwice(a), NoTwice(b),
         \A o \in Orders : ~(Holds(a, o) /\ Holds(b, o))
  PROVE  /\ NoTwice(a \o b)
         /\ \A o : Holds(a \o b, o) => Holds(a, o) \/ Holds(b, o)
<1>1. /\ Len(a) \in Nat /\ Len(b) \in Nat
      /\ DOMAIN a = 1..Len(a) /\ DOMAIN b = 1..Len(b)
      /\ DOMAIN (a \o b) = 1..Len(a) + Len(b)
      /\ \A i \in 1..Len(a) + Len(b) :
           (a \o b)[i] = IF i <= Len(a) THEN a[i] ELSE b[i - Len(a)]
  BY ConcatProperties, LenProperties
<1> DEFINE InA(i) == i \in DOMAIN a /\ (a \o b)[i] = a[i]
           InB(i) == i - Len(a) \in DOMAIN b /\ (a \o b)[i] = b[i - Len(a)]
<1>2. \A i \in DOMAIN (a \o b) : InA(i) \/ InB(i)
  BY <1>1
<1>3. \A i, j \in DOMAIN (a \o b) : i - Len(a) = j - Len(a) => i = j
  BY <1>1
<1>4. \A i \in DOMAIN a : a[i].order \in Orders \cup {NoOrder}
  <2>1. \A i \in DOMAIN a : a[i] \in Item
    BY <1>1
  <2> QED BY <2>1 DEF Item
<1>5. NoTwice(a \o b)
  <2> SUFFICES ASSUME NEW i \in DOMAIN (a \o b), NEW j \in DOMAIN (a \o b),
                      (a \o b)[i].order # NoOrder,
                      (a \o b)[i].order = (a \o b)[j].order
               PROVE  i = j
    BY DEF NoTwice
  <2>1. CASE InA(i) /\ InA(j)
    BY <2>1 DEF NoTwice
  <2>2. CASE InB(i) /\ InB(j)
    BY <1>3, <2>2 DEF NoTwice
  <2>3. CASE InA(i) /\ InB(j)
    BY <1>4, <2>3 DEF Holds
  <2>4. CASE InB(i) /\ InA(j)
    BY <1>4, <2>4 DEF Holds
  <2> QED BY <1>2, <2>1, <2>2, <2>3, <2>4
<1>6. \A o : Holds(a \o b, o) => Holds(a, o) \/ Holds(b, o)
  BY <1>2 DEF Holds
<1> QED BY <1>5, <1>6

\* Placing an order: its passes begin when its row is inserted.
LEMMA PlacementOnce ==
  ASSUME TypeOK, OnceInv, NEW w \in Workers,
         \/ \E o \in Orders : Submit(w, o)
         \/ InsertOrder(w) \/ InsertOrderFails(w)
         \/ InsertBookRow(w) \/ InsertBookRowFails(w)
  PROVE  OnceInv'
<1>1. ASSUME NEW o \in Orders, Submit(w, o) PROVE OnceInv'
  <2> DEFINE job == At("insert", o, NoTerms, NoTerms)
  <2>1. /\ job \in Job \cup {Idle} /\ Becomes(w, job)
        /\ sent' = sent \cup {o} /\ o \notin sent /\ book' = book
    BY <1>1, NewJobType, NoTermsType DEF Submit
  <2>2. job.agenda = <<>> /\ job.op = "insert" /\ job.order = o
    BY DEF At
  <2>3. book[o].status = "ABSENT"
    BY <2>1 DEF OnceInv, PlacedOnce
  <2> HIDE DEF job
  <2> QED BY <2>1, <2>2, <2>3, NothingHeld, JobOnce DEF Asleep
<1>2. ASSUME InsertOrder(w) PROVE OnceInv'
  <2> DEFINE job == [worker[w] EXCEPT !.op = "book"]
  <2>1. worker[w] \in Job /\ worker[w].op = "insert" /\ Becomes(w, job)
        /\ sent' = sent /\ book' = book
    BY <1>2, JobType DEF InsertOrder
  <2>2. job \in Job \cup {Idle} /\ job.op = "book"
        /\ job.order = worker[w].order /\ job.agenda = worker[w].agenda
    BY <2>1 DEF Job
  <2>3. worker[w].agenda = <<>> /\ Placing(w)
        /\ worker[w].order \in sent /\ book[worker[w].order].status = "ABSENT"
    BY <2>1 DEF OnceInv, AgendasRun, PlacedOnce, Placing
  <2> HIDE DEF job
  <2> QED BY <2>1, <2>2, <2>3, NothingHeld, JobOnce DEF Asleep
<1>3. ASSUME InsertOrderFails(w) \/ InsertBookRowFails(w) PROVE OnceInv'
  <2>1. Becomes(w, Idle) /\ sent' = sent /\ book' = book
    BY <1>3 DEF InsertOrderFails, InsertBookRowFails, tables
  <2>2. NoneAsleep
    BY <2>1 DEF NoneAsleep, Asleep
  <2>3. Idle.agenda = <<>> /\ Idle.op = "idle"
    BY DEF Idle, At
  <2> QED BY <2>1, <2>2, <2>3, EmptyJobOnce
<1>4. ASSUME InsertBookRow(w) PROVE OnceInv'
  <2> DEFINE o == worker[w].order
             pass == [order |-> o, price |-> req[o].price, qty |-> req[o].qty]
             a == IF Dormant(o) THEN <<>> ELSE <<pass>>
  <2>1. worker[w] \in Job /\ worker[w].op = "book" /\ Proceed(w, a)
        /\ sent' = sent
    BY <1>4, JobType DEF InsertBookRow
  <2>2. o \in Orders /\ book[o].status = "ABSENT" /\ Placing(w)
    BY <2>1 DEF Job, OnceInv, PlacedOnce, Placing
  <2>3. pass \in Item
    BY <2>2, ReqType DEF Item
  <2>4. a \in Seq(Item)
    BY <2>3
  <2>5. /\ book'[o].status = InitialStatus(o)
        /\ \A x \in Orders : x # o => book'[x] = book[x]
    BY <1>4, <2>2 DEF InsertBookRow, TypeOK
  <2>6. /\ NoTwice(a)
        /\ \A x : Holds(a, x) => x = o /\ ~Dormant(o)
    <3>1. CASE Dormant(o)
      BY <3>1, NothingHeld
    <3>2. CASE ~Dormant(o)
      <4>1. a = <<pass>> /\ pass.order = o
        BY <3>2
      <4>2. DOMAIN <<pass>> = {1} /\ <<pass>>[1] = pass
        OBVIOUS
      <4> HIDE DEF pass, o, a
      <4> QED BY <3>2, <4>1, <4>2 DEF NoTwice, Holds
    <3> QED BY <3>1, <3>2
  <2>7. /\ book'[o].status \in {"PENDING", "PENDING_TRIGGER"}
        /\ ~Dormant(o) => book'[o].status = "PENDING"
    BY <2>5 DEF InitialStatus
  <2>8. worker[w].op # "idle"
    BY <2>1
  <2> HIDE DEF a, o
  <2>9. \A x \in Orders : Holds(a, x) =>
          /\ Holds(worker[w].agenda, x) \/ Asleep(x)
          /\ book'[x].status \notin {"ABSENT", "PENDING_TRIGGER"}
    BY <2>2, <2>6, <2>7 DEF Asleep
  <2>10. \A x \in Orders :
           /\ book'[x].status # "ABSENT" =>
                \/ book[x].status # "ABSENT"
                \/ Placing(w) /\ x = worker[w].order
           /\ book[x].status # "ABSENT" => book'[x].status # "ABSENT"
           /\ book'[x].status = "PENDING_TRIGGER" => Asleep(x)
    BY <2>2, <2>5 DEF Asleep, o
  <2> QED BY <2>1, <2>4, <2>6, <2>8, <2>9, <2>10, ProceedOnce
<1> QED BY <1>1, <1>2, <1>3, <1>4

\* The agenda in hand, and what is left of it.
LEMMA AgendaOnce ==
  ASSUME TypeOK, OnceInv, NEW w \in Workers, worker[w].op = "run",
         worker[w].agenda # <<>>
  PROVE  /\ Tail(worker[w].agenda) \in Seq(Item)
         /\ NoTwice(Tail(worker[w].agenda))
         /\ \A o : Holds(Tail(worker[w].agenda), o)
                     => Holds(worker[w].agenda, o)
         /\ \A o \in Orders : Holds(worker[w].agenda, o) => ~Asleep(o)
<1>1. worker[w].agenda \in Seq(Item)
  BY JobType DEF Job
<1> QED BY <1>1, AgendaType, TailOnce DEF OnceInv, PassesAwake, Asleep

\* A pass that trades gives way to price checks, which are no passes.
LEMMA MatchOnce ==
  ASSUME TypeOK, OnceInv, NEW w \in Workers, Match(w)
  PROVE  OnceInv'
<1> DEFINE t == Current(w)
           d == Deal(t)
           traded == {x \in Orders : d.qty[x] > 0}
           rest == Tail(worker[w].agenda)
<1>1. /\ worker[w].op = "run" /\ worker[w].agenda # <<>>
      /\ t.order # NoOrder /\ sent' = sent
  BY DEF Match, Matching
<1>2. t \in Item /\ t.order \in Orders
  BY <1>1, AgendaType DEF Item
<1>3. /\ rest \in Seq(Item) /\ NoTwice(rest)
      /\ \A o : Holds(rest, o) => Holds(worker[w].agenda, o)
      /\ \A o \in Orders : Holds(worker[w].agenda, o) => ~Asleep(o)
  BY <1>1, AgendaOnce
<1>4. ~Asleep(t.order)
  <2>1. worker[w].agenda \in Seq(Item)
    BY <1>1, JobType DEF Job
  <2>2. 1 \in DOMAIN worker[w].agenda /\ worker[w].agenda[1] = t
    BY <1>1, <2>1, HeadTailProperties, LenProperties, EmptySeq DEF Current
  <2>3. Holds(worker[w].agenda, t.order)
    BY <2>2 DEF Holds
  <2> QED BY <1>2, <1>3, <2>3
<1>5. ASSUME NEW x \in Orders
      PROVE  /\ book'[x].status = "ABSENT" <=> book[x].status = "ABSENT"
             /\ book'[x].status = "PENDING_TRIGGER" => Asleep(x)
  <2>1. CASE x \in traded
    <3>1. ~Asleep(x)
      <4>1. CASE x = t.order
        BY <1>4, <4>1
      <4>2. CASE x \in Candidates(t.order)
        BY <4>2 DEF Candidates, Resting, Asleep
      <4>3. CASE x # t.order /\ x \notin Candidates(t.order)
        <5>1. d.qty[x] = 0
          BY <4>3 DEF Deal, Rows
        <5> QED BY <2>1, <5>1
      <4> QED BY <4>1, <4>2, <4>3
    <3>2. book'[x] = [book[x] EXCEPT !.rem = RemAfter(t, d, x),
                                     !.status = FilledStatus(RemAfter(t, d, x))]
      BY <2>1 DEF Match
    <3>3. book[x] \in BookRow
      BY DEF TypeOK
    <3>4. FilledStatus(RemAfter(t, d, x)) \in {"PARTIALLY_EXECUTED", "EXECUTED"}
      BY DEF FilledStatus
    <3> HIDE DEF t, d
    <3> QED BY <3>1, <3>2, <3>3, <3>4 DEF BookRow, Asleep
  <2>2. CASE x \notin traded
    <3>1. book'[x] = book[x]
      BY <2>2 DEF Match
    <3> QED BY <3>1 DEF Asleep
  <2> QED BY <2>1, <2>2
<1>6. PICK checks \in Checks(Side(t.order), traded \ {t.order}) :
        Proceed(w, checks \o rest)
  BY DEF Match
<1>7. PICK q \in SetToSeqs(traded \ {t.order}) :
        checks = [i \in DOMAIN q |-> [order |-> NoOrder,
                                      price |-> book[q[i]].price, qty |-> 0]]
  BY <1>6 DEF Checks
<1>8. \A i \in DOMAIN q : q[i] \in Orders
  BY <1>7 DEF SetToSeqs
<1>9. \A i \in DOMAIN q : checks[i] \in Item /\ checks[i].order = NoOrder
  BY <1>7, <1>8 DEF Item, TypeOK, BookRow
<1>10. checks \in Seq(Item) /\ DOMAIN checks = DOMAIN q
  BY <1>7, <1>9, ItemsType
<1>11. NoTwice(checks) /\ \A o \in Orders : ~Holds(checks, o)
  BY <1>9, <1>10 DEF NoTwice, Holds
<1> HIDE DEF rest, t, d, traded
<1>12. /\ checks \o rest \in Seq(Item) /\ NoTwice(checks \o rest)
       /\ \A o : Holds(checks \o rest, o) => Holds(checks, o) \/ Holds(rest, o)
  BY <1>3, <1>10, <1>11, ConcatOnce, ConcatProperties
<1>13. \A o \in Orders : Holds(checks \o rest, o) =>
         /\ Holds(worker[w].agenda, o) \/ Asleep(o)
         /\ book'[o].status \notin {"ABSENT", "PENDING_TRIGGER"}
  BY <1>3, <1>5, <1>11, <1>12 DEF Asleep
<1>14. worker[w].op # "idle"
  BY <1>1
<1> QED BY <1>1, <1>5, <1>6, <1>12, <1>13, <1>14, ProceedOnce

\* A pass without trades and a failed check drop one item.
LEMMA QuietRunOnce ==
  ASSUME TypeOK, OnceInv, NEW w \in Workers,
         \/ MatchNothing(w) \/ MatchFails(w) \/ MatchAborts(w)
         \/ TriggerFails(w)
  PROVE  OnceInv'
<1> DEFINE rest == Tail(worker[w].agenda)
<1>1. /\ worker[w].op = "run" /\ worker[w].op # "idle"
      /\ worker[w].agenda # <<>> /\ Proceed(w, rest)
      /\ sent' = sent /\ book' = book
  BY DEF MatchNothing, MatchFails, MatchAborts, TriggerFails, Matching,
         Checking, tables
<1>2. /\ rest \in Seq(Item) /\ NoTwice(rest)
      /\ \A o : Holds(rest, o) => Holds(worker[w].agenda, o)
      /\ \A o \in Orders : Holds(worker[w].agenda, o) => ~Asleep(o)
  BY <1>1, AgendaOnce
<1> HIDE DEF rest
<1>3. \A o \in Orders : Holds(rest, o) =>
        /\ Holds(worker[w].agenda, o) \/ Asleep(o)
        /\ book'[o].status \notin {"ABSENT", "PENDING_TRIGGER"}
  BY <1>1, <1>2 DEF Asleep
<1>4. \A o \in Orders : book'[o].status = "PENDING_TRIGGER" => Asleep(o)
  BY <1>1 DEF Asleep
<1> QED BY <1>1, <1>2, <1>3, <1>4, ProceedOnce

\* A price check wakes dormant orders up, each once, and gets a pass for every
\* one of them.
LEMMA TriggerOnce ==
  ASSUME TypeOK, OnceInv, NEW w \in Workers, Trigger(w)
  PROVE  OnceInv'
<1> DEFINE ltp == Current(w).price
           hit == {o \in Orders : book[o].status = "PENDING_TRIGGER"
                                  /\ TriggerMet(o, ltp)}
           rest == Tail(worker[w].agenda)
<1>1. /\ worker[w].op = "run" /\ worker[w].agenda # <<>> /\ sent' = sent
  BY DEF Trigger, Checking
<1>2. /\ rest \in Seq(Item) /\ NoTwice(rest)
      /\ \A o : Holds(rest, o) => Holds(worker[w].agenda, o)
      /\ \A o \in Orders : Holds(worker[w].agenda, o) => ~Asleep(o)
  BY <1>1, AgendaOnce
<1>3. ltp \in Nat
  BY <1>1, AgendaType DEF Item
<1>4. ASSUME NEW x \in Orders
      PROVE  /\ book'[x].status = "ABSENT" <=> book[x].status = "ABSENT"
             /\ book'[x].status = "PENDING_TRIGGER" => Asleep(x)
             /\ x \in hit => Asleep(x) /\ book'[x].status = "PENDING"
  <2>1. CASE x \in hit
    <3>1. book'[x] = AfterTrigger(x, ltp) /\ book[x].status = "PENDING_TRIGGER"
      BY <2>1 DEF Trigger
    <3>2. AfterTrigger(x, ltp).status = "PENDING"
      <4>1. book[x] \in BookRow
        BY DEF TypeOK
      <4> QED BY <4>1 DEF AfterTrigger, BookRow
    <3> QED BY <3>1, <3>2 DEF Asleep
  <2>2. CASE x \notin hit
    <3>1. book'[x] = book[x]
      BY <2>2 DEF Trigger
    <3> HIDE DEF hit
    <3> QED BY <2>2, <3>1 DEF Asleep
  <2> QED BY <2>1, <2>2
<1>5. PICK q \in SetToSeqs(hit) :
        Proceed(w, [i \in DOMAIN q |->
                      [order |-> q[i], price |-> EffectivePrice(q[i], ltp),
                       qty   |-> book[q[i]].rem]]
                   \o rest)
  BY DEF Trigger
<1> DEFINE passes == [i \in DOMAIN q |->
                        [order |-> q[i], price |-> EffectivePrice(q[i], ltp),
                         qty   |-> book[q[i]].rem]]
<1>6. /\ \A i \in DOMAIN q : q[i] \in hit
      /\ \A i, j \in DOMAIN q : q[i] = q[j] => i = j
  BY <1>5 DEF SetToSeqs
<1>7. \A i \in DOMAIN q : /\ book[q[i]].rem \in Int
                          /\ EffectivePrice(q[i], ltp) \in Nat
  BY <1>3, <1>6 DEF TypeOK, BookRow, EffectivePrice
<1>8. \A i \in DOMAIN q : passes[i] \in Item /\ passes[i].order = q[i]
  BY <1>6, <1>7 DEF Item
<1>9. passes \in Seq(Item) /\ DOMAIN passes = DOMAIN q
  <2> HIDE DEF ltp
  <2> QED BY <1>8, ItemsType
<1> HIDE DEF passes, ltp, rest
<1>10. /\ NoTwice(passes)
       /\ \A o : Holds(passes, o) => o \in hit
  BY <1>6, <1>8, <1>9 DEF NoTwice, Holds
<1> HIDE DEF hit
<1>11. \A o \in Orders : ~(Holds(passes, o) /\ Holds(rest, o))
  BY <1>2, <1>4, <1>10
<1>12. /\ passes \o rest \in Seq(Item) /\ NoTwice(passes \o rest)
       /\ \A o : Holds(passes \o rest, o) => Holds(passes, o) \/ Holds(rest, o)
  BY <1>2, <1>9, <1>10, <1>11, ConcatOnce, ConcatProperties
<1>13. \A o \in Orders : Holds(passes \o rest, o) =>
         /\ Holds(worker[w].agenda, o) \/ Asleep(o)
         /\ book'[o].status \notin {"ABSENT", "PENDING_TRIGGER"}
  <2> SUFFICES ASSUME NEW o \in Orders, Holds(passes \o rest, o)
               PROVE  /\ Holds(worker[w].agenda, o) \/ Asleep(o)
                      /\ book'[o].status \notin {"ABSENT", "PENDING_TRIGGER"}
    OBVIOUS
  <2>1. CASE Holds(passes, o)
    BY <1>4, <1>10, <2>1
  <2>2. CASE Holds(rest, o)
    BY <1>2, <1>4, <2>2 DEF Asleep
  <2> QED BY <1>12, <2>1, <2>2
<1>14. worker[w].op # "idle" /\ Proceed(w, passes \o rest)
  BY <1>1, <1>5 DEF passes
<1> QED BY <1>1, <1>4, <1>12, <1>13, <1>14, ProceedOnce

\* Cancels, refunds and amendments queue no passes and wake nobody up.
LEMMA OthersOnce ==
  ASSUME TypeOK, OnceInv, NEW w \in Workers,
         \/ \E o \in Orders : Cancel(w, o) \/ AmendRead(w, o)
         \/ Refund(w) \/ Charge(w) \/ ChargeRefused(w) \/ Amend(w)
         \/ AmendLost(w) \/ Undo(w) \/ Crash(w)
  PROVE  OnceInv'
<1>1. sent' = sent
  BY DEF Cancel, AmendRead, Refund, Charge, ChargeRefused, Amend, AmendLost,
         Undo, Crash
<1>2. NoneAsleep
  <2>1. \A x \in Orders : book[x] \in BookRow
    BY DEF TypeOK
  <2>2. ASSUME NEW o \in Orders, Cancel(w, o) PROVE NoneAsleep
    <3>1. /\ book'[o] = AfterCancel(o)
          /\ \A x \in Orders : x # o => book'[x] = book[x]
      BY <2>2 DEF Cancel, TypeOK
    <3>2. /\ AfterCancel(o).status = "ABSENT" <=> book[o].status = "ABSENT"
          /\ AfterCancel(o).status # "PENDING_TRIGGER"
      BY <2>1 DEF AfterCancel, BookRow
    <3> QED BY <3>1, <3>2 DEF NoneAsleep, Asleep
  <2>3. CASE Amend(w)
    <3> DEFINE o == worker[w].order
    <3>1. /\ book' = [book EXCEPT ![o] = AfterAmend(o, worker[w].want)]
      BY <2>3 DEF Amend
    <3>2. o \in Orders
      BY <2>3, JobType DEF Amend, Job
    <3>3. AfterAmend(o, worker[w].want).status = book[o].status
      BY <2>1, <3>2 DEF AfterAmend, BookRow
    <3>4. \A x \in Orders : book'[x].status = book[x].status
      BY <3>1, <3>2, <3>3 DEF TypeOK
    <3> QED BY <3>4 DEF NoneAsleep, Asleep
  <2>4. CASE book' = book
    BY <2>4 DEF NoneAsleep, Asleep
  <2> QED BY <2>2, <2>3, <2>4
          DEF AmendRead, Refund, Charge, ChargeRefused, AmendLost, Undo, Crash,
              tables
<1>3. Idle.agenda = <<>> /\ Idle.op = "idle"
  BY DEF Idle, At
<1>4. CASE Becomes(w, Idle)
  BY <1>1, <1>2, <1>3, <1>4, EmptyJobOnce
<1>5. ASSUME NEW o \in Orders, NEW op \in {"refund", "charge", "amend"},
             NEW seen \in Terms, NEW want \in Terms,
             Becomes(w, At(op, o, seen, want))
      PROVE  OnceInv'
  <2>1. At(op, o, seen, want) \in Job
    BY NewJobType
  <2>2. At(op, o, seen, want).agenda = <<>> /\ At(op, o, seen, want).op = op
    BY DEF At
  <2> QED BY <1>1, <1>2, <1>5, <2>1, <2>2, EmptyJobOnce
<1>6. ASSUME NEW o \in Orders, Cancel(w, o) PROVE OnceInv'
  <2>1. Becomes(w, IF IsBuy(o) THEN At("refund", o, ReadTerms(o), NoTerms)
                   ELSE Idle)
    BY <1>6 DEF Cancel
  <2> QED BY <1>4, <1>5, <2>1, TermsType, NoTermsType
<1>7. ASSUME NEW o \in Orders, AmendRead(w, o) PROVE OnceInv'
  <2>1. PICK a \in Amendments :
          Becomes(w, At(IF IsBuy(o) THEN "charge" ELSE "amend", o,
                        ReadTerms(o), a))
    BY <1>7 DEF AmendRead
  <2>2. a \in Terms
    OBVIOUS
  <2> QED BY <1>5, <2>1, <2>2, TermsType
<1>8. CASE Charge(w)
  <2> DEFINE job == [worker[w] EXCEPT !.op = "amend", !.delta = Delta(worker[w])]
  <2>1. worker[w] \in Job /\ worker[w].op = "charge" /\ Becomes(w, job)
    BY <1>8, JobType DEF Charge
  <2>2. worker[w].agenda = <<>> /\ Delta(worker[w]) \in Int
    BY <2>1, DeltaType DEF OnceInv, AgendasRun
  <2>3. job \in Job /\ job.agenda = <<>> /\ job.op = "amend"
    BY <2>1, <2>2 DEF Job
  <2> HIDE DEF job
  <2> QED BY <1>1, <1>2, <2>1, <2>3, EmptyJobOnce
<1>9. CASE AmendLost(w)
  <2> DEFINE job == [worker[w] EXCEPT !.op = "undo"]
  <2>1. worker[w] \in Job /\ worker[w].op = "amend"
        /\ (Becomes(w, job) \/ Becomes(w, Idle))
    BY <1>9, JobType DEF AmendLost
  <2>2. worker[w].agenda = <<>>
    BY <2>1 DEF OnceInv, AgendasRun
  <2>3. job \in Job /\ job.agenda = <<>> /\ job.op = "undo"
    BY <2>1, <2>2 DEF Job
  <2> HIDE DEF job
  <2> QED BY <1>1, <1>2, <1>4, <2>1, <2>3, EmptyJobOnce
<1> QED BY <1>4, <1>6, <1>7, <1>8, <1>9
        DEF Refund, ChargeRefused, Amend, Undo, Crash

\* Nobody has passes to begin with.
LEMMA InitOnce == Init => OnceInv
<1> SUFFICES ASSUME Init PROVE OnceInv
  OBVIOUS
<1>1. \A w \in Workers : worker[w].agenda = <<>> /\ worker[w].op = "idle"
  BY DEF Init, Idle, At
<1>2. \A o \in Orders : book[o].status = "ABSENT"
  BY DEF Init
<1> QED BY <1>1, <1>2, NothingHeld
        DEF OnceInv, AgendasRun, PlacedOnce, Placing, PassesAwake, Apart

\* Every state of the program satisfies the invariant.
LEMMA OnceInvariant == Spec => []OnceInv
<1>1. TypeOK /\ OnceInv /\ [Next]_vars => OnceInv'
  <2> SUFFICES ASSUME TypeOK, OnceInv, [Next]_vars PROVE OnceInv'
    OBVIOUS
  <2>1. CASE UNCHANGED vars
    BY <2>1 DEF vars, OnceInv, AgendasRun, PlacedOnce, Placing, PassesAwake,
                Apart, NoTwice, Holds
  <2>2. ASSUME NEW w \in Workers, Step(w) PROVE OnceInv'
    BY <2>2, PlacementOnce, MatchOnce, QuietRunOnce, TriggerOnce, OthersOnce
       DEF Step
  <2>3. ASSUME NEW w \in Workers, Crash(w) PROVE OnceInv'
    BY <2>3, OthersOnce
  <2>4. ASSUME NEW w \in Workers, NEW o \in Orders, Request(w, o)
        PROVE  OnceInv'
    BY <2>4, PlacementOnce, OthersOnce DEF Request
  <2> QED BY <2>1, <2>2, <2>3, <2>4 DEF Next
<1> QED BY <1>1, InitOnce, TypeCorrect, PTL DEF Spec

\* However price signals, passes, crashes and requests interleave, an order is
\* in one matching pass at a time: the rows a check finds dormant it takes over
\* alone, and the handler of a POST leaves a dormant order to the checks.
THEOREM OrdersMatchOnce == Spec => []MatchedOnce
<1>1. TypeOK /\ OnceInv => MatchedOnce
  <2> SUFFICES ASSUME TypeOK, OnceInv, NEW v \in Workers, NEW w \in Workers,
                      NEW i \in DOMAIN worker[v].agenda,
                      NEW j \in DOMAIN worker[w].agenda,
                      worker[v].agenda[i].order # NoOrder,
                      worker[v].agenda[i].order = worker[w].agenda[j].order
               PROVE  v = w /\ i = j
    BY DEF MatchedOnce
  <2> DEFINE o == worker[v].agenda[i].order
  <2>1. o \in Orders
    <3>1. worker[v].agenda \in Seq(Item)
      <4>1. CASE worker[v].op = "idle"
        BY <4>1 DEF TypeOK, Idle, At, Job
      <4>2. CASE worker[v].op # "idle"
        BY <4>2, JobType DEF Job
      <4> QED BY <4>1, <4>2
    <3>2. worker[v].agenda[i] \in Item
      BY <3>1
    <3> QED BY <3>2 DEF Item
  <2>2. Holds(worker[v].agenda, o) /\ Holds(worker[w].agenda, o)
    BY DEF Holds
  <2>3. v = w
    BY <2>1, <2>2 DEF OnceInv, Apart
  <2> QED BY <2>3 DEF OnceInv, NoTwice
<1> QED BY <1>1, OnceInvariant, TypeCorrect, PTL

-----------------------------------------------------------------------------
(* Price first and then time.                                              *)

\* Rows as the matching pass reads them.
Shelf(rows) ==
  /\ IsFiniteSet(DOMAIN rows)
  /\ \A c \in DOMAIN rows : rows[c].price \in Nat /\ rows[c].at \in Nat
                            /\ rows[c].rem \in Nat

\* The crossing rows that are served before row c.
Ahead(c, side, price, rows) ==
  {d \in Crossing(side, price, rows) : ServedBefore(side, rows[d], rows[c])}

\* A row that is served before one that crosses, crosses, is not served before
\* itself, and has nothing before it that the other has not.
LEMMA BetterRow ==
  ASSUME NEW side \in {"BUY", "SELL"}, NEW price \in Nat, NEW rows, Shelf(rows),
         NEW c \in Crossing(side, price, rows), NEW d \in DOMAIN rows,
         rows[d].price # 0, ServedBefore(side, rows[d], rows[c])
  PROVE  /\ d \in Crossing(side, price, rows)
         /\ d \notin Ahead(d, side, price, rows)
         /\ Ahead(d, side, price, rows) \cup {d} \subseteq
              Ahead(c, side, price, rows)
<1>1. /\ \A e \in DOMAIN rows : rows[e].price \in Nat /\ rows[e].at \in Nat
      /\ c \in DOMAIN rows /\ Crosses(side, price, rows[c].price)
  BY DEF Shelf, Crossing
<1>2. Crosses(side, price, rows[d].price)
  BY <1>1 DEF Crosses, ServedBefore
<1>3. d \in Crossing(side, price, rows)
  BY <1>2 DEF Crossing
<1>4. ~ServedBefore(side, rows[d], rows[d])
  BY <1>1 DEF ServedBefore
<1>5. \A e \in DOMAIN rows : ServedBefore(side, rows[e], rows[d])
                             => ServedBefore(side, rows[e], rows[c])
  BY <1>1 DEF ServedBefore
<1>6. Crossing(side, price, rows) \subseteq DOMAIN rows
  BY DEF Crossing
<1> QED BY <1>3, <1>4, <1>5, <1>6 DEF Ahead

\* When a row gets something, every better one is used up.
LEMMA BetterUsedUp ==
  ASSUME NEW side \in {"BUY", "SELL"}, NEW price \in Nat, NEW qty \in Int,
         NEW rows, Shelf(rows),
         NEW c \in DOMAIN rows, Allocation(side, price, qty, rows)[c] > 0,
         NEW d \in DOMAIN rows, rows[d].price # 0,
         ServedBefore(side, rows[d], rows[c])
  PROVE  Allocation(side, price, qty, rows)[d] = rows[d].rem
<1> DEFINE fill == Allocation(side, price, qty, rows)
           rem == Remaining(rows)
           A(x) == Ahead(x, side, price, rows)
           X == Crossing(side, price, rows)
           Taken(x) == SumFunctionOnSet(rem, A(x))
<1>1. /\ \A x \in DOMAIN rows : rem[x] = rows[x].rem /\ rows[x].rem \in Nat
      /\ IsFiniteSet(X) /\ X \subseteq DOMAIN rows
  BY FS_Subset DEF Remaining, Shelf, Crossing
<1>2. \A x : TakenBefore(x, side, price, rows) = Taken(x)
  BY DEF TakenBefore, Ahead
<1>3. \A x \in DOMAIN rows :
        fill[x] = IF x \in X
                  THEN IF qty - Taken(x) <= 0 THEN 0
                       ELSE IF rows[x].rem < qty - Taken(x) THEN rows[x].rem
                            ELSE qty - Taken(x)
                  ELSE 0
  BY <1>2 DEF Allocation
<1>4. c \in X
  BY <1>3
<1>5. d \in X /\ d \notin A(d) /\ A(d) \cup {d} \subseteq A(c)
  BY <1>4, BetterRow
<1>6. A(c) \subseteq X /\ IsFiniteSet(A(c)) /\ IsFiniteSet(A(d))
  BY <1>1, FS_Subset DEF Ahead
<1>7. \A x \in A(c) : rem[x] \in Nat
  BY <1>1, <1>6
<1>8. SumFunctionOnSet(rem, A(d) \cup {d}) = Taken(d) + rem[d]
  <2>1. \A x \in A(d) : rem[x] \in Int
    BY <1>5, <1>7
  <2>2. rem[d] \in Int
    BY <1>1
  <2> HIDE DEF rem, A
  <2> QED BY <1>5, <1>6, <2>1, <2>2, SumAdds
<1>9. /\ SumFunctionOnSet(rem, A(d) \cup {d}) <= Taken(c)
      /\ Taken(c) \in Nat
  <2> HIDE DEF rem, A
  <2> QED BY <1>5, <1>6, <1>7, SumOfPart
<1>10. Taken(d) \in Nat
  <2> HIDE DEF rem, A
  <2>1. A(d) \subseteq A(c)
    BY <1>5
  <2> QED BY <1>6, <1>7, <2>1, SumOfPart
<1>11. qty - Taken(c) > 0
  <2>1. fill[c] = IF qty - Taken(c) <= 0 THEN 0
                  ELSE IF rows[c].rem < qty - Taken(c) THEN rows[c].rem
                       ELSE qty - Taken(c)
    BY <1>3, <1>4
  <2>2. fill[c] > 0
    OBVIOUS
  <2> HIDE DEF fill, Taken
  <2> QED BY <1>9, <2>1, <2>2
<1>12. rem[d] = rows[d].rem /\ rows[d].rem \in Nat
  BY <1>1
<1>13. fill[d] = IF qty - Taken(d) <= 0 THEN 0
                 ELSE IF rows[d].rem < qty - Taken(d) THEN rows[d].rem
                      ELSE qty - Taken(d)
  BY <1>3, <1>5
<1> SUFFICES fill[d] = rows[d].rem
  OBVIOUS
<1> HIDE DEF fill, Taken, rem
<1> QED BY <1>8, <1>9, <1>10, <1>11, <1>12, <1>13

\* Whoever changes what has been traded is in a pass, and nobody else moves.
LEMMA WhoTrades ==
  ASSUME TypeOK, [Next]_vars, history' # history, NEW w \in Workers,
         worker'[w] # worker[w]
  PROVE  Match(w)
<1>1. ASSUME NEW v \in Workers,
             \/ InsertOrder(v) \/ InsertOrderFails(v)
             \/ InsertBookRow(v) \/ InsertBookRowFails(v)
             \/ MatchNothing(v) \/ MatchFails(v) \/ MatchAborts(v)
             \/ Trigger(v) \/ TriggerFails(v) \/ Refund(v)
      PROVE  UNCHANGED history
  BY <1>1 DEF InsertOrder, InsertOrderFails, InsertBookRow,
              InsertBookRowFails, MatchNothing, MatchFails, MatchAborts,
              Trigger, TriggerFails, Refund, tables
<1>2. ASSUME NEW v \in Workers,
             \/ Charge(v) \/ ChargeRefused(v) \/ Amend(v) \/ AmendLost(v)
             \/ Undo(v) \/ Crash(v)
             \/ \E o \in Orders :
                  Submit(v, o) \/ Cancel(v, o) \/ AmendRead(v, o)
      PROVE  UNCHANGED history
  BY <1>2 DEF Charge, ChargeRefused, Amend, AmendLost, Undo, Crash, Submit,
              Cancel, AmendRead, tables
<1>3. CASE UNCHANGED vars
  BY <1>3 DEF vars
<1>4. CASE Next
  <2>1. PICK v \in Workers : Match(v)
    BY <1>1, <1>2, <1>4 DEF Next, Step, Request
  <2>2. PICK job : worker' = [worker EXCEPT ![v] = job]
    BY <2>1 DEF Match, Proceed, Becomes
  <2>3. v = w
    BY <2>2 DEF TypeOK
  <2> QED BY <2>1, <2>3
<1> QED BY <1>3, <1>4

\* Two candidates of a pass, of which the worse one trades.
LEMMA MatchPriority ==
  ASSUME TypeOK, NEW w \in Workers, Match(w),
         NEW o \in Orders, Current(w).order = o,
         NEW c \in Candidates(o), NEW d \in Candidates(o),
         history'[c].qty > history[c].qty, book[d].price # 0,
         ServedBefore(Side(o), book[d], book[c])
  PROVE  book'[d].rem = 0
<1> DEFINE t == Current(w)
           deal == Deal(t)
           rows == Rows(o)
           fill == Allocation(Side(o), t.price, t.qty, rows)
<1>1. t \in Item /\ t.price \in Nat /\ t.qty \in Int
  BY AgendaType DEF Match, Matching, Item
<1>2. /\ Candidates(o) \subseteq Orders /\ c # o /\ d # o
      /\ \A x \in Candidates(o) : book[x].rem > 0
  BY DEF Candidates
<1>3. DOMAIN rows = Candidates(o) /\ \A x \in Candidates(o) : rows[x] = book[x]
  BY DEF Rows
<1>4. \A x \in Orders : book[x] \in BookRow
  BY DEF TypeOK
<1>5. Shelf(rows)
  <2>1. IsFiniteSet(DOMAIN rows)
    BY <1>2, <1>3, FS_Subset
  <2>2. \A x \in Candidates(o) :
          book[x].price \in Nat /\ book[x].at \in Nat /\ book[x].rem \in Nat
    BY <1>2, <1>4 DEF BookRow
  <2> QED BY <1>3, <2>1, <2>2 DEF Shelf
<1>6. deal.qty[c] = fill[c] /\ deal.qty[d] = fill[d]
  BY <1>2, <1>3 DEF Deal
<1>7. /\ deal.qty \in [Orders -> Nat]
      /\ history'[c].qty = history[c].qty + deal.qty[c]
  BY <1>2 DEF Match, Settles
<1>8. history[c].qty \in Nat /\ deal.qty[c] \in Nat
  BY <1>2, <1>7 DEF TypeOK
<1>9. fill[c] > 0
  <2> HIDE DEF deal, fill
  <2> QED BY <1>6, <1>7, <1>8
<1>10. Side(o) \in {"BUY", "SELL"}
  BY ReqType DEF Side, RequestType
<1>11. fill[d] = book[d].rem
  <2> HIDE DEF rows
  <2> QED BY <1>1, <1>3, <1>5, <1>9, <1>10, BetterUsedUp
<1>12. book[d].rem \in Int /\ book[d].rem > 0 /\ book[d] \in BookRow
  BY <1>2, <1>4 DEF BookRow
<1>13. deal.qty[d] = book[d].rem
  BY <1>6, <1>11
<1>14. book'[d] = [book[d] EXCEPT !.rem = RemAfter(t, deal, d),
                                  !.status = FilledStatus(RemAfter(t, deal, d))]
  <2>1. deal.qty[d] > 0
    BY <1>12, <1>13
  <2>2. book' = [x \in Orders |->
          IF x \in {y \in Orders : deal.qty[y] > 0}
          THEN [book[x] EXCEPT !.rem = RemAfter(t, deal, x),
                               !.status = FilledStatus(RemAfter(t, deal, x))]
          ELSE book[x]]
    BY DEF Match
  <2> HIDE DEF deal, t
  <2> QED BY <1>2, <2>1, <2>2
<1>15. RemAfter(t, deal, d) = 0
  <2>1. RemAfter(t, deal, d) = book[d].rem - deal.qty[d]
    BY <1>2 DEF RemAfter
  <2> HIDE DEF deal, t
  <2> QED BY <1>12, <1>13, <2>1
<1> HIDE DEF deal, t
<1> QED BY <1>12, <1>14, <1>15 DEF BookRow

\* No schedule makes a pass serve a worse row while a better one is left.
THEOREM PriorityIsKept == Spec => PriceTimePriority
<1>1. ASSUME TypeOK, [Next]_vars,
             NEW o \in Orders, NEW c \in Orders, NEW d \in Orders,
             /\ history'[o].qty > history[o].qty
             /\ history'[c].qty > history[c].qty
             /\ {c, d} \subseteq Candidates(o)
             /\ \E w \in Workers : Matching(w) /\ Current(w).order = o
                                   /\ worker'[w] # worker[w]
             /\ book[d].price # 0 /\ ServedBefore(Side(o), book[d], book[c])
      PROVE  book'[d].rem = 0
  <2>1. PICK w \in Workers : Current(w).order = o /\ worker'[w] # worker[w]
    BY <1>1
  <2>2. history[c].qty \in Nat
    BY <1>1 DEF TypeOK
  <2>3. history' # history
    BY <1>1, <2>2
  <2>4. Match(w)
    BY <1>1, <2>1, <2>3, WhoTrades
  <2> QED BY <1>1, <2>1, <2>4, MatchPriority
<1>2. TypeOK /\ [Next]_vars =>
        [\A o, c, d \in Orders :
           /\ history'[o].qty > history[o].qty
           /\ history'[c].qty > history[c].qty
           /\ {c, d} \subseteq Candidates(o)
           /\ \E w \in Workers : Matching(w) /\ Current(w).order = o
                                 /\ worker'[w] # worker[w]
           /\ book[d].price # 0 /\ ServedBefore(Side(o), book[d], book[c])
           => book'[d].rem = 0]_vars
  BY <1>1
<1> QED BY <1>2, TypeCorrect, PTL DEF Spec, PriceTimePriority

-----------------------------------------------------------------------------
(* How much a pass trades.                                                 *)

\* Rows that were created one after the other.
Queued(rows) ==
  \A c, d \in DOMAIN rows : c # d => rows[c].at # rows[d].at

\* What is there, up to what is asked for.
Least(m, n) == IF m < n THEN m ELSE n

\* ServedBefore orders such rows, one before the other, in one way only.
LEMMA ServedInOrder ==
  ASSUME NEW side \in {"BUY", "SELL"}, NEW rows, Shelf(rows), Queued(rows)
  PROVE  /\ \A c, d \in DOMAIN rows : c # d =>
              \/ ServedBefore(side, rows[c], rows[d])
              \/ ServedBefore(side, rows[d], rows[c])
         /\ \A c, d \in DOMAIN rows :
              ~(/\ ServedBefore(side, rows[c], rows[d])
                /\ ServedBefore(side, rows[d], rows[c]))
         /\ \A b, c, d \in DOMAIN rows :
              /\ ServedBefore(side, rows[b], rows[c])
              /\ ServedBefore(side, rows[c], rows[d])
              => ServedBefore(side, rows[b], rows[d])
BY DEF Shelf, Queued, ServedBefore

\* Of several such rows one is served last.
LEMMA LastServed ==
  ASSUME NEW side \in {"BUY", "SELL"}, NEW rows, Shelf(rows), Queued(rows),
         NEW S \in SUBSET DOMAIN rows, S # {}
  PROVE  \E x \in S : \A y \in S \ {x} : ServedBefore(side, rows[y], rows[x])
<1> DEFINE IsLast(T, x) ==
             x \in T /\ \A y \in T \ {x} : ServedBefore(side, rows[y], rows[x])
           P == {T \in SUBSET S : T = {} \/ \E x \in T : IsLast(T, x)}
<1>1. IsFiniteSet(S)
  BY FS_Subset DEF Shelf
<1>2. {} \in P
  OBVIOUS
<1>3. ASSUME NEW T \in P, NEW x \in S \ T
      PROVE  T \cup {x} \in P
  <2>1. CASE T = {}
    <3>1. IsLast(T \cup {x}, x)
      BY <2>1
    <3> QED BY <3>1
  <2>2. CASE T # {}
    <3>1. PICK l \in T : IsLast(T, l)
      BY <2>2
    <3>2. /\ l \in DOMAIN rows /\ x \in DOMAIN rows /\ l # x
          /\ T \subseteq DOMAIN rows
      BY <3>1
    <3>3. CASE ServedBefore(side, rows[x], rows[l])
      <4>1. IsLast(T \cup {x}, l)
        BY <3>1, <3>3
      <4> QED BY <4>1
    <3>4. CASE ServedBefore(side, rows[l], rows[x])
      <4>1. \A y \in T : ServedBefore(side, rows[y], rows[x])
        BY <3>1, <3>2, <3>4, ServedInOrder
      <4>2. IsLast(T \cup {x}, x)
        BY <4>1
      <4> QED BY <4>2
    <3> QED BY <3>2, <3>3, <3>4, ServedInOrder
  <2> QED BY <2>1, <2>2
<1>4. P \in SUBSET (SUBSET S)
  OBVIOUS
<1>5. S \in P
  <2> HIDE DEF P
  <2> QED BY <1>1, <1>2, <1>3, <1>4, SubsetInduction
<1> QED BY <1>5

\* The shares of a row: whole numbers, and not more than it has.
LEMMA FillType ==
  ASSUME NEW side \in {"BUY", "SELL"}, NEW price \in Nat, NEW qty \in Int,
         NEW rows, Shelf(rows), NEW c \in DOMAIN rows
  PROVE  /\ Allocation(side, price, qty, rows)[c] \in 0..rows[c].rem
         /\ c \notin Crossing(side, price, rows) =>
              Allocation(side, price, qty, rows)[c] = 0
<1> DEFINE rem == Remaining(rows)
           taken == SumFunctionOnSet(rem, Ahead(c, side, price, rows))
<1>1. \A x \in DOMAIN rows : rem[x] = rows[x].rem /\ rows[x].rem \in Nat
  BY DEF Remaining, Shelf
<1>2. /\ Ahead(c, side, price, rows) \subseteq DOMAIN rows
      /\ IsFiniteSet(Ahead(c, side, price, rows))
  BY FS_Subset DEF Ahead, Crossing, Shelf
<1>3. taken \in Nat
  <2> HIDE DEF rem
  <2>1. \A x \in Ahead(c, side, price, rows) : rem[x] \in Nat
    BY <1>1, <1>2
  <2> QED BY <1>2, <2>1, SumIsNat
<1>4. TakenBefore(c, side, price, rows) = taken
  BY DEF TakenBefore, Ahead
<1> HIDE DEF taken
<1> QED BY <1>1, <1>3, <1>4 DEF Allocation

\* A pass trades all that is asked for, as far as the crossing rows have it.
LEMMA TotalFill ==
  ASSUME NEW side \in {"BUY", "SELL"}, NEW price \in Nat, NEW qty \in Nat,
         NEW rows, Shelf(rows), Queued(rows),
         NEW fill, fill = Allocation(side, price, qty, rows)
  PROVE  /\ SumFunctionOnSet(fill, DOMAIN rows) =
              Least(SumFunctionOnSet(Remaining(rows),
                                     Crossing(side, price, rows)), qty)
         /\ SumFunctionOnSet(Remaining(rows), Crossing(side, price, rows)) \in Nat
<1> DEFINE rem == Remaining(rows)
           X == Crossing(side, price, rows)
           A(x) == Ahead(x, side, price, rows)
           Before(x, y) == ServedBefore(side, rows[x], rows[y])
           Sold(T) == SumFunctionOnSet(fill, T)
           Had(T) == SumFunctionOnSet(rem, T)
           Closed(T) == \A x \in T : A(x) \subseteq T
           N == {n \in Nat : \A T \in SUBSET X :
                   Cardinality(T) = n /\ Closed(T)
                     => Sold(T) = Least(Had(T), qty)}
<1>1. /\ X \subseteq DOMAIN rows /\ IsFiniteSet(X)
      /\ \A T \in SUBSET X : IsFiniteSet(T)
      /\ \A x \in DOMAIN rows : rem[x] = rows[x].rem /\ rows[x].rem \in Nat
  BY FS_Subset DEF Remaining, Shelf, Crossing
<1>2. \A x \in DOMAIN rows : fill[x] \in Nat /\ fill[x] \in Int
                             /\ (x \notin X => fill[x] = 0)
  BY <1>1, FillType
<1>3. \A T \in SUBSET X : Had(T) \in Nat /\ Sold(T) \in Nat
  <2> SUFFICES ASSUME NEW T \in SUBSET X PROVE Had(T) \in Nat /\ Sold(T) \in Nat
    OBVIOUS
  <2>1. \A x \in T : rem[x] \in Nat /\ fill[x] \in Nat
    BY <1>1, <1>2
  <2> HIDE DEF rem
  <2> QED BY <1>1, <2>1, SumIsNat
<1>4. 0 \in N
  <2> SUFFICES ASSUME NEW T \in SUBSET X, Cardinality(T) = 0
               PROVE  Sold(T) = Least(Had(T), qty)
    OBVIOUS
  <2>1. T = {}
    BY <1>1, FS_EmptySet
  <2>2. Sold({}) = 0 /\ Had({}) = 0
    BY SumOfNone
  <2>3. Sold(T) = Sold({}) /\ Had(T) = Had({})
    BY <2>1
  <2> HIDE DEF Sold, Had
  <2> QED BY <2>2, <2>3 DEF Least
<1>5. ASSUME NEW n \in N PROVE n + 1 \in N
  <2>1. n \in Nat
    OBVIOUS
  <2> SUFFICES ASSUME NEW T \in SUBSET X, Cardinality(T) = n + 1, Closed(T)
               PROVE  Sold(T) = Least(Had(T), qty)
    BY <2>1
  <2>2. /\ T # {} /\ \A x \in T : Cardinality(T \ {x}) = n
    BY <1>1, <2>1, Fewer
  <2>3. PICK x \in T : \A y \in T \ {x} : Before(y, x)
    BY <1>1, <2>2, LastServed
  <2> DEFINE R == T \ {x}
  <2>4. R \in SUBSET X /\ Cardinality(R) = n /\ x \in X /\ x \in DOMAIN rows
    BY <1>1, <2>2
  <2>5. \A y, z \in DOMAIN rows : ~(Before(y, z) /\ Before(z, y))
    BY ServedInOrder
  <2>6. \A y : A(y) = {z \in X : Before(z, y)}
    BY DEF Ahead
  <2>7. A(x) = R
    <3>1. A(x) \subseteq T /\ x \notin A(x)
      BY <2>4, <2>5, <2>6
    <3>2. R \subseteq A(x)
      BY <2>3, <2>4, <2>6
    <3> QED BY <3>1, <3>2
  <2>8. Closed(R)
    <3> SUFFICES ASSUME NEW y \in R, NEW z \in A(y) PROVE z \in R
      OBVIOUS
    <3>1. z \in T
      OBVIOUS
    <3>2. z # x
      <4>1. Before(y, x) /\ Before(z, y)
        BY <2>3, <2>6
      <4>2. y \in DOMAIN rows
        BY <1>1, <2>4
      <4> QED BY <2>4, <2>5, <4>1, <4>2
    <3> QED BY <3>1, <3>2
  <2>9. Sold(R) = Least(Had(R), qty)
    BY <2>4, <2>8
  <2>10. Sold(T) = fill[x] + Sold(R)
    <3>1. \A y \in T : fill[y] \in Int
      BY <1>1, <1>2
    <3> QED BY <1>1, <3>1, SumTakesAny
  <2>11. Had(T) = rem[x] + Had(R)
    <3>1. \A y \in T : rem[y] \in Int
      BY <1>1
    <3> HIDE DEF rem
    <3> QED BY <1>1, <3>1, SumTakesAny
  <2>12. fill[x] = IF qty - Had(R) <= 0 THEN 0
                   ELSE IF rows[x].rem < qty - Had(R) THEN rows[x].rem
                        ELSE qty - Had(R)
    <3>1. TakenBefore(x, side, price, rows) = SumFunctionOnSet(rem, A(x))
      BY DEF TakenBefore, Ahead
    <3>2. TakenBefore(x, side, price, rows) = Had(R)
      BY <2>7, <3>1
    <3> HIDE DEF Had
    <3> QED BY <2>4, <3>2 DEF Allocation
  <2>13. Had(R) \in Nat /\ rem[x] = rows[x].rem /\ rows[x].rem \in Nat
    BY <1>1, <1>3, <2>4
  <2> HIDE DEF Sold, Had, rem, R
  <2> QED BY <2>9, <2>10, <2>11, <2>12, <2>13 DEF Least
<1>6. Cardinality(X) \in Nat
  BY <1>1, FS_CardinalityType
<1>7. N = Nat
  <2> HIDE DEF N
  <2>1. N \in SUBSET Nat
    BY DEF N
  <2> QED BY <1>4, <1>5, <2>1, SetInduction
<1>8. Closed(X)
  BY DEF Ahead
<1>9. Sold(X) = Least(Had(X), qty)
  <2>1. Cardinality(X) \in N
    BY <1>6, <1>7
  <2> QED BY <1>8, <2>1
<1>10. Sold(DOMAIN rows) = Sold(X)
  <2> DEFINE R == DOMAIN rows \ X
  <2>1. IsFiniteSet(R) /\ X \cap R = {} /\ X \cup R = DOMAIN rows
    BY <1>1, FS_Subset DEF Shelf
  <2>2. \A x \in R : fill[x] = 0
    BY <1>2
  <2>3. \A x \in X \cup R : fill[x] \in Int
    BY <1>2, <2>1
  <2>4. Sold(X \cup R) = Sold(DOMAIN rows)
    BY <2>1
  <2> HIDE DEF R, X
  <2>5. SumFunctionOnSet(fill, R) = 0
    BY <2>1, <2>2, SumOfZeroes
  <2>6. SumFunctionOnSet(fill, X \cup R) =
          SumFunctionOnSet(fill, X) + SumFunctionOnSet(fill, R)
    BY <1>1, <2>1, <2>3, SumOfUnion
  <2>7. SumFunctionOnSet(fill, X) \in Nat
    BY <1>3 DEF X
  <2> QED BY <2>4, <2>5, <2>6, <2>7
<1> QED BY <1>3, <1>9, <1>10

-----------------------------------------------------------------------------
(* Schedules of one handler at a time: what their invariants are made of.  *)

\* One handler at a time: a pool of one worker.
OneHandler == \E w : Workers = {w}

\* What is unfilled in either table, or not there.
Fresh(o) == \/ orders[o].status \in Unfilled \cup {"ABSENT"}
            \/ book[o].status \in {"ABSENT", "PENDING_TRIGGER"}

\* A booked order has its row of orders, with the same price and status, unless
\* it was marked FAILED, which no dormant one is.
RowsAgree(o) ==
  /\ orders[o].status # "ABSENT" => o \in sent
  /\ book[o].status # "ABSENT" =>
       /\ orders[o].status # "ABSENT"
       /\ book[o].price = orders[o].price
       /\ orders[o].status # "FAILED" => book[o].status = orders[o].status
       /\ book[o].status = "PENDING_TRIGGER" =>
            orders[o].status = "PENDING_TRIGGER"

\* What is unfilled in either table has not traded, and what was cancelled has
\* not either and is closed in both.
RowUnfilled(o) ==
  /\ Fresh(o) => history[o].qty = 0 /\ history[o].value = 0
  /\ cancels[o] > 0 =>
       /\ history[o].qty = 0 /\ history[o].value = 0
       /\ orders[o].status \notin Unfilled \cup {"ABSENT"}
       /\ book[o].status \notin Resting \cup {"PENDING_TRIGGER"}

\* The row of an order that is being placed is not there, or as it was asked;
\* and no pass is queued for a cancelled order.
PlacingRow(w) ==
  LET o == worker[w].order IN
  /\ worker[w].op = "insert" => orders[o].status = "ABSENT"
  /\ worker[w].op = "book" =>
       orders[o] = [status |-> InitialStatus(o), price |-> req[o].price,
                    qty |-> req[o].qty, trigger |-> req[o].trigger]
  /\ \A x \in Orders : Holds(worker[w].agenda, x) => cancels[x] = 0

\* The inductive invariant behind CancelledStaysUnfilled.
AloneInv ==
  /\ \A o \in Orders : RowsAgree(o) /\ RowUnfilled(o)
  /\ \A w \in Workers : PlacingRow(w)

\* The passes of an agenda.
Passes(a) == {a[i] : i \in {j \in DOMAIN a : a[j].order # NoOrder}}

\* The passes to come have the quantity and the price of their rows, and where
\* there is anything besides, they are those of stops.
PassesCurrent(w) ==
  LET a == worker[w].agenda IN
  \A t \in Passes(a) : /\ t.qty = book[t.order].rem
                       /\ t.price = book[t.order].price
                       /\ Len(a) = 1 \/ Dormant(t.order)

\* What is left of a row is what was asked less what was traded, and only stops
\* are dormant.
RemAgrees(o) ==
  /\ book[o].status # "ABSENT" =>
       book[o].rem >= 0 /\ book[o].rem = orders[o].qty - history[o].qty
  /\ book[o].status = "PENDING_TRIGGER" => Dormant(o)

\* No two rows were created at the same time.
PlacesDiffer ==
  \A o \in Booked : /\ book[o].at <= Cardinality(Booked)
                    /\ \A p \in Booked : o # p => book[o].at # book[p].at

\* The inductive invariant behind BookMirrorsOrders.
StockInv == /\ \A o \in Orders : RemAgrees(o)
            /\ \A w \in Workers : PassesCurrent(w)
            /\ PlacesDiffer

\* The rupees an order is for.
Owed(o) == orders[o].qty * orders[o].price

\* What a BUY holds while the one worker has this job.
Due(o, job) ==
  IF job.op = "amend" /\ job.order = o THEN Owed(o) + job.delta
  ELSE IF cancels[o] > 0 /\ ~(job.op = "refund" /\ job.order = o) THEN 0
  ELSE Owed(o)

\* What a job was read from is still there.
JobCurrent(job) ==
  /\ job.op # "undo"
  /\ job.op \in {"charge", "amend", "refund"} => job.seen = ReadTerms(job.order)
  /\ job.op \in {"charge", "amend"} =>
       /\ orders[job.order].status \in Unfilled /\ cancels[job.order] = 0
  /\ job.op = "amend" /\ IsBuy(job.order) => job.delta = Delta(job)
  /\ job.op = "refund" => cancels[job.order] > 0
  /\ job.op = "insert" /\ IsBuy(job.order) =>
       paid[job.order] = Hold(req[job.order])

\* A BUY has a price and holds what is due.
PaidRow(o) ==
  IsBuy(o) =>
    /\ o \in sent => req[o].price > 0
    /\ orders[o].status = "ABSENT" => paid[o] >= 0
    /\ orders[o].status # "ABSENT" =>
         /\ orders[o].price > 0
         /\ \A w \in Workers : paid[o] = Due(o, worker[w])

\* The inductive invariant behind ReservationExact.
ReservedInv == /\ \A w \in Workers : JobCurrent(worker[w])
               /\ \A o \in Orders : PaidRow(o)

\* No BUY paid more than its price for a share.
WithinLimit ==
  \A o \in Orders :
    IsBuy(o) => history[o].value <= history[o].qty * orders[o].price

-----------------------------------------------------------------------------
(* What the steps of a pass do to an agenda and to the rows.               *)

\* An order has a pass in an agenda when one of its passes is for that order.
LEMMA HeldByPass ==
  ASSUME NEW a, NEW o \in Orders
  PROVE  Holds(a, o) <=> \E t \in Passes(a) : t.order = o
BY DEF Holds, Passes

\* An agenda without items has no pass.
LEMMA NoPasses == Passes(<<>>) = {}
BY DEF Passes

\* What is left of an agenda has none of its passes but those that come later.
LEMMA TailPasses ==
  ASSUME NEW a \in Seq(Item), a # <<>>, NoTwice(a)
  PROVE  /\ Passes(Tail(a)) \subseteq Passes(a)
         /\ \A t \in Passes(a) : t \in Item /\ t.order \in Orders
         /\ Head(a).order # NoOrder =>
              /\ Head(a) \in Passes(a)
              /\ \A t \in Passes(Tail(a)) : t.order # Head(a).order
<1>1. /\ Len(a) \in Nat /\ Len(a) > 0 /\ Head(a) = a[1]
      /\ Tail(a) \in Seq(Item) /\ Len(Tail(a)) = Len(a) - 1
      /\ \A i \in 1..Len(Tail(a)) : Tail(a)[i] = a[i + 1]
      /\ DOMAIN a = 1..Len(a) /\ DOMAIN Tail(a) = 1..Len(Tail(a))
      /\ \A i \in 1..Len(a) : a[i] \in Item
  BY HeadTailProperties, LenProperties, EmptySeq
<1>2. \A i \in DOMAIN Tail(a) :
        i + 1 \in DOMAIN a /\ i + 1 # 1 /\ Tail(a)[i] = a[i + 1]
  BY <1>1
<1>3. 1 \in DOMAIN a
  BY <1>1
<1>4. \A t \in Passes(a) : t \in Item /\ t.order \in Orders
  BY <1>1 DEF Passes, Item
<1>5. Passes(Tail(a)) \subseteq Passes(a)
  BY <1>2 DEF Passes
<1>6. ASSUME Head(a).order # NoOrder, NEW t \in Passes(Tail(a))
      PROVE  t.order # Head(a).order
  <2>1. PICK i \in DOMAIN Tail(a) : t = Tail(a)[i]
    BY DEF Passes
  <2> QED BY <1>1, <1>2, <1>3, <1>6, <2>1 DEF NoTwice
<1>7. Head(a).order # NoOrder => Head(a) \in Passes(a)
  BY <1>1, <1>3 DEF Passes
<1> QED BY <1>4, <1>5, <1>6, <1>7

\* Two agendas have no passes together that neither has.
LEMMA ConcatPasses ==
  ASSUME NEW a \in Seq(Item), NEW b \in Seq(Item)
  PROVE  /\ a \o b \in Seq(Item)
         /\ Passes(a \o b) \subseteq Passes(a) \cup Passes(b)
<1>1. /\ Len(a) \in Nat /\ Len(b) \in Nat /\ a \o b \in Seq(Item)
      /\ DOMAIN a = 1..Len(a) /\ DOMAIN b = 1..Len(b)
      /\ DOMAIN (a \o b) = 1..Len(a) + Len(b)
      /\ \A i \in 1..Len(a) + Len(b) :
           (a \o b)[i] = IF i <= Len(a) THEN a[i] ELSE b[i - Len(a)]
  BY ConcatProperties, LenProperties
<1>2. \A i \in DOMAIN (a \o b) :
        \/ i \in DOMAIN a /\ (a \o b)[i] = a[i]
        \/ i - Len(a) \in DOMAIN b /\ (a \o b)[i] = b[i - Len(a)]
  BY <1>1
<1> QED BY <1>1, <1>2 DEF Passes

\* Where a worker that proceeds is afterwards.
LEMMA ProceedTo ==
  ASSUME TypeOK, NEW w \in Workers, worker[w].op # "idle",
         NEW a \in Seq(Item), Proceed(w, a)
  PROVE  /\ worker'[w].agenda = a
         /\ \/ worker'[w] = Idle /\ a = <<>>
            \/ worker'[w].op = "run" /\ worker'[w].order = worker[w].order
<1>1. worker[w] \in Job
  BY JobType
<1>2. worker'[w] = IF a = <<>> THEN Idle
                   ELSE [worker[w] EXCEPT !.op = "run", !.agenda = a]
  BY DEF Proceed, Becomes, TypeOK
<1> QED BY <1>1, <1>2 DEF Job, Idle, At

\* The agenda of a worker in its passes.
LEMMA RunningAgenda ==
  ASSUME TypeOK, OnceInv, NEW w \in Workers, worker[w].op = "run",
         worker[w].agenda # <<>>
  PROVE  /\ worker[w].agenda \in Seq(Item) /\ NoTwice(worker[w].agenda)
         /\ Tail(worker[w].agenda) \in Seq(Item)
         /\ Current(w) = Head(worker[w].agenda) /\ Current(w) \in Item
         /\ Current(w).order # NoOrder => Current(w).order \in Orders
<1>1. worker[w].agenda \in Seq(Item)
  BY JobType DEF Job
<1>2. Current(w) \in Item /\ Tail(worker[w].agenda) \in Seq(Item)
  BY AgendaType
<1> QED BY <1>1, <1>2 DEF OnceInv, Current, Item

\* A pass without trades and a failed check drop one item.
LEMMA QuietRun ==
  ASSUME TypeOK, OnceInv, NEW w \in Workers,
         \/ MatchNothing(w) \/ MatchFails(w) \/ MatchAborts(w)
         \/ TriggerFails(w)
  PROVE  /\ worker[w].op = "run" /\ worker[w].agenda # <<>>
         /\ worker'[w].op \in {"run", "idle"}
         /\ worker'[w].agenda = Tail(worker[w].agenda)
<1>1. /\ worker[w].op = "run" /\ worker[w].agenda # <<>>
      /\ Proceed(w, Tail(worker[w].agenda))
  BY DEF MatchNothing, MatchFails, MatchAborts, TriggerFails, Matching, Checking
<1>2. Tail(worker[w].agenda) \in Seq(Item) /\ worker[w].op # "idle"
  BY <1>1, RunningAgenda
<1>3. Idle.op = "idle"
  BY DEF Idle, At
<1> QED BY <1>1, <1>2, <1>3, ProceedTo

\* A row that a pass trades, and one that it does not.
TradedRow(t, d, x) ==
  /\ x = t.order \/ x \in Candidates(t.order)
  /\ book'[x] = [book[x] EXCEPT !.rem = RemAfter(t, d, x),
                                !.status = FilledStatus(RemAfter(t, d, x))]
  /\ orders'[x] = [orders[x] EXCEPT !.status = FilledStatus(RemAfter(t, d, x))]
UntradedRow(d, x) ==
  book'[x] = book[x] /\ orders'[x] = orders[x] /\ d.value[x] = 0

\* A pass that trades: whom it changes, and what is left to do.
LEMMA MatchStep ==
  ASSUME TypeOK, OnceInv, NEW w \in Workers, Match(w),
         NEW t, t = Current(w), NEW d, d = Deal(t)
  PROVE  /\ worker[w].op = "run" /\ worker[w].agenda # <<>>
         /\ worker'[w].op \in {"run", "idle"}
         /\ Passes(worker'[w].agenda) \subseteq Passes(Tail(worker[w].agenda))
         /\ t \in Passes(worker[w].agenda) /\ t \in Item /\ t.order \in Orders
         /\ d.qty[t.order] > 0 /\ d.qty \in [Orders -> Nat]
         /\ d.value \in [Orders -> Nat]
         /\ \A x \in Orders : /\ d.qty[x] > 0 => TradedRow(t, d, x)
                              /\ d.qty[x] = 0 => UntradedRow(d, x)
<1> DEFINE traded == {x \in Orders : d.qty[x] > 0}
           rest == Tail(worker[w].agenda)
<1>1. /\ worker[w].op = "run" /\ worker[w].agenda # <<>>
      /\ t.order # NoOrder /\ d.qty[t.order] > 0
      /\ d.qty \in [Orders -> Nat] /\ d.value \in [Orders -> Nat]
  BY DEF Match, Matching, Settles
<1>2. /\ worker[w].agenda \in Seq(Item) /\ NoTwice(worker[w].agenda)
      /\ rest \in Seq(Item) /\ t = Head(worker[w].agenda)
      /\ t \in Item /\ t.order \in Orders
  BY <1>1, RunningAgenda
<1>3. t \in Passes(worker[w].agenda)
  <2> DEFINE a == worker[w].agenda
  <2>1. a # <<>> /\ a \in Seq(Item) /\ NoTwice(a) /\ Head(a).order # NoOrder
    BY <1>1, <1>2
  <2>2. t = Head(a)
    BY <1>2
  <2> HIDE DEF a
  <2>3. Head(a) \in Passes(a)
    BY <2>1, TailPasses
  <2> QED BY <2>2, <2>3 DEF a
<1>4. ASSUME NEW x \in Orders, d.qty[x] > 0
      PROVE  x = t.order \/ x \in Candidates(t.order)
  BY <1>4 DEF Deal, Rows
<1>5. ASSUME NEW x \in Orders, d.qty[x] > 0
      PROVE  /\ book'[x] =
                  [book[x] EXCEPT !.rem = RemAfter(t, d, x),
                                  !.status = FilledStatus(RemAfter(t, d, x))]
             /\ orders'[x] =
                  [orders[x] EXCEPT !.status = FilledStatus(RemAfter(t, d, x))]
  BY <1>5 DEF Match
<1>6. ASSUME NEW x \in Orders, d.qty[x] = 0
      PROVE  book'[x] = book[x] /\ orders'[x] = orders[x]
  <2>1. x \notin traded
    BY <1>6
  <2>2. /\ book' = [y \in Orders |->
              IF y \in traded
              THEN [book[y] EXCEPT !.rem = RemAfter(t, d, y),
                                   !.status = FilledStatus(RemAfter(t, d, y))]
              ELSE book[y]]
        /\ orders' = [y \in Orders |->
              IF y \in traded
              THEN [orders[y] EXCEPT !.status = FilledStatus(RemAfter(t, d, y))]
              ELSE orders[y]]
    BY DEF Match
  <2> HIDE DEF traded
  <2> QED BY <2>1, <2>2
<1>7. ASSUME NEW x \in Orders, d.qty[x] = 0
      PROVE  d.value[x] = 0
  <2> DEFINE fill == Allocation(Side(t.order), t.price, t.qty, Rows(t.order))
  <2>1. x # t.order
    BY <1>1, <1>7
  <2>2. CASE x \in Candidates(t.order)
    <3>1. d.qty[x] = fill[x] /\ d.value[x] = fill[x] * Rows(t.order)[x].price
      BY <2>1, <2>2 DEF Deal, Rows
    <3>2. Rows(t.order)[x].price \in Nat
      BY <2>2 DEF Rows, TypeOK, BookRow
    <3> HIDE DEF fill
    <3> QED BY <1>7, <3>1, <3>2
  <2>3. CASE x \notin Candidates(t.order)
    BY <2>1, <2>3 DEF Deal, Rows
  <2> QED BY <2>2, <2>3
<1>8. ASSUME NEW x \in Orders
      PROVE  /\ d.qty[x] > 0 => TradedRow(t, d, x)
             /\ d.qty[x] = 0 => UntradedRow(d, x)
  BY <1>4, <1>5, <1>6, <1>7 DEF TradedRow, UntradedRow
<1>9. PICK checks \in Checks(Side(t.order), traded \ {t.order}) :
        Proceed(w, checks \o rest)
  BY DEF Match
<1>10. PICK q \in SetToSeqs(traded \ {t.order}) :
         checks = [i \in DOMAIN q |-> [order |-> NoOrder,
                                       price |-> book[q[i]].price, qty |-> 0]]
  BY <1>9 DEF Checks
<1>11. \A i \in DOMAIN q : q[i] \in Orders
  BY <1>10 DEF SetToSeqs
<1>12. \A i \in DOMAIN q : checks[i] \in Item /\ checks[i].order = NoOrder
  BY <1>10, <1>11 DEF Item, TypeOK, BookRow
<1>13. checks \in Seq(Item) /\ DOMAIN checks = DOMAIN q
  BY <1>10, <1>12, ItemsType
<1>14. Passes(checks) = {}
  BY <1>12, <1>13 DEF Passes
<1> HIDE DEF rest, traded
<1>15. /\ checks \o rest \in Seq(Item)
       /\ Passes(checks \o rest) \subseteq Passes(rest)
  BY <1>2, <1>13, <1>14, ConcatPasses
<1>16. worker'[w].agenda = checks \o rest /\ worker'[w].op \in {"run", "idle"}
  <2>1. worker[w].op # "idle" /\ Idle.op = "idle"
    BY <1>1 DEF Idle, At
  <2> QED BY <1>9, <1>15, <2>1, ProceedTo
<1> QED BY <1>1, <1>2, <1>3, <1>8, <1>15, <1>16 DEF rest

\* The rows a price wakes.
Reached(ltp) ==
  {o \in Orders : book[o].status = "PENDING_TRIGGER" /\ TriggerMet(o, ltp)}

\* A row that a check wakes, and the pass it queues for it.
WokenRow(x, ltp) ==
  /\ book[x].status = "PENDING_TRIGGER"
  /\ book'[x] = [book[x] EXCEPT !.status = "PENDING",
                                !.price = EffectivePrice(x, ltp)]
  /\ orders'[x] = [orders[x] EXCEPT !.status = "PENDING",
                                    !.price = EffectivePrice(x, ltp)]
WokenPass(t, ltp) ==
  t.price = EffectivePrice(t.order, ltp) /\ t.qty = book[t.order].rem

\* A check that triggers: whom it wakes, and the passes it queues.
LEMMA TriggerStep ==
  ASSUME TypeOK, OnceInv, NEW w \in Workers, Trigger(w),
         NEW ltp, ltp = Current(w).price,
         NEW hit, hit = Reached(ltp)
  PROVE  /\ worker[w].op = "run" /\ worker[w].agenda # <<>>
         /\ worker'[w].op \in {"run", "idle"}
         /\ ltp \in Nat /\ hit \subseteq Orders
         /\ \A x \in hit : WokenRow(x, ltp)
         /\ \A x \in Orders \ hit : book'[x] = book[x] /\ orders'[x] = orders[x]
         /\ \A t \in Passes(worker'[w].agenda) :
              \/ t \in Passes(Tail(worker[w].agenda))
              \/ t.order \in hit /\ WokenPass(t, ltp)
<1> DEFINE rest == Tail(worker[w].agenda)
<1>1. worker[w].op = "run" /\ worker[w].agenda # <<>>
  BY DEF Trigger, Checking
<1>2. rest \in Seq(Item) /\ Current(w) \in Item
  BY <1>1, RunningAgenda
<1>3. ltp \in Nat /\ hit \subseteq Orders
  BY <1>2 DEF Item, Reached
<1>4. /\ \A x \in hit : WokenRow(x, ltp)
      /\ \A x \in Orders \ hit : book'[x] = book[x] /\ orders'[x] = orders[x]
  <2>1. /\ book' = [o \in Orders |-> IF o \in hit THEN AfterTrigger(o, ltp)
                                     ELSE book[o]]
        /\ orders' = [o \in Orders |->
             IF o \in hit
             THEN [orders[o] EXCEPT !.status = "PENDING",
                                    !.price = EffectivePrice(o, ltp)]
             ELSE orders[o]]
    BY DEF Trigger, Reached
  <2>2. \A x \in hit : book[x].status = "PENDING_TRIGGER"
    BY DEF Reached
  <2> QED BY <1>3, <2>1, <2>2 DEF WokenRow, AfterTrigger
<1>5. PICK q \in SetToSeqs(hit) :
        Proceed(w, [i \in DOMAIN q |->
                      [order |-> q[i], price |-> EffectivePrice(q[i], ltp),
                       qty   |-> book[q[i]].rem]]
                   \o rest)
  BY DEF Trigger, Reached
<1> DEFINE passes == [i \in DOMAIN q |->
                        [order |-> q[i], price |-> EffectivePrice(q[i], ltp),
                         qty   |-> book[q[i]].rem]]
<1>6. \A i \in DOMAIN q : q[i] \in hit
  BY <1>5 DEF SetToSeqs
<1>7. \A i \in DOMAIN q : /\ book[q[i]].rem \in Int
                          /\ EffectivePrice(q[i], ltp) \in Nat
  BY <1>3, <1>6 DEF TypeOK, BookRow, EffectivePrice
<1>8. \A i \in DOMAIN q : passes[i] \in Item
  BY <1>3, <1>6, <1>7 DEF Item
<1>9. passes \in Seq(Item) /\ DOMAIN passes = DOMAIN q
  BY <1>3, <1>8, ItemsType
<1>10. \A t \in Passes(passes) : t.order \in hit /\ WokenPass(t, ltp)
  BY <1>6, <1>9 DEF Passes, WokenPass
<1>11. Proceed(w, passes \o rest)
  BY <1>5
<1> HIDE DEF passes, rest
<1>12. /\ passes \o rest \in Seq(Item)
       /\ Passes(passes \o rest) \subseteq Passes(passes) \cup Passes(rest)
  BY <1>2, <1>9, ConcatPasses
<1>13. worker'[w].agenda = passes \o rest /\ worker'[w].op \in {"run", "idle"}
  <2>1. worker[w].op # "idle" /\ Idle.op = "idle"
    BY <1>1 DEF Idle, At
  <2> QED BY <1>11, <1>12, <2>1, ProceedTo
<1> QED BY <1>1, <1>3, <1>4, <1>10, <1>12, <1>13 DEF rest

-----------------------------------------------------------------------------
(* What can be cancelled, with one handler at a time.                      *)

\* A worker that becomes something is what it has become.
LEMMA NewJob ==
  ASSUME TypeOK, NEW w \in Workers, NEW job, Becomes(w, job)
  PROVE  worker'[w] = job
BY DEF Becomes, TypeOK

\* Steps that leave all rows alone, and go on or stop.
QuietStep(w) ==
  \/ InsertOrderFails(w) \/ MatchNothing(w) \/ MatchAborts(w) \/ TriggerFails(w)
  \/ Refund(w) \/ Charge(w) \/ ChargeRefused(w) \/ AmendLost(w) \/ Undo(w)
  \/ Crash(w)
  \/ \E o \in Orders : AmendRead(w, o)

\* They change no row, and drop passes at most.
LEMMA QuietKeeps ==
  ASSUME TypeOK, OnceInv, NEW w \in Workers, QuietStep(w)
  PROVE  /\ UNCHANGED <<req, sent, orders, book, history, cancels>>
         /\ worker'[w].op \notin {"insert", "book"}
         /\ \/ worker'[w].agenda = <<>>
            \/ /\ worker[w].op = "run" /\ worker[w].agenda # <<>>
               /\ worker'[w].agenda = Tail(worker[w].agenda)
<1>1. Idle.agenda = <<>> /\ Idle.op = "idle"
  BY DEF Idle, At
<1>2. UNCHANGED <<req, sent, orders, book, history, cancels>>
  BY DEF QuietStep, InsertOrderFails, MatchNothing, MatchAborts, TriggerFails,
         Refund, Charge, ChargeRefused, AmendLost, Undo, Crash, AmendRead,
         tables, ghosts
<1>3. CASE MatchNothing(w) \/ MatchAborts(w) \/ TriggerFails(w)
  BY <1>2, <1>3, QuietRun
<1>4. CASE Becomes(w, Idle)
  BY <1>1, <1>2, <1>4, NewJob
<1>5. CASE Charge(w)
  <2>1. worker[w] \in Job /\ worker[w].op = "charge" /\ worker[w].agenda = <<>>
    BY <1>5, JobType DEF Charge, OnceInv, AgendasRun
  <2>2. worker'[w] = [worker[w] EXCEPT !.op = "amend",
                                       !.delta = Delta(worker[w])]
    BY <1>5, NewJob DEF Charge
  <2>3. worker'[w].op = "amend" /\ worker'[w].agenda = <<>>
    BY <2>1, <2>2 DEF Job
  <2> QED BY <1>2, <2>3
<1>6. CASE AmendLost(w)
  <2>1. worker[w] \in Job /\ worker[w].op = "amend" /\ worker[w].agenda = <<>>
    BY <1>6, JobType DEF AmendLost, OnceInv, AgendasRun
  <2>2. \/ Becomes(w, Idle)
        \/ worker'[w] = [worker[w] EXCEPT !.op = "undo"]
    BY <1>6, NewJob DEF AmendLost
  <2>3. CASE worker'[w] = [worker[w] EXCEPT !.op = "undo"]
    <3>1. worker'[w].op = "undo" /\ worker'[w].agenda = <<>>
      BY <2>1, <2>3 DEF Job
    <3> QED BY <1>2, <3>1
  <2> QED BY <1>4, <2>2, <2>3
<1>7. CASE \E o \in Orders : AmendRead(w, o)
  <2>1. PICK o \in Orders, a \in Amendments :
          Becomes(w, At(IF IsBuy(o) THEN "charge" ELSE "amend", o,
                        ReadTerms(o), a))
    BY <1>7 DEF AmendRead
  <2>2. /\ worker'[w].agenda = <<>>
        /\ worker'[w].op = IF IsBuy(o) THEN "charge" ELSE "amend"
    BY <2>1, NewJob DEF At
  <2> QED BY <1>2, <2>2
<1> QED BY <1>3, <1>4, <1>5, <1>6, <1>7
        DEF QuietStep, InsertOrderFails, Refund, ChargeRefused, Undo, Crash

\* An agenda without its first item holds no order it did not hold.
LEMMA TailHolds ==
  ASSUME NEW a \in Seq(Item), a # <<>>, NEW o, Holds(Tail(a), o)
  PROVE  Holds(a, o)
<1>1. /\ Len(a) \in Nat /\ Len(a) > 0
      /\ Tail(a) \in Seq(Item) /\ Len(Tail(a)) = Len(a) - 1
      /\ \A i \in 1..Len(Tail(a)) : Tail(a)[i] = a[i + 1]
      /\ DOMAIN a = 1..Len(a) /\ DOMAIN Tail(a) = 1..Len(Tail(a))
  BY HeadTailProperties, LenProperties, EmptySeq
<1>2. PICK i \in DOMAIN Tail(a) : Tail(a)[i].order = o
  BY DEF Holds
<1>3. i + 1 \in DOMAIN a /\ a[i + 1].order = o
  BY <1>1, <1>2
<1> QED BY <1>3 DEF Holds

\* A row nobody touches stays as it should be.
LEMMA RowKept ==
  ASSUME NEW x \in Orders, RowsAgree(x), RowUnfilled(x),
         x \in sent => x \in sent',
         orders'[x] = orders[x], book'[x] = book[x], history'[x] = history[x],
         cancels'[x] = cancels[x]
  PROVE  RowsAgree(x)' /\ RowUnfilled(x)'
BY DEF RowsAgree, RowUnfilled, Fresh

\* Quiet steps keep the rows and the jobs of a lone worker as they should be.
LEMMA QuietAlone ==
  ASSUME TypeOK, OnceInv, AloneInv, NEW w \in Workers, Workers = {w},
         QuietStep(w)
  PROVE  AloneInv'
<1>1. /\ UNCHANGED <<req, sent, orders, book, history, cancels>>
      /\ worker'[w].op \notin {"insert", "book"}
      /\ \/ worker'[w].agenda = <<>>
         \/ /\ worker[w].op = "run" /\ worker[w].agenda # <<>>
            /\ worker'[w].agenda = Tail(worker[w].agenda)
  BY QuietKeeps
<1>2. \A x \in Orders : RowsAgree(x)' /\ RowUnfilled(x)'
  BY <1>1 DEF AloneInv, RowsAgree, RowUnfilled, Fresh
<1>3. ASSUME NEW x \in Orders, Holds(worker'[w].agenda, x)
      PROVE  cancels'[x] = 0
  <2>1. /\ worker[w].op = "run" /\ worker[w].agenda # <<>>
        /\ Holds(Tail(worker[w].agenda), x)
    BY <1>1, <1>3, NothingHeld
  <2>2. Holds(worker[w].agenda, x)
    BY <2>1, RunningAgenda, TailHolds
  <2> QED BY <1>1, <2>2 DEF AloneInv, PlacingRow
<1>4. PlacingRow(w)'
  BY <1>1, <1>3 DEF PlacingRow
<1> QED BY <1>2, <1>4 DEF AloneInv

\* An order is sent that has no rows.
LEMMA SubmitAlone ==
  ASSUME TypeOK, OnceInv, AloneInv, NEW w \in Workers, Workers = {w},
         NEW o \in Orders, Submit(w, o)
  PROVE  AloneInv'
<1>1. /\ UNCHANGED <<req, orders, book, history, cancels>>
      /\ o \notin sent /\ sent' = sent \cup {o}
      /\ worker'[w] = At("insert", o, NoTerms, NoTerms)
  BY NewJob DEF Submit
<1>2. /\ worker'[w].op = "insert" /\ worker'[w].order = o
      /\ worker'[w].agenda = <<>>
  BY <1>1 DEF At
<1>3. orders[o].status = "ABSENT"
  BY <1>1 DEF AloneInv, RowsAgree
<1>4. PlacingRow(w)'
  BY <1>1, <1>2, <1>3, NothingHeld DEF PlacingRow
<1>5. \A x \in Orders : RowsAgree(x)' /\ RowUnfilled(x)'
  BY <1>1 DEF AloneInv, RowsAgree, RowUnfilled, Fresh
<1> QED BY <1>4, <1>5 DEF AloneInv

\* The rows of the order are inserted, the second like the first.
LEMMA InsertAlone ==
  ASSUME TypeOK, OnceInv, AloneInv, NEW w \in Workers, Workers = {w},
         InsertOrder(w) \/ InsertBookRow(w) \/ InsertBookRowFails(w)
  PROVE  AloneInv'
<1>1. worker[w].op \in {"insert", "book"} /\ worker[w] \in Job
  BY JobType DEF InsertOrder, InsertBookRow, InsertBookRowFails
<1> PICK o \in Orders : o = worker[w].order
  BY <1>1 DEF Job
<1>2. worker[w].agenda = <<>> /\ o \in sent /\ book[o].status = "ABSENT"
  BY <1>1 DEF OnceInv, PlacedOnce, AgendasRun, Placing
<1>3. orders[o].status \in Unfilled \cup {"ABSENT"}
  BY <1>1, <1>2 DEF AloneInv, PlacingRow, InitialStatus, Unfilled
<1>4. cancels[o] = 0 /\ history[o].qty = 0 /\ history[o].value = 0
  <2>1. Fresh(o) /\ RowUnfilled(o) /\ cancels[o] \in Nat
    BY <1>2 DEF AloneInv, Fresh, TypeOK
  <2> QED BY <1>3, <2>1 DEF RowUnfilled
<1>5. /\ UNCHANGED <<req, sent, history, cancels>>
      /\ \A x \in Orders : x # o => orders'[x] = orders[x] /\ book'[x] = book[x]
  BY DEF InsertOrder, InsertBookRow, InsertBookRowFails, TypeOK, tables, ghosts
<1>6. \A x \in Orders : x # o => RowsAgree(x)' /\ RowUnfilled(x)'
  BY <1>5, RowKept DEF AloneInv
<1>7. CASE InsertOrder(w)
  <2>1. /\ orders'[o] = [status |-> InitialStatus(o), price |-> req[o].price,
                         qty |-> req[o].qty, trigger |-> req[o].trigger]
        /\ book' = book
    BY <1>2, <1>7 DEF InsertOrder, TypeOK
  <2>2. /\ worker'[w].op = "book" /\ worker'[w].order = o
        /\ worker'[w].agenda = <<>>
    <3>1. worker'[w] = [worker[w] EXCEPT !.op = "book"]
      BY <1>7, NewJob DEF InsertOrder
    <3> QED BY <1>1, <1>2, <3>1 DEF Job
  <2>3. PlacingRow(w)'
    BY <1>5, <2>1, <2>2, NothingHeld DEF PlacingRow, InitialStatus, Dormant
  <2>4. RowsAgree(o)' /\ RowUnfilled(o)'
    BY <1>2, <1>4, <1>5, <2>1 DEF RowsAgree, RowUnfilled, InitialStatus
  <2> QED BY <1>6, <2>3, <2>4 DEF AloneInv
<1>8. CASE InsertBookRowFails(w)
  <2>1. orders'[o].status = "FAILED" /\ book' = book
    BY <1>2, <1>8 DEF InsertBookRowFails, TypeOK, OrderRow
  <2>2. worker'[w].op = "idle" /\ worker'[w].agenda = <<>>
    BY <1>8, NewJob DEF InsertBookRowFails, Idle, At
  <2>3. PlacingRow(w)'
    BY <2>2, NothingHeld DEF PlacingRow
  <2>4. RowsAgree(o)' /\ RowUnfilled(o)'
    BY <1>2, <1>4, <1>5, <2>1 DEF RowsAgree, RowUnfilled
  <2> QED BY <1>6, <2>3, <2>4 DEF AloneInv
<1>9. CASE InsertBookRow(w)
  <2> DEFINE a == IF Dormant(o) THEN <<>>
                  ELSE <<[order |-> o, price |-> req[o].price,
                          qty |-> req[o].qty]>>
  <2>1. /\ book'[o].status = InitialStatus(o) /\ book'[o].price = req[o].price
        /\ orders' = orders
    BY <1>2, <1>9 DEF InsertBookRow, TypeOK
  <2>2. orders[o].status = InitialStatus(o) /\ orders[o].price = req[o].price
    BY <1>9 DEF InsertBookRow, AloneInv, PlacingRow
  <2>3. a \in Seq(Item) /\ \A x : Holds(a, x) => x = o
    <3>1. req[o].price \in Nat /\ req[o].qty \in Int
      BY <1>2, ReqType
    <3>2. [order |-> o, price |-> req[o].price, qty |-> req[o].qty] \in Item
      BY <1>2, <3>1 DEF Item
    <3> QED BY <3>2 DEF Holds
  <2>4. Proceed(w, a)
    BY <1>9 DEF InsertBookRow
  <2>5. Idle.op = "idle" /\ worker[w].op # "idle"
    BY <1>1 DEF Idle, At
  <2> HIDE DEF a
  <2>6. worker'[w].agenda = a /\ worker'[w].op \in {"run", "idle"}
    BY <2>3, <2>4, <2>5, ProceedTo
  <2>7. PlacingRow(w)'
    BY <1>4, <1>5, <2>3, <2>6 DEF PlacingRow
  <2>8. RowsAgree(o)' /\ RowUnfilled(o)'
    BY <1>2, <1>4, <1>5, <2>1, <2>2 DEF RowsAgree, RowUnfilled, InitialStatus
  <2> QED BY <1>6, <2>7, <2>8 DEF AloneInv
<1> QED BY <1>7, <1>8, <1>9

\* A pass trades with what is not cancelled, and what it trades is not fresh.
LEMMA MatchAlone ==
  ASSUME TypeOK, OnceInv, AloneInv, NEW w \in Workers, Workers = {w}, Match(w)
  PROVE  AloneInv'
<1> PICK t : t = Current(w)
  OBVIOUS
<1> PICK d : d = Deal(t)
  OBVIOUS
<1>1. /\ worker'[w].op \in {"run", "idle"}
      /\ Passes(worker'[w].agenda) \subseteq Passes(Tail(worker[w].agenda))
      /\ t \in Passes(worker[w].agenda) /\ t.order \in Orders
      /\ worker[w].op = "run" /\ worker[w].agenda # <<>>
  BY MatchStep
<1>2. \A x \in Orders : /\ d.qty[x] > 0 => TradedRow(t, d, x)
                        /\ d.qty[x] = 0 => UntradedRow(d, x)
  BY MatchStep
<1>3. /\ UNCHANGED <<req, sent, cancels>>
      /\ history' = [x \in Orders |-> [qty   |-> history[x].qty + d.qty[x],
                                       value |-> history[x].value + d.value[x]]]
  BY DEF Match, ghosts
<1>4. d.qty \in [Orders -> Nat]
  BY MatchStep
<1>5. ASSUME NEW x \in Orders PROVE RowsAgree(x)' /\ RowUnfilled(x)'
  <2>1. RowsAgree(x) /\ RowUnfilled(x)
    BY DEF AloneInv
  <2>2. CASE d.qty[x] = 0
    <3>1. history'[x] = history[x]
      <4>1. history[x] \in [qty : Nat, value : Nat] /\ d.value[x] = 0
        BY <1>2, <2>2 DEF TypeOK, UntradedRow
      <4>2. history'[x] = [qty   |-> history[x].qty + 0,
                           value |-> history[x].value + 0]
        BY <1>3, <2>2, <4>1
      <4> QED BY <4>1, <4>2
    <3> QED BY <1>2, <1>3, <2>1, <2>2, <3>1, RowKept DEF UntradedRow
  <2>3. CASE d.qty[x] > 0
    <3>1. x = t.order \/ x \in Candidates(t.order)
      BY <1>2, <2>3 DEF TradedRow
    <3>2. book[x].status \notin {"ABSENT", "PENDING_TRIGGER"}
      <4>1. CASE x = t.order
        <5>1. Holds(worker[w].agenda, x)
          BY <1>1, <4>1, HeldByPass
        <5> QED BY <5>1 DEF OnceInv, PassesAwake
      <4>2. CASE x \in Candidates(t.order)
        BY <4>2 DEF Candidates, Resting
      <4> QED BY <3>1, <4>1, <4>2
    <3>3. cancels[x] = 0
      <4>1. CASE x = t.order
        <5>1. Holds(worker[w].agenda, x)
          BY <1>1, <4>1, HeldByPass
        <5> QED BY <5>1 DEF AloneInv, PlacingRow
      <4>2. CASE x \in Candidates(t.order)
        <5>1. book[x].status \in Resting /\ cancels[x] \in Nat
          BY <4>2 DEF Candidates, TypeOK
        <5> QED BY <2>1, <5>1 DEF RowUnfilled
      <4> QED BY <3>1, <4>1, <4>2
    <3>4. /\ orders'[x].status \in {"PARTIALLY_EXECUTED", "EXECUTED"}
          /\ book'[x].status = orders'[x].status
          /\ book'[x].price = book[x].price /\ orders'[x].price = orders[x].price
      <4>1. book[x] \in BookRow /\ orders[x] \in OrderRow
        BY DEF TypeOK
      <4>2. FilledStatus(RemAfter(t, d, x)) \in {"PARTIALLY_EXECUTED", "EXECUTED"}
        BY DEF FilledStatus
      <4>3. TradedRow(t, d, x)
        BY <1>2, <2>3
      <4> QED BY <4>1, <4>2, <4>3 DEF TradedRow, BookRow, OrderRow
    <3>5. RowsAgree(x)'
      BY <1>3, <2>1, <3>2, <3>4 DEF RowsAgree
    <3>6. RowUnfilled(x)'
      BY <1>3, <3>3, <3>4 DEF RowUnfilled, Fresh, Unfilled
    <3> QED BY <3>5, <3>6
  <2> QED BY <1>4, <2>2, <2>3
<1>6. PlacingRow(w)'
  <2>1. ASSUME NEW x \in Orders, Holds(worker'[w].agenda, x)
        PROVE  cancels[x] = 0
    <3>1. Holds(Tail(worker[w].agenda), x)
      BY <1>1, <2>1, HeldByPass
    <3>2. Holds(worker[w].agenda, x)
      BY <1>1, <3>1, RunningAgenda, TailHolds
    <3> QED BY <3>2 DEF AloneInv, PlacingRow
  <2> QED BY <1>1, <1>3, <2>1 DEF PlacingRow
<1> QED BY <1>5, <1>6 DEF AloneInv

\* A pass that fails marks an order that is booked and not cancelled.
LEMMA MatchFailsAlone ==
  ASSUME TypeOK, OnceInv, AloneInv, NEW w \in Workers, Workers = {w},
         MatchFails(w)
  PROVE  AloneInv'
<1>1. /\ worker[w].op = "run" /\ worker[w].agenda # <<>>
      /\ worker'[w].op \in {"run", "idle"}
      /\ worker'[w].agenda = Tail(worker[w].agenda)
  BY QuietRun
<1>2. Current(w) = Head(worker[w].agenda) /\ Current(w).order \in Orders
      /\ worker[w].agenda \in Seq(Item)
  BY <1>1, RunningAgenda DEF MatchFails, Matching
<1> PICK o \in Orders : o = Current(w).order
  BY <1>2
<1>3. Holds(worker[w].agenda, o)
  <2>1. /\ Len(worker[w].agenda) > 0 /\ Len(worker[w].agenda) \in Nat
        /\ Head(worker[w].agenda) = worker[w].agenda[1]
        /\ DOMAIN worker[w].agenda = 1..Len(worker[w].agenda)
    BY <1>1, <1>2, LenProperties, EmptySeq
  <2>2. 1 \in DOMAIN worker[w].agenda
    BY <2>1
  <2> QED BY <1>2, <2>1, <2>2 DEF Holds
<1>4. /\ cancels[o] = 0 /\ RowsAgree(o)
      /\ book[o].status \notin {"ABSENT", "PENDING_TRIGGER"}
  BY <1>3 DEF AloneInv, PlacingRow, OnceInv, PassesAwake
<1>5. /\ UNCHANGED <<req, sent, book, history, cancels>>
      /\ orders' = [orders EXCEPT ![o].status = "FAILED"]
  BY DEF MatchFails, ghosts
<1>6. /\ orders'[o].status = "FAILED" /\ orders'[o].price = orders[o].price
      /\ \A x \in Orders : x # o => orders'[x] = orders[x]
  BY <1>5 DEF TypeOK, OrderRow
<1>7. \A x \in Orders : x # o => RowsAgree(x)' /\ RowUnfilled(x)'
  BY <1>5, <1>6, RowKept DEF AloneInv
<1>8. RowsAgree(o)' /\ RowUnfilled(o)'
  BY <1>4, <1>5, <1>6 DEF RowsAgree, RowUnfilled, Fresh, Unfilled
<1>9. PlacingRow(w)'
  <2>1. ASSUME NEW x \in Orders, Holds(worker'[w].agenda, x)
        PROVE  cancels[x] = 0
    <3>1. Holds(worker[w].agenda, x)
      BY <1>1, <1>2, <2>1, TailHolds
    <3> QED BY <3>1 DEF AloneInv, PlacingRow
  <2> QED BY <1>1, <1>5, <2>1 DEF PlacingRow
<1> QED BY <1>7, <1>8, <1>9 DEF AloneInv

\* A check wakes what is dormant in both tables, and so not cancelled.
LEMMA TriggerAlone ==
  ASSUME TypeOK, OnceInv, AloneInv, NEW w \in Workers, Workers = {w}, Trigger(w)
  PROVE  AloneInv'
<1> PICK ltp : ltp = Current(w).price
  OBVIOUS
<1> PICK hit : hit = Reached(ltp)
  OBVIOUS
<1>1. /\ worker[w].op = "run" /\ worker[w].agenda # <<>>
      /\ worker'[w].op \in {"run", "idle"}
      /\ ltp \in Nat
      /\ \A x \in hit : WokenRow(x, ltp)
      /\ \A x \in Orders \ hit : book'[x] = book[x] /\ orders'[x] = orders[x]
  BY TriggerStep
<1>2. \A s \in Passes(worker'[w].agenda) :
        s \in Passes(Tail(worker[w].agenda)) \/ s.order \in hit
  BY TriggerStep
<1>3. UNCHANGED <<req, sent, history, cancels>>
  BY DEF Trigger, ghosts
<1>4. ASSUME NEW x \in Orders PROVE RowsAgree(x)' /\ RowUnfilled(x)'
  <2>1. RowsAgree(x) /\ RowUnfilled(x) /\ cancels[x] \in Nat
    BY DEF AloneInv, TypeOK
  <2>2. CASE x \in hit
    <3> WokenRow(x, ltp) /\ book[x] \in BookRow /\ orders[x] \in OrderRow
      BY <1>1, <2>2 DEF TypeOK
    <3>1. /\ book'[x].status = "PENDING" /\ orders'[x].status = "PENDING"
          /\ book'[x].price = orders'[x].price
      BY DEF BookRow, OrderRow, WokenRow
    <3>2. /\ orders[x].status # "ABSENT" /\ cancels[x] = 0
          /\ history[x].qty = 0 /\ history[x].value = 0
      BY <2>1 DEF RowsAgree, RowUnfilled, Fresh, WokenRow
    <3> QED BY <1>3, <2>1, <3>1, <3>2 DEF RowsAgree, RowUnfilled
  <2>3. CASE x \notin hit
    BY <1>1, <1>3, <2>1, <2>3, RowKept
  <2> QED BY <2>2, <2>3
<1>5. PlacingRow(w)'
  <2>1. ASSUME NEW x \in Orders, Holds(worker'[w].agenda, x)
        PROVE  cancels[x] = 0
    <3>1. \/ Holds(Tail(worker[w].agenda), x)
          \/ x \in hit
      BY <1>2, <2>1, HeldByPass
    <3>2. CASE Holds(Tail(worker[w].agenda), x)
      <4>1. Holds(worker[w].agenda, x)
        BY <1>1, <3>2, RunningAgenda, TailHolds
      <4> QED BY <4>1 DEF AloneInv, PlacingRow
    <3>3. CASE x \in hit
      <4>1. /\ book[x].status = "PENDING_TRIGGER" /\ RowUnfilled(x)
            /\ cancels[x] \in Nat
        BY <1>1, <3>3 DEF AloneInv, TypeOK, WokenRow
      <4> QED BY <4>1 DEF RowUnfilled
    <3> QED BY <3>1, <3>2, <3>3
  <2> QED BY <1>1, <1>3, <2>1 DEF PlacingRow
<1> QED BY <1>4, <1>5 DEF AloneInv

\* What is cancelled is unfilled in both tables, and with one handler nobody
\* has a pass for it.
LEMMA CancelAlone ==
  ASSUME TypeOK, OnceInv, AloneInv, NEW w \in Workers, Workers = {w},
         NEW o \in Orders, Cancel(w, o)
  PROVE  AloneInv'
<1>1. /\ UNCHANGED <<req, sent, history>>
      /\ orders[o].status \in Unfilled
      /\ orders' = [orders EXCEPT ![o].status = "CANCELLED"]
      /\ book' = [book EXCEPT ![o] = AfterCancel(o)]
      /\ cancels' = [cancels EXCEPT ![o] = @ + 1]
  BY DEF Cancel, Cancellable
<1>2. worker'[w].agenda = <<>> /\ worker'[w].op \in {"refund", "idle"}
  <2>1. worker'[w] = IF IsBuy(o) THEN At("refund", o, ReadTerms(o), NoTerms)
                     ELSE Idle
    BY NewJob DEF Cancel
  <2> QED BY <2>1 DEF At, Idle
<1>3. /\ orders'[o].status = "CANCELLED" /\ orders'[o].price = orders[o].price
      /\ book'[o] = AfterCancel(o)
      /\ \A x \in Orders : x # o => /\ orders'[x] = orders[x]
                                    /\ book'[x] = book[x]
                                    /\ cancels'[x] = cancels[x]
  BY <1>1 DEF TypeOK, OrderRow
<1>4. \A x \in Orders : x # o => RowsAgree(x)' /\ RowUnfilled(x)'
  BY <1>1, <1>3, RowKept DEF AloneInv
<1>5. RowsAgree(o) /\ RowUnfilled(o) /\ book[o] \in BookRow
  BY DEF AloneInv, TypeOK
<1>6. history[o].qty = 0 /\ history[o].value = 0
  BY <1>1, <1>5 DEF RowUnfilled, Fresh
<1>7. \/ book[o].status = "ABSENT" /\ book'[o] = book[o]
      \/ /\ book[o].status # "ABSENT"
         /\ book'[o].status = "CANCELLED" /\ book'[o].price = book[o].price
  BY <1>1, <1>3, <1>5 DEF RowsAgree, AfterCancel, Unfilled, BookRow
<1>8. RowsAgree(o)' /\ RowUnfilled(o)'
  BY <1>1, <1>3, <1>5, <1>6, <1>7 DEF RowsAgree, RowUnfilled, Unfilled, Resting
<1>9. PlacingRow(w)'
  BY <1>2, NothingHeld DEF PlacingRow
<1> QED BY <1>4, <1>8, <1>9 DEF AloneInv

\* What is amended changes its price in both tables, and its status in none.
LEMMA AmendAlone ==
  ASSUME TypeOK, OnceInv, AloneInv, NEW w \in Workers, Workers = {w}, Amend(w)
  PROVE  AloneInv'
<1>1. worker[w].op = "amend" /\ worker[w] \in Job
  BY JobType DEF Amend
<1> PICK o \in Orders : o = worker[w].order
  BY <1>1 DEF Job
<1> PICK a : a = worker[w].want
  OBVIOUS
<1>2. /\ UNCHANGED <<req, sent, history, cancels>>
      /\ orders[o].status \in Unfilled
      /\ orders' = [orders EXCEPT ![o].price = Coalesce(a.price, @),
                                  ![o].qty = Coalesce(a.qty, @),
                                  ![o].trigger = Coalesce(a.trigger, @)]
      /\ book' = [book EXCEPT ![o] = AfterAmend(o, a)]
  BY DEF Amend, Amendable, ghosts
<1>3. worker'[w].agenda = <<>> /\ worker'[w].op = "idle"
  BY NewJob DEF Amend, Idle, At
<1>4. /\ orders'[o].status = orders[o].status
      /\ orders'[o].price = Coalesce(a.price, orders[o].price)
      /\ book'[o] = AfterAmend(o, a)
      /\ \A x \in Orders : x # o => orders'[x] = orders[x] /\ book'[x] = book[x]
  BY <1>2 DEF TypeOK, OrderRow
<1>5. \A x \in Orders : x # o => RowsAgree(x)' /\ RowUnfilled(x)'
  BY <1>2, <1>4, RowKept DEF AloneInv
<1>6. RowsAgree(o) /\ RowUnfilled(o) /\ book[o] \in BookRow
  BY DEF AloneInv, TypeOK
<1>7. \/ book[o].status = "ABSENT" /\ book'[o] = book[o]
      \/ /\ book[o].status # "ABSENT" /\ book'[o].status = book[o].status
         /\ book'[o].price = Coalesce(a.price, book[o].price)
  <2>1. CASE book[o].status = "ABSENT"
    BY <1>4, <2>1 DEF AfterAmend, Unfilled
  <2>2. CASE book[o].status # "ABSENT"
    <3>1. book[o].status \in Unfilled
      BY <1>2, <1>6, <2>2 DEF RowsAgree, Unfilled
    <3>2. book'[o] = [book[o] EXCEPT !.price = Coalesce(a.price, @),
                                     !.rem = Coalesce(a.qty, @),
                                     !.trigger = Coalesce(a.trigger, @)]
      BY <1>4, <3>1 DEF AfterAmend
    <3> QED BY <1>6, <2>2, <3>2 DEF BookRow
  <2> QED BY <2>1, <2>2
<1>8. RowsAgree(o)' /\ RowUnfilled(o)'
  BY <1>2, <1>4, <1>6, <1>7 DEF RowsAgree, RowUnfilled, Fresh
<1>9. PlacingRow(w)'
  BY <1>3, NothingHeld DEF PlacingRow
<1> QED BY <1>5, <1>8, <1>9 DEF AloneInv

\* To begin with there are no rows.
LEMMA InitAlone == Init => AloneInv
<1> SUFFICES ASSUME Init PROVE AloneInv
  OBVIOUS
<1>1. \A w \in Workers : worker[w].agenda = <<>> /\ worker[w].op = "idle"
  BY DEF Init, Idle, At
<1>2. \A w \in Workers : PlacingRow(w)
  BY <1>1, NothingHeld DEF PlacingRow
<1>3. \A o \in Orders : RowsAgree(o) /\ RowUnfilled(o)
  BY DEF Init, RowsAgree, RowUnfilled, Fresh
<1> QED BY <1>2, <1>3 DEF AloneInv

\* With one handler at a time, every step keeps rows and jobs as they should be.
LEMMA NextAlone ==
  ASSUME OneHandler, TypeOK, OnceInv, AloneInv, [Next]_vars
  PROVE  AloneInv'
<1>1. PICK w \in Workers : Workers = {w}
  BY DEF OneHandler
<1>2. CASE UNCHANGED vars
  <2>1. UNCHANGED <<req, sent, orders, book, history, cancels, worker>>
    BY <1>2 DEF vars
  <2>2. \A o \in Orders : RowsAgree(o)' /\ RowUnfilled(o)'
    BY <2>1, RowKept DEF AloneInv
  <2>3. PlacingRow(w)'
    BY <2>1 DEF AloneInv, PlacingRow, Holds, InitialStatus, Dormant
  <2> QED BY <1>1, <2>2, <2>3 DEF AloneInv
<1>3. CASE Step(w)
  BY <1>1, <1>3, QuietAlone, InsertAlone, MatchAlone, MatchFailsAlone,
     TriggerAlone, AmendAlone DEF Step, QuietStep
<1>4. CASE Crash(w)
  BY <1>1, <1>4, QuietAlone DEF QuietStep
<1>5. ASSUME NEW o \in Orders, Request(w, o) PROVE AloneInv'
  BY <1>1, <1>5, QuietAlone, SubmitAlone, CancelAlone DEF Request, QuietStep
<1> QED BY <1>1, <1>2, <1>3, <1>4, <1>5 DEF Next

-----------------------------------------------------------------------------
(* The book and the orders, with one handler at a time.                    *)

\* When no row comes, goes or moves, the rows still have places of their own.
LEMMA PlacesKept ==
  ASSUME PlacesDiffer,
         \A x \in Orders : /\ book'[x].at = book[x].at
                           /\ book'[x].status = "ABSENT" <=>
                                book[x].status = "ABSENT"
  PROVE  PlacesDiffer'
<1>1. Booked' = Booked
  BY DEF Booked
<1>2. Cardinality(Booked)' = Cardinality(Booked)
  BY <1>1
<1>3. Booked \subseteq Orders
  BY DEF Booked
<1> QED BY <1>1, <1>2, <1>3 DEF PlacesDiffer

\* The passes behind the first item of an agenda.
LEMMA LaterPasses ==
  ASSUME TypeOK, OnceInv, StockInv, NEW w \in Workers, worker[w].op = "run",
         worker[w].agenda # <<>>, NEW t \in Passes(Tail(worker[w].agenda))
  PROVE  /\ t \in Passes(worker[w].agenda) /\ t.order \in Orders
         /\ t.qty = book[t.order].rem /\ t.price = book[t.order].price
         /\ Dormant(t.order) /\ Len(worker[w].agenda) # 1
         /\ book[t.order].status \notin {"ABSENT", "PENDING_TRIGGER"}
<1> DEFINE a == worker[w].agenda
<1>1. a \in Seq(Item) /\ a # <<>> /\ NoTwice(a)
  BY RunningAgenda
<1>2. t \in Passes(a) /\ t.order \in Orders
  <2> HIDE DEF a
  <2>1. t \in Passes(Tail(a))
    BY DEF a
  <2> QED BY <1>1, <2>1, TailPasses
<1>3. Len(a) # 1
  <2>1. PICK i \in DOMAIN Tail(a) : t = Tail(a)[i]
    BY DEF Passes
  <2>2. Tail(a) \in Seq(Item) /\ Len(Tail(a)) = Len(a) - 1 /\ Len(a) \in Nat
        /\ DOMAIN Tail(a) = 1..Len(Tail(a))
    <3> HIDE DEF a
    <3> QED BY <1>1, HeadTailProperties, LenProperties, EmptySeq
  <2> HIDE DEF a
  <2> QED BY <2>1, <2>2
<1>4. /\ t.qty = book[t.order].rem /\ t.price = book[t.order].price
      /\ Len(a) = 1 \/ Dormant(t.order)
  BY <1>2 DEF StockInv, PassesCurrent
<1>5. book[t.order].status \notin {"ABSENT", "PENDING_TRIGGER"}
  <2>1. Holds(a, t.order)
    BY <1>2, HeldByPass
  <2> QED BY <1>2, <2>1 DEF OnceInv, PassesAwake
<1> QED BY <1>2, <1>3, <1>4, <1>5

\* Passes that are those of stops, and whose rows are as they were.
LEMMA PassesKept ==
  ASSUME NEW w \in Workers, req' = req,
         \A t \in Passes(worker'[w].agenda) :
           /\ t.qty = book'[t.order].rem /\ t.price = book'[t.order].price
           /\ Dormant(t.order)
  PROVE  PassesCurrent(w)'
BY DEF PassesCurrent, Dormant

\* Quiet steps and failing passes change no stock and drop passes.
LEMMA QuietStock ==
  ASSUME TypeOK, OnceInv, StockInv, NEW w \in Workers, Workers = {w},
         QuietStep(w) \/ MatchFails(w)
  PROVE  StockInv'
<1>1. /\ UNCHANGED <<req, book, history>>
      /\ \A x \in Orders : orders'[x].qty = orders[x].qty
  <2>1. CASE QuietStep(w)
    BY <2>1, QuietKeeps
  <2>2. CASE MatchFails(w)
    BY <2>2 DEF MatchFails, TypeOK, OrderRow
  <2> QED BY <2>1, <2>2
<1>2. \/ worker'[w].agenda = <<>>
      \/ /\ worker[w].op = "run" /\ worker[w].agenda # <<>>
         /\ worker'[w].agenda = Tail(worker[w].agenda)
  BY QuietKeeps, QuietRun
<1>3. PassesCurrent(w)'
  <2>1. CASE worker'[w].agenda = <<>>
    BY <1>1, <2>1, NoPasses, PassesKept
  <2>2. CASE /\ worker[w].op = "run" /\ worker[w].agenda # <<>>
             /\ worker'[w].agenda = Tail(worker[w].agenda)
    <3>1. \A t \in Passes(worker'[w].agenda) :
            /\ t.qty = book'[t.order].rem /\ t.price = book'[t.order].price
            /\ Dormant(t.order)
      BY <1>1, <2>2, LaterPasses
    <3> QED BY <1>1, <3>1, PassesKept
  <2> QED BY <1>2, <2>1, <2>2
<1>4. \A x \in Orders : RemAgrees(x)'
  BY <1>1 DEF StockInv, RemAgrees, Dormant
<1>5. PlacesDiffer'
  BY <1>1, PlacesKept DEF StockInv
<1> QED BY <1>3, <1>4, <1>5 DEF StockInv

\* A POST makes one row, the last, of the quantity that was asked, with one pass
\* unless it is a stop.
LEMMA PlacingStock ==
  ASSUME TypeOK, OnceInv, AloneInv, StockInv, NEW w \in Workers, Workers = {w},
         InsertOrder(w) \/ InsertBookRow(w) \/ InsertBookRowFails(w)
  PROVE  StockInv'
<1>1. worker[w].op \in {"insert", "book"} /\ worker[w] \in Job
  BY JobType DEF InsertOrder, InsertBookRow, InsertBookRowFails
<1> PICK o \in Orders : o = worker[w].order
  BY <1>1 DEF Job
<1>2. worker[w].agenda = <<>> /\ book[o].status = "ABSENT"
  BY <1>1 DEF OnceInv, PlacedOnce, AgendasRun, Placing
<1>3. /\ UNCHANGED <<req, history>>
      /\ \A x \in Orders : x # o => orders'[x] = orders[x] /\ book'[x] = book[x]
  BY DEF InsertOrder, InsertBookRow, InsertBookRowFails, TypeOK, tables, ghosts
<1>4. \A x \in Orders : x # o => RemAgrees(x)'
  BY <1>3 DEF StockInv, RemAgrees, Dormant
<1>5. CASE InsertOrder(w) \/ InsertBookRowFails(w)
  <2>1. book' = book
    BY <1>5 DEF InsertOrder, InsertBookRowFails
  <2>2. worker'[w].agenda = <<>>
    <3>1. \/ worker'[w] = [worker[w] EXCEPT !.op = "book"]
          \/ worker'[w] = Idle
      BY <1>5, NewJob DEF InsertOrder, InsertBookRowFails
    <3> QED BY <1>1, <1>2, <3>1 DEF Job, Idle, At
  <2>3. PassesCurrent(w)'
    BY <1>3, <2>2, NoPasses, PassesKept
  <2>4. RemAgrees(o)'
    BY <1>2, <2>1 DEF RemAgrees
  <2>5. PlacesDiffer'
    BY <2>1, PlacesKept DEF StockInv
  <2> QED BY <1>4, <2>3, <2>4, <2>5 DEF StockInv
<1>6. CASE InsertBookRow(w)
  <2> DEFINE pass == [order |-> o, price |-> req[o].price, qty |-> req[o].qty]
             a == IF Dormant(o) THEN <<>> ELSE <<pass>>
  <2>1. /\ book'[o] = [status |-> InitialStatus(o), price |-> req[o].price,
                       rem |-> req[o].qty, trigger |-> req[o].trigger,
                       at |-> Cardinality(Booked) + 1]
        /\ orders' = orders
    BY <1>6 DEF InsertBookRow, TypeOK
  <2>2. orders[o].status = InitialStatus(o) /\ orders[o].qty = req[o].qty
    BY <1>6 DEF InsertBookRow, AloneInv, PlacingRow
  <2>3. history[o].qty = 0
    <3>1. RowUnfilled(o) /\ Fresh(o)
      BY <1>2 DEF AloneInv, Fresh
    <3> QED BY <3>1 DEF RowUnfilled
  <2>4. req[o].qty \in Nat /\ req[o].price \in Nat
    BY ReqType
  <2>5. RemAgrees(o)'
    BY <1>3, <2>1, <2>2, <2>3, <2>4 DEF RemAgrees, InitialStatus, Dormant
  <2>6. pass \in Item
    BY <2>4 DEF Item
  <2>7. worker'[w].agenda = a
    <3>1. a \in Seq(Item) /\ Proceed(w, a)
      BY <1>6, <2>6 DEF InsertBookRow
    <3>2. worker[w].op # "idle"
      BY <1>1
    <3> HIDE DEF a
    <3> QED BY <3>1, <3>2, ProceedTo
  <2>8. PassesCurrent(w)'
    <3>1. CASE a = <<>>
      BY <1>3, <2>7, <3>1, NoPasses, PassesKept
    <3>2. CASE a # <<>>
      <4>1. a = <<pass>> /\ Len(a) = 1
        BY <3>2
      <4>2. \A t \in Passes(a) : t = pass
        BY <4>1 DEF Passes
      <4>3. \A t \in Passes(a) :
              t.qty = book'[t.order].rem /\ t.price = book'[t.order].price
        BY <2>1, <4>2
      <4> HIDE DEF a
      <4> QED BY <2>7, <4>1, <4>3 DEF PassesCurrent
    <3> QED BY <3>1, <3>2
  <2>9. /\ Booked' = Booked \cup {o} /\ o \notin Booked /\ Booked \subseteq Orders
        /\ IsFiniteSet(Booked)
    <3>1. o \notin Booked /\ Booked \subseteq Orders
      BY <1>2 DEF Booked
    <3>2. book'[o].status # "ABSENT"
      BY <2>1 DEF InitialStatus
    <3>3. Booked' = Booked \cup {o}
      BY <1>3, <3>2 DEF Booked
    <3> QED BY <3>1, <3>3, FS_Subset
  <2>10. /\ Cardinality(Booked') = Cardinality(Booked) + 1
         /\ Cardinality(Booked) \in Nat
    BY <2>9, FS_AddElement, FS_CardinalityType
  <2>11. PlacesDiffer'
    <3>1. book'[o].at = Cardinality(Booked) + 1
      BY <2>1
    <3>2. \A x \in Booked : /\ book'[x] = book[x] /\ book[x].at \in Nat
                            /\ book[x].at <= Cardinality(Booked)
      BY <1>3, <2>9 DEF StockInv, PlacesDiffer, TypeOK, BookRow
    <3>3. \A x, y \in Booked : x # y => book[x].at # book[y].at
      BY DEF StockInv, PlacesDiffer
    <3> QED BY <2>9, <2>10, <3>1, <3>2, <3>3 DEF PlacesDiffer
  <2> QED BY <1>4, <2>5, <2>8, <2>11 DEF StockInv
<1> QED BY <1>5, <1>6

\* What a pass trades is there: with the row, and with the order of the pass.
LEMMA DealWithinRems ==
  ASSUME TypeOK, OnceInv, StockInv, NEW w \in Workers, Match(w),
         NEW t, t = Current(w), NEW d, d = Deal(t)
  PROVE  \A x \in Orders : d.qty[x] > 0 =>
           /\ RemAfter(t, d, x) = book[x].rem - d.qty[x]
           /\ RemAfter(t, d, x) >= 0
<1> DEFINE o == t.order
           rows == Rows(o)
           fill == Allocation(Side(o), t.price, t.qty, rows)
<1>1. /\ t \in Passes(worker[w].agenda) /\ t \in Item /\ o \in Orders
      /\ d.qty \in [Orders -> Nat]
  BY MatchStep
<1>2. t.qty = book[o].rem /\ book[o].status # "ABSENT"
  <2>1. Holds(worker[w].agenda, o)
    BY <1>1, HeldByPass
  <2> QED BY <1>1, <2>1 DEF StockInv, PassesCurrent, OnceInv, PassesAwake
<1>3. t.qty \in Nat /\ t.price \in Nat /\ Side(o) \in {"BUY", "SELL"}
  <2>1. book[o].rem >= 0 /\ book[o].rem \in Int
    BY <1>1, <1>2 DEF StockInv, RemAgrees, TypeOK, BookRow
  <2>2. t.price \in Nat
    BY <1>1 DEF Item
  <2>3. Side(o) \in {"BUY", "SELL"}
    BY <1>1, ReqType DEF Side, RequestType
  <2> QED BY <1>2, <2>1, <2>2, <2>3
<1>4. /\ Candidates(o) \subseteq Booked /\ Candidates(o) \subseteq Orders
      /\ o \notin Candidates(o)
      /\ \A c \in Candidates(o) : book[c].rem > 0
      /\ DOMAIN rows = Candidates(o)
      /\ \A c \in Candidates(o) : rows[c] = book[c]
  BY DEF Candidates, Booked, Resting, Rows
<1>5. Shelf(rows) /\ Queued(rows)
  <2>1. IsFiniteSet(DOMAIN rows)
    BY <1>4, FS_Subset
  <2>2. \A c \in Candidates(o) :
          book[c].price \in Nat /\ book[c].at \in Nat /\ book[c].rem \in Nat
    BY <1>4 DEF TypeOK, BookRow
  <2>3. \A b, c \in Candidates(o) : b # c => book[b].at # book[c].at
    BY <1>4 DEF StockInv, PlacesDiffer
  <2> QED BY <1>4, <2>1, <2>2, <2>3 DEF Shelf, Queued
<1>6. d.qty[o] = SumFunctionOnSet(fill, DOMAIN rows)
  BY <1>1 DEF Deal
<1>7. \A c \in Candidates(o) : d.qty[c] = fill[c]
  BY <1>4 DEF Deal
<1>8. d.qty[o] <= t.qty
  <2> DEFINE all == SumFunctionOnSet(Remaining(rows),
                                     Crossing(Side(o), t.price, rows))
  <2>1. /\ SumFunctionOnSet(fill, DOMAIN rows) = Least(all, t.qty)
        /\ all \in Nat
    <3> HIDE DEF rows
    <3> QED BY <1>3, <1>5, TotalFill
  <2> HIDE DEF fill, rows, all
  <2> QED BY <1>3, <1>6, <2>1 DEF Least
<1>9. \A c \in Candidates(o) : fill[c] \in 0..rows[c].rem
  <2> HIDE DEF rows
  <2>1. \A c \in DOMAIN rows :
          Allocation(Side(o), t.price, t.qty, rows)[c] \in 0..rows[c].rem
    BY <1>3, <1>5, FillType
  <2> QED BY <1>4, <2>1
<1>10. SUFFICES ASSUME NEW x \in Orders, d.qty[x] > 0
                PROVE  /\ RemAfter(t, d, x) = book[x].rem - d.qty[x]
                       /\ RemAfter(t, d, x) >= 0
  OBVIOUS
<1>11. CASE x = o
  <2>1. RemAfter(t, d, x) = t.qty - d.qty[x] /\ d.qty[x] \in Nat
    BY <1>1, <1>11 DEF RemAfter
  <2> QED BY <1>2, <1>3, <1>8, <1>11, <2>1
<1>12. CASE x # o
  <2>1. x \in Candidates(o)
    <3>1. TradedRow(t, d, x)
      BY <1>10, MatchStep
    <3> QED BY <1>12, <3>1 DEF TradedRow
  <2>2. /\ RemAfter(t, d, x) = book[x].rem - d.qty[x]
        /\ d.qty[x] = fill[x] /\ fill[x] \in 0..rows[x].rem
        /\ rows[x] = book[x]
    BY <1>4, <1>7, <1>9, <1>12, <2>1 DEF RemAfter
  <2>3. book[x].rem \in Int
    BY DEF TypeOK, BookRow
  <2> HIDE DEF fill, rows
  <2> QED BY <2>2, <2>3
<1> QED BY <1>11, <1>12

\* A pass leaves alone the stops whose passes come after it.
LEMMA MatchStock ==
  ASSUME StopsOnOneSide, TypeOK, OnceInv, StockInv,
         NEW w \in Workers, Workers = {w}, Match(w)
  PROVE  StockInv'
<1> PICK t : t = Current(w)
  OBVIOUS
<1> PICK d : d = Deal(t)
  OBVIOUS
<1>1. /\ worker[w].op = "run" /\ worker[w].agenda # <<>>
      /\ Passes(worker'[w].agenda) \subseteq Passes(Tail(worker[w].agenda))
      /\ t \in Passes(worker[w].agenda) /\ t.order \in Orders
      /\ d.qty \in [Orders -> Nat]
  BY MatchStep
<1>2. \A x \in Orders : /\ d.qty[x] > 0 => TradedRow(t, d, x)
                        /\ d.qty[x] = 0 => UntradedRow(d, x)
  BY MatchStep
<1>3. /\ req' = req
      /\ \A x \in Orders : history'[x].qty = history[x].qty + d.qty[x]
  BY DEF Match
<1>4. ASSUME NEW x \in Orders, d.qty[x] > 0
      PROVE  /\ book'[x].rem = book[x].rem - d.qty[x] /\ book'[x].rem >= 0
             /\ book'[x].status \in {"PARTIALLY_EXECUTED", "EXECUTED"}
             /\ book'[x].at = book[x].at /\ orders'[x].qty = orders[x].qty
             /\ book[x].status # "ABSENT"
  <2>1. /\ RemAfter(t, d, x) = book[x].rem - d.qty[x]
        /\ RemAfter(t, d, x) >= 0
    BY <1>4, DealWithinRems
  <2>2. book[x] \in BookRow /\ orders[x] \in OrderRow
    BY DEF TypeOK
  <2>3. FilledStatus(RemAfter(t, d, x)) \in {"PARTIALLY_EXECUTED", "EXECUTED"}
    BY DEF FilledStatus
  <2>4. TradedRow(t, d, x)
    BY <1>2, <1>4
  <2>5. /\ book'[x].rem = RemAfter(t, d, x)
        /\ book'[x].status = FilledStatus(RemAfter(t, d, x))
        /\ book'[x].at = book[x].at /\ orders'[x].qty = orders[x].qty
    BY <2>2, <2>4 DEF TradedRow, BookRow, OrderRow
  <2>6. book[x].status # "ABSENT"
    <3>1. CASE x = t.order
      <4>1. Holds(worker[w].agenda, x)
        BY <1>1, <3>1, HeldByPass
      <4> QED BY <4>1 DEF OnceInv, PassesAwake
    <3>2. CASE x \in Candidates(t.order)
      BY <3>2 DEF Candidates, Resting
    <3> QED BY <2>4, <3>1, <3>2 DEF TradedRow
  <2> QED BY <2>1, <2>3, <2>5, <2>6
<1>5. ASSUME NEW x \in Orders PROVE RemAgrees(x)'
  <2>1. RemAgrees(x)
    BY DEF StockInv
  <2>2. CASE d.qty[x] = 0
    <3>1. book'[x] = book[x] /\ orders'[x] = orders[x]
      BY <1>2, <2>2 DEF UntradedRow
    <3>2. history'[x].qty = history[x].qty
      <4>1. history[x].qty \in Nat
        BY DEF TypeOK
      <4> QED BY <1>3, <2>2, <4>1
    <3> QED BY <1>3, <2>1, <3>1, <3>2 DEF RemAgrees, Dormant
  <2>3. CASE d.qty[x] > 0
    <3>1. /\ book'[x].rem = book[x].rem - d.qty[x] /\ book'[x].rem >= 0
          /\ book'[x].status \in {"PARTIALLY_EXECUTED", "EXECUTED"}
          /\ orders'[x].qty = orders[x].qty /\ book[x].status # "ABSENT"
      BY <1>4, <2>3
    <3>2. /\ history[x].qty \in Nat /\ orders[x].qty \in Nat
          /\ d.qty[x] \in Nat /\ book[x].rem \in Int
      BY <1>1 DEF TypeOK, OrderRow, BookRow
    <3>3. book[x].rem = orders[x].qty - history[x].qty
      BY <2>1, <3>1 DEF RemAgrees
    <3>4. book'[x].rem = orders'[x].qty - history'[x].qty
      BY <1>3, <3>1, <3>2, <3>3
    <3> QED BY <3>1, <3>4 DEF RemAgrees
  <2> QED BY <1>1, <2>2, <2>3
<1>6. PlacesDiffer'
  <2>1. ASSUME NEW x \in Orders
        PROVE  /\ book'[x].at = book[x].at
               /\ book'[x].status = "ABSENT" <=> book[x].status = "ABSENT"
    <3>1. CASE d.qty[x] = 0
      BY <1>2, <3>1 DEF UntradedRow
    <3>2. CASE d.qty[x] > 0
      BY <1>4, <3>2
    <3> QED BY <1>1, <3>1, <3>2
  <2> QED BY <2>1, PlacesKept DEF StockInv
<1>7. ASSUME NEW s \in Passes(worker'[w].agenda)
      PROVE  /\ s.qty = book'[s.order].rem /\ s.price = book'[s.order].price
             /\ Dormant(s.order)
  <2>1. s \in Passes(Tail(worker[w].agenda))
    BY <1>1
  <2>2. /\ s.order \in Orders
        /\ s.qty = book[s.order].rem /\ s.price = book[s.order].price
        /\ Dormant(s.order) /\ Len(worker[w].agenda) # 1
    BY <1>1, <2>1, LaterPasses
  <2>3. Dormant(t.order)
    BY <1>1, <2>2 DEF StockInv, PassesCurrent
  <2>4. s.order # t.order
    <3> DEFINE a == worker[w].agenda
    <3>1. /\ a \in Seq(Item) /\ a # <<>> /\ NoTwice(a)
          /\ t = Head(a) /\ Head(a).order # NoOrder
      BY <1>1, RunningAgenda
    <3> HIDE DEF a
    <3>2. \A r \in Passes(Tail(a)) : r.order # Head(a).order
      BY <3>1, TailPasses
    <3> QED BY <2>1, <3>1, <3>2 DEF a
  <2>5. Side(s.order) = Side(t.order)
    BY <1>1, <2>2, <2>3 DEF StopsOnOneSide
  <2>6. s.order \notin Candidates(t.order)
    BY <2>5 DEF Candidates
  <2>7. ~(d.qty[s.order] > 0)
    BY <1>2, <2>2, <2>4, <2>6 DEF TradedRow
  <2>8. d.qty[s.order] = 0
    BY <1>1, <2>2, <2>7
  <2>9. book'[s.order] = book[s.order]
    BY <1>2, <2>2, <2>8 DEF UntradedRow
  <2> QED BY <2>2, <2>9
<1>8. PassesCurrent(w)'
  BY <1>3, <1>7, PassesKept
<1> QED BY <1>5, <1>6, <1>8 DEF StockInv

\* A check queues passes of stops, with what is left of them.
LEMMA TriggerStock ==
  ASSUME TypeOK, OnceInv, StockInv, NEW w \in Workers, Workers = {w}, Trigger(w)
  PROVE  StockInv'
<1> PICK ltp : ltp = Current(w).price
  OBVIOUS
<1> PICK hit : hit = Reached(ltp)
  OBVIOUS
<1>1. /\ worker[w].op = "run" /\ worker[w].agenda # <<>>
      /\ ltp \in Nat /\ hit \subseteq Orders
      /\ \A x \in hit : WokenRow(x, ltp)
      /\ \A x \in Orders \ hit : book'[x] = book[x] /\ orders'[x] = orders[x]
  BY TriggerStep
<1>2. \A s \in Passes(worker'[w].agenda) :
        \/ s \in Passes(Tail(worker[w].agenda))
        \/ s.order \in hit /\ WokenPass(s, ltp)
  BY TriggerStep
<1>3. UNCHANGED <<req, history>>
  BY DEF Trigger
<1>4. ASSUME NEW x \in hit
      PROVE  /\ book'[x].rem = book[x].rem /\ book'[x].at = book[x].at
             /\ book'[x].price = EffectivePrice(x, ltp)
             /\ book'[x].status = "PENDING" /\ book[x].status = "PENDING_TRIGGER"
             /\ orders'[x].qty = orders[x].qty
  <2>1. WokenRow(x, ltp) /\ book[x] \in BookRow /\ orders[x] \in OrderRow
    BY <1>1 DEF TypeOK
  <2> QED BY <2>1 DEF WokenRow, BookRow, OrderRow
<1>5. ASSUME NEW x \in Orders PROVE RemAgrees(x)'
  <2>1. RemAgrees(x)
    BY DEF StockInv
  <2>2. CASE x \in hit
    BY <1>3, <1>4, <2>1, <2>2 DEF RemAgrees
  <2>3. CASE x \notin hit
    BY <1>1, <1>3, <2>1, <2>3 DEF RemAgrees, Dormant
  <2> QED BY <2>2, <2>3
<1>6. PlacesDiffer'
  <2>1. \A x \in Orders : /\ book'[x].at = book[x].at
                          /\ book'[x].status = "ABSENT" <=>
                               book[x].status = "ABSENT"
    BY <1>1, <1>4
  <2> QED BY <2>1, PlacesKept DEF StockInv
<1>7. ASSUME NEW s \in Passes(worker'[w].agenda)
      PROVE  /\ s.qty = book'[s.order].rem /\ s.price = book'[s.order].price
             /\ Dormant(s.order)
  <2>1. CASE s \in Passes(Tail(worker[w].agenda))
    <3>1. /\ s.order \in Orders /\ Dormant(s.order)
          /\ s.qty = book[s.order].rem /\ s.price = book[s.order].price
          /\ book[s.order].status # "PENDING_TRIGGER"
      BY <1>1, <2>1, LaterPasses
    <3>2. book'[s.order] = book[s.order]
      BY <1>1, <1>4, <3>1
    <3> QED BY <3>1, <3>2
  <2>2. CASE s.order \in hit /\ WokenPass(s, ltp)
    <3>1. Dormant(s.order)
      BY <1>1, <1>4, <2>2 DEF StockInv, RemAgrees
    <3> QED BY <1>4, <2>2, <3>1 DEF WokenPass
  <2> QED BY <1>2, <2>1, <2>2
<1>8. PassesCurrent(w)'
  BY <1>3, <1>7, PassesKept
<1> QED BY <1>5, <1>6, <1>8 DEF StockInv

\* A cancel leaves the stock alone, and an amendment of what has not traded
\* changes what was asked and what is left alike.
LEMMA ClientStock ==
  ASSUME TypeOK, OnceInv, AloneInv, StockInv, NEW w \in Workers, Workers = {w},
         \/ Amend(w)
         \/ \E o \in Orders : Submit(w, o) \/ Cancel(w, o)
  PROVE  StockInv'
<1>1. UNCHANGED <<req, history>>
  BY DEF Amend, Submit, Cancel, ghosts
<1>2. worker'[w].agenda = <<>>
  <2>1. ASSUME NEW o \in Orders, Submit(w, o) \/ Cancel(w, o)
        PROVE  worker'[w].agenda = <<>>
    <3>1. \/ worker'[w] = At("insert", o, NoTerms, NoTerms)
          \/ worker'[w] = At("refund", o, ReadTerms(o), NoTerms)
          \/ worker'[w] = Idle
      BY <2>1, NewJob DEF Submit, Cancel
    <3> QED BY <3>1 DEF At, Idle
  <2>2. CASE Amend(w)
    BY <2>2, NewJob DEF Amend, At, Idle
  <2> QED BY <2>1, <2>2
<1>3. PassesCurrent(w)'
  BY <1>1, <1>2, NoPasses, PassesKept
<1>4. ASSUME NEW o \in Orders, Submit(w, o) PROVE StockInv'
  <2>1. UNCHANGED <<book, orders>>
    BY <1>4 DEF Submit
  <2>2. \A x \in Orders : RemAgrees(x)'
    BY <1>1, <2>1 DEF StockInv, RemAgrees, Dormant
  <2> QED BY <1>3, <2>1, <2>2, PlacesKept DEF StockInv
<1>5. ASSUME NEW o \in Orders, Cancel(w, o) PROVE StockInv'
  <2>1. /\ orders'[o].qty = orders[o].qty /\ book'[o] = AfterCancel(o)
        /\ \A x \in Orders : x # o => orders'[x] = orders[x]
                                      /\ book'[x] = book[x]
    BY <1>5 DEF Cancel, TypeOK, OrderRow
  <2>2. /\ book'[o].rem = book[o].rem /\ book'[o].at = book[o].at
        /\ book'[o].status = "ABSENT" <=> book[o].status = "ABSENT"
        /\ book'[o].status # "PENDING_TRIGGER"
    <3>1. book[o] \in BookRow
      BY DEF TypeOK
    <3> QED BY <2>1, <3>1 DEF AfterCancel, BookRow
  <2>3. \A x \in Orders : RemAgrees(x)'
    BY <1>1, <2>1, <2>2 DEF StockInv, RemAgrees, Dormant
  <2>4. PlacesDiffer'
    BY <2>1, <2>2, PlacesKept DEF StockInv
  <2> QED BY <1>3, <2>3, <2>4 DEF StockInv
<1>6. CASE Amend(w)
  <2>1. worker[w] \in Job
    BY <1>6, JobType DEF Amend
  <2> PICK o \in Orders : o = worker[w].order
    BY <2>1 DEF Job
  <2> PICK a : a = worker[w].want
    OBVIOUS
  <2>2. /\ orders[o].status \in Unfilled
        /\ orders'[o].qty = Coalesce(a.qty, orders[o].qty)
        /\ book'[o] = AfterAmend(o, a)
        /\ \A x \in Orders : x # o => orders'[x] = orders[x]
                                      /\ book'[x] = book[x]
    BY <1>6 DEF Amend, Amendable, TypeOK, OrderRow
  <2>3. /\ RemAgrees(o) /\ RowsAgree(o) /\ RowUnfilled(o) /\ book[o] \in BookRow
        /\ orders[o].qty \in Nat /\ history[o].qty \in Nat /\ a.qty \in Nat
    BY <2>1 DEF StockInv, AloneInv, TypeOK, OrderRow, Job, Terms
  <2>4. history[o].qty = 0
    BY <2>2, <2>3 DEF RowUnfilled, Fresh
  <2>5. /\ book'[o].status = book[o].status /\ book'[o].at = book[o].at
        /\ book[o].status # "ABSENT" =>
             book'[o].rem = Coalesce(a.qty, book[o].rem)
    <3>1. CASE book[o].status = "ABSENT"
      BY <2>2, <3>1 DEF AfterAmend, Unfilled
    <3>2. CASE book[o].status # "ABSENT"
      <4>1. book[o].status \in Unfilled
        BY <2>2, <2>3, <3>2 DEF RowsAgree, Unfilled
      <4>2. book'[o] = [book[o] EXCEPT !.price = Coalesce(a.price, @),
                                       !.rem = Coalesce(a.qty, @),
                                       !.trigger = Coalesce(a.trigger, @)]
        BY <2>2, <4>1 DEF AfterAmend
      <4> QED BY <2>3, <4>2 DEF BookRow
    <3> QED BY <3>1, <3>2
  <2>6. RemAgrees(o)'
    <3>1. book[o].status # "ABSENT" =>
            /\ book'[o].rem >= 0
            /\ book'[o].rem = orders'[o].qty - history'[o].qty
      BY <1>1, <2>2, <2>3, <2>4, <2>5 DEF RemAgrees, Coalesce
    <3> QED BY <1>1, <2>3, <2>5, <3>1 DEF RemAgrees, Dormant
  <2>7. \A x \in Orders : RemAgrees(x)'
    BY <1>1, <2>2, <2>6 DEF StockInv, RemAgrees, Dormant
  <2>8. PlacesDiffer'
    BY <2>2, <2>5, PlacesKept DEF StockInv
  <2> QED BY <1>3, <2>7, <2>8 DEF StockInv
<1> QED BY <1>4, <1>5, <1>6

\* To begin with nothing is booked.
LEMMA InitStock == Init => StockInv
<1> SUFFICES ASSUME Init PROVE StockInv
  OBVIOUS
<1>1. \A w \in Workers : worker[w].agenda = <<>>
  BY DEF Init, Idle, At
<1>2. \A w \in Workers : PassesCurrent(w)
  BY <1>1, NoPasses DEF PassesCurrent
<1>3. \A o \in Orders : book[o].status = "ABSENT"
  BY DEF Init
<1> QED BY <1>2, <1>3 DEF StockInv, RemAgrees, PlacesDiffer, Booked

\* With one handler at a time and stops on one side, every step keeps the stock.
LEMMA NextStock ==
  ASSUME OneHandler, StopsOnOneSide, TypeOK, OnceInv, AloneInv, StockInv,
         [Next]_vars
  PROVE  StockInv'
<1>1. PICK w \in Workers : Workers = {w}
  BY DEF OneHandler
<1>2. CASE UNCHANGED vars
  <2>1. UNCHANGED <<req, orders, book, history, worker>>
    BY <1>2 DEF vars
  <2>2. \A o \in Orders : RemAgrees(o)'
    BY <2>1 DEF StockInv, RemAgrees, Dormant
  <2>3. PassesCurrent(w)'
    BY <2>1 DEF StockInv, PassesCurrent, Dormant
  <2> QED BY <1>1, <2>1, <2>2, <2>3, PlacesKept DEF StockInv
<1>3. CASE Step(w)
  BY <1>1, <1>3, QuietStock, PlacingStock, MatchStock, TriggerStock,
     ClientStock DEF Step, QuietStep
<1>4. CASE Crash(w)
  BY <1>1, <1>4, QuietStock DEF QuietStep
<1>5. ASSUME NEW o \in Orders, Request(w, o) PROVE StockInv'
  BY <1>1, <1>5, QuietStock, ClientStock DEF Request, QuietStep
<1> QED BY <1>1, <1>2, <1>3, <1>4, <1>5 DEF Next

\* What was asked for is what it was.
LEMMA RequestsStay == ASSUME [Next]_vars PROVE req' = req
<1>1. CASE UNCHANGED vars
  BY <1>1 DEF vars
<1>2. ASSUME NEW w \in Workers, Step(w) \/ Crash(w) PROVE req' = req
  BY <1>2
     DEF Step, Crash, InsertOrder, InsertOrderFails, InsertBookRow,
         InsertBookRowFails, MatchNothing, Match, MatchFails, MatchAborts,
         Trigger, TriggerFails, Refund, Charge, ChargeRefused, Amend, AmendLost,
         Undo
<1>3. ASSUME NEW w \in Workers, NEW o \in Orders, Request(w, o)
      PROVE  req' = req
  BY <1>3 DEF Request, Submit, Cancel, AmendRead
<1> QED BY <1>1, <1>2, <1>3 DEF Next

\* All stops go on being on one side, and no BUY becomes a STOP.
LEMMA OneSideStays == Spec /\ StopsOnOneSide => []StopsOnOneSide
<1>1. StopsOnOneSide /\ [Next]_vars => StopsOnOneSide'
  BY RequestsStay DEF StopsOnOneSide, Dormant, Side
<1> QED BY <1>1, PTL DEF Spec

LEMMA NoStopBuysStay == Spec /\ NoStopBuys => []NoStopBuys
<1>1. NoStopBuys /\ [Next]_vars => NoStopBuys'
  BY RequestsStay DEF NoStopBuys, IsBuy, Side
<1> QED BY <1>1, PTL DEF Spec

\* Every state of a schedule of one handler at a time satisfies the first
\* invariant; of one with stops on one side, both.
LEMMA AloneInvariant == ASSUME OneHandler PROVE Spec => []AloneInv
<1>1. TypeOK /\ OnceInv /\ AloneInv /\ [Next]_vars => AloneInv'
  BY NextAlone
<1> QED BY <1>1, InitAlone, OnceInvariant, TypeCorrect, PTL DEF Spec

LEMMA StockInvariant ==
  ASSUME OneHandler
  PROVE  Spec /\ StopsOnOneSide => []StockInv
<1>1. /\ StopsOnOneSide /\ TypeOK /\ OnceInv /\ AloneInv /\ StockInv
      /\ [Next]_vars
      => StockInv'
  BY NextStock
<1> QED BY <1>1, InitStock, OneSideStays, AloneInvariant, OnceInvariant,
        TypeCorrect, PTL DEF Spec

\* While handlers run one after the other, what is cancelled has not traded and
\* never does, also when workers die between two of their transactions.
THEOREM CancelledUnfilled ==
  ASSUME OneHandler
  PROVE  Spec => []CancelledStaysUnfilled
<1>1. TypeOK /\ AloneInv => CancelledStaysUnfilled
  BY DEF AloneInv, RowUnfilled, CancelledStaysUnfilled
<1> QED BY <1>1, AloneInvariant, TypeCorrect, PTL

\* While handlers run one after the other, and all stops wait on one side, what
\* a client reads in orders is what the engine reads in order_book, also when
\* workers die between two of their transactions.
THEOREM BookMirrorsTheOrders ==
  ASSUME OneHandler
  PROVE  Spec /\ StopsOnOneSide => []BookMirrorsOrders
<1>1. AloneInv /\ StockInv => BookMirrorsOrders
  BY DEF AloneInv, StockInv, RowsAgree, RemAgrees, BookMirrorsOrders, Booked
<1> QED BY <1>1, AloneInvariant, StockInvariant, PTL

-----------------------------------------------------------------------------
(* The cash of a BUY, with one handler at a time and no faults.            *)

\* The cash of an order is being moved by the job.
Moving(o, job) == job.op \in {"amend", "refund"} /\ job.order = o

\* What is due while nobody moves cash.
Still(o) == IF cancels[o] > 0 THEN 0 ELSE Owed(o)

\* A BUY whose terms, cancels and payments stay, and whose cash is not moved,
\* still holds what is due.
LEMMA PaidKept ==
  ASSUME NEW x \in Orders, PaidRow(x), NEW w \in Workers, Workers = {w},
         req' = req, x \in sent' => x \in sent, paid'[x] = paid[x],
         orders'[x].status = "ABSENT" <=> orders[x].status = "ABSENT",
         orders'[x].price = orders[x].price, orders'[x].qty = orders[x].qty,
         cancels'[x] = cancels[x],
         IsBuy(x) => ~Moving(x, worker[w]) /\ ~Moving(x, worker'[w])
  PROVE  PaidRow(x)'
<1> SUFFICES ASSUME IsBuy(x)
             PROVE  PaidRow(x)'
  BY DEF PaidRow, IsBuy, Side
<1>1. Due(x, worker[w]) = Still(x)
  BY DEF Due, Moving, Still
<1>2. Due(x, worker[w])' = Still(x)'
  BY DEF Due, Moving, Still
<1>3. Still(x)' = Still(x)
  BY DEF Still, Owed
<1> QED BY <1>1, <1>2, <1>3 DEF PaidRow

\* A row of orders goes on being there.
LEMMA RowStays ==
  ASSUME TypeOK, OnceInv, AloneInv, NEW w \in Workers, Match(w) \/ MatchFails(w),
         NEW x \in Orders
  PROVE  /\ orders'[x].status = "ABSENT" <=> orders[x].status = "ABSENT"
         /\ orders'[x].price = orders[x].price /\ orders'[x].qty = orders[x].qty
<1>0. orders[x] \in OrderRow /\ RowsAgree(x)
  BY DEF TypeOK, AloneInv
<1>1. CASE Match(w)
  <2> PICK t : t = Current(w)
    OBVIOUS
  <2> PICK d : d = Deal(t)
    OBVIOUS
  <2>1. /\ d.qty \in [Orders -> Nat] /\ t.order \in Orders
        /\ t \in Passes(worker[w].agenda)
        /\ d.qty[x] > 0 => TradedRow(t, d, x)
        /\ d.qty[x] = 0 => UntradedRow(d, x)
    BY <1>1, MatchStep
  <2>2. CASE d.qty[x] > 0
    <3>1. TradedRow(t, d, x)
      BY <2>1, <2>2
    <3>2. book[x].status # "ABSENT"
      <4>1. CASE x = t.order
        <5>1. Holds(worker[w].agenda, x)
          BY <2>1, <4>1, HeldByPass
        <5> QED BY <5>1 DEF OnceInv, PassesAwake
      <4>2. CASE x \in Candidates(t.order)
        BY <4>2 DEF Candidates, Resting
      <4> QED BY <3>1, <4>1, <4>2 DEF TradedRow
    <3>3. orders[x].status # "ABSENT"
      BY <1>0, <3>2 DEF RowsAgree
    <3> QED BY <1>0, <3>1, <3>3 DEF TradedRow, FilledStatus, OrderRow
  <2>3. CASE d.qty[x] = 0
    BY <2>1, <2>3 DEF UntradedRow
  <2> QED BY <2>1, <2>2, <2>3
<1>2. CASE MatchFails(w)
  <2>1. Current(w).order \in Orders
    BY <1>2, QuietRun, RunningAgenda DEF MatchFails, Matching
  <2> PICK o \in Orders : o = Current(w).order
    BY <2>1
  <2>2. orders' = [orders EXCEPT ![o].status = "FAILED"]
    BY <1>2 DEF MatchFails
  <2>3. CASE x # o
    BY <2>2, <2>3 DEF TypeOK
  <2>4. CASE x = o
    <3>1. Holds(worker[w].agenda, o)
      <4> DEFINE a == worker[w].agenda
      <4>1. a \in Seq(Item) /\ a # <<>> /\ NoTwice(a) /\ Head(a) = Current(w)
            /\ Head(a).order # NoOrder
        BY <1>2, <2>1, QuietRun, RunningAgenda
      <4> HIDE DEF a
      <4>2. Head(a) \in Passes(a)
        BY <4>1, TailPasses
      <4> QED BY <4>1, <4>2, HeldByPass DEF a
    <3>2. orders[o].status # "ABSENT"
      BY <3>1 DEF OnceInv, PassesAwake, AloneInv, RowsAgree
    <3>3. /\ orders'[o].status = "FAILED"
          /\ orders'[o].price = orders[o].price /\ orders'[o].qty = orders[o].qty
      BY <1>0, <2>2, <2>4 DEF TypeOK, OrderRow
    <3> QED BY <2>4, <3>2, <3>3
  <2> QED BY <2>3, <2>4
<1> QED BY <1>1, <1>2

\* A check leaves the price of a BUY as it is, since no BUY takes the price that
\* triggers it.
LEMMA TriggerKeepsBuys ==
  ASSUME NoStopBuys, TypeOK, OnceInv, AloneInv, ReservedInv,
         NEW w \in Workers, Trigger(w), NEW x \in Orders, IsBuy(x)
  PROVE  /\ orders'[x].status = "ABSENT" <=> orders[x].status = "ABSENT"
         /\ orders'[x].price = orders[x].price
         /\ orders'[x].qty = orders[x].qty
<1> PICK ltp : ltp = Current(w).price
  OBVIOUS
<1> PICK hit : hit = Reached(ltp)
  OBVIOUS
<1>1. /\ x \in hit => WokenRow(x, ltp)
      /\ x \notin hit => orders'[x] = orders[x]
  BY TriggerStep
<1>2. CASE x \in hit
  <2>1. /\ WokenRow(x, ltp) /\ RowsAgree(x) /\ PaidRow(x)
        /\ orders[x] \in OrderRow
    BY <1>1, <1>2 DEF AloneInv, TypeOK, ReservedInv
  <2>2. /\ orders[x].status = "PENDING_TRIGGER"
        /\ book[x].price = orders[x].price
    BY <2>1 DEF WokenRow, RowsAgree
  <2>3. orders[x].price > 0 /\ orders[x].price \in Nat
    BY <2>1, <2>2 DEF PaidRow, OrderRow
  <2>4. req[x].type # "STOP"
    BY DEF NoStopBuys
  <2>5. EffectivePrice(x, ltp) = orders[x].price
    BY <2>1, <2>2, <2>3, <2>4 DEF EffectivePrice
  <2> QED BY <2>1, <2>2, <2>5 DEF WokenRow, OrderRow
<1>3. CASE x \notin hit
  BY <1>1, <1>3
<1> QED BY <1>2, <1>3

\* Passes, checks and refusals move no cash of a BUY and leave its terms as they
\* are.
LEMMA RunReserved ==
  ASSUME NoStopBuys, TypeOK, OnceInv, AloneInv, ReservedInv,
         NEW w \in Workers, Workers = {w},
         \/ InsertBookRow(w) \/ MatchNothing(w) \/ Match(w) \/ MatchFails(w)
         \/ MatchAborts(w) \/ Trigger(w) \/ TriggerFails(w) \/ ChargeRefused(w)
  PROVE  ReservedInv'
<1>1. worker[w].op \in {"book", "run", "charge"} /\ worker[w] \in Job
  BY JobType
     DEF InsertBookRow, MatchNothing, Match, MatchFails, MatchAborts, Trigger,
         TriggerFails, ChargeRefused, Matching, Checking
<1>2. worker'[w].op \in {"run", "idle"}
  <2>1. CASE InsertBookRow(w)
    <3> DEFINE a == IF Dormant(worker[w].order) THEN <<>>
                    ELSE <<[order |-> worker[w].order,
                            price |-> req[worker[w].order].price,
                            qty |-> req[worker[w].order].qty]>>
    <3>1. Becomes(w, IF a = <<>> THEN Idle
                     ELSE [worker[w] EXCEPT !.op = "run", !.agenda = a])
      BY <2>1 DEF InsertBookRow, Proceed
    <3> HIDE DEF a
    <3> DEFINE job == [worker[w] EXCEPT !.op = "run", !.agenda = a]
    <3>2. job.op = "run" /\ Idle.op = "idle"
      BY <1>1 DEF Job, Idle, At
    <3>3. worker'[w] = IF a = <<>> THEN Idle ELSE job
      BY <3>1, NewJob
    <3> HIDE DEF job
    <3> QED BY <3>2, <3>3
  <2>2. CASE ChargeRefused(w)
    BY <2>2, NewJob DEF ChargeRefused, Idle, At
  <2> QED BY <2>1, <2>2, QuietRun, MatchStep, TriggerStep
<1>3. UNCHANGED <<req, sent, paid, cancels>>
  BY DEF InsertBookRow, MatchNothing, Match, MatchFails, MatchAborts, Trigger,
         TriggerFails, ChargeRefused, ghosts
<1>4. ASSUME NEW x \in Orders, IsBuy(x)
      PROVE  /\ orders'[x].status = "ABSENT" <=> orders[x].status = "ABSENT"
             /\ orders'[x].price = orders[x].price
             /\ orders'[x].qty = orders[x].qty
  <2>1. CASE Match(w) \/ MatchFails(w)
    BY <2>1, RowStays
  <2>2. CASE Trigger(w)
    BY <1>4, <2>2, TriggerKeepsBuys
  <2>3. CASE UNCHANGED orders
    BY <2>3
  <2> QED BY <2>1, <2>2, <2>3
          DEF InsertBookRow, MatchNothing, MatchAborts, TriggerFails,
              ChargeRefused, tables
<1>5. ASSUME NEW x \in Orders PROVE PaidRow(x)'
  <2>1. CASE IsBuy(x)
    <3>1. ~Moving(x, worker[w]) /\ ~Moving(x, worker'[w]) /\ PaidRow(x)
      BY <1>1, <1>2 DEF Moving, ReservedInv
    <3> QED BY <1>3, <1>4, <2>1, <3>1, PaidKept
  <2>2. CASE ~IsBuy(x)
    BY <1>3, <2>2 DEF PaidRow, IsBuy, Side
  <2> QED BY <2>1, <2>2
<1>6. JobCurrent(worker[w])'
  BY <1>2 DEF JobCurrent
<1> QED BY <1>5, <1>6 DEF ReservedInv

\* A POST pays for the order that it then inserts.
LEMMA PlacingReserved ==
  ASSUME TypeOK, OnceInv, AloneInv, ReservedInv,
         NEW w \in Workers, Workers = {w},
         InsertOrder(w) \/ \E o \in Orders : Submit(w, o)
  PROVE  ReservedInv'
<1>1. CASE \E o \in Orders : Submit(w, o)
  <2> PICK o \in Orders : Submit(w, o)
    BY <1>1
  <2>1. /\ UNCHANGED <<req, orders, cancels>> /\ sent' = sent \cup {o}
        /\ paid' = [paid EXCEPT ![o] = Hold(req[o])] /\ o \notin sent
        /\ IsBuy(o) => req[o].price > 0
        /\ worker[w] = Idle /\ worker'[w] = At("insert", o, NoTerms, NoTerms)
    BY NewJob DEF Submit
  <2>2. /\ worker'[w].op = "insert" /\ worker'[w].order = o
        /\ worker[w].op = "idle"
    BY <2>1 DEF At, Idle
  <2>3. /\ paid'[o] = Hold(req[o]) /\ Hold(req[o]) \in Nat
        /\ \A x \in Orders : x # o => paid'[x] = paid[x]
    BY <2>1, HoldType DEF TypeOK
  <2>4. orders[o].status = "ABSENT"
    BY <2>1 DEF AloneInv, RowsAgree
  <2>5. PaidRow(o)'
    BY <2>1, <2>3, <2>4 DEF PaidRow, IsBuy, Side
  <2>6. ASSUME NEW x \in Orders, x # o PROVE PaidRow(x)'
    <3>1. ~Moving(x, worker[w]) /\ ~Moving(x, worker'[w]) /\ PaidRow(x)
      BY <2>2 DEF Moving, ReservedInv
    <3>2. x \in sent' => x \in sent
      BY <2>1, <2>6
    <3> QED BY <2>1, <2>3, <2>6, <3>1, <3>2, PaidKept
  <2>7. JobCurrent(worker[w])'
    BY <2>1, <2>2, <2>3 DEF JobCurrent
  <2> QED BY <2>5, <2>6, <2>7 DEF ReservedInv
<1>2. CASE InsertOrder(w)
  <2>1. worker[w].op = "insert" /\ worker[w] \in Job
    BY <1>2, JobType DEF InsertOrder
  <2> PICK o \in Orders : o = worker[w].order
    BY <2>1 DEF Job
  <2>2. /\ UNCHANGED <<req, sent, paid, cancels>>
        /\ orders'[o] = [status |-> InitialStatus(o), price |-> req[o].price,
                         qty |-> req[o].qty, trigger |-> req[o].trigger]
        /\ \A x \in Orders : x # o => orders'[x] = orders[x]
        /\ worker'[w] = [worker[w] EXCEPT !.op = "book"]
    BY <1>2, NewJob DEF InsertOrder, TypeOK, ghosts
  <2>3. worker'[w].op = "book"
    BY <2>1, <2>2 DEF Job
  <2>4. /\ orders[o].status = "ABSENT" /\ o \in sent
    BY <2>1 DEF AloneInv, PlacingRow, OnceInv, PlacedOnce, Placing
  <2>5. cancels[o] = 0
    <3>1. cancels[o] \in Nat /\ RowUnfilled(o)
      BY DEF TypeOK, AloneInv
    <3> QED BY <2>4, <3>1 DEF RowUnfilled
  <2>6. ASSUME IsBuy(o) PROVE PaidRow(o)'
    <3>1. PaidRow(o) /\ JobCurrent(worker[w])
      BY DEF ReservedInv
    <3>2. req[o].price > 0 /\ paid[o] = req[o].qty * req[o].price
      BY <2>1, <2>4, <2>6, <3>1 DEF PaidRow, JobCurrent, Hold, IsBuy, Side
    <3>3. Due(o, worker[w])' = req[o].qty * req[o].price
      BY <2>2, <2>3, <2>5 DEF Due, Owed
    <3>4. orders'[o].status # "ABSENT" /\ orders'[o].price = req[o].price
      BY <2>2 DEF InitialStatus
    <3> QED BY <2>2, <3>1, <3>2, <3>3, <3>4 DEF PaidRow
  <2>7. PaidRow(o)'
    BY <2>2, <2>6 DEF PaidRow, IsBuy, Side
  <2>8. ASSUME NEW x \in Orders, x # o PROVE PaidRow(x)'
    <3>1. ~Moving(x, worker[w]) /\ ~Moving(x, worker'[w]) /\ PaidRow(x)
      BY <2>1, <2>3 DEF Moving, ReservedInv
    <3> QED BY <2>2, <2>8, <3>1, PaidKept
  <2>9. JobCurrent(worker[w])'
    BY <2>3 DEF JobCurrent
  <2> QED BY <2>7, <2>8, <2>9 DEF ReservedInv
<1> QED BY <1>1, <1>2

\* A cancelled BUY has its cash until it is refunded, and then has none.
LEMMA CancelReserved ==
  ASSUME TypeOK, OnceInv, AloneInv, ReservedInv,
         NEW w \in Workers, Workers = {w},
         Refund(w) \/ \E o \in Orders : Cancel(w, o)
  PROVE  ReservedInv'
<1>1. CASE \E o \in Orders : Cancel(w, o)
  <2> PICK o \in Orders : Cancel(w, o)
    BY <1>1
  <2>1. /\ UNCHANGED <<req, sent, paid>> /\ worker[w] = Idle
        /\ orders[o].status \in Unfilled
        /\ orders' = [orders EXCEPT ![o].status = "CANCELLED"]
        /\ cancels' = [cancels EXCEPT ![o] = @ + 1]
        /\ worker'[w] = IF IsBuy(o)
                        THEN At("refund", o, ReadTerms(o), NoTerms) ELSE Idle
    BY NewJob DEF Cancel, Cancellable
  <2>2. worker[w].op = "idle"
    BY <2>1 DEF At, Idle
  <2>3. /\ orders'[o].status = "CANCELLED"
        /\ orders'[o].price = orders[o].price /\ orders'[o].qty = orders[o].qty
        /\ orders'[o].trigger = orders[o].trigger
        /\ \A x \in Orders : x # o => orders'[x] = orders[x]
        /\ \A x \in Orders : x # o => cancels'[x] = cancels[x]
    BY <2>1 DEF TypeOK, OrderRow
  <2>4. cancels[o] = 0 /\ cancels'[o] = 1
    <3>1. cancels[o] \in Nat /\ RowUnfilled(o)
      BY DEF TypeOK, AloneInv
    <3>2. cancels[o] = 0
      BY <2>1, <3>1 DEF RowUnfilled
    <3> QED BY <2>1, <3>2 DEF TypeOK
  <2>5. CASE ~IsBuy(o)
    <3>1. worker'[w].op = "idle"
      BY <2>1, <2>5 DEF At, Idle
    <3>2. ASSUME NEW x \in Orders PROVE PaidRow(x)'
      <4>1. CASE x = o
        BY <2>1, <2>5, <4>1 DEF PaidRow, IsBuy, Side
      <4>2. CASE x # o
        <5>1. ~Moving(x, worker[w]) /\ ~Moving(x, worker'[w]) /\ PaidRow(x)
          BY <2>2, <3>1 DEF Moving, ReservedInv
        <5> QED BY <2>1, <2>3, <4>2, <5>1, PaidKept
      <4> QED BY <4>1, <4>2
    <3>3. JobCurrent(worker[w])'
      BY <3>1 DEF JobCurrent
    <3> QED BY <3>2, <3>3 DEF ReservedInv
  <2>6. CASE IsBuy(o)
    <3>1. /\ worker'[w].op = "refund" /\ worker'[w].order = o
          /\ worker'[w].seen = ReadTerms(o)
      BY <2>1, <2>6 DEF At
    <3>2. PaidRow(o)'
      <4>1. PaidRow(o) /\ orders[o].status # "ABSENT"
        BY <2>1 DEF ReservedInv, Unfilled
      <4>2. Due(o, worker[w]) = Owed(o)
        BY <2>2, <2>4 DEF Due
      <4>3. Due(o, worker[w])' = Owed(o)
        BY <2>3, <3>1 DEF Due, Owed
      <4> QED BY <2>1, <2>3, <2>6, <4>1, <4>2, <4>3 DEF PaidRow
    <3>3. ASSUME NEW x \in Orders, x # o PROVE PaidRow(x)'
      <4>1. ~Moving(x, worker[w]) /\ ~Moving(x, worker'[w]) /\ PaidRow(x)
        BY <2>2, <3>1, <3>3 DEF Moving, ReservedInv
      <4> QED BY <2>1, <2>3, <3>3, <4>1, PaidKept
    <3>4. JobCurrent(worker[w])'
      <4>1. ReadTerms(o)' = ReadTerms(o)
        BY <2>3 DEF ReadTerms
      <4> QED BY <2>4, <3>1, <4>1 DEF JobCurrent
    <3> QED BY <3>2, <3>3, <3>4 DEF ReservedInv
  <2> QED BY <2>5, <2>6
<1>2. CASE Refund(w)
  <2>1. worker[w].op = "refund" /\ worker[w] \in Job
    BY <1>2, JobType DEF Refund
  <2> PICK o \in Orders : o = worker[w].order
    BY <2>1 DEF Job
  <2>2. /\ UNCHANGED <<req, sent, orders, cancels>>
        /\ paid' = [paid EXCEPT ![o] = @ - RefundAmount(worker[w].seen)]
        /\ worker'[w] = Idle
    BY <1>2, NewJob DEF Refund
  <2>3. worker'[w].op = "idle"
    BY <2>2 DEF At, Idle
  <2>4. worker[w].seen = ReadTerms(o) /\ cancels[o] > 0
    BY <2>1 DEF ReservedInv, JobCurrent
  <2>5. ASSUME IsBuy(o) PROVE PaidRow(o)'
    <3>1. PaidRow(o) /\ orders[o].status # "ABSENT"
      BY <2>4 DEF ReservedInv, AloneInv, RowUnfilled
    <3>2. Due(o, worker[w]) = Owed(o) /\ Due(o, worker[w])' = 0
      BY <2>1, <2>2, <2>3, <2>4 DEF Due, Owed
    <3>3. RefundAmount(worker[w].seen) = Owed(o) /\ Owed(o) \in Int
      BY <2>4 DEF RefundAmount, ReadTerms, Owed, TypeOK, OrderRow
    <3>4. paid'[o] = paid[o] - RefundAmount(worker[w].seen)
      BY <2>2 DEF TypeOK
    <3>5. paid[o] = Owed(o)
      BY <2>5, <3>1, <3>2 DEF PaidRow
    <3>6. paid'[o] = 0
      BY <3>3, <3>4, <3>5
    <3> QED BY <2>2, <2>5, <3>1, <3>2, <3>6 DEF PaidRow
  <2>6. PaidRow(o)'
    BY <2>2, <2>5 DEF PaidRow, IsBuy, Side
  <2>7. ASSUME NEW x \in Orders, x # o PROVE PaidRow(x)'
    <3>1. ~Moving(x, worker[w]) /\ ~Moving(x, worker'[w]) /\ PaidRow(x)
      BY <2>3, <2>7 DEF Moving, ReservedInv
    <3>2. paid'[x] = paid[x]
      BY <2>2, <2>7 DEF TypeOK
    <3> QED BY <2>2, <3>1, <3>2, PaidKept
  <2>8. JobCurrent(worker[w])'
    BY <2>3 DEF JobCurrent
  <2> QED BY <2>6, <2>7, <2>8 DEF ReservedInv
<1> QED BY <1>1, <1>2

\* What an amendment leads to, in rupees: what is owed and the difference.
LEMMA AmendedTerms ==
  ASSUME TypeOK, NEW job \in Job, NEW o \in Orders, job.seen = ReadTerms(o),
         NEW q, q = Coalesce(job.want.qty, orders[o].qty),
         NEW p, p = Coalesce(job.want.price, orders[o].price)
  PROVE  /\ q * p = Owed(o) + Delta(job) /\ q * p \in Nat
         /\ Delta(job) \in Int /\ Owed(o) \in Nat
         /\ orders[o].price > 0 => p > 0
<1>1. /\ orders[o].qty \in Nat /\ orders[o].price \in Nat
      /\ job.want.qty \in Nat /\ job.want.price \in Nat
      /\ job.seen.qty = orders[o].qty /\ job.seen.price = orders[o].price
  BY DEF TypeOK, OrderRow, Job, Terms, ReadTerms
<1>2. q \in Nat /\ p \in Nat /\ (orders[o].price > 0 => p > 0)
  BY <1>1 DEF Coalesce
<1>3. Delta(job) = q * p - orders[o].qty * orders[o].price
  BY <1>1 DEF Delta
<1>4. q * p \in Nat /\ orders[o].qty * orders[o].price \in Nat
  BY <1>1, <1>2
<1> QED BY <1>2, <1>3, <1>4 DEF Owed

\* The amendment of a BUY moves the difference of what it owes, first the cash
\* and then the row; with one handler nothing comes between the two.
LEMMA AmendReserved ==
  ASSUME TypeOK, OnceInv, AloneInv, ReservedInv,
         NEW w \in Workers, Workers = {w},
         Charge(w) \/ Amend(w) \/ \E o \in Orders : AmendRead(w, o)
  PROVE  ReservedInv'
<1>1. CASE \E o \in Orders : AmendRead(w, o)
  <2> PICK o \in Orders : AmendRead(w, o)
    BY <1>1
  <2>1. PICK a \in Amendments :
          Becomes(w, At(IF IsBuy(o) THEN "charge" ELSE "amend", o,
                        ReadTerms(o), a))
    BY DEF AmendRead
  <2>2. /\ UNCHANGED <<req, sent, orders, paid, cancels>> /\ worker[w] = Idle
        /\ orders[o].status \in Unfilled
    BY DEF AmendRead, tables, ghosts
  <2>3. /\ worker'[w].op = IF IsBuy(o) THEN "charge" ELSE "amend"
        /\ worker'[w].order = o /\ worker'[w].seen = ReadTerms(o)
        /\ worker[w].op = "idle"
    BY <2>1, <2>2, NewJob DEF At, Idle
  <2>4. cancels[o] = 0
    <3>1. cancels[o] \in Nat /\ RowUnfilled(o)
      BY DEF TypeOK, AloneInv
    <3> QED BY <2>2, <3>1 DEF RowUnfilled
  <2>5. ASSUME NEW x \in Orders PROVE PaidRow(x)'
    <3>1. PaidRow(x) /\ (IsBuy(x) => ~Moving(x, worker[w])
                                     /\ ~Moving(x, worker'[w]))
      BY <2>3 DEF Moving, ReservedInv
    <3> QED BY <2>2, <3>1, PaidKept
  <2>6. JobCurrent(worker[w])'
    <3>1. ReadTerms(o)' = ReadTerms(o) /\ IsBuy(o)' = IsBuy(o)
      BY <2>2 DEF ReadTerms, IsBuy, Side
    <3> QED BY <2>2, <2>3, <2>4, <3>1 DEF JobCurrent
  <2> QED BY <2>5, <2>6 DEF ReservedInv
<1>2. CASE Charge(w)
  <2>1. worker[w].op = "charge" /\ worker[w] \in Job
    BY <1>2, JobType DEF Charge
  <2> PICK o \in Orders : o = worker[w].order
    BY <2>1 DEF Job
  <2> PICK delta : delta = Delta(worker[w])
    OBVIOUS
  <2>2. /\ UNCHANGED <<req, sent, orders, cancels>>
        /\ paid' = [paid EXCEPT ![o] = @ + delta]
        /\ worker'[w] = [worker[w] EXCEPT !.op = "amend", !.delta = delta]
    BY <1>2, NewJob DEF Charge
  <2>3. /\ worker'[w].op = "amend" /\ worker'[w].order = o
        /\ worker'[w].delta = delta
        /\ worker'[w].seen = worker[w].seen /\ worker'[w].want = worker[w].want
    BY <2>1, <2>2 DEF Job
  <2>4. /\ worker[w].seen = ReadTerms(o) /\ cancels[o] = 0
        /\ orders[o].status \in Unfilled
    BY <2>1 DEF ReservedInv, JobCurrent
  <2>5. delta \in Int /\ Owed(o) \in Nat
    BY <2>1, <2>4, AmendedTerms
  <2>6. ASSUME IsBuy(o) PROVE PaidRow(o)'
    <3>1. PaidRow(o) /\ orders[o].status # "ABSENT"
      BY <2>4 DEF ReservedInv, Unfilled
    <3>2. Due(o, worker[w]) = Owed(o)
      BY <2>1, <2>4 DEF Due
    <3>3. Due(o, worker[w])' = Owed(o) + delta
      BY <2>2, <2>3 DEF Due, Owed
    <3>4. paid'[o] = paid[o] + delta
      BY <2>2 DEF TypeOK
    <3> QED BY <2>2, <2>6, <3>1, <3>2, <3>3, <3>4 DEF PaidRow
  <2>7. PaidRow(o)'
    BY <2>2, <2>6 DEF PaidRow, IsBuy, Side
  <2>8. ASSUME NEW x \in Orders, x # o PROVE PaidRow(x)'
    <3>1. ~Moving(x, worker[w]) /\ ~Moving(x, worker'[w]) /\ PaidRow(x)
      BY <2>3, <2>8 DEF Moving, ReservedInv
    <3>2. paid'[x] = paid[x]
      BY <2>2, <2>8 DEF TypeOK
    <3> QED BY <2>2, <3>1, <3>2, PaidKept
  <2>9. JobCurrent(worker[w])'
    <3>1. ReadTerms(o)' = ReadTerms(o) /\ Delta(worker[w])' = delta
      BY <2>2, <2>3 DEF ReadTerms, Delta, Coalesce
    <3> QED BY <2>2, <2>3, <2>4, <3>1 DEF JobCurrent
  <2> QED BY <2>7, <2>8, <2>9 DEF ReservedInv
<1>3. CASE Amend(w)
  <2>1. worker[w].op = "amend" /\ worker[w] \in Job
    BY <1>3, JobType DEF Amend
  <2> PICK o \in Orders : o = worker[w].order
    BY <2>1 DEF Job
  <2> PICK a : a = worker[w].want
    OBVIOUS
  <2>2. /\ UNCHANGED <<req, sent, paid, cancels>>
        /\ orders' = [orders EXCEPT ![o].price = Coalesce(a.price, @),
                                    ![o].qty = Coalesce(a.qty, @),
                                    ![o].trigger = Coalesce(a.trigger, @)]
        /\ worker'[w] = Idle
    BY <1>3, NewJob DEF Amend, ghosts
  <2>3. worker'[w].op = "idle"
    BY <2>2 DEF At, Idle
  <2>4. /\ worker[w].seen = ReadTerms(o) /\ cancels[o] = 0
        /\ orders[o].status \in Unfilled
        /\ IsBuy(o) => worker[w].delta = Delta(worker[w])
    BY <2>1 DEF ReservedInv, JobCurrent
  <2>5. /\ orders'[o].status = orders[o].status
        /\ orders'[o].price = Coalesce(a.price, orders[o].price)
        /\ orders'[o].qty = Coalesce(a.qty, orders[o].qty)
        /\ \A x \in Orders : x # o => orders'[x] = orders[x]
    BY <2>2 DEF TypeOK, OrderRow
  <2>6. /\ orders'[o].qty * orders'[o].price = Owed(o) + Delta(worker[w])
        /\ orders[o].price > 0 => orders'[o].price > 0
    BY <2>1, <2>4, <2>5, AmendedTerms
  <2>7. ASSUME IsBuy(o) PROVE PaidRow(o)'
    <3>1. PaidRow(o) /\ orders[o].status # "ABSENT"
      BY <2>4 DEF ReservedInv, Unfilled
    <3>2. Due(o, worker[w]) = Owed(o) + worker[w].delta
      BY <2>1 DEF Due
    <3>3. Due(o, worker[w])' = orders'[o].qty * orders'[o].price
      BY <2>2, <2>3, <2>4 DEF Due, Owed
    <3> QED BY <2>2, <2>4, <2>5, <2>6, <2>7, <3>1, <3>2, <3>3 DEF PaidRow
  <2>8. PaidRow(o)'
    BY <2>2, <2>7 DEF PaidRow, IsBuy, Side
  <2>9. ASSUME NEW x \in Orders, x # o PROVE PaidRow(x)'
    <3>1. ~Moving(x, worker[w]) /\ ~Moving(x, worker'[w]) /\ PaidRow(x)
      BY <2>3, <2>9 DEF Moving, ReservedInv
    <3> QED BY <2>2, <2>5, <2>9, <3>1, PaidKept
  <2>10. JobCurrent(worker[w])'
    BY <2>3 DEF JobCurrent
  <2> QED BY <2>8, <2>9, <2>10 DEF ReservedInv
<1> QED BY <1>1, <1>2, <1>3

\* To begin with nothing is paid.
LEMMA InitReserved == Init => ReservedInv
<1> SUFFICES ASSUME Init PROVE ReservedInv
  OBVIOUS
<1>1. \A w \in Workers : worker[w].op = "idle"
  BY DEF Init, Idle, At
<1>2. \A w \in Workers : JobCurrent(worker[w])
  BY <1>1 DEF JobCurrent
<1>3. \A o \in Orders : PaidRow(o)
  BY DEF Init, PaidRow
<1> QED BY <1>2, <1>3 DEF ReservedInv

\* Without faults nothing is lost between the cash and the row.
LEMMA NextReserved ==
  ASSUME OneHandler, ~Faults, NoStopBuys, TypeOK, OnceInv, AloneInv,
         ReservedInv, [Next]_vars
  PROVE  ReservedInv'
<1>1. PICK w \in Workers : Workers = {w}
  BY DEF OneHandler
<1>2. CASE UNCHANGED vars
  <2>1. UNCHANGED <<req, sent, orders, paid, cancels, worker>>
    BY <1>2 DEF vars
  <2>2. \A o \in Orders : PaidRow(o)'
    BY <2>1 DEF ReservedInv, PaidRow, IsBuy, Side, Due, Owed
  <2>3. JobCurrent(worker[w])'
    BY <2>1 DEF ReservedInv, JobCurrent, ReadTerms, IsBuy, Side, Delta,
                Coalesce, Hold
  <2> QED BY <1>1, <2>2, <2>3 DEF ReservedInv
<1>3. JobCurrent(worker[w])
  BY DEF ReservedInv
<1>4. ~AmendLost(w) /\ ~Undo(w)
  BY <1>3 DEF AmendLost, Undo, Amendable, JobCurrent
<1>5. ~Crash(w) /\ ~InsertOrderFails(w) /\ ~InsertBookRowFails(w)
  BY DEF Crash, InsertOrderFails, InsertBookRowFails
<1>6. CASE Step(w)
  BY <1>1, <1>4, <1>5, <1>6, RunReserved, PlacingReserved, CancelReserved,
     AmendReserved DEF Step
<1>7. ASSUME NEW o \in Orders, Request(w, o) PROVE ReservedInv'
  BY <1>1, <1>7, PlacingReserved, CancelReserved, AmendReserved DEF Request
<1> QED BY <1>1, <1>2, <1>5, <1>6, <1>7 DEF Next

\* Every state of a schedule without faults satisfies the invariant.
LEMMA ReservedInvariant ==
  ASSUME OneHandler, ~Faults
  PROVE  Spec /\ NoStopBuys => []ReservedInv
<1>1. /\ NoStopBuys /\ TypeOK /\ OnceInv /\ AloneInv /\ ReservedInv
      /\ [Next]_vars
      => ReservedInv'
  BY NextReserved
<1> QED BY <1>1, InitReserved, NoStopBuysStay, AloneInvariant, OnceInvariant,
        TypeCorrect, PTL DEF Spec

\* While handlers run one after the other and none is interrupted, and no BUY
\* takes the price that triggers it, a BUY at rest holds its quantity times its
\* price, and nothing once it is cancelled.
THEOREM ReservationIsExact ==
  ASSUME OneHandler, ~Faults
  PROVE  Spec /\ NoStopBuys => []ReservationExact
<1>1. ReservedInv => ReservationExact
  <2> SUFFICES ASSUME ReservedInv, NEW o \in Orders, IsBuy(o),
                      orders[o].status # "ABSENT", ~InHand(o)
               PROVE  paid[o] = IF cancels[o] > 0 THEN 0
                                ELSE orders[o].qty * orders[o].price
    BY DEF ReservationExact
  <2>1. PICK w \in Workers : Workers = {w}
    BY DEF OneHandler
  <2>2. worker[w].order # o
    BY DEF InHand
  <2>3. paid[o] = Due(o, worker[w])
    BY DEF ReservedInv, PaidRow
  <2> QED BY <2>2, <2>3 DEF Due, Owed
<1> QED BY <1>1, ReservedInvariant, PTL

-----------------------------------------------------------------------------
(* What a BUY pays for its fills.                                          *)

\* A BUY pays no more than its price for a share of a deal, whether it comes in
\* or rests.
LEMMA DealWithinLimit ==
  ASSUME TypeOK, OnceInv, AloneInv, StockInv, NEW w \in Workers, Match(w),
         NEW t, t = Current(w), NEW d, d = Deal(t),
         NEW x \in Orders, IsBuy(x)
  PROVE  d.value[x] <= d.qty[x] * orders[x].price
<1> DEFINE o == t.order
           rows == Rows(o)
           fill == Allocation(Side(o), t.price, t.qty, rows)
           worth == [c \in DOMAIN rows |-> fill[c] * rows[c].price]
<1>1. /\ t \in Passes(worker[w].agenda) /\ t \in Item /\ o \in Orders
      /\ t.qty \in Int /\ t.price \in Nat /\ Side(o) \in {"BUY", "SELL"}
  <2>1. /\ t \in Passes(worker[w].agenda) /\ t \in Item /\ o \in Orders
    BY MatchStep
  <2> QED BY <2>1, ReqType DEF Item, Side, RequestType
<1>2. /\ Candidates(o) \subseteq Orders /\ o \notin Candidates(o)
      /\ DOMAIN rows = Candidates(o)
      /\ \A c \in Candidates(o) : rows[c] = book[c]
      /\ \A c \in Candidates(o) : book[c].rem \in Nat /\ book[c].price \in Nat
                                  /\ book[c].at \in Nat
                                  /\ book[c].price = orders[c].price
  <2>1. \A c \in Candidates(o) : book[c].status # "ABSENT" /\ book[c].rem > 0
    BY DEF Candidates, Resting
  <2>2. \A c \in Candidates(o) : book[c].price = orders[c].price
    BY <2>1 DEF AloneInv, RowsAgree, Candidates
  <2> QED BY <2>1, <2>2 DEF Candidates, Rows, TypeOK, BookRow
<1>3. Shelf(rows)
  <2>1. IsFiniteSet(DOMAIN rows)
    BY <1>2, FS_Subset
  <2> QED BY <1>2, <2>1 DEF Shelf
<1>4. \A c \in Candidates(o) :
        /\ fill[c] \in Nat
        /\ c \notin Crossing(Side(o), t.price, rows) => fill[c] = 0
  <2> HIDE DEF rows
  <2>1. \A c \in DOMAIN rows :
          LET n == Allocation(Side(o), t.price, t.qty, rows)[c] IN
          /\ n \in 0..rows[c].rem
          /\ c \notin Crossing(Side(o), t.price, rows) => n = 0
    BY <1>1, <1>3, FillType
  <2>2. \A c \in DOMAIN rows : rows[c].rem \in Nat
    BY <1>3 DEF Shelf
  <2> QED BY <1>2, <2>1, <2>2
<1>5. CASE x = o
  <2>1. t.price = orders[x].price
    <3>1. Holds(worker[w].agenda, x)
      BY <1>1, <1>5, HeldByPass
    <3>2. book[x].status # "ABSENT" /\ t.price = book[x].price
      BY <1>1, <1>5, <3>1 DEF OnceInv, PassesAwake, StockInv, PassesCurrent
    <3> QED BY <3>2 DEF AloneInv, RowsAgree
  <2>2. \A c \in Candidates(o) :
          /\ fill[c] \in Nat /\ worth[c] \in Nat
          /\ worth[c] <= t.price * fill[c]
    <3> SUFFICES ASSUME NEW c \in Candidates(o)
                 PROVE  /\ fill[c] \in Nat /\ worth[c] \in Nat
                        /\ worth[c] <= t.price * fill[c]
      OBVIOUS
    <3>1. fill[c] \in Nat /\ worth[c] = fill[c] * rows[c].price
          /\ rows[c].price \in Nat
      BY <1>2, <1>4
    <3>2. CASE fill[c] = 0
      <4> HIDE DEF fill, worth, rows
      <4> QED BY <1>1, <3>1, <3>2
    <3>3. CASE fill[c] # 0
      <4>1. rows[c].price <= t.price
        <5>1. c \in Crossing(Side(o), t.price, rows)
          BY <1>4, <3>3
        <5> QED BY <1>5, <5>1 DEF Crossing, Crosses, IsBuy
      <4> HIDE DEF fill, worth, rows
      <4>2. \A m, n, p \in Nat : m <= n => p * m <= n * p
        OBVIOUS
      <4>3. fill[c] * rows[c].price <= t.price * fill[c]
        BY <1>1, <3>1, <4>1, <4>2
      <4>4. fill[c] * rows[c].price \in Nat
        BY <3>1
      <4> QED BY <3>1, <4>3, <4>4
    <3> QED BY <3>2, <3>3
  <2>3. /\ d.qty[x] = SumFunctionOnSet(fill, Candidates(o))
        /\ d.value[x] = SumFunctionOnSet(worth, Candidates(o))
    BY <1>2, <1>5 DEF Deal
  <2>4. IsFiniteSet(Candidates(o))
    BY <1>2, FS_Subset
  <2> HIDE DEF fill, worth
  <2>5. /\ SumFunctionOnSet(worth, Candidates(o)) <=
             t.price * SumFunctionOnSet(fill, Candidates(o))
        /\ SumFunctionOnSet(fill, Candidates(o)) \in Nat
    BY <1>1, <2>2, <2>4, SumAtMost, SumIsNat
  <2>6. d.qty[x] \in Nat /\ d.value[x] <= t.price * d.qty[x]
    BY <2>3, <2>5
  <2>7. t.price * d.qty[x] = d.qty[x] * t.price
    BY <1>1, <2>6
  <2> QED BY <2>1, <2>6, <2>7
<1>6. CASE x \in Candidates(o)
  <2>1. /\ d.qty[x] = fill[x] /\ d.value[x] = fill[x] * rows[x].price
        /\ rows[x].price = orders[x].price /\ fill[x] \in Nat
        /\ orders[x].price \in Nat
    BY <1>2, <1>4, <1>6 DEF Deal, TypeOK, OrderRow
  <2> HIDE DEF fill, rows
  <2>2. d.value[x] = d.qty[x] * orders[x].price
    BY <2>1
  <2>3. d.qty[x] * orders[x].price \in Nat
    BY <2>1
  <2> QED BY <2>2, <2>3
<1>7. CASE x # o /\ x \notin Candidates(o)
  <2>1. d.qty[x] = 0 /\ d.value[x] = 0 /\ orders[x].price \in Nat
    BY <1>2, <1>7 DEF Deal, TypeOK, OrderRow
  <2> QED BY <2>1
<1> QED BY <1>5, <1>6, <1>7

\* A BUY whose price and trades stay, or that has not traded, is within its
\* limit.
LEMMA LimitKept ==
  ASSUME TypeOK, WithinLimit, NEW x \in Orders, IsBuy(x),
         history'[x] = history[x],
         \/ orders'[x].price = orders[x].price
         \/ /\ history[x].qty = 0 /\ history[x].value = 0
            /\ orders'[x].price \in Nat
  PROVE  history'[x].value <= history'[x].qty * orders'[x].price
<1>1. CASE orders'[x].price = orders[x].price
  BY <1>1 DEF WithinLimit
<1>2. CASE /\ history[x].qty = 0 /\ history[x].value = 0
           /\ orders'[x].price \in Nat
  BY <1>2
<1> QED BY <1>1, <1>2

\* No step takes a BUY over its limit.
LEMMA NextWithin ==
  ASSUME OneHandler, ~Faults, StopsOnOneSide, NoStopBuys, TypeOK, TypeOK',
         OnceInv, AloneInv, StockInv, ReservedInv, WithinLimit, [Next]_vars
  PROVE  WithinLimit'
<1>1. PICK w \in Workers : Workers = {w}
  BY DEF OneHandler
<1>2. req' = req
  BY RequestsStay
<1> SUFFICES ASSUME NEW x \in Orders, IsBuy(x)
             PROVE  history'[x].value <= history'[x].qty * orders'[x].price
  BY <1>2 DEF WithinLimit, IsBuy, Side
<1>3. orders'[x].price \in Nat
  BY DEF TypeOK, OrderRow
<1>4. CASE UNCHANGED <<orders, history>>
  BY <1>4, LimitKept
<1>5. CASE Match(w)
  <2> PICK t : t = Current(w)
    OBVIOUS
  <2> PICK d : d = Deal(t)
    OBVIOUS
  <2>1. /\ history'[x].qty = history[x].qty + d.qty[x]
        /\ history'[x].value = history[x].value + d.value[x]
    BY <1>5 DEF Match
  <2>2. orders'[x].price = orders[x].price
    BY <1>5, RowStays
  <2>3. /\ d.value[x] <= d.qty[x] * orders[x].price
        /\ d.qty[x] \in Nat /\ d.value[x] \in Nat
    BY <1>5, DealWithinLimit, MatchStep
  <2>4. /\ history[x].value <= history[x].qty * orders[x].price
        /\ history[x].qty \in Nat /\ history[x].value \in Nat
        /\ orders[x].price \in Nat
    BY DEF WithinLimit, TypeOK, OrderRow
  <2>5. \A m, n, p \in Nat : (m + n) * p = m * p + n * p
    OBVIOUS
  <2>6. (history[x].qty + d.qty[x]) * orders[x].price =
          history[x].qty * orders[x].price + d.qty[x] * orders[x].price
    BY <2>3, <2>4, <2>5
  <2>7. /\ history[x].qty * orders[x].price \in Nat
        /\ d.qty[x] * orders[x].price \in Nat
    BY <2>3, <2>4
  <2> QED BY <2>1, <2>2, <2>3, <2>4, <2>6, <2>7
<1>6. CASE MatchFails(w)
  <2>1. history' = history /\ orders'[x].price = orders[x].price
    BY <1>6, RowStays DEF MatchFails
  <2> QED BY <2>1, LimitKept
<1>7. CASE Trigger(w)
  <2>1. history' = history /\ orders'[x].price = orders[x].price
    BY <1>7, TriggerKeepsBuys DEF Trigger
  <2> QED BY <2>1, LimitKept
<1>8. CASE InsertOrder(w) \/ Amend(w)
  <2>1. worker[w].op \in {"insert", "amend"} /\ worker[w] \in Job
    BY <1>8, JobType DEF InsertOrder, Amend
  <2> PICK o \in Orders : o = worker[w].order
    BY <2>1 DEF Job
  <2>2. /\ history' = history
        /\ \A y \in Orders : y # o => orders'[y] = orders[y]
    BY <1>8 DEF InsertOrder, Amend, TypeOK, ghosts
  <2>3. orders[o].status \in Unfilled \cup {"ABSENT"}
    BY <1>8 DEF InsertOrder, Amend, Amendable, AloneInv, PlacingRow
  <2>4. history[o].qty = 0 /\ history[o].value = 0
    BY <2>3 DEF AloneInv, RowUnfilled, Fresh
  <2> QED BY <1>3, <2>2, <2>4, LimitKept
<1>9. CASE \E o \in Orders : Cancel(w, o)
  <2>1. history' = history /\ orders'[x].price = orders[x].price
    BY <1>9 DEF Cancel, TypeOK, OrderRow
  <2> QED BY <2>1, LimitKept
<1>10. ~Crash(w) /\ ~InsertOrderFails(w) /\ ~InsertBookRowFails(w)
  BY DEF Crash, InsertOrderFails, InsertBookRowFails
<1>11. CASE Step(w)
  BY <1>4, <1>5, <1>6, <1>7, <1>8, <1>10, <1>11
     DEF Step, InsertBookRow, MatchNothing, MatchAborts, TriggerFails, Refund,
         Charge, ChargeRefused, AmendLost, Undo, tables
<1>12. ASSUME NEW o \in Orders, Request(w, o)
       PROVE  history'[x].value <= history'[x].qty * orders'[x].price
  BY <1>4, <1>9, <1>12 DEF Request, Submit, AmendRead, tables
<1>13. CASE UNCHANGED vars
  BY <1>4, <1>13 DEF vars
<1> QED BY <1>1, <1>10, <1>11, <1>12, <1>13 DEF Next

\* To begin with nobody has traded.
LEMMA InitWithin == Init => WithinLimit
BY DEF Init, WithinLimit

LEMMA WithinInvariant ==
  ASSUME OneHandler, ~Faults
  PROVE  Spec /\ StopsOnOneSide /\ NoStopBuys => []WithinLimit
<1>1. /\ StopsOnOneSide /\ NoStopBuys /\ TypeOK /\ TypeOK' /\ OnceInv
      /\ AloneInv /\ StockInv /\ ReservedInv /\ WithinLimit /\ [Next]_vars
      => WithinLimit'
  BY NextWithin
<1> QED BY <1>1, InitWithin, OneSideStays, NoStopBuysStay, ReservedInvariant,
        StockInvariant, AloneInvariant, OnceInvariant, TypeCorrect, PTL DEF Spec

\* A BUY has no more shares than it asked for, and paid its price for all of
\* them.
LEMMA PaidForAll ==
  ASSUME OneHandler, TypeOK, OnceInv, AloneInv, StockInv, ReservedInv,
         WithinLimit, NEW o \in Orders, IsBuy(o)
  PROVE  history[o].value <= paid[o]
<1>1. PICK w \in Workers : Workers = {w}
  BY DEF OneHandler
<1>2. /\ RowsAgree(o) /\ RowUnfilled(o) /\ RemAgrees(o) /\ PaidRow(o)
      /\ JobCurrent(worker[w])
      /\ history[o].qty \in Nat /\ history[o].value \in Nat
      /\ orders[o].qty \in Nat /\ orders[o].price \in Nat
      /\ history[o].value <= history[o].qty * orders[o].price
      /\ cancels[o] \in Nat
  BY DEF AloneInv, StockInv, ReservedInv, WithinLimit, TypeOK, OrderRow
<1>3. Owed(o) \in Nat
  BY <1>2 DEF Owed
<1>4. CASE orders[o].status = "ABSENT"
  <2>1. history[o].value = 0
    BY <1>2, <1>4 DEF RowUnfilled, Fresh
  <2> QED BY <1>2, <1>4, <2>1 DEF PaidRow
<1>5. CASE orders[o].status # "ABSENT"
  <2>1. paid[o] = Due(o, worker[w])
    BY <1>2, <1>5 DEF PaidRow
  <2>2. CASE cancels[o] > 0
    <3>1. history[o].value = 0 /\ orders[o].status \notin Unfilled
      BY <1>2, <2>2 DEF RowUnfilled
    <3>2. ~(worker[w].op = "amend" /\ worker[w].order = o)
      BY <1>2, <3>1 DEF JobCurrent
    <3>3. paid[o] \in Nat
      BY <1>3, <2>1, <3>2 DEF Due
    <3> QED BY <3>1, <3>3
  <2>3. CASE worker[w].op = "amend" /\ worker[w].order = o
    <3>1. /\ orders[o].status \in Unfilled /\ worker[w].seen = ReadTerms(o)
          /\ worker[w].delta = Delta(worker[w])
      BY <1>2, <2>3 DEF JobCurrent
    <3>2. history[o].value = 0
      BY <1>2, <3>1 DEF RowUnfilled, Fresh
    <3>3. worker[w] \in Job
      BY <2>3, JobType
    <3>4. Owed(o) + Delta(worker[w]) \in Nat
      <4> PICK q : q = Coalesce(worker[w].want.qty, orders[o].qty)
        OBVIOUS
      <4> PICK p : p = Coalesce(worker[w].want.price, orders[o].price)
        OBVIOUS
      <4>1. q * p = Owed(o) + Delta(worker[w]) /\ q * p \in Nat
        BY <3>1, <3>3, AmendedTerms
      <4> QED BY <4>1
    <3>5. paid[o] = Owed(o) + Delta(worker[w])
      BY <2>1, <2>3, <3>1 DEF Due
    <3> QED BY <3>2, <3>4, <3>5
  <2>4. CASE cancels[o] = 0 /\ ~(worker[w].op = "amend" /\ worker[w].order = o)
    <3>1. paid[o] = Owed(o)
      BY <2>1, <2>4 DEF Due
    <3>2. history[o].qty <= orders[o].qty
      <4>1. CASE book[o].status = "ABSENT"
        BY <1>2, <4>1 DEF RowUnfilled, Fresh
      <4>2. CASE book[o].status # "ABSENT"
        <5>1. book[o].rem \in Int /\ book[o].rem >= 0
              /\ book[o].rem = orders[o].qty - history[o].qty
          BY <1>2, <4>2 DEF RemAgrees, TypeOK, BookRow
        <5> QED BY <1>2, <5>1
      <4> QED BY <4>1, <4>2
    <3>3. \A m, n, p \in Nat : m <= n => m * p <= n * p
      OBVIOUS
    <3>4. history[o].qty * orders[o].price <= orders[o].qty * orders[o].price
      BY <1>2, <3>2, <3>3
    <3>5. history[o].qty * orders[o].price \in Nat
      BY <1>2
    <3> QED BY <1>2, <1>3, <3>1, <3>4, <3>5 DEF Owed
  <2> QED BY <1>2, <2>2, <2>3, <2>4
<1> QED BY <1>4, <1>5

\* While handlers run one after the other and none is interrupted, all stops
\* wait on one side and no BUY takes the price that triggers it, no fill creates
\* money: what sellers were credited for a BUY its buyer paid before.
THEOREM FillsArePrepaid ==
  ASSUME OneHandler, ~Faults
  PROVE  Spec /\ StopsOnOneSide /\ NoStopBuys => []FillsPrepaid
<1>1. /\ TypeOK /\ OnceInv /\ AloneInv /\ StockInv /\ ReservedInv /\ WithinLimit
      => FillsPrepaid
  BY PaidForAll DEF FillsPrepaid
<1> QED BY <1>1, WithinInvariant, ReservedInvariant, StockInvariant,
        AloneInvariant, OnceInvariant, TypeCorrect, PTL

-----------------------------------------------------------------------------
(* The closed form of the matching is the loop of the code, for any book   *)
(* and any incoming order.                                                 *)

USE LoopAssumption

Rests == [price : Nat, rem : Nat \ {0}, at : Int]

\* The order of the SELECT: rows with a NULL price come last.
Precedes(s, rows, r, t) ==
  \/ rows[t].price = 0 /\ rows[r].price # 0
  \/ /\ rows[r].price # 0 /\ rows[t].price # 0
     /\ ServedBefore(s, rows[r], rows[t])
  \/ rows[r].price = 0 /\ rows[t].price = 0 /\ rows[r].at < rows[t].at

\* Rows still to be looked at and rows done with; of these, those that cross,
\* and what they have had of the incoming order.
Waiting == {queue[i] : i \in DOMAIN queue}
Done == Names \ Waiting
Bought == Crossing(inSide, inPrice, resting) \cap Done
Gone == SumFunctionOnSet(Remaining(resting), Bought)
\* max(0, n)
Cut(n) == IF n < 0 THEN 0 ELSE n

\* The order that comes in, and the book it meets
Incoming ==
  /\ inSide \in {"BUY", "SELL"} /\ inPrice \in Nat
  /\ inQty \in Nat \ {0} /\ inLeft \in Nat
  /\ resting \in [Names -> Rests]
  /\ \A r, s \in Names : r # s => resting[r].at # resting[s].at
  /\ tradeQty \in [Names -> Nat] /\ raised \in BOOLEAN

\* What is left of the queue is in the order of the SELECT, and after all that
\* is done with.
Queue ==
  /\ queue \in Seq(Names)
  /\ \A i, j \in DOMAIN queue : i # j => queue[i] # queue[j]
  /\ \A i, j \in DOMAIN queue :
       i < j => Precedes(inSide, resting, queue[i], queue[j])
  /\ \A r \in Done : \A t \in Waiting : Precedes(inSide, resting, r, t)

\* Every row that is done with has got what the closed form gives it.
Served ==
  /\ inLeft = Cut(inQty - Gone)
  /\ \A r \in Done :
       /\ inPrice # 0 /\ resting[r].price # 0
       /\ tradeQty[r] = Allocation(inSide, inPrice, inQty, resting)[r]
  /\ \A r \in Waiting : tradeQty[r] = 0
  /\ raised => MatchRaises(inSide, inPrice, inQty, resting)

LoopInv == Incoming /\ Queue /\ Served

\* Of two rows one is served before the other, and not the other way round.
LEMMA Order ==
  ASSUME Incoming, NEW r \in Names, NEW t \in Names, 
         Precedes(inSide, resting, r, t)
  PROVE  ~Precedes(inSide, resting, t, r)
<1>1. /\ resting[r].price \in Nat /\ resting[t].price \in Nat
      /\ resting[r].at \in Int /\ resting[t].at \in Int
  <2>1. resting[r] \in Rests /\ resting[t] \in Rests
    BY DEF Incoming
  <2> QED BY <2>1 DEF Rests
<1>2. ServedBefore(inSide, resting[r], resting[t])
        => ~ServedBefore(inSide, resting[t], resting[r])
  <2>1. CASE inSide = "BUY"
    BY <1>1, <2>1 DEF ServedBefore
  <2>2. CASE inSide # "BUY"
    BY <1>1, <2>2 DEF ServedBefore
  <2> QED BY <2>1, <2>2
<1>3. resting[r].at < resting[t].at => ~(resting[t].at < resting[r].at)
  BY <1>1
<1> QED BY <1>2, <1>3 DEF Precedes

\* A NULL price crosses nothing.
LEMMA CrossingHavePrices ==
  ASSUME Incoming
  PROVE  /\ Crossing(inSide, inPrice, resting) \subseteq Names
         /\ \A r \in Crossing(inSide, inPrice, resting) :
              inPrice # 0 /\ resting[r].price # 0
         /\ \A r \in Names : 
              r \in Crossing(inSide, inPrice, resting) <=>
                Crosses(inSide, inPrice, resting[r].price)
  BY DEF Crossing, Crosses, Incoming

\* What rests and what comes in is at least one share.
LEMMA RestsCount ==
  ASSUME Incoming
  PROVE  /\ \A r \in Names : /\ Remaining(resting)[r] = resting[r].rem
                            /\ resting[r].rem \in Nat \ {0}
                            /\ Remaining(resting)[r] \in Nat
         /\ inQty \in Nat \ {0}
<1>1. \A r \in Names : resting[r] \in Rests
  BY DEF Incoming
<1>2. DOMAIN resting = Names
  BY DEF Incoming
<1> QED BY <1>1, <1>2 DEF Remaining, Rests, Incoming

\* What is gone is a number.
LEMMA GoneIsNat ==
  ASSUME Incoming
  PROVE  /\ IsFiniteSet(Bought) /\ Bought \subseteq Names
         /\ Gone \in Nat
<1>1. IsFiniteSet(Bought) /\ Bought \subseteq Names
  BY CrossingHavePrices, FS_Subset DEF Bought
<1>2. \A r \in Bought : Remaining(resting)[r] \in Nat
  BY <1>1, RestsCount
<1> QED BY <1>1, <1>2, SumIsNat DEF Gone

\* For the row at the head these are the ones that were compared.
LEMMA BeforeHead ==
  ASSUME Incoming, Queue, queue # <<>>,
         resting[Head(queue)].price # 0
  PROVE  {d \in Crossing(inSide, inPrice, resting) :
            ServedBefore(inSide, resting[d], resting[Head(queue)])} = Bought
<1> DEFINE r == Head(queue)
           C == Crossing(inSide, inPrice, resting)
<1>1. 1 \in DOMAIN queue /\ r = queue[1] /\ r \in Names /\ r \in Waiting
  BY DEF Queue, Waiting
<1>2. ASSUME NEW d \in C, ServedBefore(inSide, resting[d], resting[r])
      PROVE  d \in Done
  <2>1. d \in Names /\ resting[d].price # 0
    BY CrossingHavePrices
  <2>2. Precedes(inSide, resting, d, r)
    BY <1>2, <2>1 DEF Precedes
  <2>3. ~Precedes(inSide, resting, r, d)
    BY <1>1, <2>1, <2>2, Order
  <2>4. ASSUME NEW i \in DOMAIN queue, d = queue[i] PROVE FALSE
    <3>1. i = 1 \/ 1 < i
      BY <2>4 DEF Queue
    <3>2. CASE i = 1
      BY <1>1, <2>2, <2>3, <2>4, <3>2
    <3>3. CASE 1 < i
      BY <1>1, <2>3, <2>4, <3>3 DEF Queue
    <3> QED BY <3>1, <3>2, <3>3
  <2> QED BY <2>1, <2>4 DEF Done, Waiting
<1>3. ASSUME NEW d \in C, d \in Done
      PROVE  ServedBefore(inSide, resting[d], resting[r])
  <2>1. Precedes(inSide, resting, d, r)
    BY <1>1, <1>3 DEF Queue
  <2>2. resting[d].price # 0
    BY CrossingHavePrices
  <2> QED BY <2>1, <2>2 DEF Precedes
<1> QED BY <1>2, <1>3 DEF Bought

\* A step takes the head off the queue.
LEMMA HeadDone ==
  ASSUME Incoming, Queue, queue # <<>>, queue' = Tail(queue),
         UNCHANGED <<inSide, resting>>
  PROVE  /\ Queue'
         /\ Done' = Done \cup {Head(queue)} /\ Head(queue) \in Waiting
         /\ Waiting' = Waiting \ {Head(queue)}
<1> DEFINE r == Head(queue)
<1>1. /\ queue \in Seq(Names) /\ Len(queue) \in Nat /\ Len(queue) > 0
      /\ DOMAIN queue = 1..Len(queue) /\ r = queue[1]
  BY DEF Queue
<1>2. /\ queue' \in Seq(Names) /\ DOMAIN queue' = 1..(Len(queue) - 1)
      /\ \A i \in DOMAIN queue' : i + 1 \in DOMAIN queue
                                  /\ queue'[i] = queue[i + 1]
  BY <1>1
<1>3. \A i \in DOMAIN queue : i # 1 => /\ i - 1 \in DOMAIN queue'
                                       /\ (i - 1) + 1 = i
  BY <1>1, <1>2
<1>4. \A i, j \in DOMAIN queue : i # j => queue[i] # queue[j]
  BY DEF Queue
<1>5. Waiting' = Waiting \ {r}
  <2>1. ASSUME NEW t \in Waiting' PROVE t \in Waiting /\ t # r
    <3>1. PICK i \in DOMAIN queue' : t = queue'[i]
      BY DEF Waiting
    <3>2. t = queue[i + 1] /\ i + 1 \in DOMAIN queue /\ i + 1 # 1
          /\ 1 \in DOMAIN queue
      BY <1>1, <1>2, <3>1
    <3> QED BY <1>1, <1>4, <3>2 DEF Waiting
  <2>2. ASSUME NEW t \in Waiting, t # r PROVE t \in Waiting'
    <3>1. PICK i \in DOMAIN queue : t = queue[i]
      BY DEF Waiting
    <3>2. i # 1
      BY <1>1, <2>2, <3>1
    <3>3. t = queue'[i - 1] /\ i - 1 \in DOMAIN queue'
      BY <1>2, <1>3, <3>1, <3>2
    <3> QED BY <3>3 DEF Waiting
  <2> QED BY <2>1, <2>2
<1>6. r \in Waiting /\ r \in Names
  BY <1>1 DEF Waiting
<1>7. Done' = Done \cup {r}
  BY <1>5, <1>6 DEF Done
<1>8. \A i, j \in DOMAIN queue' : i # j => queue'[i] # queue'[j]
  BY <1>1, <1>2, <1>4
<1>9. \A i, j \in DOMAIN queue : i < j =>
        Precedes(inSide, resting, queue[i], queue[j])
  BY DEF Queue
<1>10. \A i, j \in DOMAIN queue' : i < j =>
         Precedes(inSide, resting, queue'[i], queue'[j])
  <2> SUFFICES ASSUME NEW i \in DOMAIN queue', NEW j \in DOMAIN queue', i < j
               PROVE  Precedes(inSide, resting, queue'[i], queue'[j])
    OBVIOUS
  <2>1. i + 1 < j + 1
    BY <1>1, <1>2
  <2> QED BY <1>2, <1>9, <2>1
<1>11. \A t \in Waiting' : Precedes(inSide, resting, r, t)
  <2> SUFFICES ASSUME NEW t \in Waiting'
               PROVE  Precedes(inSide, resting, r, t)
    OBVIOUS
  <2>1. PICK i \in DOMAIN queue' : t = queue'[i]
    BY DEF Waiting
  <2>2. t = queue[i + 1] /\ i + 1 \in DOMAIN queue /\ 1 < i + 1
        /\ 1 \in DOMAIN queue
    BY <1>1, <1>2, <2>1
  <2> QED BY <1>1, <1>9, <2>2
<1>12. \A d \in Done' : \A t \in Waiting' : Precedes(inSide, resting, d, t)
  BY <1>5, <1>7, <1>11 DEF Queue
<1>13. \A d, t : Precedes(inSide, resting, d, t)'
                = Precedes(inSide, resting, d, t)
  BY DEF Precedes, ServedBefore
<1>14. Queue'
  BY <1>2, <1>8, <1>10, <1>12 DEF Queue, Precedes, ServedBefore
<1> QED BY <1>5, <1>6, <1>7, <1>14

\* A turn of the loop gives the row at the head what the closed form does.
LEMMA RowServed ==
  ASSUME LoopInv, RowCompared
  PROVE  LoopInv'
<1> DEFINE r == Head(queue)
           C == Crossing(inSide, inPrice, resting)
           A == Allocation(inSide, inPrice, inQty, resting)
<1> USE DEF LoopInv
<1>1. /\ queue # <<>> /\ inLeft > 0 /\ ~raised
      /\ inPrice # 0 /\ resting[r].price # 0
      /\ tradeQty' = [tradeQty EXCEPT ![r] = Traded(r)]
      /\ inLeft' = inLeft - Traded(r) /\ queue' = Tail(queue)
      /\ UNCHANGED <<inSide, inPrice, inQty, resting, raised>>
  BY DEF RowCompared
<1>2. /\ Queue' /\ r \in Waiting /\ r \in Names /\ r \notin Done
      /\ Done' = Done \cup {r} /\ Waiting' = Waiting \ {r}
  <2>1. r \in Waiting /\ Queue' /\ Done' = Done \cup {r}
        /\ Waiting' = Waiting \ {r}
    BY <1>1, HeadDone
  <2>2. Waiting \subseteq Names
    BY DEF Waiting, Queue
  <2> QED BY <2>1, <2>2 DEF Done
<1>3. /\ resting[r].rem \in Nat \ {0}
      /\ Remaining(resting)[r] = resting[r].rem
      /\ inQty \in Nat \ {0} /\ inLeft \in Nat
      /\ r \in C <=> Crosses(inSide, inPrice, resting[r].price)
      /\ DOMAIN resting = Names
  BY <1>2, RestsCount, CrossingHavePrices DEF Incoming
<1>4. /\ IsFiniteSet(Bought) /\ Bought \subseteq Names /\ Gone \in Nat
      /\ r \notin Bought
  BY <1>2, GoneIsNat DEF Bought
<1>5. inLeft = inQty - Gone
  BY <1>1, <1>3, <1>4 DEF Served, Cut
<1>6. TakenBefore(r, inSide, inPrice, resting) = Gone
  BY <1>1, BeforeHead DEF TakenBefore, Gone
<1>7. /\ Traded(r) = A[r] /\ Traded(r) \in Nat
      /\ Traded(r) <= inLeft
      /\ r \notin C => Traded(r) = 0
      /\ r \in C => Traded(r) = IF inLeft < resting[r].rem THEN inLeft
                                 ELSE resting[r].rem
  <2>1. CASE r \in C
    <3>1. Traded(r) =
            IF inLeft < resting[r].rem THEN inLeft ELSE resting[r].rem
      BY <1>3, <2>1 DEF Traded
    <3>2. A[r] = IF inLeft <= 0 THEN 0
                 ELSE IF resting[r].rem < inLeft THEN resting[r].rem ELSE inLeft
      <4> HIDE DEF C
      <4> QED BY <1>2, <1>3, <1>5, <1>6, <2>1 DEF Allocation, C
    <3> QED BY <1>1, <1>3, <2>1, <3>1, <3>2
  <2>2. CASE r \notin C
    <3>1. Traded(r) = 0
      BY <1>3, <2>2 DEF Traded
    <3>2. A[r] = 0
      BY <1>2, <1>3, <2>2 DEF Allocation
    <3> QED BY <1>3, <2>2, <3>1, <3>2
  <2> QED BY <2>1, <2>2
<1> HIDE DEF A, C
<1>8. /\ r \in C => Gone' = Gone + resting[r].rem
      /\ r \notin C => Gone' = Gone
  <2>1. Bought' = IF r \in C THEN Bought \cup {r} ELSE Bought
    BY <1>1, <1>2 DEF Bought, C
  <2>2. Gone' = SumFunctionOnSet(Remaining(resting), Bought')
    BY <1>1 DEF Gone
  <2>3. \A x \in Bought : Remaining(resting)[x] \in Int
    BY <1>4, RestsCount
  <2>4. SumFunctionOnSet(Remaining(resting), Bought \cup {r})
          = Gone + resting[r].rem
    BY <1>3, <1>4, <2>3, SumAdds DEF Gone
  <2> QED BY <2>1, <2>2, <2>4 DEF Gone
<1>9. inLeft' = Cut(inQty - Gone)'
  <2>1. CASE r \in C
    BY <1>1, <1>3, <1>4, <1>5, <1>7, <1>8, <2>1 DEF Cut
  <2>2. CASE r \notin C
    BY <1>1, <1>3, <1>4, <1>5, <1>7, <1>8, <2>2 DEF Cut
  <2> QED BY <2>1, <2>2
<1>10. Incoming'
  <2>1. inLeft' \in Nat
    BY <1>1, <1>3, <1>7
  <2>2. tradeQty' \in [Names -> Nat]
    BY <1>1, <1>2, <1>7 DEF Incoming
  <2> QED BY <1>1, <2>1, <2>2 DEF Incoming
<1>11. A' = A
  BY <1>1 DEF A, Allocation, Crossing, TakenBefore,
              Remaining
<1>12. \A d \in Done' : /\ inPrice # 0 /\ resting[d].price # 0
                        /\ tradeQty'[d] = A[d]
  <2>1. \A d \in Done : /\ inPrice # 0 /\ resting[d].price # 0
                        /\ tradeQty[d] = A[d]
    BY DEF Served, A
  <2>2. tradeQty'[r] = A[r] /\ \A d \in Done : tradeQty'[d] = tradeQty[d]
    BY <1>1, <1>2, <1>7 DEF Incoming, Done
  <2> QED BY <1>1, <1>2, <2>1, <2>2
<1>13. \A t \in Waiting' : tradeQty'[t] = 0
  <2>1. Waiting \subseteq Names
    BY DEF Waiting, Queue
  <2> QED BY <1>1, <1>2, <2>1 DEF Served, Incoming
<1>14. Served'
  BY <1>1, <1>9, <1>11, <1>12, <1>13 DEF Served, A
<1> QED BY <1>2, <1>10, <1>14

\* Rows at a NULL price are the last: behind one, none has a price.
LEMMA RowsBehind ==
  ASSUME Incoming, Queue, queue # <<>>, resting[Head(queue)].price = 0
  PROVE  Bought = Crossing(inSide, inPrice, resting)
<1>1. /\ queue \in Seq(Names) /\ 1 \in DOMAIN queue /\ Head(queue) = queue[1]
      /\ \A i \in DOMAIN queue : i = 1 \/ 1 < i
  BY DEF Queue
<1>2. ASSUME NEW i \in DOMAIN queue
      PROVE  resting[queue[i]].price = 0
  <2>1. CASE i = 1
    BY <1>1, <2>1
  <2>2. CASE 1 < i
    <3>1. Precedes(inSide, resting, queue[1], queue[i])
      BY <1>1, <2>2 DEF Queue
    <3> QED BY <1>1, <3>1 DEF Precedes
  <2> QED BY <1>1, <2>1, <2>2
<1>3. \A t \in Waiting : resting[t].price = 0
  BY <1>2 DEF Waiting
<1> QED BY <1>3, CrossingHavePrices DEF Bought, Done

\* The loop raises where the closed form says that it does.
LEMMA RowRaised ==
  ASSUME LoopInv, RowRaises
  PROVE  LoopInv'
<1> USE DEF LoopInv
<1> DEFINE C == Crossing(inSide, inPrice, resting)
<1>1. /\ queue # <<>> /\ inLeft > 0
      /\ inPrice = 0 \/ resting[Head(queue)].price = 0
      /\ raised' = TRUE
      /\ UNCHANGED <<inSide, inPrice, inQty, resting, queue, inLeft, tradeQty>>
  BY DEF RowRaises
<1>2. Head(queue) \in Names /\ DOMAIN resting = Names
  BY <1>1 DEF Queue, Incoming
<1>3. MatchRaises(inSide, inPrice, inQty, resting)
  <2>1. CASE inPrice = 0
    BY <1>2, <2>1 DEF MatchRaises
  <2>2. CASE resting[Head(queue)].price = 0
    <3>1. Gone = SumFunctionOnSet(Remaining(resting), C)
      BY <1>1, <2>2, RowsBehind DEF Gone
    <3>2. Gone < inQty
      BY <1>1, GoneIsNat, RestsCount DEF Served, Cut
    <3> QED BY <1>2, <2>2, <3>1, <3>2 DEF MatchRaises
  <2> QED BY <1>1, <2>1, <2>2
<1>4. Incoming' /\ Queue'
  BY <1>1 DEF Incoming, Queue, Done, Waiting, Precedes, ServedBefore
<1>5. Served'
  <2>1. /\ Gone' = Gone /\ Done' = Done /\ Waiting' = Waiting
        /\ Allocation(inSide, inPrice, inQty, resting)'
             = Allocation(inSide, inPrice, inQty, resting)
        /\ MatchRaises(inSide, inPrice, inQty, resting)'
             = MatchRaises(inSide, inPrice, inQty, resting)
    BY <1>1 DEF Gone, Bought, Done, Waiting, Allocation, Crossing,
                TakenBefore, Remaining, MatchRaises
  <2> QED BY <1>1, <1>3, <2>1 DEF Served, Cut
<1> QED BY <1>4, <1>5

\* At the end the closed form is what the loop has done.
LEMMA LoopIsClosed == LoopInv => AllocationIsTheLoop
<1> SUFFICES ASSUME LoopInv, Finished
             PROVE  /\ raised = MatchRaises(inSide, inPrice, inQty, resting)
                    /\ ~raised =>
                         tradeQty = Allocation(inSide, inPrice, inQty, resting)
  BY DEF AllocationIsTheLoop
<1> USE DEF LoopInv
<1> DEFINE C == Crossing(inSide, inPrice, resting)
           A == Allocation(inSide, inPrice, inQty, resting)
           Sum(S) == SumFunctionOnSet(Remaining(resting), S)
<1>1. DOMAIN resting = Names /\ C \subseteq Names /\ IsFiniteSet(C)
      /\ \A r \in Names : Remaining(resting)[r] \in Nat
  BY CrossingHavePrices, RestsCount, FS_Subset DEF Incoming
<1>2. inQty \in Nat \ {0} /\ Gone \in Nat /\ Bought \subseteq C
  BY RestsCount, GoneIsNat DEF Bought
<1>3. CASE raised
  BY <1>3 DEF Served, Incoming, MatchRaises
<1>4. CASE ~raised /\ queue = <<>>
  <2>1. Done = Names
    BY <1>4 DEF Done, Waiting
  <2>2. ~MatchRaises(inSide, inPrice, inQty, resting)
    BY <1>1, <2>1 DEF Served, MatchRaises
  <2>3. tradeQty = A
    <3>1. \A r \in Names : tradeQty[r] = A[r]
      BY <2>1 DEF Served
    <3>2. DOMAIN A = Names /\ A = [r \in Names |-> A[r]]
      BY <1>1 DEF Allocation
    <3>3. tradeQty = [r \in Names |-> tradeQty[r]]
      BY DEF Incoming
    <3> HIDE DEF A
    <3> QED BY <3>1, <3>2, <3>3
  <2> QED BY <1>4, <2>2, <2>3 DEF Incoming, MatchRaises
<1>5. CASE ~raised /\ inLeft = 0
  <2>1. Gone >= inQty
    BY <1>2, <1>5 DEF Served, Cut
  <2>2. Sum(C) >= inQty
    <3>1. Gone <= Sum(C) /\ Sum(C) \in Nat
      BY <1>1, <1>2, SumOfPart DEF Gone
    <3> HIDE DEF Sum
    <3> QED BY <1>2, <2>1, <3>1
  <2>3. Bought # {}
    BY <1>2, <2>1, SumOfNone DEF Gone
  <2>4. inPrice # 0
    BY <1>2, <2>3, CrossingHavePrices
  <2>5. ~MatchRaises(inSide, inPrice, inQty, resting)
    <3>1. Sum(C) \in Nat
      BY <1>1, SumIsNat
    <3> QED BY <1>2, <2>2, <2>4, <3>1 DEF MatchRaises
  <2>6. ASSUME NEW r \in Waiting PROVE r \in Names /\ A[r] = 0
    <3>1. r \in Names
      BY DEF Waiting, Queue
    <3>2. CASE r \notin C
      BY <1>1, <3>1, <3>2 DEF Allocation
    <3>3. CASE r \in C
      <4> DEFINE B == {d \in C :
                         ServedBefore(inSide, resting[d], resting[r])}
      <4>1. \A d \in Bought : d \in B
        <5> SUFFICES ASSUME NEW d \in Bought PROVE d \in B
          OBVIOUS
        <5>1. d \in Done /\ d \in C
          BY DEF Bought
        <5>2. Precedes(inSide, resting, d, r)
          BY <5>1 DEF Queue
        <5>3. resting[r].price # 0 /\ resting[d].price # 0
          BY <3>3, <5>1, CrossingHavePrices
        <5> QED BY <5>1, <5>2, <5>3 DEF Precedes
      <4>2. B \subseteq C /\ Bought \subseteq B
        BY <4>1
      <4>3. IsFiniteSet(B) /\ \A x \in B : Remaining(resting)[x] \in Nat
        BY <1>1, <4>2, FS_Subset
      <4>4. Sum(B) = TakenBefore(r, inSide, inPrice, resting)
        BY DEF TakenBefore
      <4> HIDE DEF B
      <4>5. Gone <= Sum(B) /\ Sum(B) \in Nat
        BY <4>2, <4>3, SumOfPart DEF Gone
      <4> HIDE DEF Sum
      <4>6. inQty - Sum(B) <= 0
        BY <1>2, <2>1, <4>5
      <4> QED BY <1>1, <3>1, <3>3, <4>4, <4>6 DEF Allocation
    <3> QED BY <3>1, <3>2, <3>3
  <2>7. tradeQty = A
    <3> HIDE DEF A
    <3>1. \A r \in Names : tradeQty[r] = A[r]
      BY <2>6 DEF Served, Done, A
    <3>2. A = [r \in Names |-> A[r]]
      BY <1>1 DEF Allocation, A
    <3>3. tradeQty = [r \in Names |-> tradeQty[r]]
      BY DEF Incoming
    <3> QED BY <3>1, <3>2, <3>3
  <2> QED BY <1>5, <2>5, <2>7 DEF Incoming, MatchRaises
<1> QED BY <1>3, <1>4, <1>5 DEF Finished

\* matchingOrder, row by row, gives every row of any book what the closed form
\* gives it, and raises exactly when that says so.
THEOREM LoopIsTheAllocation == LoopSpec => []AllocationIsTheLoop
<1>1. LoopInit => LoopInv
  <2> SUFFICES ASSUME LoopInit PROVE LoopInv
    OBVIOUS
  <2>1. /\ queue \in SetToSeqs(Names) /\ Sorted(inSide, resting, queue)
        /\ inLeft = inQty /\ tradeQty = [r \in Names |-> 0] /\ raised = FALSE
        /\ inSide \in {"BUY", "SELL"} /\ inQty \in Nat \ {0}
    BY DEF LoopInit, SetToSeqs
  <2>2. Incoming
    <3>1. inPrice \in Nat
      BY DEF LoopInit, IncomingPrices
    <3>2. resting \in [Names -> Rests]
      <4>1. resting \in [Names -> [price : RestingPrices(inSide),
                                    rem : Nat \ {0},
                                    at : 1..Cardinality(Names)]]
        BY DEF LoopInit
      <4>2. RestingPrices(inSide) \subseteq Nat
            /\ 1..Cardinality(Names) \subseteq Int
        BY FS_CardinalityType DEF RestingPrices
      <4> QED BY <4>1, <4>2 DEF Rests
    <3>3. \A r, s \in Names : r # s => resting[r].at # resting[s].at
      BY DEF LoopInit
    <3>4. inLeft \in Nat /\ tradeQty \in [Names -> Nat] /\ raised \in BOOLEAN
      BY <2>1
    <3> QED BY <2>1, <3>1, <3>2, <3>3, <3>4 DEF Incoming
  <2>3. /\ queue \in [1..Cardinality(Names) -> Names]
        /\ \A i, j \in 1..Cardinality(Names) : i # j => queue[i] # queue[j]
    BY <2>1 DEF SetToSeqs
  <2>4. Cardinality(Names) \in Nat
    BY FS_CardinalityType
  <2>5. Waiting = Names
    <3>1. queue \in Injection(1..Cardinality(Names), Names)
      BY <2>3 DEF Injection, IsInjective
    <3>2. Cardinality(1..Cardinality(Names)) = Cardinality(Names)
      BY <2>4, FS_Interval
    <3>3. queue \in Surjection(1..Cardinality(Names), Names)
      BY <3>1, <3>2, FS_Injection
    <3> QED BY <2>3, <3>3 DEF Surjection, Waiting
  <2>6. Queue
    <3>1. queue \in Seq(Names)
      BY <2>3, <2>4
    <3>2. \A i, j \in DOMAIN queue : i < j =>
            Precedes(inSide, resting, queue[i], queue[j])
      BY <2>1 DEF Sorted, Precedes
    <3> QED BY <2>3, <2>5, <3>1, <3>2 DEF Queue, Done
  <2>7. Served
    <3>1. Done = {} /\ Bought = {}
      BY <2>5 DEF Done, Bought
    <3>2. Gone = 0
      BY <3>1, SumOfNone DEF Gone
    <3>3. inQty \in Nat
      BY <2>1
    <3> QED BY <2>1, <2>5, <3>1, <3>2, <3>3 DEF Served, Cut
  <2> QED BY <2>2, <2>6, <2>7 DEF LoopInv
<1>2. LoopInv /\ [LoopNext]_loopVars => LoopInv'
  <2> SUFFICES ASSUME LoopInv, [LoopNext]_loopVars PROVE LoopInv'
    OBVIOUS
  <2>1. CASE UNCHANGED loopVars
    <3>1. /\ Incoming' = Incoming /\ Queue' = Queue
      BY <2>1 DEF loopVars, Incoming, Queue, Done, Waiting, Precedes,
                  ServedBefore
    <3>2. Served' = Served
      BY <2>1 DEF loopVars, Served, Cut, Gone, Bought, Done, Waiting,
                  Allocation, Crossing, TakenBefore,
                  Remaining, MatchRaises, ServedBefore
    <3> QED BY <3>1, <3>2 DEF LoopInv
  <2> QED BY <2>1, RowServed, RowRaised DEF LoopNext
<1> QED BY <1>1, <1>2, LoopIsClosed, PTL DEF LoopSpec
=============================================================================
