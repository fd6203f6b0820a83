---------------------------- MODULE TopUpsProofs ----------------------------
(***************************************************************************)
(* TopUps keeps the promise of Wallets for any users, deposits, sums and   *)
(* number of webhooks: every deposit is credited at most once and whole.   *)
(*                                                                         *)
(* The reason is the gate: of all deliveries of one webhook, at most one   *)
(* ever stands between the gate and its credit, and while it does the      *)
(* ledger says SUCCESS and the deposit has not been credited.              *)
(***************************************************************************)
EXTENDS TopUps, TLAPS

\* Stages between the gate and the end of the credit.
Past == {"credit", "first"}

\* The ledger of a deposit only moves forward: its row is still to be inserted
\* only while there is none.
Fresh ==
  \A d \in Deposits :
    /\ payment[d] = "none" => d \notin pending
    /\ (payment[d] = "none" \/ d \in pending) => ledger[d] = "ABSENT"

\* What the gate gives to the one delivery that passes it.
Gate ==
  \A d \in Deposits :
    /\ ledger[d] # "SUCCESS" => credits[d] = 0
    /\ \A n \in Deliveries : hook[d][n] \in Past =>
         ledger[d] = "SUCCESS" /\ credits[d] = 0

\* No two deliveries of one webhook are past the gate.
Single ==
  \A d \in Deposits : \A m, n \in Deliveries :
    hook[d][m] \in Past /\ hook[d][n] \in Past => m = n

GateInv == TypeOK /\ Fresh /\ Gate /\ Single

USE OwnerAssumption, AmountAssumption, NoWalletAssumption, OpeningAssumption,
    SumsAssumption, DeliveriesAssumption

\* Nothing is credited, pending or delivered at the start.
LEMMA InitGate == Init => GateInv
  BY DEF Init, GateInv, TypeOK, Fresh, Gate, Single, Past, Deliveries

\* A handler or background task of the top-up keeps the invariant.
LEMMA FundsGate ==
  ASSUME GateInv, NEW d \in Deposits,
         AddFunds(d) \/ InsertPending(d) \/ InsertFails(d) \/ Capture(d)
  PROVE  GateInv'
<1> USE DEF GateInv, TypeOK, Fresh, Gate, Single, Past, Deliveries
<1>1. CASE AddFunds(d)
  BY <1>1 DEF AddFunds
<1>2. CASE InsertPending(d)
  BY <1>2 DEF InsertPending
<1>3. CASE InsertFails(d)
  BY <1>3 DEF InsertFails
<1>4. CASE Capture(d)
  BY <1>4 DEF Capture
<1> QED BY <1>1, <1>2, <1>3, <1>4

\* A delivery that reaches another stage, and what that leaves alone.
LEMMA Reached ==
  ASSUME TypeOK, NEW d \in Deposits, NEW n \in Deliveries,
         NEW stage \in {"none", "flip", "credit", "first", "done"},
         Reaches(d, n, stage)
  PROVE  /\ hook' \in [Deposits -> [Deliveries ->
                        {"none", "flip", "credit", "first", "done"}]]
         /\ hook'[d][n] = stage
         /\ \A e \in Deposits, m \in Deliveries :
              e # d \/ m # n => hook'[e][m] = hook[e][m]
  BY DEF TypeOK, Reaches

\* A delivery that moves on without passing the gate keeps the invariant.
LEMMA Harmless ==
  ASSUME GateInv, NEW d \in Deposits, NEW n \in Deliveries,
         NEW stage \in {"flip", "first", "done"},
         stage \in Past => hook[d][n] \in Past,
         Reaches(d, n, stage), failed' \subseteq Deposits,
         UNCHANGED <<payment, pending, ledger, wallet, credits>>
  PROVE  GateInv'
<1> USE DEF GateInv
<1>1. /\ hook' \in [Deposits -> [Deliveries ->
                      {"none", "flip", "credit", "first", "done"}]]
      /\ hook'[d][n] = stage
      /\ \A e \in Deposits, m \in Deliveries :
           e # d \/ m # n => hook'[e][m] = hook[e][m]
  BY Reached
<1>2. \A e \in Deposits, m \in Deliveries :
        hook'[e][m] \in Past => hook[e][m] \in Past
  BY <1>1
<1>3. TypeOK'
  BY <1>1 DEF TypeOK
<1>4. Fresh' /\ Gate' /\ Single'
  BY <1>2 DEF Fresh, Gate, Single
<1> QED BY <1>3, <1>4

\* The steps of a webhook: past the gate only from PENDING, which it leaves.
LEMMA HookGate ==
  ASSUME GateInv, NEW d \in Deposits, NEW n \in Deliveries,
         Deliver(d, n) \/ Process(d, n) \/ HookFails(d, n)
  PROVE  GateInv'
<1> USE DEF GateInv
<1>1. CASE Deliver(d, n)
  BY <1>1, Harmless DEF Deliver, TypeOK, Past
<1>2. CASE Flip(d, n) /\ NewlyProcessed(d)
  <2>1. Reaches(d, n, "credit") BY <1>2 DEF Flip
  <2>2. ledger[d] = "PENDING" /\ credits[d] = 0
    BY <1>2 DEF NewlyProcessed, Gate
  <2>3. \A m \in Deliveries : hook[d][m] \notin Past
    BY <2>2 DEF Gate
  <2>4. ledger' = [ledger EXCEPT ![d] = "SUCCESS"]
    BY <1>2 DEF Flip
  <2>5. UNCHANGED <<payment, pending, wallet, credits, failed>>
    BY <1>2 DEF Flip
  <2>6. /\ hook' \in [Deposits -> [Deliveries ->
                       {"none", "flip", "credit", "first", "done"}]]
        /\ \A e \in Deposits, m \in Deliveries :
             e # d \/ m # n => hook'[e][m] = hook[e][m]
    BY <2>1, Reached
  <2>7. TypeOK'
    BY <2>6, <2>4, <2>5 DEF TypeOK
  <2>8. Fresh'
    BY <2>2, <2>4, <2>5 DEF Fresh, TypeOK
  <2>9. Gate'
    BY <2>6, <2>2, <2>4, <2>5 DEF Gate, TypeOK
  <2>10. Single'
    <3> SUFFICES ASSUME NEW e \in Deposits, NEW m \in Deliveries,
                        NEW k \in Deliveries,
                        hook'[e][m] \in Past, hook'[e][k] \in Past
                 PROVE  m = k
      BY DEF Single, Past, Deliveries
    <3>1. CASE e = d
      BY <2>3, <2>6, <3>1
    <3>2. CASE e # d
      BY <2>6, <3>2 DEF Single
    <3> QED BY <3>1, <3>2
  <2> QED BY <2>7, <2>8, <2>9, <2>10
<1>3. CASE Flip(d, n) /\ ~NewlyProcessed(d)
  BY <1>3, Harmless DEF Flip, TypeOK, Past
<1>4. CASE Credit(d, n) \/ CreditFirst(d, n)
  <2>1. Reaches(d, n, "done") /\ hook[d][n] \in Past
    BY <1>4 DEF Credit, CreditFirst, Past
  <2>2. credits' = [credits EXCEPT ![d] = @ + 1]
    BY <1>4 DEF Credit, CreditFirst, Credited
  <2>3. UNCHANGED <<payment, pending, ledger, failed>>
    BY <1>4 DEF Credit, CreditFirst
  <2>4. wallet' \in [Users -> Nat \cup {NoWallet}]
    <3>1. Owner[d] \in Users /\ Amount[d] \in Nat
      OBVIOUS
    <3>2. CASE wallet[Owner[d]] = NoWallet
      BY <1>4, <3>1, <3>2
      DEF Credit, CreditFirst, CreateOrIncrement, Increment, TypeOK
    <3>3. CASE wallet[Owner[d]] # NoWallet
      <4>1. wallet' = [wallet EXCEPT ![Owner[d]] = @ + Amount[d]]
        BY <1>4, <3>3 DEF Credit, CreditFirst, CreateOrIncrement, Increment
      <4>2. wallet[Owner[d]] + Amount[d] \in Nat
        BY <3>1, <3>3 DEF TypeOK
      <4> QED BY <3>1, <4>1, <4>2 DEF TypeOK
    <3> QED BY <3>2, <3>3
  <2>5. /\ hook' \in [Deposits -> [Deliveries ->
                       {"none", "flip", "credit", "first", "done"}]]
        /\ hook'[d][n] = "done"
        /\ \A e \in Deposits, m \in Deliveries :
             e # d \/ m # n => hook'[e][m] = hook[e][m]
    BY <2>1, Reached
  <2>6. TypeOK'
    BY <2>5, <2>2, <2>3, <2>4 DEF TypeOK
  <2>7. Fresh'
    BY <2>3 DEF Fresh
  <2>8. \A m \in Deliveries : hook'[d][m] \notin Past
    BY <2>5, <2>1 DEF Single, Past
  <2>9. ledger[d] = "SUCCESS"
    BY <2>1 DEF Gate
  <2>10. Gate'
    BY <2>5, <2>2, <2>3, <2>8, <2>9 DEF Gate, TypeOK
  <2>11. Single'
    BY <2>5, <2>8 DEF Single
  <2> QED BY <2>6, <2>7, <2>10, <2>11
<1>5. CASE FindNoWallet(d, n)
  BY <1>5, Harmless DEF FindNoWallet, TypeOK, Past
<1>6. CASE HookFails(d, n)
  BY <1>6, Harmless DEF HookFails, TypeOK, Past
<1> QED BY <1>1, <1>2, <1>3, <1>4, <1>5, <1>6 DEF Process

\* An order that takes cash leaves a balance that is no debt.
LEMMA SpendGate ==
  ASSUME GateInv, NEW u \in Users, Spend(u)
  PROVE  GateInv'
<1>1. PICK a \in Sums : /\ Sufficient(u, a)
                        /\ wallet' = [wallet EXCEPT ![u] = @ - a]
  BY DEF Spend
<1>2. wallet[u] - a \in Nat
  BY <1>1 DEF Sufficient, GateInv, TypeOK
<1>3. UNCHANGED <<payment, pending, ledger, hook, credits, failed>>
  BY DEF Spend
<1> QED
  BY <1>1, <1>2, <1>3 DEF GateInv, TypeOK, Fresh, Gate, Single

\* The gate holds in every reachable state.
LEMMA GateInvariant == Spec => []GateInv
<1>1. GateInv /\ [Next]_vars => GateInv'
  <2> SUFFICES ASSUME GateInv, [Next]_vars PROVE GateInv'
    OBVIOUS
  <2>1. CASE UNCHANGED vars
    BY <2>1 DEF vars, GateInv, TypeOK, Fresh, Gate, Single
  <2>2. CASE Next
    BY <2>2, FundsGate, HookGate, SpendGate DEF Next
  <2> QED BY <2>1, <2>2
<1> QED BY InitGate, <1>1, PTL DEF Spec

\* Type correctness: in particular no balance is ever negative.
THEOREM TypeCorrect == Spec => []TypeOK
<1>1. GateInv => TypeOK
  BY DEF GateInv
<1> QED BY <1>1, GateInvariant, PTL

-----------------------------------------------------------------------------
Applied == {d \in Deposits : credits[d] > 0}

\* A new amount in a wallet is a new balance.
LEMMA BalanceUpdate ==
  ASSUME TypeOK, NEW u \in Users, NEW b \in Nat,
         wallet' = [wallet EXCEPT ![u] = b]
  PROVE  Balance(wallet)' = [Balance(wallet) EXCEPT ![u] = b]
<1>1. wallet'[u] = b /\ b # NoWallet
  BY DEF TypeOK
<1>2. \A v \in Users : v # u => wallet'[v] = wallet[v]
  BY DEF TypeOK
<1> QED BY <1>1, <1>2 DEF Balance

\* A step of a webhook is the credit of a deposit that had none, or changes no
\* balance.
LEMMA HookPromise ==
  ASSUME GateInv, NEW d \in Deposits, NEW n \in Deliveries, Process(d, n)
  PROVE  Promise!Apply(d) \/ UNCHANGED <<Balance(wallet), Applied>>
<1>1. CASE Flip(d, n) \/ FindNoWallet(d, n)
  BY <1>1 DEF Flip, FindNoWallet, Balance, Applied
<1>2. CASE Credit(d, n) \/ CreditFirst(d, n)
  <2>1. credits[d] = 0
    BY <1>2 DEF Credit, CreditFirst, GateInv, Gate, Past
  <2>2. credits' = [credits EXCEPT ![d] = @ + 1]
    BY <1>2 DEF Credit, CreditFirst, Credited
  <2>3. d \notin Applied /\ Applied' = Applied \cup {d}
    BY <2>1, <2>2 DEF Applied, GateInv, TypeOK
  <2>4. Owner[d] \in Users /\ Amount[d] \in Nat
    OBVIOUS
  <2>5. Balance(wallet)' = [Balance(wallet) EXCEPT ![Owner[d]] = @ + Amount[d]]
    <3>1. CASE wallet[Owner[d]] = NoWallet
      <4>1. wallet' = [wallet EXCEPT ![Owner[d]] = Amount[d]]
        BY <1>2, <3>1 DEF Credit, CreditFirst, CreateOrIncrement
      <4>2. Balance(wallet)' = [Balance(wallet) EXCEPT ![Owner[d]] = Amount[d]]
        BY <2>4, <4>1, BalanceUpdate DEF GateInv
      <4>3. Balance(wallet)[Owner[d]] + Amount[d] = Amount[d]
        BY <2>4, <3>1 DEF Balance
      <4> QED BY <4>2, <4>3
    <3>2. CASE wallet[Owner[d]] # NoWallet
      <4> DEFINE b == wallet[Owner[d]] + Amount[d]
      <4>1. wallet' = [wallet EXCEPT ![Owner[d]] = b]
        BY <1>2, <3>2 DEF Credit, CreditFirst, CreateOrIncrement, Increment
      <4>2. b \in Nat
        BY <2>4, <3>2 DEF GateInv, TypeOK
      <4> HIDE DEF b
      <4>3. Balance(wallet)' = [Balance(wallet) EXCEPT ![Owner[d]] = b]
        BY <2>4, <4>1, <4>2, BalanceUpdate DEF GateInv
      <4>4. Balance(wallet)[Owner[d]] + Amount[d] = b
        BY <2>4, <3>2 DEF Balance, b
      <4> QED BY <4>3, <4>4
    <3> QED BY <3>1, <3>2
  <2> QED BY <2>3, <2>5 DEF Promise!Apply, Applied
<1> QED BY <1>1, <1>2 DEF Process

\* A debit takes no more than the balance.
LEMMA SpendPromise ==
  ASSUME GateInv, NEW u \in Users, Spend(u)
  PROVE  Promise!Take(u)
<1>1. PICK a \in Sums : /\ Sufficient(u, a)
                        /\ wallet' = [wallet EXCEPT ![u] = @ - a]
  BY DEF Spend
<1>2. wallet[u] \in Nat /\ a \in 1..wallet[u]
  BY <1>1 DEF Sufficient, GateInv, TypeOK
<1>3. Balance(wallet)[u] = wallet[u]
  BY <1>2 DEF Balance
<1> DEFINE b == wallet[u] - a
<1>4. b \in Nat /\ wallet' = [wallet EXCEPT ![u] = b]
  BY <1>1, <1>2
<1> HIDE DEF b
<1>5. Balance(wallet)' = [Balance(wallet) EXCEPT ![u] = b]
  BY <1>4, BalanceUpdate DEF GateInv
<1>6. b = Balance(wallet)[u] - a
  BY <1>3 DEF b
<1> QED BY <1>2, <1>3, <1>5, <1>6 DEF Promise!Take, Spend

\* The webhooks, duplicated and concurrent as they may be, and the orders that
\* spend at the same time keep what Wallets promises: each deposit is credited
\* at most once, nothing is lost, and no balance is overdrawn.
THEOREM Implements == Spec => KeepsPromise
<1>1. Init => Promise!Init
  <2> SUFFICES ASSUME Init PROVE Promise!Init
    OBVIOUS
  <2>1. \A d \in Deposits : ~(credits[d] > 0)
    BY DEF Init
  <2> QED BY <2>1 DEF Init, Promise!Init, Balance
<1>2. GateInv /\ [Next]_vars =>
        [Promise!Next]_<<Balance(wallet), {d \in Deposits : credits[d] > 0}>>
  <2> SUFFICES ASSUME GateInv, [Next]_vars
               PROVE  Promise!Next \/ UNCHANGED <<Balance(wallet), Applied>>
    BY DEF Applied
  <2>1. CASE UNCHANGED vars
    BY <2>1 DEF vars, Balance, Applied
  <2>2. ASSUME NEW d \in Deposits,
               AddFunds(d) \/ InsertPending(d) \/ InsertFails(d) \/ Capture(d)
        PROVE  UNCHANGED <<Balance(wallet), Applied>>
    BY <2>2 DEF AddFunds, InsertPending, InsertFails, Capture, Balance, Applied
  <2>3. ASSUME NEW d \in Deposits, NEW n \in Deliveries,
               Deliver(d, n) \/ HookFails(d, n)
        PROVE  UNCHANGED <<Balance(wallet), Applied>>
    BY <2>3 DEF Deliver, HookFails, Balance, Applied
  <2>4. ASSUME NEW d \in Deposits, NEW n \in Deliveries, Process(d, n)
        PROVE  Promise!Next \/ UNCHANGED <<Balance(wallet), Applied>>
    BY <2>4, HookPromise DEF Promise!Next
  <2>5. ASSUME NEW u \in Users, Spend(u)
        PROVE  Promise!Next
    BY <2>5, SpendPromise DEF Promise!Next
  <2> QED BY <2>1, <2>2, <2>3, <2>4, <2>5 DEF Next
<1> QED BY <1>1, <1>2, GateInvariant, PTL DEF Spec, KeepsPromise, Promise!Spec
=============================================================================
