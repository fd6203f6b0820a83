------------------------------- MODULE TopUps -------------------------------
(***************************************************************************)
(* Paying cash into a wallet through Razorpay: the order created at the    *)
(* provider, the ledger row a background task inserts, and the webhook of  *)
(* the captured payment, which may be delivered more than once and whose   *)
(* processing is two transactions: PENDING -> SUCCESS, then the credit.    *)
(*                                                                         *)
(* A step is one committed transaction or one event at the provider.       *)
(***************************************************************************)
EXTENDS Integers

CONSTANTS
  Users, Deposits,
  Owner, Amount,     \* of every deposit
  NoWallet,          \* in place of a balance: the user has no wallets row
  Opening,           \* the wallets at the start
  Sums,              \* what orders take from a wallet
  MaxDeliveries      \* bound: webhooks sent for one payment

ASSUME OwnerAssumption == Owner \in [Deposits -> Users]
ASSUME AmountAssumption == Amount \in [Deposits -> Nat \ {0}]
ASSUME NoWalletAssumption == NoWallet \notin Int
ASSUME OpeningAssumption == Opening \in [Users -> Nat \cup {NoWallet}]
ASSUME SumsAssumption == Sums \subseteq Nat \ {0}
ASSUME DeliveriesAssumption == MaxDeliveries \in Nat \ {0}

VARIABLES
  payment,    \* at Razorpay: "none", "created", "captured"
  pending,    \* deposits whose ledger row the background task has to insert
  ledger,     \* wallet_ledger.status, "ABSENT" before there is a row
  hook,       \* how far each delivery of a deposit's webhook is processed
  wallet,     \* wallets.balance
  credits,    \* history variable: how often each deposit was credited
  failed      \* history variable: deposits some task of which has failed

vars == <<payment, pending, ledger, hook, wallet, credits, failed>>

Deliveries == 1..MaxDeliveries

TypeOK ==
  /\ payment \in [Deposits -> {"none", "created", "captured"}]
  /\ pending \subseteq Deposits
  /\ ledger \in [Deposits -> {"ABSENT", "PENDING", "SUCCESS"}]
  /\ hook \in [Deposits ->
                 [Deliveries -> {"none", "flip", "credit", "first", "done"}]]
  /\ wallet \in [Users -> Nat \cup {NoWallet}]
  /\ credits \in [Deposits -> Nat]
  /\ failed \subseteq Deposits

Init ==
  /\ payment = [d \in Deposits |-> "none"]
  /\ pending = {}
  /\ ledger = [d \in Deposits |-> "ABSENT"]
  /\ hook = [d \in Deposits |-> [n \in Deliveries |-> "none"]]
  /\ wallet = Opening
  /\ credits = [d \in Deposits |-> 0]
  /\ failed = {}

\* POST /v1/addFundsToWallet: the order exists at Razorpay, the client has its
\* answer, and only then does the background task run.
AddFunds(d) ==
  /\ payment[d] = "none"
  /\ payment' = [payment EXCEPT ![d] = "created"]
  /\ pending' = pending \cup {d}
  /\ UNCHANGED <<ledger, hook, wallet, credits, failed>>

InsertPending(d) ==
  /\ d \in pending
  /\ pending' = pending \ {d}
  /\ ledger' = [ledger EXCEPT ![d] = "PENDING"]
  /\ UNCHANGED <<payment, hook, wallet, credits, failed>>

InsertFails(d) ==
  /\ d \in pending
  /\ pending' = pending \ {d}
  /\ failed' = failed \cup {d}
  /\ UNCHANGED <<payment, ledger, hook, wallet, credits>>

\* The client pays in the checkout window.
Capture(d) ==
  /\ payment[d] = "created"
  /\ payment' = [payment EXCEPT ![d] = "captured"]
  /\ UNCHANGED <<pending, ledger, hook, wallet, credits, failed>>

Reaches(d, n, stage) == hook' = [hook EXCEPT ![d][n] = stage]

\* POST /v1/razorpay-webhook: accepted with 200, processed in the background.
\* Razorpay may deliver it again at any time.
Deliver(d, n) ==
  /\ payment[d] = "captured" /\ hook[d][n] = "none"
  /\ n > 1 => hook[d][n - 1] # "none"
  /\ Reaches(d, n, "flip")
  /\ UNCHANGED <<payment, pending, ledger, wallet, credits, failed>>

\* A slip: the two statuses of the UPDATE are swapped.
NewlyProcessedSwapped(d) == ledger[d] = "SUCCESS"

\* cursor.rowcount > 0 of UPDATE ... WHERE status = PENDING
NewlyProcessed(d) == ledger[d] = "PENDING"

\* updatePaymentStatus: the gate before the credit.
Flip(d, n) ==
  /\ hook[d][n] = "flip"
  /\ IF NewlyProcessed(d)
     THEN ledger' = [ledger EXCEPT ![d] = "SUCCESS"] /\ Reaches(d, n, "credit")
     ELSE UNCHANGED ledger /\ Reaches(d, n, "done")
  /\ UNCHANGED <<payment, pending, wallet, credits, failed>>

Credited(d) == credits' = [credits EXCEPT ![d] = @ + 1]

Increment(d) ==
  wallet' = [wallet EXCEPT ![Owner[d]] = @ + Amount[d]]

\* insertUpdateWallet when the wallets row exists: one relative UPDATE.
Credit(d, n) ==
  /\ hook[d][n] = "credit" /\ wallet[Owner[d]] # NoWallet
  /\ Increment(d) /\ Credited(d)
  /\ Reaches(d, n, "done")
  /\ UNCHANGED <<payment, pending, ledger, failed>>

\* No row has been read: on to the advisory lock of the user.
FindNoWallet(d, n) ==
  /\ hook[d][n] = "credit" /\ wallet[Owner[d]] = NoWallet
  /\ Reaches(d, n, "first")
  /\ UNCHANGED <<payment, pending, ledger, wallet, credits, failed>>

\* A slip: the row is inserted without looking again under the lock.
CreateOrIncrementBlindly(d) ==
  wallet' = [wallet EXCEPT ![Owner[d]] = Amount[d]]

\* Under the lock the row is looked for again before it is inserted.
CreateOrIncrement(d) ==
  IF wallet[Owner[d]] = NoWallet
  THEN wallet' = [wallet EXCEPT ![Owner[d]] = Amount[d]]
  ELSE Increment(d)

CreditFirst(d, n) ==
  /\ hook[d][n] = "first"
  /\ CreateOrIncrement(d) /\ Credited(d)
  /\ Reaches(d, n, "done")
  /\ UNCHANGED <<payment, pending, ledger, failed>>

\* A database error in the gate is swallowed and reads as "already processed";
\* one in the credit is raised, and nothing tries again.  A dying process ends
\* the same way for each task it was running.
HookFails(d, n) ==
  /\ hook[d][n] \in {"flip", "credit", "first"}
  /\ Reaches(d, n, "done")
  /\ failed' = failed \cup {d}
  /\ UNCHANGED <<payment, pending, ledger, wallet, credits>>

\* A slip: the balance is not compared in the UPDATE.
SufficientUnchecked(u, a) == wallet[u] # NoWallet

\* UPDATE wallets ... WHERE balance >= amount
Sufficient(u, a) == wallet[u] # NoWallet /\ wallet[u] >= a

\* debitWalletIfSufficient of an order, at any time.
Spend(u) ==
  /\ \E a \in Sums : /\ Sufficient(u, a)
                     /\ wallet' = [wallet EXCEPT ![u] = @ - a]
  /\ UNCHANGED <<payment, pending, ledger, hook, credits, failed>>

Process(d, n) == Flip(d, n) \/ Credit(d, n) \/ FindNoWallet(d, n)
                            \/ CreditFirst(d, n)

Next ==
  \/ \E d \in Deposits :
       \/ AddFunds(d) \/ InsertPending(d) \/ InsertFails(d) \/ Capture(d)
       \/ \E n \in Deliveries : Deliver(d, n) \/ Process(d, n) \/ HookFails(d, n)
  \/ \E u \in Users : Spend(u)

Spec == Init /\ [][Next]_vars

\* Background tasks run, and Razorpay delivers a webhook at least once.
FairSpec ==
  /\ Spec
  /\ \A d \in Deposits :
       /\ WF_vars(Deliver(d, 1))
       /\ \A n \in Deliveries : WF_vars(Process(d, n))

-----------------------------------------------------------------------------
\* Duplicate webhooks, concurrent first deposits and order debits at the same
\* time: every deposit is credited at most once, whole, and no update of a
\* balance is lost (updatePaymentStatus, insertUpdateWallet).
Balance(w) == [u \in Users |-> IF w[u] = NoWallet THEN 0 ELSE w[u]]
Promise == INSTANCE Wallets WITH
  Credits <- Deposits, Opening <- Balance(Opening),
  balance <- Balance(wallet), applied <- {d \in Deposits : credits[d] > 0}
KeepsPromise == Promise!Spec

\* A captured payment whose ledger row is there before its first webhook is
\* credited, unless a transaction fails on the way.  (A webhook that is faster
\* than the background insert is dropped as a duplicate.)
PaidInTimeIsCredited ==
  \A d \in Deposits :
    (/\ payment[d] = "captured" /\ ledger[d] = "PENDING"
     /\ \A n \in Deliveries : hook[d][n] = "none") 
      ~> (credits[d] = 1 \/ d \in failed)
=============================================================================
