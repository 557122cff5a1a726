---------------------------- MODULE WalletLedger ----------------------------
(* The prepaid wallet of a branch: top-up intents and the payment
   gateway's callbacks, platform fees consumed and reversed inside an
   order's transaction, and administrator corrections.  Every balance
   change runs in a MongoDB transaction that also appends a ledger row.

   A transaction is three steps: its first read or claim fixes the
   snapshot, the write of the wallet document takes that document and
   fails when it moved since the snapshot (withTransaction then runs the
   callback again), and the commit publishes the wallet, the ledger row
   and the status change together. *)
EXTENDS Integers, Sequences

CONSTANTS Branches, Intents, Orders, Adjustments,
          Hooks,          \* webhook deliveries the server handles at once
          BranchOf, Amounts, FeeOf, DeltaOf, ActivationMin,
          MaxFailures,    \* bound on crashes, aborts and lost gateway answers
          None            \* no process, no job, no row

Jobs == Intents \union Orders \union Adjustments
Procs == Hooks \union Orders \union Adjustments

ASSUME ParameterAssumption ==
  /\ BranchOf \in [Jobs -> Branches]
  /\ Amounts \subseteq Nat \ {0}
  /\ FeeOf \in [Orders -> Nat \ {0}]
  /\ DeltaOf \in [Adjustments -> Int \ {0}]
  /\ ActivationMin \in Nat
  /\ MaxFailures \in Nat

ASSUME DisjointAssumption ==
  /\ Intents \intersect Orders = {}
  /\ Intents \intersect Adjustments = {}
  /\ Orders \intersect Adjustments = {}
  /\ Hooks \intersect (Orders \union Adjustments) = {}
  /\ None \notin Jobs \union Procs

VARIABLES
  wallets,     \* branches that have a wallet document
  balance,     \* balanceCentavos
  activated,   \* branches whose activatedAt is stamped
  ledger,      \* wallet_ledger_entries of each branch, in commit order
  status,      \* topup_intents: status, amountCentavos, stored invoiceUrl
  amount,
  checkout,
  orderFee,    \* what the branch's orders record of their fee
  adjusted,    \* adjustments that were made
  caller,      \* where initializeTopUp is, for each intent
  invoice,     \* the gateway's invoice for each intent
  pc,          \* where each handler with a session is
  job,         \* what its session is about
  snap,        \* the version of the wallet document in its snapshot
  after,       \* the balance its uncommitted $inc returned
  walletLock,  \* the session that has written the wallet and not committed
  intentLock,  \* the session that has claimed the intent and not committed
  failures

walletVars == <<wallets, balance, activated, ledger>>
intentVars == <<status, amount, checkout>>
gatewayVars == <<caller, invoice>>
feeVars == <<orderFee, adjusted>>
sessionVars == <<pc, job, snap, after>>
lockVars == <<walletLock, intentLock>>
vars == <<walletVars, intentVars, gatewayVars, feeVars, sessionVars, lockVars, failures>>

IntentStatus == {"NONE", "PENDING", "SUCCEEDED", "FAILED", "EXPIRED"}
RowKind == {"TOP_UP", "FEE_CONSUMPTION", "FEE_REVERSAL", "ADMIN_ADJUSTMENT"}
Row == [kind : RowKind, amount : Int, after : Int, ref : Jobs]

Init ==
  /\ wallets = {} /\ activated = {}
  /\ balance = [b \in Branches |-> 0]
  /\ ledger = [b \in Branches |-> <<>>]
  /\ status = [i \in Intents |-> "NONE"]
  /\ amount = [i \in Intents |-> 0]
  /\ checkout = {}
  /\ orderFee = [o \in Orders |-> "owed"]
  /\ adjusted = {}
  /\ caller = [i \in Intents |-> "idle"]
  /\ invoice = [i \in Intents |-> "none"]
  /\ pc = [p \in Procs |-> "idle"]
  /\ job = [p \in Procs |-> None]
  /\ snap = [p \in Procs |-> 0]
  /\ after = [p \in Procs |-> 0]
  /\ walletLock = [b \in Branches |-> None]
  /\ intentLock = [i \in Intents |-> None]
  /\ failures = 0

Fail == failures < MaxFailures /\ failures' = failures + 1

-----------------------------------------------------------------------------
(* initializeTopUp, and the wallet upsert it heals a lost wallet with *)

CreateWallet(b) ==
  /\ b \notin wallets
  /\ wallets' = wallets \union {b}
  /\ UNCHANGED <<balance, activated, ledger, intentVars, gatewayVars, feeVars,
                 sessionVars, lockVars, failures>>

CreateIntent(i, a) ==
  /\ caller[i] = "idle"
  /\ wallets' = wallets \union {BranchOf[i]}
  /\ status' = [status EXCEPT ![i] = "PENDING"]
  /\ amount' = [amount EXCEPT ![i] = a]
  /\ caller' = [caller EXCEPT ![i] = "created"]
  /\ UNCHANGED <<balance, activated, ledger, checkout, invoice, feeVars,
                 sessionVars, lockVars, failures>>

InvoiceCreated(i) ==
  /\ caller[i] = "created"
  /\ caller' = [caller EXCEPT ![i] = "billed"]
  /\ invoice' = [invoice EXCEPT ![i] = "open"]
  /\ UNCHANGED <<walletVars, intentVars, feeVars, sessionVars, lockVars, failures>>

\* The gateway refuses, or makes the invoice and its answer is lost.
InvoiceFails(i) ==
  /\ caller[i] = "created"
  /\ Fail
  /\ caller' = [caller EXCEPT ![i] = "failed"]
  /\ \E s \in {"none", "open"} : invoice' = [invoice EXCEPT ![i] = s]
  /\ UNCHANGED <<walletVars, intentVars, feeVars, sessionVars, lockVars>>

\* A write outside a transaction waits for the session that holds the document.
Resolve(i, s) ==
  /\ intentLock[i] = None
  /\ status' = IF status[i] = "PENDING" THEN [status EXCEPT ![i] = s] ELSE status

MarkFailed(i) ==
  /\ caller[i] = "failed"
  /\ Resolve(i, "FAILED")
  /\ caller' = [caller EXCEPT ![i] = "done"]
  /\ UNCHANGED <<walletVars, amount, checkout, invoice, feeVars, sessionVars, lockVars, failures>>

StoreInvoice(i) ==
  /\ caller[i] = "billed"
  /\ intentLock[i] = None
  /\ checkout' = checkout \union {i}
  /\ caller' = [caller EXCEPT ![i] = "done"]
  /\ UNCHANGED <<walletVars, status, amount, invoice, feeVars, sessionVars, lockVars, failures>>

CallerCrashes(i) ==
  /\ caller[i] \in {"created", "billed", "failed"}
  /\ Fail
  /\ caller' = [caller EXCEPT ![i] = "done"]
  /\ UNCHANGED <<walletVars, intentVars, invoice, feeVars, sessionVars, lockVars>>

-----------------------------------------------------------------------------
(* The gateway: a payer needs the checkout URL, an unpaid invoice expires *)

Pay(i) ==
  /\ invoice[i] = "open" /\ i \in checkout
  /\ invoice' = [invoice EXCEPT ![i] = "paid"]
  /\ UNCHANGED <<walletVars, intentVars, caller, feeVars, sessionVars, lockVars, failures>>

Expire(i) ==
  /\ invoice[i] = "open"
  /\ invoice' = [invoice EXCEPT ![i] = "expired"]
  /\ UNCHANGED <<walletVars, intentVars, caller, feeVars, sessionVars, lockVars, failures>>

-----------------------------------------------------------------------------
(* Transactions on the wallet document *)

Home(p) == BranchOf[job[p]]

FeeKind(o) == IF orderFee[o] = "owed" THEN "FEE_CONSUMPTION" ELSE "FEE_REVERSAL"
FeeDelta(o) == IF orderFee[o] = "owed" THEN -FeeOf[o] ELSE FeeOf[o]

Kind(j) ==
  IF j \in Intents THEN "TOP_UP"
  ELSE IF j \in Adjustments THEN "ADMIN_ADJUSTMENT" ELSE FeeKind(j)

Delta(j) ==
  IF j \in Intents THEN amount[j]
  ELSE IF j \in Adjustments THEN DeltaOf[j] ELSE FeeDelta(j)

RowOf(p) == [kind |-> Kind(job[p]), amount |-> Delta(job[p]),
             after |-> after[p], ref |-> job[p]]

Start(p, j) ==
  /\ pc[p] = "idle"
  /\ pc' = [pc EXCEPT ![p] = "ready"]
  /\ job' = [job EXCEPT ![p] = j]
  /\ UNCHANGED <<walletVars, intentVars, gatewayVars, feeVars, snap, after, lockVars, failures>>

\* The first operation of the session fixes its snapshot.
BeginAt(p) ==
  /\ pc' = [pc EXCEPT ![p] = "begun"]
  /\ snap' = [snap EXCEPT ![p] = Len(ledger[Home(p)])]
  /\ UNCHANGED <<job, after>>

Quit(p) ==
  /\ pc' = [pc EXCEPT ![p] = "idle"]
  /\ job' = [job EXCEPT ![p] = None]
  /\ snap' = [snap EXCEPT ![p] = 0]
  /\ after' = [after EXCEPT ![p] = 0]

\* withTransaction runs the callback again from its start.
Retry(p) ==
  /\ pc' = [pc EXCEPT ![p] = "ready"]
  /\ snap' = [snap EXCEPT ![p] = 0]
  /\ after' = [after EXCEPT ![p] = 0]
  /\ UNCHANGED job

ReleaseWallet(p) ==
  walletLock' = [b \in Branches |-> IF walletLock[b] = p THEN None ELSE walletLock[b]]
ReleaseIntent(p) ==
  intentLock' = [i \in Intents |-> IF intentLock[i] = p THEN None ELSE intentLock[i]]

\* The wallet the session writes is the wallet of its snapshot: a document
\* another session holds, or has changed since, is a write conflict.
NoConflict(p) ==
  /\ walletLock[Home(p)] = None
  /\ Len(ledger[Home(p)]) = snap[p]

\* The rows that hold the reference of intent i, which a unique index limits.
CreditRows(i) ==
  {n \in 1 .. Len(ledger[BranchOf[i]]) : ledger[BranchOf[i]][n].ref = i}

Duplicate(p) == p \in Hooks /\ CreditRows(job[p]) # {}

LeftBy(p) == balance[Home(p)] + Delta(job[p])

\* $inc on the balance, then the ledger row with the balance it left.
Post(p) ==
  /\ pc[p] = "begun"
  /\ Home(p) \in wallets
  /\ NoConflict(p)
  /\ ~Duplicate(p)
  /\ pc' = [pc EXCEPT ![p] = "posted"]
  /\ after' = [after EXCEPT ![p] = LeftBy(p)]
  /\ walletLock' = [walletLock EXCEPT ![Home(p)] = p]
  /\ UNCHANGED <<walletVars, intentVars, gatewayVars, feeVars, job, snap, intentLock, failures>>

\* No wallet (NotFoundException), or the unique index refused the row (E11000,
\* reported as already posted): the session is aborted.
PostRefused(p) ==
  /\ pc[p] = "begun"
  /\ Home(p) \notin wallets \/ Duplicate(p)
  /\ Quit(p)
  /\ ReleaseIntent(p)
  /\ UNCHANGED <<walletVars, intentVars, gatewayVars, feeVars, walletLock, failures>>

WriteConflictKeepsClaim(p) ==  \* slip: the session is never ended
  /\ pc[p] = "begun"
  /\ Home(p) \in wallets /\ ~NoConflict(p)
  /\ Retry(p)
  /\ UNCHANGED <<walletVars, intentVars, gatewayVars, feeVars, lockVars, failures>>

WriteConflict(p) ==
  /\ pc[p] = "begun"
  /\ Home(p) \in wallets /\ ~NoConflict(p)
  /\ Retry(p)
  /\ ReleaseIntent(p)
  /\ UNCHANGED <<walletVars, intentVars, gatewayVars, feeVars, walletLock, failures>>

\* A fail-over aborts the session and its callback runs again, or the server
\* dies and the session with it.
Abort(p) ==
  /\ pc[p] \in {"ready", "begun", "posted"}
  /\ Fail
  /\ Retry(p) \/ Quit(p)
  /\ ReleaseWallet(p)
  /\ ReleaseIntent(p)
  /\ UNCHANGED <<walletVars, intentVars, gatewayVars, feeVars>>

ActivatesOnAnyRow(row) == row.after >= ActivationMin  \* slip: any credit activates

Activates(row) == row.kind = "TOP_UP" /\ row.after >= ActivationMin

Publish(p) ==
  /\ pc[p] = "posted"
  /\ balance' = [balance EXCEPT ![Home(p)] = @ + Delta(job[p])]
  /\ activated' = IF Activates(RowOf(p)) THEN activated \union {Home(p)} ELSE activated
  /\ ledger' = [ledger EXCEPT ![Home(p)] = Append(@, RowOf(p))]
  /\ Quit(p)
  /\ ReleaseWallet(p)
  /\ ReleaseIntent(p)
  /\ UNCHANGED <<wallets, amount, checkout, gatewayVars, failures>>

-----------------------------------------------------------------------------
(* Gateway callbacks.  The gateway repeats a callback until it is answered
   with 2xx, and an answered one may be repeated too. *)

\* A SUCCEEDED intent is answered as already posted and a FAILED or EXPIRED
\* one refused, with nothing written.
ReceivePaid(w, i) ==
  /\ invoice[i] = "paid"
  /\ status[i] = "PENDING"
  /\ Start(w, i)

ClaimOutsideSession(w) ==  \* slip: the claim is written without the session
  /\ pc[w] = "ready"
  /\ status[job[w]] = "PENDING"
  /\ status' = [status EXCEPT ![job[w]] = "SUCCEEDED"]
  /\ BeginAt(w)
  /\ UNCHANGED <<walletVars, amount, checkout, gatewayVars, feeVars, lockVars, failures>>

Claim(w) ==
  /\ pc[w] = "ready"
  /\ status[job[w]] = "PENDING"
  /\ intentLock[job[w]] = None
  /\ intentLock' = [intentLock EXCEPT ![job[w]] = w]
  /\ BeginAt(w)
  /\ UNCHANGED <<walletVars, intentVars, gatewayVars, feeVars, walletLock, failures>>

AlreadyPosted(w) ==
  /\ pc[w] = "ready"
  /\ status[job[w]] # "PENDING"
  /\ Quit(w)
  /\ UNCHANGED <<walletVars, intentVars, gatewayVars, feeVars, lockVars, failures>>

CommitTopUp(w) ==
  /\ Publish(w)
  /\ status' = [status EXCEPT ![job[w]] = "SUCCEEDED"]
  /\ UNCHANGED feeVars

ReceiveExpired(i) ==
  /\ invoice[i] = "expired"
  /\ status[i] = "PENDING"
  /\ Resolve(i, "EXPIRED")
  /\ UNCHANGED <<walletVars, amount, checkout, gatewayVars, feeVars, sessionVars, lockVars, failures>>

-----------------------------------------------------------------------------
(* Fees, in the session of the order's own transaction; corrections *)

StartFee(o) == orderFee[o] \in {"owed", "consumed"} /\ Start(o, o)

BeginFee(o) ==
  /\ pc[o] = "ready"
  /\ BeginAt(o)
  /\ UNCHANGED <<walletVars, intentVars, gatewayVars, feeVars, lockVars, failures>>

CommitFeeKeepsConsumed(o) ==  \* slip: the reversal leaves the consumed amount
  /\ Publish(o)
  /\ orderFee' = [orderFee EXCEPT ![o] = "consumed"]
  /\ UNCHANGED <<status, adjusted>>

CommitFee(o) ==
  /\ Publish(o)
  /\ orderFee' = [orderFee EXCEPT ![o] = IF @ = "owed" THEN "consumed" ELSE "reversed"]
  /\ UNCHANGED <<status, adjusted>>

StartAdjust(a) == a \notin adjusted /\ Start(a, a)

\* The balance is read, and checked, in the session's snapshot.
CheckAdjust(a) ==
  /\ pc[a] = "ready"
  /\ IF BranchOf[a] \in wallets /\ balance[BranchOf[a]] + DeltaOf[a] >= 0
     THEN BeginAt(a) ELSE Quit(a)
  /\ UNCHANGED <<walletVars, intentVars, gatewayVars, feeVars, lockVars, failures>>

CommitAdjust(a) ==
  /\ Publish(a)
  /\ adjusted' = adjusted \union {a}
  /\ UNCHANGED <<status, orderFee>>

-----------------------------------------------------------------------------
TopUpStep(i) ==
  \/ \E a \in Amounts : CreateIntent(i, a)
  \/ InvoiceCreated(i) \/ InvoiceFails(i) \/ MarkFailed(i) \/ StoreInvoice(i)
  \/ CallerCrashes(i) \/ Pay(i) \/ Expire(i) \/ ReceiveExpired(i)

HookStep(w) ==
  \/ \E i \in Intents : ReceivePaid(w, i)
  \/ Claim(w) \/ AlreadyPosted(w) \/ CommitTopUp(w)

FeeStep(o) == StartFee(o) \/ BeginFee(o) \/ CommitFee(o)
AdjustStep(a) == StartAdjust(a) \/ CheckAdjust(a) \/ CommitAdjust(a)
SessionStep(p) == Post(p) \/ PostRefused(p) \/ WriteConflict(p) \/ Abort(p)

Next ==
  \/ \E b \in Branches : CreateWallet(b)
  \/ \E i \in Intents : TopUpStep(i)
  \/ \E w \in Hooks : HookStep(w)
  \/ \E o \in Orders : FeeStep(o)
  \/ \E a \in Adjustments : AdjustStep(a)
  \/ \E p \in Procs : SessionStep(p)

Spec == Init /\ [][Next]_vars

\* A handler that holds a session keeps running, and the gateway repeats a
\* callback until the intent is settled: while a hook is free, it is delivered.
Fairness ==
  /\ \A i \in Intents : WF_vars(\E w \in Hooks : ReceivePaid(w, i))
  /\ \A w \in Hooks : SF_vars(Claim(w)) /\ WF_vars(AlreadyPosted(w) \/ CommitTopUp(w))
  /\ \A p \in Procs : SF_vars(Post(p)) /\ WF_vars(PostRefused(p) \/ WriteConflict(p))
  /\ \A o \in Orders : WF_vars(CommitFee(o))
  /\ \A a \in Adjustments : WF_vars(CommitAdjust(a))

FairSpec == Spec /\ Fairness

-----------------------------------------------------------------------------
\* Every document and every running session has the shape the schemas give it.
TypeOK ==
  /\ wallets \subseteq Branches /\ activated \subseteq Branches
  /\ balance \in [Branches -> Int]
  /\ ledger \in [Branches -> Seq(Row)]
  /\ status \in [Intents -> IntentStatus]
  /\ amount \in [Intents -> Nat]
  /\ checkout \subseteq Intents
  /\ orderFee \in [Orders -> {"owed", "consumed", "reversed"}]
  /\ adjusted \subseteq Adjustments
  /\ caller \in [Intents -> {"idle", "created", "billed", "failed", "done"}]
  /\ invoice \in [Intents -> {"none", "open", "paid", "expired"}]
  /\ pc \in [Procs -> {"idle", "ready", "begun", "posted"}]
  /\ job \in [Procs -> Jobs \union {None}]
  /\ snap \in [Procs -> Nat]
  /\ after \in [Procs -> Int]
  /\ walletLock \in [Branches -> Procs \union {None}]
  /\ intentLock \in [Intents -> Hooks \union {None}]
  /\ failures \in 0 .. MaxFailures

\* The balance is the running total of the append-only ledger: each row leaves
\* the balance the previous one left plus its own amount, and the wallet holds
\* what the last row left.  This is what reconciliationReport recomputes and
\* what "a derived running total, never edited directly" claims.
Before(b, n) == IF n = 1 THEN 0 ELSE ledger[b][n - 1].after

LedgerChain ==
  \A b \in Branches : \A n \in 1 .. Len(ledger[b]) :
    ledger[b][n].after = Before(b, n) + ledger[b][n].amount

BalanceIsLedgerTotal ==
  /\ LedgerChain
  /\ \A b \in Branches : balance[b] = Before(b, Len(ledger[b]) + 1)

\* An intent is SUCCEEDED exactly when its money is in the wallet, and it is
\* there once: duplicated callbacks, retries and a fail-over between the claim
\* and the commit neither lose nor repeat the credit of postVerifiedTopUp.
SucceededIffCreditedOnce ==
  \A i \in Intents :
    /\ (status[i] = "SUCCEEDED") <=> (CreditRows(i) # {})
    /\ \A m, n \in CreditRows(i) : m = n
    /\ \A n \in CreditRows(i) : ledger[BranchOf[i]][n].amount = amount[i]

\* A manual correction never leaves a wallet negative, although fees that can
\* push it below zero commit between the check and the write.
AdjustmentNeverOverdraws ==
  \A b \in Branches : \A n \in 1 .. Len(ledger[b]) :
    ledger[b][n].kind = "ADMIN_ADJUSTMENT" => ledger[b][n].after >= 0

\* The books agree whatever crosses: documents keep their shape, the balance is
\* the total of its ledger, a top-up is in it once, and no correction overdraws
\* (consumeFee, reverseFee, postVerifiedTopUp and adminAdjustBalance together).
BooksAgree ==
  /\ TypeOK
  /\ BalanceIsLedgerTotal
  /\ SucceededIffCreditedOnce
  /\ AdjustmentNeverOverdraws

\* activatedAt is stamped exactly when some top-up brought the balance to the
\* onboarding minimum: a correction or a fee reversal that does so never counts.
ActivatedIffTopUpReachedMinimum ==
  \A b \in Branches :
    b \in activated <=>
      \E n \in 1 .. Len(ledger[b]) :
        ledger[b][n].kind = "TOP_UP" /\ ledger[b][n].after >= ActivationMin

\* Whatever the gateway has collected reaches the wallet: a paid invoice's
\* intent is eventually SUCCEEDED, through lost and concurrent deliveries,
\* write conflicts with fees and corrections, and aborted sessions.
PaidIsCredited ==
  \A i \in Intents : (invoice[i] = "paid") ~> (status[i] = "SUCCEEDED")

-----------------------------------------------------------------------------
\* The wallet implements the account its callers rely on.
Account == INSTANCE PrepaidAccount WITH
  credited <- {i \in Intents : status[i] = "SUCCEEDED"}

\* Every committed session is one step of the prepaid account, and everything
\* else leaves it alone: each top-up counts once, each fee is charged and
\* returned at most once, and no correction overdraws.
ImplementsAccount == Account!Spec
=============================================================================
