------------------------- MODULE WalletLedgerProofs -------------------------
(* Theorems of WalletLedger, for every set of branches, intents, orders,
   adjustments and webhook handlers, and every amount and bound. *)
EXTENDS WalletLedger, TLAPS

\* A session's job is one its handler runs, and a running session has one.
JobsOK ==
  /\ \A w \in Hooks : job[w] \in Intents \union {None}
  /\ \A p \in Orders \union Adjustments : job[p] \in {p, None}
  /\ \A p \in Procs : pc[p] # "idle" => job[p] # None

ShapeOK == TypeOK /\ JobsOK

LEMMA ShapeInit == Init => ShapeOK
  BY ParameterAssumption DEF Init, ShapeOK, TypeOK, JobsOK, Procs, Jobs, IntentStatus

LEMMA TopUpShape ==
  ASSUME ShapeOK, NEW i \in Intents, TopUpStep(i) PROVE ShapeOK'
<1> USE ParameterAssumption DEF ShapeOK, TypeOK, JobsOK, Jobs, IntentStatus,
      walletVars, intentVars, gatewayVars, feeVars, sessionVars, lockVars
<1>1. ASSUME NEW a \in Amounts, CreateIntent(i, a) PROVE ShapeOK' BY <1>1 DEF CreateIntent
<1>2. CASE InvoiceCreated(i) BY <1>2 DEF InvoiceCreated
<1>3. CASE InvoiceFails(i) BY <1>3 DEF InvoiceFails, Fail
<1>4. CASE MarkFailed(i) BY <1>4 DEF MarkFailed, Resolve
<1>5. CASE StoreInvoice(i) BY <1>5 DEF StoreInvoice
<1>6. CASE CallerCrashes(i) BY <1>6 DEF CallerCrashes, Fail
<1>7. CASE Pay(i) BY <1>7 DEF Pay
<1>8. CASE Expire(i) BY <1>8 DEF Expire
<1>9. CASE ReceiveExpired(i) BY <1>9 DEF ReceiveExpired, Resolve
<1>10. QED BY <1>1, <1>2, <1>3, <1>4, <1>5, <1>6, <1>7, <1>8, <1>9 DEF TopUpStep

\* What a commit leaves of the shape, whoever commits.
PublishedShape(p) ==
  /\ balance' \in [Branches -> Int]
  /\ activated' \subseteq Branches
  /\ ledger' \in [Branches -> Seq(Row)]
  /\ pc' \in [Procs -> {"idle", "ready", "begun", "posted"}]
  /\ job' \in [Procs -> Jobs \union {None}]
  /\ snap' \in [Procs -> Nat]
  /\ after' \in [Procs -> Int]
  /\ walletLock' \in [Branches -> Procs \union {None}]
  /\ intentLock' \in [Intents -> Hooks \union {None}]
  /\ JobsOK'

LEMMA RowType ==
  ASSUME ShapeOK, NEW p \in Procs, pc[p] # "idle"
  PROVE  /\ job[p] \in Jobs
         /\ Home(p) \in Branches
         /\ Delta(job[p]) \in Int
         /\ RowOf(p) \in Row
<1>1. job[p] \in Jobs /\ Home(p) \in Branches
  BY ParameterAssumption DEF ShapeOK, TypeOK, JobsOK, Home
<1>2. Delta(job[p]) \in Int
 <2>1. CASE job[p] \in Intents BY <2>1 DEF ShapeOK, TypeOK, Delta
 <2>2. CASE job[p] \in Adjustments BY <2>2, DisjointAssumption, ParameterAssumption DEF Delta
 <2>3. CASE job[p] \in Orders BY <2>3, DisjointAssumption, ParameterAssumption DEF Delta, FeeDelta
 <2> QED BY <1>1, <2>1, <2>2, <2>3 DEF Jobs
<1>3. Kind(job[p]) \in RowKind BY DEF Kind, FeeKind, RowKind
<1>4. after[p] \in Int BY DEF ShapeOK, TypeOK
<1> QED BY <1>1, <1>2, <1>3, <1>4 DEF RowOf, Row

LEMMA PublishShape ==
  ASSUME ShapeOK, NEW p \in Procs, Publish(p) PROVE PublishedShape(p)
<1>1. Home(p) \in Branches /\ Delta(job[p]) \in Int /\ RowOf(p) \in Row BY RowType DEF Publish
<1>2. balance' \in [Branches -> Int] /\ activated' \subseteq Branches
  BY <1>1 DEF Publish, ShapeOK, TypeOK
<1>3. ledger' \in [Branches -> Seq(Row)]
 <2>1. ledger[Home(p)] \in Seq(Row) BY <1>1 DEF ShapeOK, TypeOK
 <2>2. Append(ledger[Home(p)], RowOf(p)) \in Seq(Row) BY <1>1, <2>1
 <2> QED BY <1>1, <2>2 DEF Publish, ShapeOK, TypeOK
<1>4. /\ pc' \in [Procs -> {"idle", "ready", "begun", "posted"}]
      /\ job' \in [Procs -> Jobs \union {None}]
      /\ snap' \in [Procs -> Nat]
      /\ after' \in [Procs -> Int]
  BY DEF Publish, Quit, ShapeOK, TypeOK
<1>5. /\ walletLock' \in [Branches -> Procs \union {None}]
      /\ intentLock' \in [Intents -> Hooks \union {None}]
  BY DEF Publish, ReleaseWallet, ReleaseIntent, ShapeOK, TypeOK
<1>6. JobsOK' BY DEF Publish, Quit, ShapeOK, TypeOK, JobsOK, Procs
<1> QED BY <1>2, <1>3, <1>4, <1>5, <1>6 DEF PublishedShape

LEMMA HandlerShape ==
  ASSUME ShapeOK,
         NEW p \in Procs,
         \/ p \in Hooks /\ HookStep(p)
         \/ p \in Orders /\ FeeStep(p)
         \/ p \in Adjustments /\ AdjustStep(p)
         \/ SessionStep(p)
  PROVE  ShapeOK'
<1> USE ParameterAssumption, DisjointAssumption DEF
      walletVars, intentVars, gatewayVars, feeVars, sessionVars, lockVars
<1>1. ASSUME NEW j \in Jobs, Start(p, j), p \in Hooks => j \in Intents,
             p \notin Hooks => j = p
      PROVE  ShapeOK'
  BY <1>1 DEF Start, ShapeOK, TypeOK, JobsOK, Procs, Jobs
<1>2. CASE p \in Hooks /\ HookStep(p)
 <2>1. ASSUME NEW i \in Intents, ReceivePaid(p, i) PROVE ShapeOK'
   BY <1>1, <1>2, <2>1 DEF ReceivePaid, Jobs
 <2>2. CASE Claim(p) BY <1>2, <2>2 DEF Claim, BeginAt, Home, ShapeOK, TypeOK, JobsOK, Procs, Jobs
 <2>3. CASE AlreadyPosted(p) BY <2>3 DEF AlreadyPosted, Quit, ShapeOK, TypeOK, JobsOK, Procs
 <2>4. CASE CommitTopUp(p)
  <3>1. Publish(p) /\ PublishedShape(p) BY <2>4, PublishShape DEF CommitTopUp
  <3> QED BY <2>4, <3>1 DEF CommitTopUp, Publish, PublishedShape, ShapeOK, TypeOK, IntentStatus
 <2> QED BY <1>2, <2>1, <2>2, <2>3, <2>4 DEF HookStep
<1>3. CASE p \in Orders /\ FeeStep(p)
 <2>1. CASE StartFee(p) BY <1>1, <1>3, <2>1 DEF StartFee, Jobs
 <2>2. CASE BeginFee(p)
   BY <1>3, <2>2 DEF BeginFee, BeginAt, Home, ShapeOK, TypeOK, JobsOK, Procs, Jobs
 <2>3. CASE CommitFee(p)
  <3>1. Publish(p) /\ PublishedShape(p) BY <2>3, PublishShape DEF CommitFee
  <3> QED BY <2>3, <3>1 DEF CommitFee, Publish, PublishedShape, ShapeOK, TypeOK
 <2> QED BY <1>3, <2>1, <2>2, <2>3 DEF FeeStep
<1>4. CASE p \in Adjustments /\ AdjustStep(p)
 <2>1. CASE StartAdjust(p) BY <1>1, <1>4, <2>1 DEF StartAdjust, Jobs
 <2>2. CASE CheckAdjust(p)
  <3>1. CASE BeginAt(p)
    BY <1>4, <2>2, <3>1 DEF CheckAdjust, BeginAt, Home, ShapeOK, TypeOK, JobsOK, Procs, Jobs
  <3>2. CASE Quit(p) BY <2>2, <3>2 DEF CheckAdjust, Quit, ShapeOK, TypeOK, JobsOK, Procs
  <3> QED BY <2>2, <3>1, <3>2 DEF CheckAdjust
 <2>3. CASE CommitAdjust(p)
  <3>1. Publish(p) /\ PublishedShape(p) BY <2>3, PublishShape DEF CommitAdjust
  <3> QED BY <1>4, <2>3, <3>1 DEF CommitAdjust, Publish, PublishedShape, ShapeOK, TypeOK
 <2> QED BY <1>4, <2>1, <2>2, <2>3 DEF AdjustStep
<1>5. CASE SessionStep(p)
 <2>1. CASE Post(p)
  <3>1. Home(p) \in Branches /\ Delta(job[p]) \in Int BY <2>1, RowType DEF Post
  <3>2. LeftBy(p) \in Int BY <3>1 DEF LeftBy, ShapeOK, TypeOK
  <3> QED BY <2>1, <3>1, <3>2 DEF Post, ShapeOK, TypeOK, JobsOK, Procs
 <2>2. CASE PostRefused(p)
   BY <2>2 DEF PostRefused, Quit, ReleaseIntent, ShapeOK, TypeOK, JobsOK, Procs
 <2>3. CASE WriteConflict(p)
   BY <2>3 DEF WriteConflict, Retry, ReleaseIntent, ShapeOK, TypeOK, JobsOK, Procs
 <2>4. CASE Abort(p)
  <3>1. CASE Retry(p)
    BY <2>4, <3>1 DEF Abort, Retry, ReleaseWallet, ReleaseIntent, Fail, ShapeOK, TypeOK, JobsOK, Procs
  <3>2. CASE Quit(p)
    BY <2>4, <3>2 DEF Abort, Quit, ReleaseWallet, ReleaseIntent, Fail, ShapeOK, TypeOK, JobsOK, Procs
  <3> QED BY <2>4, <3>1, <3>2 DEF Abort
 <2> QED BY <1>5, <2>1, <2>2, <2>3, <2>4 DEF SessionStep
<1> QED BY <1>2, <1>3, <1>4, <1>5

LEMMA ShapeStep == ShapeOK /\ [Next]_vars => ShapeOK'
<1> SUFFICES ASSUME ShapeOK, [Next]_vars PROVE ShapeOK' OBVIOUS
<1>1. ASSUME NEW b \in Branches, CreateWallet(b) PROVE ShapeOK'
  BY <1>1 DEF CreateWallet, ShapeOK, TypeOK, JobsOK,
     intentVars, gatewayVars, feeVars, sessionVars, lockVars
<1>2. CASE UNCHANGED vars
  BY <1>2 DEF vars, ShapeOK, TypeOK, JobsOK, walletVars,
     intentVars, gatewayVars, feeVars, sessionVars, lockVars
<1> QED BY <1>1, <1>2, TopUpShape, HandlerShape DEF Next, Procs

\* Type correctness: no handler ever writes a document out of shape.
THEOREM TypeCorrect == Spec => []TypeOK
<1>1. Spec => []ShapeOK BY ShapeInit, ShapeStep, PTL DEF Spec
<1>2. ShapeOK => TypeOK BY DEF ShapeOK
<1> QED BY <1>1, <1>2, PTL

-----------------------------------------------------------------------------
(* The inductive invariant behind the safety theorems: what a session that
   has not committed yet holds and knows. *)

\* An uncommitted $inc holds the wallet document, and returned the balance the
\* commit will publish.
HeldInv ==
  \A p \in Procs : pc[p] = "posted" =>
    walletLock[Home(p)] = p /\ after[p] = LeftBy(p)

\* A hook runs for an intent that exists, and holds it from the claim on.
ClaimInv ==
  \A w \in Hooks :
    /\ pc[w] # "idle" => status[job[w]] # "NONE"
    /\ pc[w] \in {"begun", "posted"} =>
         intentLock[job[w]] = w /\ status[job[w]] = "PENDING"

FreshInv == \A i \in Intents : caller[i] = "idle" => status[i] = "NONE"

\* What CheckAdjust read still holds if the ledger has not moved since.
CheckedInv ==
  \A a \in Adjustments :
    /\ pc[a] = "begun" =>
         /\ snap[a] <= Len(ledger[BranchOf[a]])
         /\ snap[a] = Len(ledger[BranchOf[a]]) =>
              balance[BranchOf[a]] + DeltaOf[a] >= 0
    /\ pc[a] = "posted" => after[a] >= 0

SessionInv == HeldInv /\ ClaimInv /\ FreshInv /\ CheckedInv

LedgerInv ==
  /\ BalanceIsLedgerTotal
  /\ SucceededIffCreditedOnce
  /\ AdjustmentNeverOverdraws
  /\ ActivatedIffTopUpReachedMinimum

IInv == ShapeOK /\ SessionInv /\ LedgerInv

LEMMA InitInv == Init => IInv
<1> SUFFICES ASSUME Init PROVE IInv OBVIOUS
<1>1. ShapeOK BY ShapeInit
<1>2. SessionInv BY DEF Init, SessionInv, HeldInv, ClaimInv, FreshInv, CheckedInv, Procs
<1>3. \A b \in Branches : ledger[b] = <<>> /\ balance[b] = 0 /\ 1 .. Len(ledger[b]) = {}
 <2>1. Len(<< >>) = 0 OBVIOUS
 <2>2. 1 .. 0 = {} OBVIOUS
 <2> QED BY <2>1, <2>2 DEF Init
<1>4. \A i \in Intents : CreditRows(i) = {} /\ status[i] # "SUCCEEDED"
  BY <1>3, ParameterAssumption DEF Init, CreditRows, Jobs
<1>5. LedgerInv
  BY <1>3, <1>4 DEF Init, LedgerInv, BalanceIsLedgerTotal, LedgerChain, Before,
     SucceededIffCreditedOnce, AdjustmentNeverOverdraws, ActivatedIffTopUpReachedMinimum
<1> QED BY <1>1, <1>2, <1>5 DEF IInv

\* Everything but a commit leaves the ledger as it is, and the balances,
\* stamps and statuses the ledger speaks of.
LEMMA LedgerFrame ==
  ASSUME ShapeOK, LedgerInv,
         UNCHANGED <<balance, activated, ledger>>,
         \A i \in Intents :
           \/ status'[i] = status[i] /\ amount'[i] = amount[i]
           \/ status[i] \in {"NONE", "PENDING"} /\ status'[i] # "SUCCEEDED"
  PROVE  LedgerInv'
<1>1. BalanceIsLedgerTotal' BY DEF LedgerInv, BalanceIsLedgerTotal, LedgerChain, Before
<1>2. SucceededIffCreditedOnce' BY DEF LedgerInv, SucceededIffCreditedOnce, CreditRows
<1>3. AdjustmentNeverOverdraws' /\ ActivatedIffTopUpReachedMinimum'
  BY DEF LedgerInv, AdjustmentNeverOverdraws, ActivatedIffTopUpReachedMinimum
<1> QED BY <1>1, <1>2, <1>3 DEF LedgerInv

LEMMA TopUpInv ==
  ASSUME IInv, NEW i \in Intents, TopUpStep(i) PROVE SessionInv' /\ LedgerInv'
<1> USE DEF walletVars, intentVars, gatewayVars, feeVars, sessionVars, lockVars
<1>1. ASSUME NEW a \in Amounts, CreateIntent(i, a) PROVE SessionInv' /\ LedgerInv'
 <2>1. status[i] = "NONE" BY <1>1 DEF CreateIntent, IInv, SessionInv, FreshInv
 <2>2. \A p \in Procs : pc[p] # "idle" => job[p] # i
  <3>1. ASSUME NEW p \in Procs, pc[p] # "idle", job[p] = i PROVE FALSE
   <4>1. p \notin Orders /\ p \notin Adjustments
     BY <3>1, DisjointAssumption DEF IInv, ShapeOK, JobsOK, Jobs
   <4> QED BY <2>1, <3>1, <4>1 DEF IInv, SessionInv, ClaimInv, Procs
  <3> QED BY <3>1
 <2>3. \A p \in Procs : pc[p] # "idle" => LeftBy(p)' = LeftBy(p)
   BY <1>1, <2>2 DEF CreateIntent, LeftBy, Delta, Home, FeeDelta
 <2>4. HeldInv' BY <1>1, <2>3 DEF CreateIntent, IInv, SessionInv, HeldInv, Home
 <2>5. ClaimInv' /\ FreshInv' /\ CheckedInv'
   BY <1>1, <2>2 DEF CreateIntent, IInv, ShapeOK, TypeOK, SessionInv,
      ClaimInv, FreshInv, CheckedInv, Procs
 <2>6. LedgerInv' BY <1>1, <2>1, LedgerFrame DEF CreateIntent, IInv, ShapeOK, TypeOK
 <2> QED BY <2>4, <2>5, <2>6 DEF SessionInv
<1>2. ASSUME UNCHANGED <<walletVars, amount, feeVars, sessionVars, lockVars>>,
             caller'[i] # "idle" \/ caller' = caller,
             \A x \in Intents \ {i} : caller'[x] = caller[x],
             \/ status' = status
             \/ /\ intentLock[i] = None
                /\ \E s \in {"FAILED", "EXPIRED"} :
                     status' = IF status[i] = "PENDING"
                               THEN [status EXCEPT ![i] = s] ELSE status
      PROVE  SessionInv' /\ LedgerInv'
 <2>1. \A x \in Intents : \/ status'[x] = status[x]
                          \/ /\ x = i /\ intentLock[x] = None /\ status[x] = "PENDING"
                             /\ status'[x] \in {"FAILED", "EXPIRED"}
   BY <1>2 DEF IInv, ShapeOK, TypeOK
 <2>2. LedgerInv' BY <1>2, <2>1, LedgerFrame DEF IInv
 <2>3. HeldInv' /\ CheckedInv'
   BY <1>2 DEF IInv, SessionInv, HeldInv, CheckedInv, Home, LeftBy, Delta, FeeDelta
 <2>4. FreshInv'
  <3>1. caller[i] = "idle" => status[i] = "NONE" BY DEF IInv, SessionInv, FreshInv
  <3> QED BY <1>2, <2>1, <3>1 DEF IInv, SessionInv, FreshInv
 <2>5. ClaimInv'
  <3>1. \A w \in Hooks : pc[w] # "idle" => job[w] \in Intents BY DEF IInv, ShapeOK, JobsOK, Procs
  <3>2. \A w \in Hooks : w # None BY DisjointAssumption DEF Procs
  <3> QED BY <1>2, <2>1, <3>1, <3>2 DEF IInv, SessionInv, ClaimInv
 <2> QED BY <2>2, <2>3, <2>4, <2>5 DEF SessionInv
<1>3. CASE InvoiceCreated(i) BY <1>2, <1>3 DEF InvoiceCreated, IInv, ShapeOK, TypeOK
<1>4. CASE InvoiceFails(i) BY <1>2, <1>4 DEF InvoiceFails, IInv, ShapeOK, TypeOK
<1>5. CASE MarkFailed(i) BY <1>2, <1>5 DEF MarkFailed, Resolve, IInv, ShapeOK, TypeOK
<1>6. CASE StoreInvoice(i) BY <1>2, <1>6 DEF StoreInvoice, IInv, ShapeOK, TypeOK
<1>7. CASE CallerCrashes(i) BY <1>2, <1>7 DEF CallerCrashes, IInv, ShapeOK, TypeOK
<1>8. CASE Pay(i) BY <1>2, <1>8 DEF Pay
<1>9. CASE Expire(i) BY <1>2, <1>9 DEF Expire
<1>10. CASE ReceiveExpired(i) BY <1>2, <1>10 DEF ReceiveExpired, Resolve
<1> QED BY <1>1, <1>3, <1>4, <1>5, <1>6, <1>7, <1>8, <1>9, <1>10 DEF TopUpStep

LEMMA ProcsApart ==
  /\ \A w \in Hooks : w \notin Orders /\ w \notin Adjustments /\ w # None
  /\ \A o \in Orders : o \notin Hooks /\ o \notin Adjustments /\ o \notin Intents /\ o # None
  /\ \A a \in Adjustments : a \notin Hooks /\ a \notin Orders /\ a \notin Intents /\ a # None
  BY DisjointAssumption DEF Jobs, Procs

LEMMA SessionJobs ==
  ASSUME ShapeOK, NEW p \in Procs, pc[p] # "idle"
  PROVE  /\ p \in Hooks => job[p] \in Intents
         /\ p \notin Hooks => job[p] = p
         /\ job[p] \in Jobs
  BY DEF ShapeOK, TypeOK, JobsOK, Procs

\* Steps of a session that commit nothing.
LEMMA SessionStepInv ==
  ASSUME IInv, NEW p \in Procs,
         UNCHANGED <<walletVars, intentVars, gatewayVars, feeVars>>,
         \A q \in Procs \ {p} : pc'[q] = pc[q] /\ job'[q] = job[q]
                                /\ snap'[q] = snap[q] /\ after'[q] = after[q],
         \A b \in Branches : walletLock[b] \notin {p, None} => walletLock'[b] = walletLock[b],
         \A i \in Intents : intentLock[i] \notin {p, None} => intentLock'[i] = intentLock[i],
         \* what p itself must show
         pc'[p] = "posted" => walletLock'[Home(p)'] = p /\ after'[p] = LeftBy(p)'
                              /\ (p \in Adjustments => after'[p] >= 0),
         p \in Hooks => /\ pc'[p] # "idle" => status[job'[p]] # "NONE"
                        /\ pc'[p] \in {"begun", "posted"} =>
                             intentLock'[job'[p]] = p /\ status[job'[p]] = "PENDING",
         p \in Adjustments /\ pc'[p] = "begun" =>
            /\ snap'[p] <= Len(ledger[BranchOf[p]])
            /\ snap'[p] = Len(ledger[BranchOf[p]]) =>
                 balance[BranchOf[p]] + DeltaOf[p] >= 0
  PROVE  SessionInv' /\ LedgerInv'
<1> USE DEF walletVars, intentVars, gatewayVars, feeVars
<1>1. LedgerInv' BY LedgerFrame DEF IInv
<1>2. HeldInv'
 <2> SUFFICES ASSUME NEW q \in Procs, q # p, pc'[q] = "posted"
              PROVE  walletLock'[Home(q)'] = q /\ after'[q] = LeftBy(q)'
   BY DEF HeldInv
 <2>1. Home(q)' = Home(q) /\ LeftBy(q)' = LeftBy(q) BY DEF Home, LeftBy, Delta, FeeDelta
 <2>2. walletLock[Home(q)] = q /\ after[q] = LeftBy(q) BY DEF IInv, SessionInv, HeldInv
 <2>3. Home(q) \in Branches BY RowType DEF IInv
 <2>4. q # None BY ProcsApart DEF Procs
 <2> QED BY <2>1, <2>2, <2>3, <2>4
<1>3. ClaimInv'
 <2> SUFFICES ASSUME NEW w \in Hooks, w # p
              PROVE  /\ pc'[w] # "idle" => status'[job'[w]] # "NONE"
                     /\ pc'[w] \in {"begun", "posted"} =>
                          intentLock'[job'[w]] = w /\ status'[job'[w]] = "PENDING"
   BY DEF ClaimInv
 <2>1. w \in Procs /\ w # None BY ProcsApart DEF Procs
 <2>2. pc[w] # "idle" => job[w] \in Intents BY <2>1, SessionJobs DEF IInv
 <2> QED BY <2>1, <2>2 DEF IInv, SessionInv, ClaimInv
<1>4. FreshInv' BY DEF IInv, SessionInv, FreshInv
<1>5. CheckedInv' BY DEF IInv, SessionInv, CheckedInv, Procs
<1> QED BY <1>1, <1>2, <1>3, <1>4, <1>5 DEF SessionInv

LEMMA StartInv ==
  ASSUME IInv, NEW p \in Procs, NEW j, Start(p, j),
         p \in Hooks => j \in Intents /\ status[j] # "NONE"
  PROVE  SessionInv' /\ LedgerInv'
<1>1. pc'[p] = "ready" /\ job'[p] = j BY DEF Start, IInv, ShapeOK, TypeOK
<1> QED BY <1>1, SessionStepInv DEF Start, lockVars

LEMMA QuietInv ==
  ASSUME IInv, NEW p \in Procs, pc[p] \in {"ready", "begun", "posted"},
         Retry(p) \/ Quit(p),
         UNCHANGED <<walletVars, intentVars, gatewayVars, feeVars>>,
         \A b \in Branches : walletLock[b] \notin {p, None} => walletLock'[b] = walletLock[b],
         \A i \in Intents : intentLock[i] \notin {p, None} => intentLock'[i] = intentLock[i]
  PROVE  SessionInv' /\ LedgerInv'
<1>1. p \in Hooks => status[job[p]] # "NONE" BY DEF IInv, SessionInv, ClaimInv
<1>2. CASE Retry(p)
 <2>1. pc'[p] = "ready" /\ job'[p] = job[p] BY <1>2 DEF Retry, IInv, ShapeOK, TypeOK
 <2> QED BY <1>1, <1>2, <2>1, SessionStepInv DEF Retry
<1>3. CASE Quit(p)
 <2>1. pc'[p] = "idle" BY <1>3 DEF Quit, IInv, ShapeOK, TypeOK
 <2> QED BY <1>3, <2>1, SessionStepInv DEF Quit
<1> QED BY <1>2, <1>3

LEMMA BeginFacts ==
  ASSUME ShapeOK, NEW p \in Procs, pc[p] # "idle", BeginAt(p)
  PROVE  /\ pc'[p] = "begun" /\ job'[p] = job[p]
         /\ snap'[p] = Len(ledger[Home(p)]) /\ snap'[p] \in Nat
         /\ \A q \in Procs \ {p} : pc'[q] = pc[q] /\ job'[q] = job[q]
                                   /\ snap'[q] = snap[q] /\ after'[q] = after[q]
<1>1. Home(p) \in Branches BY RowType
<1> QED BY <1>1 DEF BeginAt, ShapeOK, TypeOK

LEMMA PostInv ==
  ASSUME IInv, NEW p \in Procs, Post(p) PROVE SessionInv' /\ LedgerInv'
<1>1. Home(p) \in Branches /\ Delta(job[p]) \in Int BY RowType DEF Post, IInv
<1>2. LeftBy(p) \in Int BY <1>1 DEF LeftBy, IInv, ShapeOK, TypeOK
<1>3. /\ pc'[p] = "posted" /\ job' = job /\ snap' = snap /\ after'[p] = LeftBy(p)
      /\ walletLock'[Home(p)] = p
      /\ \A q \in Procs \ {p} : pc'[q] = pc[q] /\ after'[q] = after[q]
      /\ \A b \in Branches : walletLock[b] # None => walletLock'[b] = walletLock[b]
  BY <1>1, <1>2 DEF Post, NoConflict, IInv, ShapeOK, TypeOK
<1>4. Home(p)' = Home(p) /\ LeftBy(p)' = LeftBy(p)
  BY <1>3 DEF Post, Home, LeftBy, Delta, FeeDelta, walletVars, intentVars, feeVars
<1>5. p \in Hooks => status[job[p]] = "PENDING" /\ intentLock[job[p]] = p
  BY DEF Post, IInv, SessionInv, ClaimInv
<1>6. p \in Adjustments => LeftBy(p) >= 0
 <2> SUFFICES ASSUME p \in Adjustments PROVE LeftBy(p) >= 0 OBVIOUS
 <2>1. job[p] = p /\ p \notin Intents BY ProcsApart, SessionJobs DEF Post, IInv
 <2>2. balance[BranchOf[p]] + DeltaOf[p] >= 0
   BY <2>1 DEF Post, NoConflict, Home, IInv, SessionInv, CheckedInv
 <2> QED BY <2>1, <2>2 DEF LeftBy, Delta, Home
<1> QED BY <1>3, <1>4, <1>5, <1>6, SessionStepInv DEF Post

LEMMA HandlerInv ==
  ASSUME IInv,
         NEW p \in Procs,
         ~Publish(p),
         \/ p \in Hooks /\ HookStep(p)
         \/ p \in Orders /\ FeeStep(p)
         \/ p \in Adjustments /\ AdjustStep(p)
         \/ SessionStep(p)
  PROVE  SessionInv' /\ LedgerInv'
<1>1. CASE p \in Hooks /\ HookStep(p)
 <2>1. ASSUME NEW i \in Intents, ReceivePaid(p, i) PROVE SessionInv' /\ LedgerInv'
   BY <2>1, StartInv DEF ReceivePaid
 <2>2. CASE Claim(p)
  <3>1. job[p] \in Intents BY <1>1, <2>2, SessionJobs DEF Claim, IInv
  <3>2. intentLock'[job[p]] = p
        /\ \A i \in Intents : intentLock[i] # None => intentLock'[i] = intentLock[i]
    BY <2>2, <3>1 DEF Claim, IInv, ShapeOK, TypeOK
  <3>3. BeginAt(p) /\ pc[p] # "idle" /\ status[job[p]] = "PENDING" BY <2>2 DEF Claim
  <3>4. p \notin Adjustments BY <1>1, ProcsApart
  <3> QED BY <2>2, <3>2, <3>3, <3>4, BeginFacts, SessionStepInv DEF Claim, IInv
 <2>3. CASE AlreadyPosted(p) BY <2>3, QuietInv DEF AlreadyPosted, lockVars
 <2> QED BY <1>1, <2>1, <2>2, <2>3 DEF HookStep, CommitTopUp
<1>2. CASE p \in Orders /\ FeeStep(p)
 <2>1. CASE StartFee(p) BY <1>2, <2>1, StartInv, ProcsApart DEF StartFee
 <2>2. CASE BeginFee(p)
  <3>1. BeginAt(p) /\ pc[p] # "idle" BY <2>2 DEF BeginFee
  <3>2. p \notin Hooks /\ p \notin Adjustments BY <1>2, ProcsApart
  <3> QED BY <2>2, <3>1, <3>2, BeginFacts, SessionStepInv DEF BeginFee, lockVars, IInv
 <2> QED BY <1>2, <2>1, <2>2 DEF FeeStep, CommitFee
<1>3. CASE p \in Adjustments /\ AdjustStep(p)
 <2>1. CASE StartAdjust(p) BY <1>3, <2>1, StartInv, ProcsApart DEF StartAdjust
 <2>2. CASE CheckAdjust(p)
  <3>1. CASE Quit(p) BY <2>2, <3>1, QuietInv DEF CheckAdjust, lockVars
  <3>2. CASE BeginAt(p) /\ balance[BranchOf[p]] + DeltaOf[p] >= 0
   <4>1. pc[p] # "idle" BY <2>2 DEF CheckAdjust
   <4>2. job[p] = p /\ p \notin Hooks BY <1>3, <4>1, ProcsApart, SessionJobs DEF IInv
   <4>3. snap'[p] = Len(ledger[BranchOf[p]]) /\ snap'[p] \in Nat
     BY <3>2, <4>1, <4>2, BeginFacts DEF IInv, Home
   <4> QED
     BY <2>2, <3>2, <4>1, <4>2, <4>3, BeginFacts, SessionStepInv
        DEF CheckAdjust, lockVars, IInv
  <3> QED BY <2>2, <3>1, <3>2 DEF CheckAdjust
 <2> QED BY <1>3, <2>1, <2>2 DEF AdjustStep, CommitAdjust
<1>4. CASE SessionStep(p)
 <2>1. CASE Post(p) BY <2>1, PostInv
 <2>2. CASE PostRefused(p) BY <2>2, QuietInv DEF PostRefused, ReleaseIntent
 <2>3. CASE WriteConflict(p) BY <2>3, QuietInv DEF WriteConflict, ReleaseIntent
 <2>4. CASE Abort(p) BY <2>4, QuietInv DEF Abort, ReleaseIntent, ReleaseWallet
 <2> QED BY <1>4, <2>1, <2>2, <2>3, <2>4 DEF SessionStep
<1> QED BY <1>1, <1>2, <1>3, <1>4

-----------------------------------------------------------------------------
\* What a commit of p on branch h does: one row more in the branch's ledger, at
\* place last, and the balance that row speaks of.
Published(p, h, last) ==
  /\ h = Home(p) /\ walletLock[h] = p
  /\ last = Len(ledger[h]) + 1
  /\ RowOf(p) \in Row
  /\ RowOf(p).after = balance[h] + RowOf(p).amount
  /\ RowOf(p).amount = Delta(job[p])
  /\ RowOf(p).kind = Kind(job[p]) /\ RowOf(p).ref = job[p]
  /\ balance'[h] = RowOf(p).after
  /\ Len(ledger'[h]) = last
  /\ ledger'[h][last] = RowOf(p)
  /\ \A n \in 1 .. last - 1 : ledger'[h][n] = ledger[h][n]
  /\ \A b \in Branches \ {h} : ledger'[b] = ledger[b] /\ balance'[b] = balance[b]

LEMMA PublishFacts ==
  ASSUME IInv, NEW p \in Procs, Publish(p)
  PROVE  \E h \in Branches, last \in Nat \ {0} : Published(p, h, last)
<1>1. Home(p) \in Branches /\ Delta(job[p]) \in Int /\ RowOf(p) \in Row BY RowType DEF Publish, IInv
<1>2. walletLock[Home(p)] = p /\ after[p] = LeftBy(p) BY DEF Publish, IInv, SessionInv, HeldInv
<1>3. /\ RowOf(p).after = balance[Home(p)] + RowOf(p).amount
      /\ RowOf(p).amount = Delta(job[p]) /\ RowOf(p).amount \in Int
      /\ RowOf(p).kind = Kind(job[p]) /\ RowOf(p).ref = job[p]
  BY <1>1, <1>2 DEF RowOf, LeftBy
<1>4. ledger[Home(p)] \in Seq(Row) /\ balance[Home(p)] \in Int BY <1>1 DEF IInv, ShapeOK, TypeOK
<1>5. /\ ledger'[Home(p)] = Append(ledger[Home(p)], RowOf(p))
      /\ balance'[Home(p)] = balance[Home(p)] + Delta(job[p])
      /\ \A b \in Branches \ {Home(p)} : ledger'[b] = ledger[b] /\ balance'[b] = balance[b]
  BY <1>1 DEF Publish, IInv, ShapeOK, TypeOK
<1>6. Published(p, Home(p), Len(ledger[Home(p)]) + 1) BY <1>1, <1>2, <1>3, <1>4, <1>5 DEF Published
<1> QED BY <1>1, <1>4, <1>6

LEMMA PublishBalance ==
  ASSUME IInv, NEW p \in Procs, Publish(p) PROVE BalanceIsLedgerTotal'
<1>1. PICK h \in Branches, last \in Nat \ {0} : Published(p, h, last) BY PublishFacts
<1> SUFFICES ASSUME NEW b \in Branches
    PROVE  /\ balance'[b] = Before(b, Len(ledger[b]) + 1)'
           /\ \A n \in 1 .. Len(ledger'[b]) :
                ledger'[b][n].after = Before(b, n)' + ledger'[b][n].amount
  BY DEF BalanceIsLedgerTotal, LedgerChain
<1>2. /\ balance[b] = Before(b, Len(ledger[b]) + 1)
      /\ \A n \in 1 .. Len(ledger[b]) :
           ledger[b][n].after = Before(b, n) + ledger[b][n].amount
  BY DEF IInv, LedgerInv, BalanceIsLedgerTotal, LedgerChain
<1>3. Len(ledger[b]) \in Nat BY DEF IInv, ShapeOK, TypeOK
<1>4. CASE b # h BY <1>1, <1>2, <1>4 DEF Before, Published
<1>5. CASE b = h
 <2>1. /\ last = Len(ledger[b]) + 1 /\ Len(ledger'[b]) = last
       /\ ledger'[b][last].after = balance[b] + ledger'[b][last].amount
       /\ balance'[b] = ledger'[b][last].after
       /\ \A n \in 1 .. last - 1 : ledger'[b][n] = ledger[b][n]
   BY <1>1, <1>5 DEF Published
 <2>2. balance'[b] = Before(b, Len(ledger[b]) + 1)' BY <1>3, <2>1 DEF Before
 <2>3. ledger'[b][last].after = Before(b, last)' + ledger'[b][last].amount
   BY <1>2, <1>3, <2>1 DEF Before
 <2>4. \A n \in 1 .. last - 1 :
         ledger'[b][n].after = Before(b, n)' + ledger'[b][n].amount
  <3> SUFFICES ASSUME NEW n \in 1 .. last - 1
               PROVE  ledger'[b][n].after = Before(b, n)' + ledger'[b][n].amount
    OBVIOUS
  <3>1. n \in 1 .. Len(ledger[b]) /\ (n = 1 \/ n - 1 \in 1 .. last - 1) BY <1>3, <2>1
  <3>2. Before(b, n)' = Before(b, n) BY <2>1, <3>1 DEF Before
  <3> QED BY <1>2, <2>1, <3>1, <3>2
 <2> QED BY <2>1, <2>2, <2>3, <2>4 DEF Before
<1> QED BY <1>4, <1>5

LEMMA PublishCorrections ==
  ASSUME IInv, NEW p \in Procs, Publish(p)
  PROVE  AdjustmentNeverOverdraws' /\ ActivatedIffTopUpReachedMinimum'
<1>1. PICK h \in Branches, last \in Nat \ {0} : Published(p, h, last) BY PublishFacts
<1>2. RowOf(p).kind = "ADMIN_ADJUSTMENT" => RowOf(p).after >= 0
 <2> SUFFICES ASSUME RowOf(p).kind = "ADMIN_ADJUSTMENT" PROVE RowOf(p).after >= 0 OBVIOUS
 <2>1. job[p] \in Adjustments BY <1>1 DEF Kind, FeeKind, Published
 <2>2. p \in Adjustments /\ pc[p] = "posted"
   BY <2>1, SessionJobs, ProcsApart DEF Publish, IInv, Procs
 <2> QED BY <2>2 DEF RowOf, IInv, SessionInv, CheckedInv
<1>3. AdjustmentNeverOverdraws'
  BY <1>1, <1>2 DEF AdjustmentNeverOverdraws, IInv, LedgerInv, Published
<1>4. activated' = IF Activates(RowOf(p)) THEN activated \union {h} ELSE activated
  BY <1>1 DEF Publish, Published
<1>5. ASSUME NEW b \in Branches
      PROVE b \in activated' <=>
              \E n \in 1 .. Len(ledger'[b]) :
                ledger'[b][n].kind = "TOP_UP" /\ ledger'[b][n].after >= ActivationMin
 <2>1. b \in activated <=> \E n \in 1 .. Len(ledger[b]) :
               ledger[b][n].kind = "TOP_UP" /\ ledger[b][n].after >= ActivationMin
   BY DEF IInv, LedgerInv, ActivatedIffTopUpReachedMinimum
 <2>2. CASE b # h BY <2>1, <2>2, <1>4, <1>1 DEF Published
 <2>3. CASE b = h
  <3>1. (\E n \in 1 .. last : ledger'[h][n].kind = "TOP_UP"
                              /\ ledger'[h][n].after >= ActivationMin)
        <=> \/ \E n \in 1 .. last - 1 :
                 ledger[h][n].kind = "TOP_UP" /\ ledger[h][n].after >= ActivationMin
            \/ Activates(RowOf(p))
    BY <1>1 DEF Activates, Published
  <3>2. last - 1 = Len(ledger[h]) /\ Len(ledger'[h]) = last
    BY <1>1 DEF Published, IInv, ShapeOK, TypeOK
  <3> QED BY <2>1, <2>3, <3>1, <3>2, <1>4
 <2> QED BY <2>2, <2>3
<1> QED BY <1>3, <1>5 DEF ActivatedIffTopUpReachedMinimum

\* The step that commits p's session, with the documents it changes besides.
Commit(p) ==
  \/ p \in Hooks /\ CommitTopUp(p)
  \/ p \in Orders /\ CommitFee(p)
  \/ p \in Adjustments /\ CommitAdjust(p)

LEMMA CommitFacts ==
  ASSUME IInv, NEW p \in Procs, Commit(p)
  PROVE  /\ Publish(p) /\ pc[p] = "posted"
         /\ pc'[p] = "idle"
         /\ \A q \in Procs \ {p} : /\ pc'[q] = pc[q] /\ job'[q] = job[q]
                                   /\ snap'[q] = snap[q] /\ after'[q] = after[q]
         /\ amount' = amount /\ caller' = caller
         /\ p \in Hooks => /\ job[p] \in Intents
                           /\ status[job[p]] = "PENDING" /\ intentLock[job[p]] = p
                           /\ status' = [status EXCEPT ![job[p]] = "SUCCEEDED"]
                           /\ orderFee' = orderFee
         /\ p \notin Hooks => status' = status /\ job[p] \notin Intents /\ job[p] = p
         /\ \A i \in Intents :
              \/ status'[i] = status[i] /\ ~(p \in Hooks /\ i = job[p])
              \/ /\ p \in Hooks /\ i = job[p] /\ intentLock[i] = p
                 /\ status[i] = "PENDING" /\ status'[i] = "SUCCEEDED"
         /\ \A o \in Orders \ {p} : orderFee'[o] = orderFee[o]
         /\ \A b \in Branches : walletLock[b] # p => walletLock'[b] = walletLock[b]
         /\ \A i \in Intents : intentLock[i] # p => intentLock'[i] = intentLock[i]
<1>1. Publish(p) /\ pc[p] = "posted" BY DEF Commit, CommitTopUp, CommitFee, CommitAdjust, Publish
<1>2. /\ pc'[p] = "idle" /\ amount' = amount /\ caller' = caller
      /\ \A q \in Procs \ {p} : /\ pc'[q] = pc[q] /\ job'[q] = job[q]
                                /\ snap'[q] = snap[q] /\ after'[q] = after[q]
      /\ \A b \in Branches : walletLock[b] # p => walletLock'[b] = walletLock[b]
      /\ \A i \in Intents : intentLock[i] # p => intentLock'[i] = intentLock[i]
  BY <1>1 DEF Publish, Quit, ReleaseWallet, ReleaseIntent, gatewayVars, IInv, ShapeOK, TypeOK
<1>3. p \in Hooks => CommitTopUp(p) BY ProcsApart DEF Commit
<1>4. p \in Hooks => /\ job[p] \in Intents
                     /\ status[job[p]] = "PENDING" /\ intentLock[job[p]] = p
                     /\ status' = [status EXCEPT ![job[p]] = "SUCCEEDED"]
                     /\ orderFee' = orderFee
  BY <1>1, <1>3, SessionJobs DEF CommitTopUp, feeVars, IInv, SessionInv, ClaimInv
<1>5. p \notin Hooks => status' = status /\ job[p] \notin Intents /\ job[p] = p
  BY <1>1, SessionJobs, ProcsApart DEF Commit, CommitFee, CommitAdjust, IInv
<1>6. \A o \in Orders \ {p} : orderFee'[o] = orderFee[o]
  BY <1>1 DEF Commit, CommitTopUp, CommitFee, CommitAdjust, feeVars, IInv, ShapeOK, TypeOK
<1>7. status \in [Intents -> IntentStatus] BY DEF IInv, ShapeOK, TypeOK
<1> QED BY <1>1, <1>2, <1>4, <1>5, <1>6, <1>7

LEMMA CommitSessions ==
  ASSUME IInv, NEW p \in Procs, Commit(p) PROVE SessionInv'
<1>1. PICK h \in Branches, last \in Nat \ {0} : Published(p, h, last) BY PublishFacts, CommitFacts
<1>2. HeldInv'
 <2> SUFFICES ASSUME NEW q \in Procs, pc'[q] = "posted"
              PROVE  walletLock'[Home(q)'] = q /\ after'[q] = LeftBy(q)'
   BY DEF HeldInv
 <2>1. q # p /\ pc[q] = "posted" /\ job'[q] = job[q] /\ after'[q] = after[q] BY CommitFacts
 <2>2. walletLock[Home(q)] = q /\ after[q] = LeftBy(q) /\ Home(q) \in Branches
   BY <2>1, RowType DEF IInv, SessionInv, HeldInv
 <2>3. Home(q) # h BY <1>1, <2>1, <2>2 DEF Published
 <2>4. job[q] \in Jobs /\ (job[q] \in Orders => job[q] # p)
   BY <2>1, SessionJobs, ProcsApart DEF IInv
 <2>5. Home(q)' = Home(q) BY <2>1 DEF Home
 <2>6. Delta(job[q])' = Delta(job[q]) BY <2>1, <2>4, CommitFacts DEF Delta, FeeDelta, Jobs
 <2>7. balance'[Home(q)] = balance[Home(q)] BY <1>1, <2>2, <2>3 DEF Published
 <2>8. LeftBy(q)' = LeftBy(q) BY <2>1, <2>5, <2>6, <2>7 DEF LeftBy
 <2>9. walletLock'[Home(q)] = q BY <2>1, <2>2, CommitFacts
 <2> QED BY <2>1, <2>2, <2>5, <2>8, <2>9
<1>3. ClaimInv'
 <2> SUFFICES ASSUME NEW w \in Hooks, pc'[w] # "idle"
              PROVE  /\ status'[job'[w]] # "NONE"
                     /\ pc'[w] \in {"begun", "posted"} =>
                          intentLock'[job'[w]] = w /\ status'[job'[w]] = "PENDING"
   BY DEF ClaimInv
 <2>1. w \in Procs BY DEF Procs
 <2>2. w # p /\ pc[w] # "idle" /\ pc'[w] = pc[w] /\ job'[w] = job[w] BY <2>1, CommitFacts
 <2>3. job[w] \in Intents BY <2>1, <2>2, SessionJobs DEF IInv
 <2>4. /\ status[job[w]] # "NONE"
       /\ pc[w] \in {"begun", "posted"} =>
            intentLock[job[w]] = w /\ status[job[w]] = "PENDING"
   BY <2>2 DEF IInv, SessionInv, ClaimInv
 <2>5. status'[job[w]] # "NONE" BY <2>3, <2>4, CommitFacts
 <2>6. pc[w] \in {"begun", "posted"} =>
         intentLock'[job[w]] = w /\ status'[job[w]] = "PENDING"
   BY <2>2, <2>3, <2>4, CommitFacts
 <2> QED BY <2>2, <2>5, <2>6
<1>4. FreshInv'
 <2>1. \A i \in Intents : caller[i] = "idle" => status[i] = "NONE" BY DEF IInv, SessionInv, FreshInv
 <2> QED BY <2>1, CommitFacts DEF FreshInv
<1>5. CheckedInv'
 <2> SUFFICES ASSUME NEW a \in Adjustments, pc'[a] # "idle"
              PROVE  /\ pc'[a] = "begun" =>
                        /\ snap'[a] <= Len(ledger'[BranchOf[a]])
                        /\ snap'[a] = Len(ledger'[BranchOf[a]]) =>
                             balance'[BranchOf[a]] + DeltaOf[a] >= 0
                     /\ pc'[a] = "posted" => after'[a] >= 0
   BY DEF CheckedInv
 <2>1. a \in Procs /\ BranchOf[a] \in Branches BY ParameterAssumption DEF Procs, Jobs
 <2>2. pc'[a] = pc[a] /\ snap'[a] = snap[a] /\ after'[a] = after[a] BY <2>1, CommitFacts
 <2>3. /\ pc[a] = "begun" =>
          /\ snap[a] <= Len(ledger[BranchOf[a]])
          /\ snap[a] = Len(ledger[BranchOf[a]]) =>
               balance[BranchOf[a]] + DeltaOf[a] >= 0
       /\ pc[a] = "posted" => after[a] >= 0
   BY DEF IInv, SessionInv, CheckedInv
 <2>4. snap[a] \in Nat /\ Len(ledger[BranchOf[a]]) \in Nat BY <2>1 DEF IInv, ShapeOK, TypeOK
 <2>5. CASE BranchOf[a] = h
  <3>1. Len(ledger'[BranchOf[a]]) = Len(ledger[BranchOf[a]]) + 1 BY <1>1, <2>5 DEF Published
  <3> QED BY <2>2, <2>3, <2>4, <3>1
 <2>6. CASE BranchOf[a] # h
  <3>1. ledger'[BranchOf[a]] = ledger[BranchOf[a]] /\ balance'[BranchOf[a]] = balance[BranchOf[a]]
    BY <1>1, <2>1, <2>6 DEF Published
  <3> QED BY <2>2, <2>3, <3>1
 <2> QED BY <2>5, <2>6
<1> QED BY <1>2, <1>3, <1>4, <1>5 DEF SessionInv

LEMMA CommitCredits ==
  ASSUME IInv, NEW p \in Procs, Commit(p) PROVE SucceededIffCreditedOnce'
<1>1. PICK h \in Branches, last \in Nat \ {0} : Published(p, h, last) BY PublishFacts, CommitFacts
<1> SUFFICES ASSUME NEW i \in Intents
    PROVE  /\ (status'[i] = "SUCCEEDED") <=> (CreditRows(i)' # {})
           /\ \A m, n \in CreditRows(i)' : m = n
           /\ \A n \in CreditRows(i)' : ledger'[BranchOf[i]][n].amount = amount'[i]
  BY DEF SucceededIffCreditedOnce
<1>2. /\ (status[i] = "SUCCEEDED") <=> (CreditRows(i) # {})
      /\ \A m, n \in CreditRows(i) : m = n
      /\ \A n \in CreditRows(i) : ledger[BranchOf[i]][n].amount = amount[i]
  BY DEF IInv, LedgerInv, SucceededIffCreditedOnce
<1>3. BranchOf[i] \in Branches /\ Len(ledger[BranchOf[i]]) \in Nat
  BY ParameterAssumption DEF Jobs, IInv, ShapeOK, TypeOK
<1>4. CASE p \in Hooks /\ job[p] = i
 <2>1. h = BranchOf[i] BY <1>1, <1>4 DEF Published, Home
 <2>2. CreditRows(i) = {} BY <1>2, <1>4, CommitFacts
 <2>3. \A n \in 1 .. last - 1 : ledger'[h][n].ref # i
   BY <1>1, <1>3, <2>1, <2>2 DEF CreditRows, Published
 <2>4. ledger'[h][last].ref = i /\ ledger'[h][last].amount = amount'[i] /\ Len(ledger'[h]) = last
   BY <1>1, <1>4, CommitFacts DEF Published, Delta
 <2>5. \A n \in 1 .. last : n \in CreditRows(i)' <=> n = last BY <2>1, <2>3, <2>4 DEF CreditRows
 <2>6. CreditRows(i)' = {last} BY <2>1, <2>4, <2>5 DEF CreditRows
 <2>7. status'[i] = "SUCCEEDED" BY <1>4, CommitFacts DEF IInv, ShapeOK, TypeOK
 <2> QED BY <2>1, <2>4, <2>6, <2>7
<1>5. CASE job[p] # i
 <2>1. CreditRows(i)' = CreditRows(i)
  <3>1. CASE h = BranchOf[i]
   <4>1. /\ last = Len(ledger[h]) + 1 /\ Len(ledger'[h]) = last
         /\ ledger'[h][last].ref # i
         /\ \A n \in 1 .. last - 1 : ledger'[h][n] = ledger[h][n]
     BY <1>1, <1>5 DEF Published
   <4> QED BY <1>3, <3>1, <4>1 DEF CreditRows
  <3>2. CASE h # BranchOf[i] BY <1>1, <1>3, <3>2 DEF CreditRows, Published
  <3> QED BY <3>1, <3>2
 <2>2. \A n \in CreditRows(i) : ledger'[BranchOf[i]][n] = ledger[BranchOf[i]][n]
  <3>1. CASE h = BranchOf[i] BY <1>1, <1>3, <3>1 DEF CreditRows, Published
  <3>2. CASE h # BranchOf[i] BY <1>1, <1>3, <3>2 DEF Published
  <3> QED BY <3>1, <3>2
 <2>3. status'[i] = status[i] /\ amount'[i] = amount[i]
   BY <1>5, CommitFacts DEF IInv, ShapeOK, TypeOK
 <2> QED BY <1>2, <2>1, <2>2, <2>3
<1> QED BY <1>4, <1>5, CommitFacts

LEMMA InvStep == IInv /\ [Next]_vars => IInv'
<1> SUFFICES ASSUME IInv, [Next]_vars PROVE IInv' OBVIOUS
<1>1. ShapeOK' BY ShapeStep DEF IInv
<1>2. ASSUME NEW p \in Procs, Commit(p) PROVE SessionInv' /\ LedgerInv'
  BY <1>2, CommitFacts, CommitSessions, CommitCredits, PublishBalance, PublishCorrections
     DEF LedgerInv
<1>3. ASSUME NEW p \in Procs,
             \/ p \in Hooks /\ HookStep(p)
             \/ p \in Orders /\ FeeStep(p)
             \/ p \in Adjustments /\ AdjustStep(p)
             \/ SessionStep(p)
      PROVE  SessionInv' /\ LedgerInv'
 <2>1. CASE Commit(p) BY <1>2, <2>1
 <2>2. CASE ~Commit(p) /\ Publish(p)
  <3>1. pc[p] = "posted" /\ failures' = failures /\ failures \in Nat
    BY <2>2 DEF Publish, IInv, ShapeOK, TypeOK
  <3>2. ~SessionStep(p) BY <3>1 DEF SessionStep, Post, PostRefused, WriteConflict, Abort, Fail
  <3> QED
    BY <1>3, <2>2, <3>1, <3>2 DEF Commit, HookStep, FeeStep, AdjustStep, ReceivePaid, Start,
       Claim, AlreadyPosted, StartFee, BeginFee, StartAdjust, CheckAdjust
 <2>3. CASE ~Publish(p) BY <1>3, <2>3, HandlerInv
 <2> QED BY <2>1, <2>2, <2>3
<1>4. ASSUME NEW b \in Branches, CreateWallet(b) PROVE SessionInv' /\ LedgerInv'
 <2>1. LedgerInv' BY <1>4, LedgerFrame DEF CreateWallet, intentVars, IInv
 <2>2. SessionInv'
   BY <1>4 DEF CreateWallet, intentVars, gatewayVars, feeVars, sessionVars, lockVars,
      IInv, SessionInv, HeldInv, ClaimInv, FreshInv, CheckedInv, Home, LeftBy, Delta, FeeDelta
 <2> QED BY <2>1, <2>2
<1>5. CASE UNCHANGED vars
 <2>1. LedgerInv' BY <1>5, LedgerFrame DEF vars, walletVars, intentVars, IInv
 <2>2. SessionInv'
   BY <1>5 DEF vars, walletVars, intentVars, gatewayVars, feeVars, sessionVars, lockVars,
      IInv, SessionInv, HeldInv, ClaimInv, FreshInv, CheckedInv, Home, LeftBy, Delta, FeeDelta
 <2> QED BY <1>1, <2>1, <2>2 DEF IInv
<1> QED BY <1>1, <1>3, <1>4, <1>5, TopUpInv DEF Next, Procs, IInv

LEMMA Invariance == Spec => []IInv
  BY InitInv, InvStep, PTL DEF Spec

\* reconciliationReport finds no variance, whatever interleaving of top-ups,
\* fees and corrections ran and wherever a session was aborted.
THEOREM BalanceCorrect == Spec => []BalanceIsLedgerTotal
<1>1. IInv => BalanceIsLedgerTotal BY DEF IInv, LedgerInv
<1> QED BY <1>1, Invariance, PTL

\* An intent is SUCCEEDED exactly when its amount was credited, and it was
\* credited once: what postVerifiedTopUp's claim and unique index are for.
THEOREM CreditedOnce == Spec => []SucceededIffCreditedOnce
<1>1. IInv => SucceededIffCreditedOnce BY DEF IInv, LedgerInv
<1> QED BY <1>1, Invariance, PTL

\* adminAdjustBalance never leaves a wallet negative, and only a top-up that
\* reached the minimum has stamped activatedAt.
THEOREM CorrectionsAndActivation ==
  Spec => [](AdjustmentNeverOverdraws /\ ActivatedIffTopUpReachedMinimum)
<1>1. IInv => AdjustmentNeverOverdraws /\ ActivatedIffTopUpReachedMinimum BY DEF IInv, LedgerInv
<1> QED BY <1>1, Invariance, PTL

\* The books agree: shapes, running totals, credits and corrections at once, for
\* any number of branches, top-ups and order fees.
THEOREM BooksHold == Spec => []BooksAgree
<1>1. TypeOK /\ BalanceIsLedgerTotal /\ SucceededIffCreditedOnce
        /\ AdjustmentNeverOverdraws => BooksAgree
  BY DEF BooksAgree
<1> QED BY <1>1, TypeCorrect, BalanceCorrect, CreditedOnce, CorrectionsAndActivation, PTL

-----------------------------------------------------------------------------
(* The wallet implements the prepaid account.  A commit is the account's
   step; every other step leaves the account alone. *)

\* What a running handler may still do in the account.
RunInv ==
  /\ \A i \in Intents : status[i] # "NONE" => amount[i] \in Amounts
  /\ \A o \in Orders : pc[o] # "idle" => orderFee[o] # "reversed"
  /\ \A a \in Adjustments : pc[a] # "idle" => a \notin adjusted

Credited == {i \in Intents : status[i] = "SUCCEEDED"}
accountVars == <<balance, activated, Credited, orderFee, adjusted>>

LEMMA TopUpRuns ==
  ASSUME IInv, RunInv, NEW i \in Intents, TopUpStep(i)
  PROVE  RunInv' /\ UNCHANGED accountVars
<1> USE DEF walletVars, intentVars, gatewayVars, feeVars, sessionVars, RunInv, accountVars, Credited
<1>1. status \in [Intents -> IntentStatus] /\ amount \in [Intents -> Nat]
  BY DEF IInv, ShapeOK, TypeOK
<1>2. ASSUME NEW a \in Amounts, CreateIntent(i, a) PROVE RunInv' /\ UNCHANGED accountVars
 <2>1. status[i] = "NONE" BY <1>2 DEF CreateIntent, IInv, SessionInv, FreshInv
 <2> QED BY <1>1, <1>2, <2>1 DEF CreateIntent
<1>3. CASE InvoiceCreated(i) BY <1>3 DEF InvoiceCreated
<1>4. CASE InvoiceFails(i) BY <1>4 DEF InvoiceFails
<1>5. CASE MarkFailed(i) BY <1>1, <1>5 DEF MarkFailed, Resolve
<1>6. CASE StoreInvoice(i) BY <1>6 DEF StoreInvoice
<1>7. CASE CallerCrashes(i) BY <1>7 DEF CallerCrashes
<1>8. CASE Pay(i) BY <1>8 DEF Pay
<1>9. CASE Expire(i) BY <1>9 DEF Expire
<1>10. CASE ReceiveExpired(i) BY <1>1, <1>10 DEF ReceiveExpired, Resolve
<1> QED BY <1>2, <1>3, <1>4, <1>5, <1>6, <1>7, <1>8, <1>9, <1>10 DEF TopUpStep

LEMMA SessionRuns ==
  ASSUME IInv, RunInv, NEW p \in Procs, ~Commit(p),
         \/ p \in Hooks /\ HookStep(p)
         \/ p \in Orders /\ FeeStep(p)
         \/ p \in Adjustments /\ AdjustStep(p)
         \/ SessionStep(p)
  PROVE  RunInv' /\ UNCHANGED accountVars
<1> USE DEF walletVars, intentVars, feeVars
<1>1. /\ UNCHANGED <<balance, activated, status, amount, orderFee, adjusted>>
      /\ \A q \in Procs \ {p} : pc'[q] = pc[q]
      /\ pc'[p] # "idle" => \/ pc[p] # "idle"
                            \/ p \in Hooks
                            \/ p \in Orders /\ orderFee[p] # "reversed"
                            \/ p \in Adjustments /\ p \notin adjusted
 <2> USE DEF IInv, ShapeOK, TypeOK
 <2>1. CASE p \in Hooks /\ HookStep(p)
   BY <2>1 DEF HookStep, Commit, ReceivePaid, Start, Claim, BeginAt, AlreadyPosted, Quit
 <2>2. CASE p \in Orders /\ FeeStep(p)
   BY <2>2 DEF FeeStep, Commit, StartFee, Start, BeginFee, BeginAt
 <2>3. CASE p \in Adjustments /\ AdjustStep(p)
   BY <2>3 DEF AdjustStep, Commit, StartAdjust, Start, CheckAdjust, BeginAt, Quit
 <2>4. CASE SessionStep(p)
   BY <2>4 DEF SessionStep, Post, PostRefused, WriteConflict, Abort, Quit, Retry
 <2> QED BY <2>1, <2>2, <2>3, <2>4
<1>2. UNCHANGED accountVars BY <1>1 DEF accountVars, Credited
<1>3. RunInv' BY <1>1, ProcsApart DEF RunInv, Procs
<1> QED BY <1>2, <1>3

LEMMA CommitRuns ==
  ASSUME IInv, RunInv, NEW p \in Procs, Commit(p)
  PROVE  RunInv' /\ Account!Next
<1>1. PICK h \in Branches, last \in Nat \ {0} : Published(p, h, last) BY PublishFacts, CommitFacts
<1>2. /\ h = Home(p)
      /\ balance' = [balance EXCEPT ![h] = @ + Delta(job[p])]
      /\ activated' = IF Activates(RowOf(p)) THEN activated \union {h} ELSE activated
      /\ RowOf(p).after = balance[h] + Delta(job[p])
      /\ RowOf(p).kind = Kind(job[p])
  BY <1>1, CommitFacts DEF Publish, Published
<1>3. CASE p \in Hooks
 <2>1. PICK i \in Intents : i = job[p] BY <1>3, CommitFacts
 <2>2. h = BranchOf[i] /\ Delta(job[p]) = amount[i] /\ Kind(job[p]) = "TOP_UP"
   BY <1>2, <2>1 DEF Home, Delta, Kind
 <2>3. status[i] = "PENDING" /\ status' = [status EXCEPT ![i] = "SUCCEEDED"]
       /\ status \in [Intents -> IntentStatus]
   BY <1>3, <2>1, CommitFacts DEF IInv, ShapeOK, TypeOK
 <2>4. i \notin Credited /\ Credited' = Credited \union {i} BY <2>3 DEF Credited
 <2>5. amount[i] \in Amounts BY <2>3 DEF RunInv
 <2>6. CommitTopUp(p) BY <1>3, ProcsApart DEF Commit
 <2>7. Account!TopUp(i)
   BY <1>2, <2>2, <2>4, <2>5, <2>6, ZenonT(60)
      DEF Account!TopUp, Account!Move, Credited, Activates, CommitTopUp, feeVars
 <2>8. RunInv' BY <1>3, <2>3, <2>6, CommitFacts, ProcsApart DEF RunInv, CommitTopUp, feeVars, Procs
 <2> QED BY <2>7, <2>8 DEF Account!Next
<1>4. CASE p \in Orders
 <2>1. job[p] = p /\ p \notin Intents /\ p \notin Adjustments /\ CommitFee(p)
   BY <1>4, CommitFacts, ProcsApart DEF Commit
 <2>2. h = BranchOf[p] /\ Delta(job[p]) = FeeDelta(p) /\ Kind(job[p]) # "TOP_UP"
   BY <1>2, <2>1 DEF Home, Delta, Kind, FeeKind
 <2>3. activated' = activated /\ Credited' = Credited /\ adjusted' = adjusted
   BY <1>2, <2>1, <2>2 DEF Activates, CommitFee, Credited
 <2>4. orderFee[p] \in {"owed", "consumed"} BY <1>4, CommitFacts DEF RunInv, IInv, ShapeOK, TypeOK
 <2>5. ASSUME orderFee[p] = "owed" PROVE Account!Next
  <3>1. Account!ChargeFee(p)
    BY <1>2, <2>1, <2>2, <2>3, <2>5
       DEF Account!ChargeFee, Account!Move, FeeDelta, CommitFee, Credited
  <3> QED BY <1>4, <3>1 DEF Account!Next
 <2>6. ASSUME orderFee[p] = "consumed" PROVE Account!Next
  <3>1. Account!ReturnFee(p)
    BY <1>2, <2>1, <2>2, <2>3, <2>6
       DEF Account!ReturnFee, Account!Move, FeeDelta, CommitFee, Credited
  <3> QED BY <1>4, <3>1 DEF Account!Next
 <2>7. RunInv' BY <1>4, <2>1, <2>3, CommitFacts, ProcsApart DEF RunInv, CommitFee, Procs
 <2> QED BY <2>4, <2>5, <2>6, <2>7
<1>5. CASE p \in Adjustments
 <2>1. job[p] = p /\ p \notin Intents /\ CommitAdjust(p) /\ pc[p] = "posted"
   BY <1>5, CommitFacts, ProcsApart DEF Commit
 <2>2. h = BranchOf[p] /\ Delta(job[p]) = DeltaOf[p] /\ Kind(job[p]) # "TOP_UP"
   BY <1>2, <1>5, <2>1 DEF Home, Delta, Kind
 <2>3. activated' = activated /\ Credited' = Credited /\ orderFee' = orderFee
   BY <1>2, <2>1, <2>2 DEF Activates, CommitAdjust, Credited
 <2>4. p \notin adjusted /\ balance[h] + DeltaOf[p] >= 0
   BY <1>2, <1>5, <2>1, <2>2 DEF RunInv, RowOf, IInv, SessionInv, CheckedInv
 <2>5. Account!Adjust(p)
   BY <1>2, <2>1, <2>2, <2>3, <2>4 DEF Account!Adjust, Account!Move, CommitAdjust, Credited
 <2>6. RunInv' BY <1>5, <2>1, <2>3, CommitFacts, ProcsApart DEF RunInv, CommitAdjust, Procs
 <2> QED BY <1>5, <2>5, <2>6 DEF Account!Next
<1> QED BY <1>3, <1>4, <1>5 DEF Procs

LEMMA AccountStep ==
  IInv /\ RunInv /\ [Next]_vars => RunInv' /\ [Account!Next]_(Account!vars)
<1> SUFFICES ASSUME IInv, RunInv, [Next]_vars
             PROVE  RunInv' /\ (Account!Next \/ UNCHANGED accountVars)
  BY DEF accountVars, Account!vars, Credited
<1>1. ASSUME NEW b \in Branches, CreateWallet(b) PROVE RunInv' /\ UNCHANGED accountVars
  BY <1>1 DEF CreateWallet, intentVars, feeVars, sessionVars, RunInv, accountVars, Credited
<1>2. CASE UNCHANGED vars
  BY <1>2 DEF vars, walletVars, intentVars, feeVars, sessionVars, RunInv, accountVars, Credited
<1>3. ASSUME NEW p \in Procs,
             \/ p \in Hooks /\ HookStep(p)
             \/ p \in Orders /\ FeeStep(p)
             \/ p \in Adjustments /\ AdjustStep(p)
             \/ SessionStep(p)
      PROVE  RunInv' /\ (Account!Next \/ UNCHANGED accountVars)
  BY <1>3, CommitRuns, SessionRuns
<1> QED BY <1>1, <1>2, <1>3, TopUpRuns DEF Next, Procs

\* The wallet component implements the prepaid account: each top-up counts
\* once, each fee is charged and returned at most once and in that order, no
\* correction overdraws, and nothing else moves a balance.
THEOREM AccountImplemented == Spec => ImplementsAccount
<1>1. Init => RunInv /\ Account!Init BY DEF Init, RunInv, Account!Init, Procs
<1>2. QED BY <1>1, Invariance, AccountStep, PTL DEF Spec, ImplementsAccount, Account!Spec
=============================================================================
