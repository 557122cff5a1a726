--------------------------- MODULE OrderSettlement ---------------------------
(* The money of one online order: what the customer owes and has paid, and
   what the platform has debited from the provider's wallet for it.

   The calls that touch money load the order, price it on the copy, and
   run one transaction of several writes: the order is saved, a collection
   is recorded, the fee is taken or given back, the status is moved.  Each
   write is a step here.  When the database aborts an attempt,
   withTransaction runs the callback again on the copy the aborted attempt
   left: what it saved is clean now, what it computed is still there.

   One transaction is open at a time: a second writer of the order
   conflicts with the first and starts over.  Loads see what is committed,
   so a load while a transaction is open is a load before it began.  Calls
   that touch no money are single moves along the transition table;
   OrderLifecycle has them. *)
EXTENDS OrderStatuses, Integers

CONSTANTS
  Callers,        \* couriers, providers and customers, each with one call
  Sweeps,         \* instances of the abandonment job
  Nobody,         \* no transaction is open
  Estimate,       \* what the laundry was estimated at
  Services,       \* what it may come to when it is weighed
  Surcharges,     \* what a quality hold may add
  Extras,         \* the leg and turnaround fees snapshotted at booking
  Discount,       \* the promotion code's discount, taken off the estimate
  FeePercent,     \* the commission snapshotted at booking
  MaxVersion,     \* bound: calls begin only below this document version
  MaxMishaps      \* bound: attempts aborted, processes lost, overrides

ASSUME HandlersDisjoint == Callers \cap Sweeps = {} /\ Nobody \notin Callers \cup Sweeps
ASSUME AmountsAreNaturals ==
  /\ Services \subseteq Nat \ {0} /\ Surcharges \subseteq Nat \ {0}
  /\ Estimate \in Nat /\ Extras \in Nat /\ Discount \in Nat /\ FeePercent \in Nat
ASSUME BoundsAreNaturals == MaxVersion \in Nat /\ MaxMishaps \in Nat

VARIABLES
  doc,            \* the stored order
  recorded,       \* the sum of its collection rows
  debit,          \* what the wallet has been debited for it, net
  holder, todo,   \* whose transaction is open, and its remaining steps
  txDoc, txRecorded, txDebit,  \* what the open transaction would leave
  call, copy, dirty, due, script, carried,  \* each handler: see below
  listed,         \* the order is on the list the job has read
  mishaps,        \* used up so far, against the bound
  marks           \* history: what has happened to the order, see Commit

books == <<doc, recorded, debit>>
attempt == <<holder, todo, txDoc, txRecorded, txDebit>>
handlers == <<call, copy, dirty, due, script, carried>>
vars == <<books, attempt, handlers, listed, mishaps, marks>>

Handlers == Callers \cup Sweeps

-----------------------------------------------------------------------------
(* Prices.  A waiver forgives the fee the rule produced, never a penalty. *)
Max0(x) == IF x > 0 THEN x ELSE 0

PlatformFee(amount) == (amount * FeePercent + 50) \div 100

Waivable(p) == Max0(p.fee - p.penalty)

Chargeable(p) == Max0(p.fee - p.waiver)

(* finalizePricing: the weighed service re-prices the order. *)
Priced(p, service) ==
  LET q == [p EXCEPT !.service = service, !.fee = PlatformFee(service),
                     !.total = service + PlatformFee(service) + Extras]
  IN [q EXCEPT !.waiver = IF p.waived THEN Waivable(q) ELSE p.waiver]

(* An approved surcharge carries its own fee, which is a penalty. *)
Surcharged(p, amount) ==
  [p EXCEPT !.service = @ + amount, !.fee = @ + PlatformFee(amount),
            !.penalty = @ + PlatformFee(amount),
            !.total = @ + amount + PlatformFee(amount)]

Outstanding(d) == Max0(d.pricing.total - d.payment)

Waiting == {"awaiting_redelivery_selection", "awaiting_customer_pickup"}
HandedOver == {"delivered_to_customer", "customer_pickup_verified", "completed"}

(* applyTransition on a document or a copy.  The abandonment clock starts
   in the two waiting states if money is owed, and stops on the way out. *)
Stamped(d, to) ==
  IF to \in Waiting /\ Outstanding(d) > 0 THEN "running" ELSE "none"

Moved(d, to) ==
  [d EXCEPT !.status = to, !.version = @ + 1, !.deadline = Stamped(d, to)]

-----------------------------------------------------------------------------
(* A handler's call: the copy it loaded, the paths of it that are modified
   and not saved, the amount it computed, and the steps of its transaction.
   A step saves the copy, changes the copy, writes a row or a wallet, or
   moves the order to a status.  carried is what an aborted attempt has
   left in the copy that the next attempt will not compute again. *)
Path == {"status", "version", "deadline", "payment", "pricing"}
Work == {"save", "collectOutstanding", "collectDue", "row", "fee", "reverse"}

Blank ==
  [status |-> "draft", version |-> 0, deadline |-> "none", payment |-> 0,
   pricing |-> [service |-> 0, fee |-> 0, penalty |-> 0, waived |-> FALSE,
                waiver |-> 0, consumed |-> 0, total |-> 0]]

(* findOrderOrThrow and what the call does to its copy before the
   transaction.  A call the table refuses at once changes nothing. *)
Load(h, name, first, pricing, paths, amount, steps) ==
  /\ script[h] = <<>> /\ holder = Nobody
  /\ h \in Callers => doc.version < MaxVersion
  /\ <<doc.status, first>> \in Edge
  /\ call' = [call EXCEPT ![h] = name]
  /\ copy' = [copy EXCEPT ![h] = [doc EXCEPT !.pricing = pricing]]
  /\ dirty' = [dirty EXCEPT ![h] = paths]
  /\ due' = [due EXCEPT ![h] = amount]
  /\ script' = [script EXCEPT ![h] = steps]
  /\ UNCHANGED <<books, attempt, carried, mishaps, marks>>

RecordPickupWeight(h) ==
  /\ \E service \in Services :
       Load(h, "recordPickupWeight", "pickup_weighed",
            Priced(doc.pricing, service), {"pricing"}, 0,
            <<"save", "fee", "save", "pickup_weighed">>)
  /\ UNCHANGED listed

(* resolvePickupPaymentTiming: the customer pays now or at the handover. *)
RecordPickupPayment(h) ==
  /\ \E now \in BOOLEAN :
       Load(h, "recordPickupPayment", "picked_up_from_customer",
            doc.pricing, {}, 0,
            IF now
            THEN <<"save", "collectOutstanding", "save", "row",
                   "picked_up_from_customer", "laundry_in_progress">>
            ELSE <<"save", "picked_up_from_customer", "laundry_in_progress">>)
  /\ UNCHANGED listed

ReceiveAtCounter(h) ==
  /\ \E service \in Services, now \in BOOLEAN :
       Load(h, "receiveAtCounter", "received_by_provider",
            Priced(doc.pricing, service), {"pricing"}, 0,
            IF now
            THEN <<"save", "collectOutstanding", "save", "row", "fee", "save",
                   "received_by_provider", "laundry_in_progress">>
            ELSE <<"save", "fee", "save",
                   "received_by_provider", "laundry_in_progress">>)
  /\ UNCHANGED listed

(* respondToQualityHold, when the customer approves. *)
ApproveSurcharge(h) ==
  /\ doc.status = "laundry_quality_hold"
  /\ \E amount \in Surcharges :
       Load(h, "respondToQualityHold", "laundry_in_progress",
            Surcharged(doc.pricing, amount), {"pricing"}, 0,
            <<"save", "laundry_in_progress">>)
  /\ UNCHANGED listed

(* recordDelivery and verifySelfPickup: what is owed is computed on the
   copy before the transaction, and collected in it if there is anything.
   Mutant: the goods are handed over and the balance is left. *)
HandOverUnsettled(h, name, to) ==
  /\ Load(h, name, to, doc.pricing, {}, 0, <<"save", to, "completed">>)
  /\ UNCHANGED listed

HandOver(h, name, to) ==
  /\ Load(h, name, to, doc.pricing, {}, Outstanding(doc),
          IF Outstanding(doc) > 0
          THEN <<"save", "collectDue", "save", "row", "fee", "save", to, "completed">>
          ELSE <<"save", to, "completed">>)
  /\ UNCHANGED listed

RecordDelivery(h) == HandOver(h, "recordDelivery", "delivered_to_customer")
VerifySelfPickup(h) == HandOver(h, "verifySelfPickup", "customer_pickup_verified")

AbandonUnsettledOrder(h) ==
  Load(h, "abandonUnsettledOrder", "abandoned_unsettled", doc.pricing, {},
       doc.pricing.consumed,
       IF doc.pricing.consumed > 0
       THEN <<"reverse", "save", "abandoned_unsettled">>
       ELSE <<"save", "abandoned_unsettled">>)

AbandonBySupport(h) == AbandonUnsettledOrder(h) /\ UNCHANGED listed

(* The job reads its list first and loads each order of it afterwards.
   Mutant: it looks for orders that wait for a redelivery only. *)
SweepReadsReturned(s) ==
  /\ script[s] = <<>> /\ ~listed[s] /\ holder = Nobody
  /\ doc.status = "awaiting_redelivery_selection" /\ doc.deadline = "passed"
  /\ listed' = [listed EXCEPT ![s] = TRUE]
  /\ UNCHANGED <<books, attempt, handlers, mishaps, marks>>

SweepReads(s) ==
  /\ script[s] = <<>> /\ ~listed[s] /\ holder = Nobody
  /\ doc.status \in Waiting /\ doc.deadline = "passed"
  /\ listed' = [listed EXCEPT ![s] = TRUE]
  /\ UNCHANGED <<books, attempt, handlers, mishaps, marks>>

SweepAbandons(s) ==
  /\ listed[s]
  /\ AbandonUnsettledOrder(s)
  /\ listed' = [listed EXCEPT ![s] = FALSE]

(* The order has moved on, or is abandoned already. *)
SweepPassesOver(s) ==
  /\ listed[s] /\ script[s] = <<>> /\ holder = Nobody
  /\ <<doc.status, "abandoned_unsettled">> \notin Edge
  /\ listed' = [listed EXCEPT ![s] = FALSE]
  /\ UNCHANGED <<books, attempt, handlers, mishaps, marks>>

DeadlinePasses ==
  /\ doc.deadline = "running" /\ holder = Nobody
  /\ doc' = [doc EXCEPT !.deadline = "passed"]
  /\ txDoc' = doc'
  /\ UNCHANGED <<recorded, debit, holder, todo, txRecorded, txDebit, handlers,
                 listed, mishaps, marks>>

(* Calls that touch no money: one legal move each.  Support's override may
   take the moves that belong to a call that does. *)
MoneyEdge ==
  {move \in Edge :
     \/ move[2] \in {"pickup_weighed", "picked_up_from_customer",
                     "received_by_provider", "abandoned_unsettled"} \cup HandedOver
     \/ move[1] \in {"picked_up_from_customer", "received_by_provider"}}

MoveAlong(edges, mark) ==
  /\ holder = Nobody /\ doc.version < MaxVersion
  /\ \E to \in Status :
       /\ <<doc.status, to>> \in edges
       /\ doc' = Moved(doc, to)
  /\ txDoc' = doc'
  /\ marks' = marks \cup mark
  /\ UNCHANGED <<recorded, debit, holder, todo, txRecorded, txDebit, handlers,
                 listed>>

OtherCall == MoveAlong(Edge \ MoneyEdge, {}) /\ UNCHANGED mishaps

OverrideStatus ==
  /\ mishaps < MaxMishaps /\ mishaps' = mishaps + 1
  /\ MoveAlong(MoneyEdge, {"overridden"})

-----------------------------------------------------------------------------
(* The transaction of a call, write by write. *)
Begin(h) ==
  /\ holder = Nobody /\ script[h] # <<>>
  /\ holder' = h /\ todo' = script[h]
  /\ UNCHANGED <<books, txDoc, txRecorded, txDebit, handlers, listed, mishaps, marks>>

Doing(h, step) ==
  /\ holder = h /\ todo # <<>> /\ Head(todo) = step
  /\ holder' = holder /\ todo' = Tail(todo)

(* order.save writes the modified paths and leaves none. *)
Save(h) ==
  /\ Doing(h, "save")
  /\ txDoc' = [path \in Path |-> IF path \in dirty[h] THEN copy[h][path]
                                 ELSE txDoc[path]]
  /\ dirty' = [dirty EXCEPT ![h] = {}]
  /\ UNCHANGED <<books, txRecorded, txDebit, call, copy, due, script, carried,
                 listed, mishaps, marks>>

(* recordCollectionTransaction adds the amount to the copy's summary, saves
   it, and appends the row. *)
CollectOn(h, amount) ==
  /\ copy' = [copy EXCEPT ![h].payment = @ + amount]
  /\ due' = [due EXCEPT ![h] = amount]
  /\ dirty' = [dirty EXCEPT ![h] = @ \cup {"payment"}]
  /\ UNCHANGED <<books, txDoc, txRecorded, txDebit, call, script, carried,
                 listed, mishaps, marks>>

CollectOutstanding(h) ==
  Doing(h, "collectOutstanding") /\ CollectOn(h, Outstanding(copy[h]))

CollectDue(h) == Doing(h, "collectDue") /\ CollectOn(h, due[h])

Row(h) ==
  /\ Doing(h, "row")
  /\ txRecorded' = txRecorded + due[h]
  /\ UNCHANGED <<books, txDoc, txDebit, handlers, listed, mishaps, marks>>

Charge(h, amount, consumed) ==
  /\ txDebit' = txDebit + amount
  /\ copy' = [copy EXCEPT ![h].pricing.consumed = consumed]
  /\ dirty' = [dirty EXCEPT ![h] = IF amount = 0 THEN @ ELSE @ \cup {"pricing"}]
  /\ UNCHANGED <<books, txDoc, txRecorded, call, due, script, carried, listed,
                 mishaps, marks>>

(* consumeOutstandingFee: the wallet is debited, or credited, the
   difference to what was taken already.  Mutant: the whole fee is taken. *)
FeeInFull(h) ==
  /\ Doing(h, "fee")
  /\ Charge(h, Chargeable(copy[h].pricing), Chargeable(copy[h].pricing))

Fee(h) ==
  /\ Doing(h, "fee")
  /\ Charge(h, Chargeable(copy[h].pricing) - copy[h].pricing.consumed,
            Chargeable(copy[h].pricing))

Reverse(h) == Doing(h, "reverse") /\ Charge(h, 0 - due[h], 0)

(* applyTransition: the table and the filter on the version. *)
Accepts(h, to) ==
  /\ <<copy[h].status, to>> \in Edge
  /\ copy[h].version = txDoc.version

Move(h) ==
  \E to \in Status :
    /\ Doing(h, to) /\ Accepts(h, to)
    /\ copy' = [copy EXCEPT ![h] = Moved(@, to)]
    /\ txDoc' = [txDoc EXCEPT
         !.status = to, !.version = copy[h].version + 1,
         !.deadline = IF to \in Waiting \/ copy[h].deadline # "none"
                      THEN Stamped(copy[h], to) ELSE @]
    /\ dirty' = [dirty EXCEPT ![h] = @ \cup {"status", "version", "deadline"}]
    /\ UNCHANGED <<books, txRecorded, txDebit, call, due, script, carried,
                   listed, mishaps, marks>>

Finish(h) ==
  /\ holder' = Nobody /\ todo' = <<>>
  /\ txDoc' = doc' /\ txRecorded' = recorded' /\ txDebit' = debit'
  /\ call' = [call EXCEPT ![h] = "none"]
  /\ copy' = [copy EXCEPT ![h] = Blank]
  /\ dirty' = [dirty EXCEPT ![h] = {}]
  /\ due' = [due EXCEPT ![h] = 0]
  /\ script' = [script EXCEPT ![h] = <<>>]
  /\ carried' = [carried EXCEPT ![h] = {}]
  /\ UNCHANGED listed

(* marks: a collection, a wallet debit or a move that an aborted attempt
   left in the copy was committed ("payment", "fee", "moved"); the copy's
   price was not ("unpriced"); an order that owed nothing was abandoned
   ("forgiven"). *)
Commit(h) ==
  /\ holder = h /\ todo = <<>>
  /\ doc' = txDoc /\ recorded' = txRecorded /\ debit' = txDebit
  /\ marks' = marks \cup carried[h]
       \cup {m \in {"unpriced"} : copy[h].pricing # txDoc.pricing}
       \cup {m \in {"forgiven"} : call[h] = "abandonUnsettledOrder"
                                    /\ Outstanding(txDoc) = 0}
  /\ Finish(h)
  /\ UNCHANGED mishaps

Throw(h) ==
  /\ holder = h
  /\ \E to \in Status :
       todo # <<>> /\ Head(todo) = to /\ ~Accepts(h, to)
  /\ UNCHANGED <<books, mishaps, marks>>
  /\ Finish(h)

(* The database aborts the attempt: the transaction's writes are undone and
   the copy is kept as it is. *)
Abort(h) ==
  /\ holder = h /\ mishaps < MaxMishaps
  /\ mishaps' = mishaps + 1
  /\ holder' = Nobody /\ todo' = <<>>
  /\ txDoc' = doc /\ txRecorded' = recorded /\ txDebit' = debit
  /\ carried' = [carried EXCEPT ![h] = @
       \cup {m \in {"payment"} : copy[h].payment # doc.payment}
       \cup {m \in {"moved"} : "version" \in dirty[h]}
       \cup {m \in {"fee"} : /\ call[h] # "abandonUnsettledOrder"
                             /\ "pricing" \in dirty[h]
                             /\ copy[h].pricing.consumed # doc.pricing.consumed}]
  /\ UNCHANGED <<books, call, copy, dirty, due, script, listed, marks>>

(* The process is lost, before its transaction or in it. *)
Crash(h) ==
  /\ script[h] # <<>> /\ holder \in {h, Nobody} /\ mishaps < MaxMishaps
  /\ mishaps' = mishaps + 1
  /\ UNCHANGED <<books, marks>>
  /\ Finish(h)

-----------------------------------------------------------------------------
(* The order is accepted for drop-off, or its courier is at the door.  The
   fee is the estimate's, and a promotion may have waived it. *)
Init ==
  /\ \E status \in {"accepted_by_provider", "pickup_arrived"}, waived \in BOOLEAN :
       doc = [Blank EXCEPT
                !.status = status,
                !.pricing.fee = PlatformFee(Estimate),
                !.pricing.waived = waived,
                !.pricing.waiver = IF waived THEN PlatformFee(Estimate) ELSE 0]
  /\ recorded = 0 /\ debit = 0
  /\ holder = Nobody /\ todo = <<>>
  /\ txDoc = doc /\ txRecorded = 0 /\ txDebit = 0
  /\ call = [h \in Handlers |-> "none"]
  /\ copy = [h \in Handlers |-> Blank]
  /\ dirty = [h \in Handlers |-> {}]
  /\ due = [h \in Handlers |-> 0]
  /\ script = [h \in Handlers |-> <<>>]
  /\ carried = [h \in Handlers |-> {}]
  /\ listed = [s \in Sweeps |-> FALSE]
  /\ mishaps = 0 /\ marks = {}

Request(h) ==
  \/ RecordPickupWeight(h) \/ RecordPickupPayment(h) \/ ReceiveAtCounter(h)
  \/ ApproveSurcharge(h) \/ RecordDelivery(h) \/ VerifySelfPickup(h)
  \/ AbandonBySupport(h)

Job(s) == SweepReads(s) \/ SweepAbandons(s) \/ SweepPassesOver(s)

Run(h) ==
  \/ Begin(h) \/ Save(h) \/ CollectOutstanding(h) \/ CollectDue(h) \/ Row(h)
  \/ Fee(h) \/ Reverse(h) \/ Move(h) \/ Commit(h) \/ Throw(h)

Next ==
  \/ \E h \in Callers : Request(h)
  \/ \E s \in Sweeps : Job(s)
  \/ \E h \in Handlers : Run(h) \/ Abort(h) \/ Crash(h)
  \/ DeadlinePasses \/ OtherCall \/ OverrideStatus

Spec == Init /\ [][Next]_vars

(* The job runs every hour, time passes, and a transaction that is open is
   run by the event loop.  Nobody has to issue a call. *)
FairSpec ==
  /\ Spec
  /\ WF_vars(DeadlinePasses)
  /\ \A s \in Sweeps : WF_vars(Job(s))
  /\ \A h \in Handlers : WF_vars(Run(h))

-----------------------------------------------------------------------------
Pricing == [service : Nat, fee : Nat, penalty : Nat, waived : BOOLEAN,
            waiver : Nat, consumed : Nat, total : Nat]
Deadline == {"none", "running", "passed"}
Document == [status : Status, version : Nat, deadline : Deadline,
             payment : Nat, pricing : Pricing]
Mark == {"overridden", "moved", "payment", "fee", "unpriced", "forgiven"}

(* Types: amounts are natural numbers, the wallet's an integer; a modified
   path is a path; one handler at most has a transaction open. *)
TypeOK ==
  /\ doc \in Document /\ txDoc \in Document
  /\ recorded \in Nat /\ txRecorded \in Nat
  /\ debit \in Int /\ txDebit \in Int
  /\ holder \in Handlers \cup {Nobody}
  /\ todo \in Seq(Work \cup Status)
  /\ script \in [Handlers -> Seq(Work \cup Status)]
  /\ DOMAIN call = Handlers
  /\ copy \in [Handlers -> Document]
  /\ dirty \in [Handlers -> SUBSET Path]
  /\ due \in [Handlers -> Nat]
  /\ carried \in [Handlers -> SUBSET Mark]
  /\ listed \in [Sweeps -> BOOLEAN]
  /\ mishaps \in Nat /\ marks \subseteq Mark

(* The order's count of what its provider was debited is what the wallet
   was debited, over weigh-ins, corrections of them, surcharges, abandonment
   and every attempt that is run again, unless one was cut off between the
   wallet's write and the order's.  consumeOutstandingFee. *)
FeeLedgerEquation ==
  marks \cap {"fee", "moved"} = {} => doc.pricing.consumed = debit

(* What the order says was collected is the sum of its collection rows,
   unless a collection was run again.  recordCollectionTransaction. *)
CollectedIsRecorded ==
  marks \cap {"payment", "moved"} = {} => doc.payment = recorded

(* What an order says of its money is what the wallet and the collection
   rows say, through every attempt that is aborted and run again.
   consumeOutstandingFee, recordCollectionTransaction. *)
SettlementBooks == TypeOK /\ FeeLedgerEquation /\ CollectedIsRecorded

(* Laundry changes hands paid: the customer has paid the price, no more and
   no less, and the provider was charged the fee of it.  recordDelivery,
   verifySelfPickup. *)
HandedOverIsSettled ==
  doc.status \in HandedOver /\ marks = {}
    => /\ doc.pricing.total > 0 /\ doc.payment = doc.pricing.total
       /\ doc.pricing.consumed = Chargeable(doc.pricing)

(* A price is the service, the fee on it and the snapshotted extras, however
   often it was weighed and surcharged.  finalizePricing. *)
PriceReconciles ==
  doc.pricing.total > 0 /\ marks \cap {"overridden", "unpriced", "moved"} = {}
    => doc.pricing.total = doc.pricing.service + doc.pricing.fee + Extras

(* A provider whose fee is waived is never charged more than the penalties,
   whatever the laundry weighed, unless a moved copy went over the order.
   The waiver follows the fee.  waivablePlatformFeeCentavos. *)
WaiverHolds ==
  doc.pricing.waived /\ "moved" \notin marks => debit <= doc.pricing.penalty

(* An abandoned order has cost its provider nothing.  abandonUnsettledOrder. *)
AbandonedReturnsFee ==
  doc.status = "abandoned_unsettled" /\ marks \cap {"overridden", "fee", "moved"} = {}
    => debit = 0

(* The sweep abandons no order that owes nothing, although it reads its list
   before the order, unless a moved copy went over it.  sweepAbandonedOrders. *)
SweptOrderOwes ==
  \A s \in Sweeps :
    Commit(s) /\ "moved" \notin marks => Outstanding(doc) > 0

(* Through weighing, surcharge, abandonment, reinstatement and handover: the
   price adds up, a waiver holds, an abandoned order costs nothing, laundry
   changes hands paid, and only an order that owes is swept.
   finalizePricing, abandonUnsettledOrder, recordDelivery. *)
LifeIsSound ==
  [][/\ (HandedOverIsSettled /\ PriceReconciles /\ WaiverHolds /\ AbandonedReturnsFee)'
     /\ SweptOrderOwes]_vars

(* An order that waits and owes is not left waiting.  The sweep. *)
UnsettledIsSwept ==
  (doc.status \in Waiting /\ doc.deadline # "none") ~> doc.status \notin Waiting

-----------------------------------------------------------------------------
(* What the repository says of the program and the program does not do. *)

(* The promotion code's discount is taken off what the customer owes.
   The pricing fields of the order. *)
DiscountIsKept ==
  doc.pricing.total > 0
    => doc.pricing.total + Discount <= doc.pricing.service + doc.pricing.fee + Extras
=============================================================================
