----------------------------- MODULE Promotions -----------------------------
(* The redemptions of promotion codes and fee waivers, and the orders they
   belong to.

   A customer's code is validated when an order is placed and redeemed
   after the order is saved, in a transaction of its own.  A provider's
   fee waiver is found and reserved in the middle of the transaction that
   accepts the order, in a second transaction that commits first.  Whoever
   moves the order to its end settles or releases what it holds.

   The clock and the administrator's switch are one bit of a promotion.
   Roles, minimum orders and the size of a discount do not change who
   holds a slot and are left out; so are promotions without a cap. *)
EXTENDS Integers, FiniteSets

CONSTANTS
  Handlers,        \* requests of customers, providers and administrators
  Codes, Waivers,  \* promotions on an order's total, on a provider's fee
  FirstOrderOnly,  \* the codes for a customer's first order
  Orders,
  Redemptions,     \* identities of ledger rows
  Customers, Branches,
  Customer, Branch,  \* whose order it is, and who does it
  PerSubject,      \* how often one subject may use a promotion
  Caps, FirstCap,  \* what a promotion's cap may be set to, and is at first
  None,
  MaxFailures,     \* bound: attempts aborted and processes lost
  MaxChanges       \* bound: changes an administrator or the clock makes

Promos == Codes \cup Waivers
Subjects == Customers \cup Branches

ASSUME PromosDisjoint ==
  Codes \cap Waivers = {} /\ FirstOrderOnly \subseteq Codes
ASSUME SubjectsDisjoint == Customers \cap Branches = {}
ASSUME OrdersOwned ==
  Customer \in [Orders -> Customers] /\ Branch \in [Orders -> Branches]
ASSUME CapsAreNaturals ==
  Caps \subseteq Nat /\ FirstCap \in Caps /\ PerSubject \in Nat
ASSUME BoundsAreNaturals == MaxFailures \in Nat /\ MaxChanges \in Nat
ASSUME FiniteRows == IsFiniteSet(Redemptions)
(* At any time finitely many requests are in progress, and one can be. *)
ASSUME SomeHandlers == IsFiniteSet(Handlers) /\ Handlers # {}
ASSUME NoneIsNothing ==
  None \notin Promos \cup Subjects \cup Orders \cup Handlers \cup Redemptions

VARIABLES
  live, cap, count,    \* of a promotion: usable now, its cap, redemptionCount
  rowState, rowPromo, rowSubject, rowOrder,  \* the ledger
  status, code, waiver,  \* of an order: how far it is, what its pricing names
  taken,               \* the handler whose open transaction has written it
  pc, purpose, promo, subject, order, seenCap,  \* a request in progress
  given, saved,        \* what acceptOrder's copy names, and in this attempt
  failures, changes,   \* used up so far, against the bounds
  ceiling, stray, revived  \* history: see CapHolds and SlotFollowsOrder

promotions == <<live, cap, count, ceiling, changes>>
ledger == <<rowState, rowPromo, rowSubject, rowOrder>>
orders == <<status, code, waiver, taken>>
history == <<stray, revived>>
requests == <<pc, purpose, promo, subject, order, seenCap, given, saved>>
vars == <<promotions, ledger, orders, requests, failures, history>>

Open == {"pending", "accepted"}

(* A row counts against every cap until it is released. *)
Counts(r) == rowState[r] \in {"RESERVED", "REDEEMED"}

(* The rows of a subject. *)
Uses(p, s) ==
  {r \in Redemptions : Counts(r) /\ rowPromo[r] = p /\ rowSubject[r] = s}

Held(o) == {r \in Redemptions : rowState[r] = "RESERVED" /\ rowOrder[r] = o}

-----------------------------------------------------------------------------
(* A request: what it is about, and where it stands. *)
Start(h, at, why, p, s, o) ==
  /\ pc[h] = "idle"
  /\ pc' = [pc EXCEPT ![h] = at]
  /\ purpose' = [purpose EXCEPT ![h] = why]
  /\ promo' = [promo EXCEPT ![h] = p]
  /\ subject' = [subject EXCEPT ![h] = s]
  /\ order' = [order EXCEPT ![h] = o]
  /\ UNCHANGED <<promotions, ledger, orders, seenCap, given, saved, failures,
                 history>>

(* The search for a promotion is over. *)
Leave(h, at) ==
  /\ pc' = [pc EXCEPT ![h] = at]
  /\ promo' = [promo EXCEPT ![h] = None]
  /\ seenCap' = [seenCap EXCEPT ![h] = 0]
  /\ UNCHANGED <<purpose, subject, order>>

Finish(h) ==
  /\ pc' = [pc EXCEPT ![h] = "idle"]
  /\ purpose' = [purpose EXCEPT ![h] = "none"]
  /\ promo' = [promo EXCEPT ![h] = None]
  /\ subject' = [subject EXCEPT ![h] = None]
  /\ order' = [order EXCEPT ![h] = None]
  /\ seenCap' = [seenCap EXCEPT ![h] = 0]
  /\ given' = [given EXCEPT ![h] = None]
  /\ saved' = [saved EXCEPT ![h] = FALSE]

(* createOrder with a code: validate, save the order, reserve. *)
PlaceOrder(h, o, p) ==
  /\ status[o] = "none" /\ \A g \in Handlers : order[g] # o
  /\ Start(h, "read", "book", p, Customer[o], o)

(* redeemPromoCode: the administrator may name an order or none. *)
Redeem(h, c, p, o) ==
  /\ o \in Orders => status[o] # "none"
  /\ Start(h, "read", "grant", p, c, o)

(* acceptOrder: the copy it loads has no waiver yet. *)
AcceptOrder(h, o) ==
  /\ status[o] = "pending"
  /\ Start(h, "begin", "waive", None, Branch[o], o)

(* validateAgainst, and the search of findPlatformFeePromoFor: the
   promotion is read first and the subject's rows are counted later.  A
   code that fails ends the request; a waiver that fails, or cannot be
   looked up, leaves the acceptance without one. *)
Usable(p) == live[p] /\ count[p] < cap[p]

ReadPromo(h) ==
  /\ pc[h] = "read" /\ promo[h] # None /\ Usable(promo[h])
  /\ seenCap' = [seenCap EXCEPT ![h] = cap[promo[h]]]
  /\ pc' = [pc EXCEPT ![h] = "count"]
  /\ UNCHANGED <<promotions, ledger, orders, purpose, promo, subject, order,
                 given, saved, failures, history>>

FindWaiver(h) ==
  /\ pc[h] = "read" /\ purpose[h] = "waive"
  /\ \E p \in Waivers :
       Usable(p) /\ promo' = [promo EXCEPT ![h] = p]
  /\ pc' = [pc EXCEPT ![h] = "count"]
  /\ UNCHANGED <<promotions, ledger, orders, purpose, subject, order, seenCap,
                 given, saved, failures, history>>

Eligible(h) ==
  /\ Cardinality(Uses(promo[h], subject[h])) < PerSubject
  /\ promo[h] \in FirstOrderOnly =>
       \A o \in Orders : Customer[o] = subject[h] => status[o] = "none"

CountUses(h) ==
  /\ pc[h] = "count" /\ Eligible(h)
  /\ pc' = [pc EXCEPT ![h] = "act"]
  /\ UNCHANGED <<promotions, ledger, orders, purpose, promo, subject, order,
                 seenCap, given, saved, failures, history>>

Invalid(h) ==
  /\ purpose[h] # "waive"
  /\ \/ pc[h] = "read" /\ ~Usable(promo[h])
     \/ pc[h] = "count" /\ ~Eligible(h)
     \/ pc[h] = "act" /\ purpose[h] # "book" /\ count[promo[h]] >= seenCap[h]
  /\ Finish(h)
  /\ UNCHANGED <<promotions, ledger, orders, failures, history>>

NoWaiver(h) ==
  /\ purpose[h] = "waive" /\ pc[h] \in {"read", "count", "act"}
  /\ Leave(h, "commit")
  /\ UNCHANGED <<promotions, ledger, orders, given, saved, failures, history>>

-----------------------------------------------------------------------------
(* The order is saved with the code in its pricing; the code is redeemed
   afterwards, checked from scratch. *)
SaveOrder(h) ==
  /\ pc[h] = "act" /\ purpose[h] = "book"
  /\ status' = [status EXCEPT ![order[h]] = "pending"]
  /\ code' = [code EXCEPT ![order[h]] = promo[h]]
  /\ pc' = [pc EXCEPT ![h] = "read"]
  /\ purpose' = [purpose EXCEPT ![h] = "reserve"]
  /\ UNCHANGED <<promotions, ledger, waiver, taken, promo, subject, order,
                 seenCap, given, saved, failures, history>>

PlaceOrderWithoutCode(o) ==
  /\ status[o] = "none" /\ \A g \in Handlers : order[g] # o
  /\ status' = [status EXCEPT ![o] = "pending"]
  /\ UNCHANGED <<promotions, ledger, code, waiver, taken, requests, failures,
                 history>>

(* The transaction that takes a slot: the counter moves only below the cap,
   and a row is inserted.  Mutant: the counter moves whatever it is. *)
TakeRegardless(h, limit, as) ==
  /\ pc[h] = "act"
  /\ count' = [count EXCEPT ![promo[h]] = @ + 1]
  /\ \E r \in Redemptions :
       /\ rowState[r] = "none"
       /\ rowState' = [rowState EXCEPT ![r] = as]
       /\ rowPromo' = [rowPromo EXCEPT ![r] = promo[h]]
       /\ rowSubject' = [rowSubject EXCEPT ![r] = subject[h]]
       /\ rowOrder' = [rowOrder EXCEPT ![r] = order[h]]
  /\ UNCHANGED <<live, cap, ceiling, changes, orders, failures,
                 revived>>

Take(h, limit, as) ==
  /\ pc[h] = "act" /\ count[promo[h]] < limit
  /\ count' = [count EXCEPT ![promo[h]] = @ + 1]
  /\ \E r \in Redemptions :
       /\ rowState[r] = "none"
       /\ rowState' = [rowState EXCEPT ![r] = as]
       /\ rowPromo' = [rowPromo EXCEPT ![r] = promo[h]]
       /\ rowSubject' = [rowSubject EXCEPT ![r] = subject[h]]
       /\ rowOrder' = [rowOrder EXCEPT ![r] = order[h]]
  /\ UNCHANGED <<live, cap, ceiling, changes, orders, failures,
                 revived>>

(* reserve: meanwhile the order may have come to its end. *)
ReserveForOrder(h) ==
  /\ purpose[h] = "reserve"
  /\ Take(h, seenCap[h], "RESERVED")
  /\ Leave(h, "stamp")
  /\ UNCHANGED <<given, saved>>
  /\ stray' = IF status[order[h]] \in Open THEN stray ELSE stray \cup {order[h]}

GrantDirectly(h) ==
  /\ purpose[h] = "grant"
  /\ Take(h, seenCap[h], "REDEEMED")
  /\ Finish(h)
  /\ UNCHANGED stray

(* reserveForBranch reads the promotion again; applyPlatformFeePromo names
   it on the copy and saves that in the open transaction.
   Mutant: the copy is not saved. *)
ReserveAndForget(h) ==
  /\ purpose[h] = "waive" /\ promo[h] # None
  /\ Take(h, cap[promo[h]], "RESERVED")
  /\ Leave(h, "commit")
  /\ given' = [given EXCEPT ![h] = promo[h]]
  /\ UNCHANGED <<saved, stray>>

ReserveForBranch(h) ==
  /\ purpose[h] = "waive" /\ promo[h] # None
  /\ Take(h, cap[promo[h]], "RESERVED")
  /\ Leave(h, "commit")
  /\ given' = [given EXCEPT ![h] = promo[h]]
  /\ saved' = [saved EXCEPT ![h] = TRUE]
  /\ UNCHANGED stray

(* createOrder saves the promotion's id on the copy it made before.  All of
   pricing is written, without a waiver granted in between, and so are the
   status and the version, which applyTransition had set on the copy: the
   save has no version filter, and an order that was accepted or came to
   its end meanwhile is pending again. *)
StampPromoId(h) ==
  /\ pc[h] = "stamp" /\ taken[order[h]] = None
  /\ status' = [status EXCEPT ![order[h]] = "pending"]
  /\ waiver' = [waiver EXCEPT ![order[h]] = None]
  /\ stray' = IF waiver[order[h]] = None THEN stray ELSE stray \cup {order[h]}
  /\ revived' = IF status[order[h]] \in Open THEN revived
                ELSE revived \cup {order[h]}
  /\ Finish(h)
  /\ UNCHANGED <<promotions, ledger, code, taken, failures>>

-----------------------------------------------------------------------------
(* The transaction of acceptOrder moves the order first.  A waiver its copy
   already names is not applied again, and not saved again either. *)
BeginAttempt(h) ==
  /\ pc[h] = "begin" /\ taken[order[h]] = None /\ status[order[h]] = "pending"
  /\ taken' = [taken EXCEPT ![order[h]] = h]
  /\ pc' = [pc EXCEPT ![h] = IF given[h] = None THEN "read" ELSE "commit"]
  /\ UNCHANGED <<promotions, ledger, status, code, waiver, purpose, promo,
                 subject, order, seenCap, given, saved, failures, history>>

AlreadyMoved(h) ==
  /\ pc[h] = "begin" /\ taken[order[h]] = None /\ status[order[h]] # "pending"
  /\ Finish(h)
  /\ UNCHANGED <<promotions, ledger, orders, failures, history>>

CommitAccept(h) ==
  /\ pc[h] = "commit"
  /\ status' = [status EXCEPT ![order[h]] = "accepted"]
  /\ waiver' = [waiver EXCEPT ![order[h]] = IF saved[h] THEN given[h] ELSE @]
  /\ taken' = [taken EXCEPT ![order[h]] = None]
  /\ Finish(h)
  /\ UNCHANGED <<promotions, ledger, code, failures, history>>

Leaves(h) ==
  /\ stray' = IF given[h] = None THEN stray ELSE stray \cup {order[h]}
  /\ UNCHANGED revived

(* The database aborts the attempt; the reservation is committed already,
   and the copy keeps the waiver. *)
AbortAccept(h) ==
  /\ purpose[h] = "waive" /\ taken[order[h]] = h
  /\ failures < MaxFailures /\ failures' = failures + 1
  /\ taken' = [taken EXCEPT ![order[h]] = None]
  /\ pc' = [pc EXCEPT ![h] = "begin"]
  /\ promo' = [promo EXCEPT ![h] = None]
  /\ saved' = [saved EXCEPT ![h] = FALSE]
  /\ Leaves(h)
  /\ UNCHANGED <<promotions, ledger, status, code, waiver, purpose, subject,
                 order, seenCap, given>>

Crash(h) ==
  /\ pc[h] # "idle"
  /\ failures < MaxFailures /\ failures' = failures + 1
  /\ taken' = [o \in Orders |-> IF taken[o] = h THEN None ELSE taken[o]]
  /\ Leaves(h)
  /\ Finish(h)
  /\ UNCHANGED <<promotions, ledger, status, code, waiver>>

(* Every transition runs settlePromoForTransition, which looks for a code
   or a waiver in the order's pricing before it looks for rows. *)
Names(o) == code[o] # None \/ waiver[o] # None

Freed(o) == IF Names(o) THEN Held(o) ELSE {}

Move(o, from, to) ==
  /\ status[o] \in from /\ taken[o] = None
  /\ status' = [status EXCEPT ![o] = to]
  /\ UNCHANGED <<live, cap, ceiling, changes, code, waiver, taken, rowPromo,
                 rowSubject, rowOrder, requests, failures, history>>

(* releaseForOrder: the order is rejected or cancelled.
   Mutant: it releases whatever rows the order has. *)
ReleaseEveryRow(o) ==
  /\ Move(o, Open, "ended")
  /\ rowState' = [r \in Redemptions |->
       IF Counts(r) /\ rowOrder[r] = o THEN "RELEASED" ELSE rowState[r]]
  /\ count' = [p \in Promos |->
       count[p] - Cardinality({r \in Redemptions :
                     Counts(r) /\ rowOrder[r] = o /\ rowPromo[r] = p})]

EndOrder(o) ==
  /\ Move(o, Open, "ended")
  /\ rowState' = [r \in Redemptions |->
       IF r \in Freed(o) THEN "RELEASED" ELSE rowState[r]]
  /\ count' = [p \in Promos |->
       count[p] - Cardinality({r \in Freed(o) : rowPromo[r] = p})]

(* settleForOrder. *)
CompleteOrder(o) ==
  /\ Move(o, {"accepted"}, "completed")
  /\ rowState' = [r \in Redemptions |->
       IF r \in Freed(o) THEN "REDEEMED" ELSE rowState[r]]
  /\ UNCHANGED count

-----------------------------------------------------------------------------
(* The administrator's switch, the two dates, and the cap. *)
SetActive(p) ==
  /\ changes < MaxChanges /\ changes' = changes + 1
  /\ live' = [live EXCEPT ![p] = ~@]
  /\ UNCHANGED <<cap, count, ceiling, ledger, orders, requests, failures,
                 history>>

UpdateCap(p, n) ==
  /\ n # cap[p]
  /\ changes < MaxChanges /\ changes' = changes + 1
  /\ cap' = [cap EXCEPT ![p] = n]
  /\ ceiling' = [ceiling EXCEPT ![p] = IF n > @ THEN n ELSE @]
  /\ UNCHANGED <<live, count, ledger, orders, requests, failures, history>>

Init ==
  /\ live = [p \in Promos |-> TRUE]
  /\ cap = [p \in Promos |-> FirstCap] /\ ceiling = cap
  /\ count = [p \in Promos |-> 0]
  /\ rowState = [r \in Redemptions |-> "none"]
  /\ rowPromo = [r \in Redemptions |-> None]
  /\ rowSubject = [r \in Redemptions |-> None]
  /\ rowOrder = [r \in Redemptions |-> None]
  /\ status = [o \in Orders |-> "none"]
  /\ code = [o \in Orders |-> None]
  /\ waiver = [o \in Orders |-> None]
  /\ taken = [o \in Orders |-> None]
  /\ pc = [h \in Handlers |-> "idle"]
  /\ purpose = [h \in Handlers |-> "none"]
  /\ promo = [h \in Handlers |-> None]
  /\ subject = [h \in Handlers |-> None]
  /\ order = [h \in Handlers |-> None]
  /\ seenCap = [h \in Handlers |-> 0]
  /\ given = [h \in Handlers |-> None]
  /\ saved = [h \in Handlers |-> FALSE]
  /\ failures = 0 /\ changes = 0 /\ stray = {} /\ revived = {}

Request(h) ==
  \/ \E o \in Orders : AcceptOrder(h, o) \/ \E p \in Codes : PlaceOrder(h, o, p)
  \/ \E c \in Customers, p \in Codes, o \in Orders \cup {None} :
       Redeem(h, c, p, o)

Run(h) ==
  \/ ReadPromo(h) \/ FindWaiver(h) \/ CountUses(h) \/ Invalid(h) \/ NoWaiver(h)
  \/ SaveOrder(h) \/ ReserveForOrder(h) \/ GrantDirectly(h)
  \/ ReserveForBranch(h) \/ StampPromoId(h)
  \/ BeginAttempt(h) \/ AlreadyMoved(h) \/ CommitAccept(h)

Next ==
  \/ \E h \in Handlers : Request(h) \/ Run(h) \/ AbortAccept(h) \/ Crash(h)
  \/ \E o \in Orders :
       PlaceOrderWithoutCode(o) \/ EndOrder(o) \/ CompleteOrder(o)
  \/ \E p \in Promos : SetActive(p) \/ \E n \in Caps : UpdateCap(p, n)

Spec == Init /\ [][Next]_vars

-----------------------------------------------------------------------------
RowState == {"none", "RESERVED", "REDEEMED", "RELEASED"}
Status == {"none", "pending", "accepted", "completed", "ended"}
Stage == {"idle", "read", "count", "act", "stamp", "begin", "commit"}
Purpose == {"none", "book", "reserve", "grant", "waive"}

(* Types: counters are natural numbers, a request names things that exist. *)
TypeOK ==
  /\ live \in [Promos -> BOOLEAN]
  /\ cap \in [Promos -> Nat] /\ count \in [Promos -> Nat]
  /\ ceiling \in [Promos -> Nat]
  /\ rowState \in [Redemptions -> RowState]
  /\ rowPromo \in [Redemptions -> Promos \cup {None}]
  /\ rowSubject \in [Redemptions -> Subjects \cup {None}]
  /\ rowOrder \in [Redemptions -> Orders \cup {None}]
  /\ status \in [Orders -> Status]
  /\ code \in [Orders -> Codes \cup {None}]
  /\ waiver \in [Orders -> Waivers \cup {None}]
  /\ taken \in [Orders -> Handlers \cup {None}]
  /\ pc \in [Handlers -> Stage]
  /\ purpose \in [Handlers -> Purpose]
  /\ promo \in [Handlers -> Promos \cup {None}]
  /\ subject \in [Handlers -> Subjects \cup {None}]
  /\ order \in [Handlers -> Orders \cup {None}]
  /\ seenCap \in [Handlers -> Nat]
  /\ given \in [Handlers -> Waivers \cup {None}]
  /\ saved \in [Handlers -> BOOLEAN]
  /\ failures \in Nat /\ changes \in Nat
  /\ stray \subseteq Orders /\ revived \subseteq Orders

(* redemptionCount is the number of rows that count, over every order of
   reservations, settlements, releases and grants.  PromoCode. *)
CountIsLedger ==
  \A p \in Promos :
    count[p] = Cardinality({r \in Redemptions : Counts(r) /\ rowPromo[r] = p})

(* No promotion is redeemed more often than the highest cap it ever had,
   whoever races for the last slot.  createRedemption, reserveForBranch. *)
CapHolds == \A p \in Promos : count[p] <= ceiling[p]

(* A subject goes over its own cap only by the requests that were counted
   for at the same time.  validateAgainst, findPlatformFeePromoFor. *)
OverIssueIsBounded ==
  \A p \in Promos, s \in Subjects :
    Cardinality({r \in Redemptions :
                   Counts(r) /\ rowPromo[r] = p /\ rowSubject[r] = s})
      + Cardinality({h \in Handlers : /\ pc[h] = "act" /\ purpose[h] # "book"
                                      /\ promo[h] = p /\ subject[h] = s})
      <= PerSubject + Cardinality(Handlers) - 1

(* A slot is held for an order on its way and given back only by one that
   was rejected or cancelled, unless the order is stray: it was over before
   its code was reserved, an acceptance lost its attempt after it reserved
   a waiver, or the waiver was overwritten.  An order that had ended and
   that the last save of createOrder wrote back to pending is on its way
   again without the slot it gave back.  settlePromoForTransition. *)
SlotFollowsOrder ==
  \A r \in Redemptions :
    rowOrder[r] # None /\ rowOrder[r] \notin stray
      => /\ rowState[r] = "RESERVED" => status[rowOrder[r]] \in Open
         /\ rowState[r] = "RELEASED"
              => status[rowOrder[r]] = "ended" \/ rowOrder[r] \in revived

(* Rows, counters, caps and orders keep together: a counter is the number of
   its rows and within its cap, and a slot follows its order.  createRedemption,
   releaseForOrder, settleForOrder. *)
CapsAndCountsHold == TypeOK /\ CountIsLedger /\ CapHolds /\ SlotFollowsOrder

(* An accepted order's fee is waived if its branch has a slot for it, and
   for one slot only.  applyPlatformFeePromo. *)
WaiverHasItsSlot ==
  \A o \in Orders \ stray, p \in Waivers :
    status[o] \in {"accepted", "completed"}
      => Cardinality({r \in Uses(p, Branch[o]) : rowOrder[r] = o})
           = IF waiver[o] = p THEN 1 ELSE 0

(* Waivers are granted as they are counted: nobody goes over a cap of her own
   but by requests counted for together, and a waived fee has its one slot.
   validateAgainst, applyPlatformFeePromo. *)
WaiversAndLimits == OverIssueIsBounded /\ WaiverHasItsSlot

(* What is spent stays spent, and what was given back is not held again.
   releaseForOrder, settleForOrder. *)
FinalRowsStay ==
  [][\A r \in Redemptions :
       rowState[r] \in {"REDEEMED", "RELEASED"}
         => rowState'[r] = rowState[r]]_vars
=============================================================================
