------------------------ MODULE OrderSettlementProofs ------------------------
(* The books of an order agree: what it says was collected is the sum of
   its collection rows, and what it says its provider was charged is what
   the wallet was debited, for any number of callers and sweeps, any
   amounts, any number of aborted attempts and lost processes.

   Neither equation is inductive.  They need the order of a script's
   steps (ScriptsInv), that a transaction which can still commit works on
   a copy of the current version (VersionsInv), and, for a handler whose
   copy is of the current version, how what it has written of money so far
   relates to the copy (PaymentInv, FeeInv), through every attempt that
   begins again on the copy the last one left.

   The second half proves that the life of the order is sound: who has the
   laundry, who has paid, what was charged and what an abandonment gives
   back, and which orders a sweep may abandon. *)
EXTENDS OrderSettlement, TLAPS

Collects == {"collectOutstanding", "collectDue"}

(* The steps of a script come in this order, and so do those that are left:
   a fee is saved, a collection is saved and then recorded, the moves are
   last, and a reversal is first. *)
Ordered(s) ==
  \A i \in 1..Len(s) :
    /\ s[i] \in {"fee", "reverse"} => i < Len(s) /\ s[i + 1] = "save"
    /\ s[i] \in Collects => i + 2 <= Len(s) /\ s[i + 1] = "save" /\ s[i + 2] = "row"
    /\ s[i] \in Status => \A j \in i..Len(s) : s[j] \in Status
    /\ i > 1 => s[i] # "reverse" /\ (s[i] = "row" => s[i - 1] = "save")
    /\ i > 1 /\ i < Len(s) /\ s[i] = "save" /\ s[i + 1] = "row" => s[i - 1] \in Collects

EndsInMove(s) == s # <<>> => s[Len(s)] \in Status
Facing(s, step) == s # <<>> /\ s[1] = step

(* A collection was computed and its row is still to be written. *)
RowDue(s) ==
  \/ Len(s) >= 1 /\ s[1] = "row"
  \/ Len(s) >= 2 /\ s[1] = "save" /\ s[2] = "row"

Active(h) == script[h] # <<>>
Abandons(h) == call[h] = "abandonUnsettledOrder"

(* Only an abandonment reverses a fee, and it takes and collects nothing. *)
OfItsCall(h, s) ==
  IF Abandons(h) THEN \A i \in 1..Len(s) : s[i] \notin {"fee"} \cup Collects
  ELSE \A i \in 1..Len(s) : s[i] # "reverse"

ScriptFits(h) ==
  Ordered(script[h]) /\ EndsInMove(script[h]) /\ ~RowDue(script[h]) /\ OfItsCall(h, script[h])

TransactionFits ==
  /\ holder # Nobody =>
       Ordered(todo) /\ EndsInMove(todo) /\ OfItsCall(holder, todo) /\ Active(holder)
  /\ holder = Nobody =>
       txDoc = doc /\ txRecorded = recorded /\ txDebit = debit /\ todo = <<>>

ScriptsInv == TransactionFits /\ \A h \in Handlers : ScriptFits(h)

(* The version of a copy is not ahead of the order's before the transaction
   moves the order; afterwards it is the transaction's, and is ahead. *)
NotMovedYet(h) ==
  /\ "version" \notin dirty[h] /\ copy[h].version <= doc.version
  /\ holder = h => txDoc.version = doc.version /\ todo # <<>>
MovedOn(h) ==
  /\ holder = h /\ "version" \in dirty[h]
  /\ copy[h].version = txDoc.version /\ txDoc.version > doc.version
  /\ \A i \in 1..Len(todo) : todo[i] \in Status

VersionFits(h) ==
  Active(h) /\ "moved" \notin carried[h] => NotMovedYet(h) \/ MovedOn(h)

VersionsInv == "moved" \notin marks => \A h \in Handlers : VersionFits(h)

(* The handlers whose commit is still possible and will mark nothing. *)
Fresh(h) == copy[h].version = (IF holder = h THEN txDoc.version ELSE doc.version)
Keen(h, which) == Active(h) /\ carried[h] \cap which = {} /\ Fresh(h)

PaymentInTransaction(h) ==
  /\ copy[h].payment = txRecorded + (IF RowDue(todo) THEN due[h] ELSE 0)
  /\ \/ txDoc.payment = copy[h].payment
     \/ "payment" \in dirty[h] /\ Facing(todo, "save")

PaymentFits(h) ==
  Keen(h, {"payment", "moved"}) =>
    IF holder = h THEN PaymentInTransaction(h) ELSE copy[h].payment = doc.payment

PaymentInv ==
  marks \cap {"payment", "moved"} = {} =>
    doc.payment = recorded /\ \A h \in Handlers : PaymentFits(h)

(* The copy says it was charged what its price makes chargeable. *)
Charged(h) == copy[h].pricing.consumed = Chargeable(copy[h].pricing)
AsStored(h) == copy[h].pricing.consumed = doc.pricing.consumed

(* What an attempt that begins, or begins again, finds in the copy. *)
FeeInCopy(h) ==
  IF Abandons(h)
  THEN due[h] = doc.pricing.consumed /\ (AsStored(h) \/ Facing(script[h], "reverse"))
  ELSE /\ AsStored(h) \/ Charged(h)
       /\ holder # h => AsStored(h) \/ "pricing" \notin dirty[h]

(* An attempt has debited what its copy says; or an attempt that repeats a
   fee it has saved before debits nothing; or the reversal is to come. *)
FeeWritten(h) ==
  /\ txDebit = copy[h].pricing.consumed /\ ~Facing(todo, "reverse")
  /\ \/ txDoc.pricing.consumed = txDebit
     \/ "pricing" \in dirty[h] /\ Facing(todo, "save")
FeeRepeated(h) ==
  /\ txDoc.pricing.consumed = txDebit /\ "pricing" \notin dirty[h]
  /\ ~Abandons(h) /\ Charged(h)
FeeToReverse(h) ==
  /\ Abandons(h) /\ Facing(todo, "reverse") /\ Facing(script[h], "reverse")
  /\ txDebit = due[h] /\ txDoc.pricing.consumed = due[h]

FeeFits(h) ==
  Keen(h, {"fee", "moved"}) =>
    /\ FeeInCopy(h)
    /\ holder = h => FeeWritten(h) \/ FeeRepeated(h) \/ FeeToReverse(h)

FeeInv ==
  marks \cap {"fee", "moved"} = {} =>
    doc.pricing.consumed = debit /\ \A h \in Handlers : FeeFits(h)

IInv == TypeOK /\ ScriptsInv /\ VersionsInv /\ PaymentInv /\ FeeInv

-----------------------------------------------------------------------------
(* Records and amounts. *)

LEMMA DocumentFields ==
  ASSUME NEW d \in Document
  PROVE  /\ d.status \in Status /\ d.version \in Nat /\ d.deadline \in Deadline
         /\ d.payment \in Nat /\ d.pricing \in Pricing
BY DEF Document

LEMMA PricingFields ==
  ASSUME NEW p \in Pricing
  PROVE  /\ p.service \in Nat /\ p.fee \in Nat /\ p.penalty \in Nat /\ p.waived \in BOOLEAN
         /\ p.waiver \in Nat /\ p.consumed \in Nat /\ p.total \in Nat
BY DEF Pricing

LEMMA BlankIsDocument == Blank \in Document
BY DEF Blank, Document, Deadline, Pricing, Status

LEMMA FeeIsNatural ==
  ASSUME NEW x \in Nat
  PROVE  PlatformFee(x) \in Nat
<1>1. FeePercent \in Nat BY AmountsAreNaturals
<1>2. QED BY <1>1, SMT DEF PlatformFee

LEMMA OutstandingIsNatural ==
  ASSUME NEW d \in Document
  PROVE  Outstanding(d) \in Nat
<1>1. d.payment \in Nat /\ d.pricing.total \in Nat BY DocumentFields, PricingFields
<1>2. QED BY <1>1 DEF Outstanding, Max0

LEMMA ChargeableIsNatural ==
  ASSUME NEW p \in Pricing
  PROVE  Chargeable(p) \in Nat
<1>1. p.fee \in Nat /\ p.waiver \in Nat BY PricingFields
<1>2. QED BY <1>1 DEF Chargeable, Max0

LEMMA WaivableIsNatural ==
  ASSUME NEW p \in Pricing
  PROVE  Waivable(p) \in Nat
<1>1. p.fee \in Nat /\ p.penalty \in Nat BY PricingFields
<1>2. QED BY <1>1 DEF Waivable, Max0

(* Weighing and a surcharge re-price the order and leave what was taken. *)
LEMMA PricedIsPricing ==
  ASSUME NEW p \in Pricing, NEW service \in Nat
  PROVE  /\ Priced(p, service) \in Pricing
         /\ Priced(p, service).consumed = p.consumed
<1>1. PICK fee \in Nat : fee = PlatformFee(service) BY FeeIsNatural
<1>2. PICK total \in Nat : total = service + fee + Extras BY AmountsAreNaturals
<1> DEFINE q == [p EXCEPT !.service = service, !.fee = fee, !.total = total]
<1>3. q \in Pricing /\ q.consumed = p.consumed /\ q.waiver = p.waiver BY DEF Pricing
<1>4. Priced(p, service) = [q EXCEPT !.waiver = IF p.waived THEN Waivable(q) ELSE p.waiver]
  BY <1>1, <1>2 DEF Priced
<1> HIDE DEF q
<1>5. PICK waiver \in Nat : waiver = IF p.waived THEN Waivable(q) ELSE p.waiver
  BY <1>3, WaivableIsNatural, PricingFields
<1>6. [q EXCEPT !.waiver = waiver] \in Pricing /\ [q EXCEPT !.waiver = waiver].consumed = q.consumed
  BY <1>3 DEF Pricing
<1>7. QED BY <1>3, <1>4, <1>5, <1>6

LEMMA SurchargedIsPricing ==
  ASSUME NEW p \in Pricing, NEW amount \in Nat
  PROVE  /\ Surcharged(p, amount) \in Pricing
         /\ Surcharged(p, amount).consumed = p.consumed
<1>0. /\ p.service \in Nat /\ p.fee \in Nat /\ p.penalty \in Nat /\ p.total \in Nat
      /\ PlatformFee(amount) \in Nat
  BY PricingFields, FeeIsNatural
<1>1. PICK service \in Nat : service = p.service + amount BY <1>0
<1>2. PICK fee \in Nat : fee = p.fee + PlatformFee(amount) BY <1>0
<1>3. PICK penalty \in Nat : penalty = p.penalty + PlatformFee(amount) BY <1>0
<1>4. PICK total \in Nat : total = p.total + amount + PlatformFee(amount) BY <1>0
<1>5. Surcharged(p, amount) =
        [p EXCEPT !.service = service, !.fee = fee, !.penalty = penalty, !.total = total]
  BY <1>1, <1>2, <1>3, <1>4 DEF Surcharged
<1>6. QED BY <1>5 DEF Pricing

(* A move changes the status, the version and the clock, and no money. *)
LEMMA MovedDocument ==
  ASSUME NEW d \in Document, NEW to \in Status
  PROVE  /\ Moved(d, to) \in Document
         /\ Moved(d, to).version = d.version + 1
         /\ Moved(d, to).payment = d.payment /\ Moved(d, to).pricing = d.pricing
         /\ Stamped(d, to) \in Deadline
<1>1. PICK x \in Deadline : x = Stamped(d, to) BY DEF Stamped, Deadline
<1>2. PICK v \in Nat : v = d.version + 1 BY DocumentFields
<1>3. Moved(d, to) = [d EXCEPT !.status = to, !.version = v, !.deadline = x] BY <1>1, <1>2 DEF Moved
<1>4. QED BY <1>1, <1>2, <1>3 DEF Document

(* Saving takes the modified paths of the copy and leaves the others. *)
LEMMA SavedDocument ==
  ASSUME NEW d \in Document, NEW c \in Document, NEW S, NEW r,
         r = [path \in Path |-> IF path \in S THEN c[path] ELSE d[path]]
  PROVE  /\ r \in Document
         /\ r.version = IF "version" \in S THEN c.version ELSE d.version
         /\ r.payment = IF "payment" \in S THEN c.payment ELSE d.payment
         /\ r.pricing = IF "pricing" \in S THEN c.pricing ELSE d.pricing
BY DEF Document, Path

-----------------------------------------------------------------------------
(* Scripts. *)

LEMMA WorkIsNoStatus ==
  \A step \in Status :
    step \notin {"save", "row", "fee", "reverse"} \cup Collects
BY DEF Status, Collects

LEMMA LengthOfSteps ==
  ASSUME NEW s \in Seq(Work \cup Status), s # <<>>
  PROVE  /\ Len(s) \in Nat \ {0} /\ Tail(s) \in Seq(Work \cup Status)
         /\ Len(Tail(s)) = Len(s) - 1 /\ Head(s) = s[1]
         /\ \A i \in 1..Len(Tail(s)) : Tail(s)[i] = s[i + 1]
OBVIOUS

LEMMA RestIsOrdered ==
  ASSUME NEW s \in Seq(Work \cup Status), s # <<>>, Ordered(s)
  PROVE  Ordered(Tail(s)) /\ ~Facing(Tail(s), "reverse")
BY DEF Ordered, Facing

LEMMA RestEndsInMove ==
  ASSUME NEW s \in Seq(Work \cup Status), s # <<>>, EndsInMove(s)
  PROVE  EndsInMove(Tail(s)) /\ (Tail(s) = <<>> => s[1] \in Status)
BY DEF EndsInMove

(* A row is due from the moment its amount is computed until it is written. *)
LEMMA RowOfRest ==
  ASSUME NEW s \in Seq(Work \cup Status), s # <<>>, Ordered(s)
  PROVE  /\ s[1] \in Collects => ~RowDue(s) /\ RowDue(Tail(s)) /\ Facing(Tail(s), "save")
         /\ s[1] = "save" => (RowDue(Tail(s)) <=> RowDue(s))
         /\ s[1] = "row" => RowDue(s) /\ ~RowDue(Tail(s))
         /\ s[1] \in {"fee", "reverse"} => ~RowDue(s) /\ ~RowDue(Tail(s)) /\ Facing(Tail(s), "save")
         /\ s[1] \in Status => ~RowDue(s) /\ ~RowDue(Tail(s))
<1>0. \A i \in 1..Len(s) : s[i] \in Work \cup Status OBVIOUS
<1>1. s[1] \in Collects => ~RowDue(s) /\ RowDue(Tail(s)) /\ Facing(Tail(s), "save")
  BY DEF Ordered, RowDue, Facing, Collects
<1>2. s[1] = "save" => (RowDue(Tail(s)) <=> RowDue(s))
 <2> SUFFICES ASSUME s[1] = "save" PROVE RowDue(Tail(s)) <=> RowDue(s) OBVIOUS
 <2>1. Len(Tail(s)) >= 2 => ~(Tail(s)[1] = "save" /\ Tail(s)[2] = "row")
  <3> SUFFICES ASSUME Len(Tail(s)) >= 2, Tail(s)[1] = "save", Tail(s)[2] = "row"
               PROVE  FALSE
    OBVIOUS
  <3>1. Len(s) >= 3 /\ s[2] = "save" /\ s[3] = "row" OBVIOUS
  <3>2. s[1] \in Collects BY <3>1 DEF Ordered
  <3>3. QED BY <3>2 DEF Collects
 <2>2. QED BY <2>1 DEF RowDue
<1>3. s[1] = "row" => RowDue(s) /\ ~RowDue(Tail(s)) BY DEF Ordered, RowDue, Collects
<1>4. s[1] \in {"fee", "reverse"} => ~RowDue(s) /\ ~RowDue(Tail(s)) /\ Facing(Tail(s), "save")
 <2> SUFFICES ASSUME s[1] \in {"fee", "reverse"}
              PROVE  ~RowDue(s) /\ ~RowDue(Tail(s)) /\ Facing(Tail(s), "save")
   OBVIOUS
 <2>1. Len(s) >= 2 /\ s[2] = "save" BY DEF Ordered
 <2>2. Len(s) >= 3 => s[3] # "row" BY <2>1 DEF Ordered, Collects
 <2>3. Tail(s)[1] = "save" /\ Tail(s) # <<>> /\ (Len(Tail(s)) >= 2 => Tail(s)[2] # "row")
   BY <2>1, <2>2
 <2>4. ~RowDue(Tail(s)) /\ Facing(Tail(s), "save") BY <2>3 DEF RowDue, Facing
 <2>5. QED BY <2>4 DEF RowDue
<1>5. s[1] \in Status => ~RowDue(s) /\ ~RowDue(Tail(s))
 <2> SUFFICES ASSUME s[1] \in Status PROVE ~RowDue(s) /\ ~RowDue(Tail(s)) OBVIOUS
 <2>1. \A i \in 1..Len(s) : s[i] \in Status BY DEF Ordered
 <2>2. \A i \in 1..Len(s) : s[i] \notin {"save", "row"} BY <2>1, WorkIsNoStatus
 <2>3. QED BY <2>2 DEF RowDue
<1>6. QED BY <1>1, <1>2, <1>3, <1>4, <1>5

(* What a script must be for the invariant, of a call that abandons or not. *)
ScriptOK(s, abandons) ==
  /\ s \in Seq(Work \cup Status) /\ s # <<>>
  /\ Ordered(s) /\ EndsInMove(s) /\ ~RowDue(s)
  /\ IF abandons THEN \A i \in 1..Len(s) : s[i] \notin {"fee"} \cup Collects
     ELSE \A i \in 1..Len(s) : s[i] # "reverse"

-----------------------------------------------------------------------------
(* Scripts of the calls. *)

LEMMA ScriptsOfCalls ==
  /\ ScriptOK(<<"save", "fee", "save", "pickup_weighed">>, FALSE)
  /\ ScriptOK(<<"save", "collectOutstanding", "save", "row",
                "picked_up_from_customer", "laundry_in_progress">>, FALSE)
  /\ ScriptOK(<<"save", "picked_up_from_customer", "laundry_in_progress">>, FALSE)
  /\ ScriptOK(<<"save", "collectOutstanding", "save", "row", "fee", "save",
                "received_by_provider", "laundry_in_progress">>, FALSE)
  /\ ScriptOK(<<"save", "fee", "save", "received_by_provider", "laundry_in_progress">>, FALSE)
  /\ ScriptOK(<<"save", "laundry_in_progress">>, FALSE)
  /\ \A to \in {"delivered_to_customer", "customer_pickup_verified"} :
       /\ ScriptOK(<<"save", "collectDue", "save", "row", "fee", "save", to, "completed">>, FALSE)
       /\ ScriptOK(<<"save", to, "completed">>, FALSE)
  /\ ScriptOK(<<"reverse", "save", "abandoned_unsettled">>, TRUE)
  /\ ScriptOK(<<"save", "abandoned_unsettled">>, TRUE)
<1>1. ScriptOK(<<"save", "fee", "save", "pickup_weighed">>, FALSE)
  BY DEF ScriptOK, Ordered, EndsInMove, RowDue, Collects, Work, Status
<1>2. ScriptOK(<<"save", "collectOutstanding", "save", "row",
                "picked_up_from_customer", "laundry_in_progress">>, FALSE)
  BY DEF ScriptOK, Ordered, EndsInMove, RowDue, Collects, Work, Status
<1>3. ScriptOK(<<"save", "picked_up_from_customer", "laundry_in_progress">>, FALSE)
  BY DEF ScriptOK, Ordered, EndsInMove, RowDue, Collects, Work, Status
<1>4. ScriptOK(<<"save", "collectOutstanding", "save", "row", "fee", "save",
                "received_by_provider", "laundry_in_progress">>, FALSE)
  BY DEF ScriptOK, Ordered, EndsInMove, RowDue, Collects, Work, Status
<1>5. ScriptOK(<<"save", "fee", "save", "received_by_provider",
                "laundry_in_progress">>, FALSE)
  BY DEF ScriptOK, Ordered, EndsInMove, RowDue, Collects, Work, Status
<1>6. ScriptOK(<<"save", "laundry_in_progress">>, FALSE)
  BY DEF ScriptOK, Ordered, EndsInMove, RowDue, Collects, Work, Status
<1>7. ASSUME NEW to \in {"delivered_to_customer", "customer_pickup_verified"}
      PROVE  ScriptOK(<<"save", "collectDue", "save", "row", "fee", "save", to, "completed">>, FALSE)
  BY DEF ScriptOK, Ordered, EndsInMove, RowDue, Collects, Work, Status
<1>8. ASSUME NEW to \in {"delivered_to_customer", "customer_pickup_verified"}
      PROVE  ScriptOK(<<"save", to, "completed">>, FALSE)
  BY DEF ScriptOK, Ordered, EndsInMove, RowDue, Collects, Work, Status
<1>9. ScriptOK(<<"reverse", "save", "abandoned_unsettled">>, TRUE)
  BY DEF ScriptOK, Ordered, EndsInMove, RowDue, Collects, Work, Status
<1>10. ScriptOK(<<"save", "abandoned_unsettled">>, TRUE)
  BY DEF ScriptOK, Ordered, EndsInMove, RowDue, Collects, Work, Status
<1>11. QED BY <1>1, <1>2, <1>3, <1>4, <1>5, <1>6, <1>7, <1>8, <1>9, <1>10

-----------------------------------------------------------------------------
(* What a step leaves alone. *)

LEMMA NobodyIsNoHandler == \A h \in Handlers : h # Nobody
BY HandlersDisjoint DEF Handlers

(* A step that neither the books nor a handler sees keeps the invariant. *)
LEMMA OutsideKeeps ==
  ASSUME IInv, TypeOK', UNCHANGED <<books, attempt, handlers, marks>>
  PROVE  IInv'
<1> USE DEF books, attempt, handlers
<1>1. ScriptsInv' BY DEF IInv, ScriptsInv, ScriptFits, TransactionFits, OfItsCall, Abandons, Active
<1>2. VersionsInv' BY DEF IInv, VersionsInv, VersionFits, Active, NotMovedYet, MovedOn
<1>3. PaymentInv' BY DEF IInv, PaymentInv, PaymentFits, Keen, Fresh, Active, PaymentInTransaction
<1>4. FeeInv'
  BY DEF IInv, FeeInv, FeeFits, Keen, Fresh, Active, FeeInCopy, AsStored, Charged, Abandons,
         FeeWritten, FeeRepeated, FeeToReverse
<1>5. QED BY <1>1, <1>2, <1>3, <1>4 DEF IInv

(* A step of one handler, in its transaction or outside of all, that leaves
   the books: the other handlers have nothing to show. *)
LEMMA StepOfOne ==
  ASSUME IInv, TypeOK', NEW h \in Handlers, holder \in {h, Nobody}, holder' \in {h, Nobody},
         UNCHANGED <<books, marks>>,
         \A k \in Handlers \ {h} :
           /\ call'[k] = call[k] /\ copy'[k] = copy[k] /\ dirty'[k] = dirty[k]
           /\ due'[k] = due[k] /\ script'[k] = script[k] /\ carried'[k] = carried[k],
         ScriptFits(h)', TransactionFits',
         "moved" \notin marks => VersionFits(h)',
         marks \cap {"payment", "moved"} = {} => PaymentFits(h)',
         marks \cap {"fee", "moved"} = {} => FeeFits(h)'
  PROVE  IInv'
<1> USE DEF books
<1>0. \A k \in Handlers \ {h} : holder # k /\ holder' # k BY NobodyIsNoHandler
<1>1. ScriptsInv'
 <2>1. ASSUME NEW k \in Handlers, k # h PROVE ScriptFits(k)'
   BY <2>1 DEF IInv, ScriptsInv, ScriptFits, OfItsCall, Abandons
 <2>2. QED BY <2>1 DEF ScriptsInv
<1>2. VersionsInv'
 <2> SUFFICES ASSUME "moved" \notin marks, NEW k \in Handlers, k # h PROVE VersionFits(k)'
   BY DEF VersionsInv
 <2>1. VersionFits(k) BY DEF IInv, VersionsInv
 <2>2. QED BY <1>0, <2>1 DEF VersionFits, Active, NotMovedYet, MovedOn
<1>3. PaymentInv'
 <2> SUFFICES ASSUME marks \cap {"payment", "moved"} = {} PROVE PaymentInv' BY DEF PaymentInv
 <2>1. ASSUME NEW k \in Handlers, k # h PROVE PaymentFits(k)'
  <3>1. PaymentFits(k) BY DEF IInv, PaymentInv
  <3>2. QED BY <1>0, <2>1, <3>1 DEF PaymentFits, Keen, Fresh, Active
 <2>2. QED BY <2>1 DEF IInv, PaymentInv
<1>4. FeeInv'
 <2> SUFFICES ASSUME marks \cap {"fee", "moved"} = {} PROVE FeeInv' BY DEF FeeInv
 <2>1. ASSUME NEW k \in Handlers, k # h PROVE FeeFits(k)'
  <3>1. FeeFits(k) BY DEF IInv, FeeInv
  <3>2. QED
    BY <1>0, <2>1, <3>1
       DEF FeeFits, Keen, Fresh, Active, FeeInCopy, AsStored, Charged, Abandons
 <2>2. QED BY <2>1 DEF IInv, FeeInv
<1>5. QED BY <1>1, <1>2, <1>3, <1>4 DEF IInv

(* What a step of an open transaction starts from. *)
LEMMA BeforeStep ==
  ASSUME IInv, NEW h \in Handlers, NEW step, Doing(h, step)
  PROVE  /\ holder = h /\ holder' = h /\ h # Nobody /\ Active(h)
         /\ todo \in Seq(Work \cup Status) /\ todo # <<>> /\ todo[1] = step
         /\ todo' = Tail(todo) /\ step \in Work \cup Status
         /\ Ordered(todo) /\ EndsInMove(todo) /\ OfItsCall(h, todo)
         /\ "moved" \notin marks => VersionFits(h)
         /\ marks \cap {"payment", "moved"} = {} => PaymentFits(h)
         /\ marks \cap {"fee", "moved"} = {} => FeeFits(h)
<1>1. holder = h /\ holder' = h /\ h # Nobody /\ todo \in Seq(Work \cup Status)
      /\ todo # <<>> /\ todo' = Tail(todo) /\ Head(todo) = step
  BY NobodyIsNoHandler DEF IInv, TypeOK, Doing
<1>2. Active(h) /\ Ordered(todo) /\ EndsInMove(todo) /\ OfItsCall(h, todo)
  BY <1>1 DEF IInv, ScriptsInv, TransactionFits
<1>3. todo[1] = step /\ step \in Work \cup Status BY <1>1, LengthOfSteps
<1>4. QED BY <1>1, <1>2, <1>3 DEF IInv, VersionsInv, PaymentInv, FeeInv

(* Until its first move, a transaction that has not moved before works on a
   copy that is not ahead of the order. *)
LEMMA BeforeTheMove ==
  ASSUME IInv, NEW h \in Handlers, NEW step \in Work, Doing(h, step),
         "moved" \notin marks, "moved" \notin carried[h]
  PROVE  NotMovedYet(h)
<1>1. NotMovedYet(h) \/ MovedOn(h) BY BeforeStep DEF VersionFits
<1>2. step \notin Status BY WorkIsNoStatus DEF Work, Collects
<1>3. ~MovedOn(h) BY <1>2, BeforeStep, LengthOfSteps DEF MovedOn
<1>4. QED BY <1>1, <1>3

(* A write of an open transaction that leaves the call and its script. *)
LEMMA WriteKeeps ==
  ASSUME IInv, TypeOK', NEW h \in Handlers, NEW step, Doing(h, step),
         UNCHANGED <<books, marks, call, script, carried>>,
         \A k \in Handlers \ {h} :
           copy'[k] = copy[k] /\ dirty'[k] = dirty[k] /\ due'[k] = due[k],
         "moved" \notin marks => VersionFits(h)',
         marks \cap {"payment", "moved"} = {} => PaymentFits(h)',
         marks \cap {"fee", "moved"} = {} => FeeFits(h)'
  PROVE  IInv'
<1>1. ScriptFits(h)' BY DEF IInv, ScriptsInv, ScriptFits, OfItsCall, Abandons
<1>2. Ordered(todo') /\ EndsInMove(todo') BY BeforeStep, RestIsOrdered, RestEndsInMove
<1>3. OfItsCall(h, todo')
 <2>1. OfItsCall(h, todo) /\ todo \in Seq(Work \cup Status) /\ todo # <<>> /\ todo' = Tail(todo)
   BY BeforeStep
 <2>2. \A i \in 1..Len(Tail(todo)) : i + 1 \in 1..Len(todo) /\ Tail(todo)[i] = todo[i + 1]
   BY <2>1, LengthOfSteps
 <2>3. QED BY <2>1, <2>2 DEF OfItsCall
<1>4. TransactionFits' BY <1>2, <1>3, BeforeStep DEF TransactionFits, OfItsCall, Abandons, Active
<1>5. QED BY <1>1, <1>4, BeforeStep, StepOfOne

(* A write before the first move leaves the version alone. *)
LEMMA VersionStays ==
  ASSUME IInv, NEW h \in Handlers, NEW step \in Work, Doing(h, step),
         UNCHANGED <<books, marks, script, carried>>,
         txDoc'.version = txDoc.version, copy'[h].version = copy[h].version,
         "version" \in dirty'[h] => "version" \in dirty[h],
         "moved" \notin marks
  PROVE  /\ VersionFits(h)'
         /\ Active(h)' /\ "moved" \notin carried'[h] => (Fresh(h)' <=> Fresh(h))
<1>1. SUFFICES ASSUME "moved" \notin carried[h]
               PROVE  NotMovedYet(h)' /\ (Fresh(h)' <=> Fresh(h))
  BY DEF VersionFits
<1>2. NotMovedYet(h) BY <1>1, BeforeTheMove
<1>3. todo' # <<>> BY BeforeStep, RestEndsInMove, WorkIsNoStatus DEF Work, Collects
<1>4. QED BY <1>2, <1>3, BeforeStep DEF NotMovedYet, Fresh, books

-----------------------------------------------------------------------------
(* A call begins, and a transaction. *)

LEMMA LoadKeeps ==
  ASSUME IInv, NEW h \in Handlers, NEW name, NEW first, NEW pricing \in Pricing,
         NEW paths \in SUBSET Path, NEW amount \in Nat, NEW steps,
         Load(h, name, first, pricing, paths, amount, steps),
         listed' \in [Sweeps -> BOOLEAN],
         pricing.consumed = doc.pricing.consumed, "version" \notin paths,
         ScriptOK(steps, name = "abandonUnsettledOrder"),
         name = "abandonUnsettledOrder" => amount = doc.pricing.consumed
  PROVE  IInv'
<1> DEFINE loaded == [doc EXCEPT !.pricing = pricing]
<1>0. /\ TypeOK /\ holder = Nobody /\ holder' = Nobody /\ h # Nobody /\ doc \in Document
      /\ UNCHANGED <<doc, recorded, debit, todo, txDoc, txRecorded, txDebit, carried, mishaps, marks>>
  BY NobodyIsNoHandler DEF IInv, TypeOK, Load, books, attempt
<1>1. /\ loaded \in Document /\ loaded.version = doc.version
      /\ loaded.payment = doc.payment /\ loaded.pricing = pricing
  BY <1>0 DEF Document
<1> HIDE DEF loaded
<1>2. /\ call' = [call EXCEPT ![h] = name] /\ copy' = [copy EXCEPT ![h] = loaded]
      /\ dirty' = [dirty EXCEPT ![h] = paths] /\ due' = [due EXCEPT ![h] = amount]
      /\ script' = [script EXCEPT ![h] = steps]
  BY DEF Load, loaded
<1>3. steps \in Seq(Work \cup Status) BY DEF ScriptOK
<1>4. TypeOK' BY <1>0, <1>1, <1>2, <1>3 DEF TypeOK
<1>5. /\ call'[h] = name /\ copy'[h] = loaded /\ dirty'[h] = paths /\ due'[h] = amount
      /\ script'[h] = steps /\ carried'[h] = carried[h]
  BY <1>0, <1>2 DEF TypeOK
<1>6. \A k \in Handlers \ {h} :
        /\ call'[k] = call[k] /\ copy'[k] = copy[k] /\ dirty'[k] = dirty[k]
        /\ due'[k] = due[k] /\ script'[k] = script[k] /\ carried'[k] = carried[k]
  BY <1>0, <1>2 DEF TypeOK
<1>7. ScriptFits(h)' BY <1>5 DEF ScriptFits, ScriptOK, OfItsCall, Abandons
<1>8. TransactionFits' BY <1>0 DEF TransactionFits, IInv, ScriptsInv
<1>9. VersionFits(h)'
 <2>1. NotMovedYet(h)' BY <1>0, <1>1, <1>5, DocumentFields DEF NotMovedYet
 <2>2. QED BY <2>1 DEF VersionFits
<1>10. PaymentFits(h)' BY <1>0, <1>1, <1>5 DEF PaymentFits
<1>11. FeeFits(h)'
 <2>1. AsStored(h)' BY <1>0, <1>1, <1>5 DEF AsStored
 <2>2. FeeInCopy(h)' BY <1>0, <1>5, <2>1 DEF FeeInCopy, Abandons
 <2>3. QED BY <1>0, <2>2 DEF FeeFits
<1>12. QED BY <1>0, <1>4, <1>6, <1>7, <1>8, <1>9, <1>10, <1>11, StepOfOne DEF books

LEMMA AbandonmentKeeps ==
  ASSUME IInv, NEW h \in Handlers, AbandonUnsettledOrder(h), listed' \in [Sweeps -> BOOLEAN]
  PROVE  IInv'
<1> DEFINE steps == IF doc.pricing.consumed > 0
       THEN <<"reverse", "save", "abandoned_unsettled">>
       ELSE <<"save", "abandoned_unsettled">>
<1>1. Load(h, "abandonUnsettledOrder", "abandoned_unsettled", doc.pricing, {},
           doc.pricing.consumed, steps)
  BY DEF AbandonUnsettledOrder
<1>2. ScriptOK(steps, "abandonUnsettledOrder" = "abandonUnsettledOrder") BY ScriptsOfCalls
<1>3. doc.pricing \in Pricing /\ doc.pricing.consumed \in Nat /\ {} \in SUBSET Path
  BY DocumentFields, PricingFields DEF IInv, TypeOK
<1> HIDE DEF steps
<1>4. QED BY <1>1, <1>2, <1>3, LoadKeeps

(* Each call loads the order as it is, or with the price it has computed. *)
LEMMA RequestKeeps ==
  ASSUME IInv, NEW h \in Handlers, Request(h)
  PROVE  IInv'
<1>0. /\ doc.pricing \in Pricing /\ Outstanding(doc) \in Nat /\ doc.pricing.consumed \in Nat
      /\ listed \in [Sweeps -> BOOLEAN]
      /\ Services \subseteq Nat /\ Surcharges \subseteq Nat
      /\ {} \in SUBSET Path /\ {"pricing"} \in SUBSET Path /\ 0 \in Nat
      /\ "version" \notin {} /\ "version" \notin {"pricing"}
  BY DocumentFields, PricingFields, OutstandingIsNatural, AmountsAreNaturals DEF IInv, TypeOK, Path
<1>1. CASE RecordPickupWeight(h)
 <2>1. PICK service \in Services :
         Load(h, "recordPickupWeight", "pickup_weighed", Priced(doc.pricing, service),
              {"pricing"}, 0, <<"save", "fee", "save", "pickup_weighed">>)
   BY <1>1 DEF RecordPickupWeight
 <2>2. service \in Nat /\ listed' = listed BY <1>0, <1>1 DEF RecordPickupWeight
 <2>3. Priced(doc.pricing, service) \in Pricing
       /\ Priced(doc.pricing, service).consumed = doc.pricing.consumed
   BY <1>0, <2>2, PricedIsPricing
 <2>4. ScriptOK(<<"save", "fee", "save", "pickup_weighed">>,
                "recordPickupWeight" = "abandonUnsettledOrder")
   BY ScriptsOfCalls
 <2>5. QED BY <1>0, <2>1, <2>2, <2>3, <2>4, LoadKeeps
<1>2. CASE RecordPickupPayment(h)
 <2>1. PICK now \in BOOLEAN :
         Load(h, "recordPickupPayment", "picked_up_from_customer", doc.pricing, {}, 0,
              IF now
              THEN <<"save", "collectOutstanding", "save", "row",
                     "picked_up_from_customer", "laundry_in_progress">>
              ELSE <<"save", "picked_up_from_customer", "laundry_in_progress">>)
   BY <1>2 DEF RecordPickupPayment
 <2>2. listed' = listed BY <1>2 DEF RecordPickupPayment
 <2> DEFINE steps == IF now
              THEN <<"save", "collectOutstanding", "save", "row",
                     "picked_up_from_customer", "laundry_in_progress">>
              ELSE <<"save", "picked_up_from_customer", "laundry_in_progress">>
 <2>3. ScriptOK(steps, "recordPickupPayment" = "abandonUnsettledOrder") BY ScriptsOfCalls
 <2>4. Load(h, "recordPickupPayment", "picked_up_from_customer", doc.pricing, {}, 0, steps) BY <2>1
 <2> HIDE DEF steps
 <2>5. QED BY <1>0, <2>2, <2>3, <2>4, LoadKeeps
<1>3. CASE ReceiveAtCounter(h)
 <2>1. PICK service \in Services, now \in BOOLEAN :
         Load(h, "receiveAtCounter", "received_by_provider",
              Priced(doc.pricing, service), {"pricing"}, 0,
              IF now
              THEN <<"save", "collectOutstanding", "save", "row", "fee", "save",
                     "received_by_provider", "laundry_in_progress">>
              ELSE <<"save", "fee", "save",
                     "received_by_provider", "laundry_in_progress">>)
   BY <1>3 DEF ReceiveAtCounter
 <2>2. service \in Nat /\ listed' = listed BY <1>0, <1>3 DEF ReceiveAtCounter
 <2> DEFINE steps == IF now
              THEN <<"save", "collectOutstanding", "save", "row", "fee", "save",
                     "received_by_provider", "laundry_in_progress">>
              ELSE <<"save", "fee", "save",
                     "received_by_provider", "laundry_in_progress">>
 <2>3. Priced(doc.pricing, service) \in Pricing
       /\ Priced(doc.pricing, service).consumed = doc.pricing.consumed
   BY <1>0, <2>2, PricedIsPricing
 <2>4. ScriptOK(steps, "receiveAtCounter" = "abandonUnsettledOrder") BY ScriptsOfCalls
 <2>5. Load(h, "receiveAtCounter", "received_by_provider",
            Priced(doc.pricing, service), {"pricing"}, 0, steps)
   BY <2>1
 <2> HIDE DEF steps
 <2>6. QED BY <1>0, <2>2, <2>3, <2>4, <2>5, LoadKeeps
<1>4. CASE ApproveSurcharge(h)
 <2>1. PICK amount \in Surcharges :
         Load(h, "respondToQualityHold", "laundry_in_progress",
              Surcharged(doc.pricing, amount), {"pricing"}, 0, <<"save", "laundry_in_progress">>)
   BY <1>4 DEF ApproveSurcharge
 <2>2. amount \in Nat /\ listed' = listed BY <1>0, <1>4 DEF ApproveSurcharge
 <2>3. Surcharged(doc.pricing, amount) \in Pricing
       /\ Surcharged(doc.pricing, amount).consumed = doc.pricing.consumed
   BY <1>0, <2>2, SurchargedIsPricing
 <2>4. ScriptOK(<<"save", "laundry_in_progress">>,
                "respondToQualityHold" = "abandonUnsettledOrder")
   BY ScriptsOfCalls
 <2>5. QED BY <1>0, <2>1, <2>2, <2>3, <2>4, LoadKeeps
<1>5. ASSUME NEW name, name # "abandonUnsettledOrder",
             NEW to \in {"delivered_to_customer", "customer_pickup_verified"},
             HandOver(h, name, to)
      PROVE  IInv'
 <2> DEFINE steps == IF Outstanding(doc) > 0
         THEN <<"save", "collectDue", "save", "row", "fee", "save", to, "completed">>
         ELSE <<"save", to, "completed">>
 <2>1. Load(h, name, to, doc.pricing, {}, Outstanding(doc), steps) /\ listed' = listed
   BY <1>5 DEF HandOver
 <2>2. ScriptOK(steps, name = "abandonUnsettledOrder") BY <1>5, ScriptsOfCalls
 <2> HIDE DEF steps
 <2>3. QED BY <1>0, <1>5, <2>1, <2>2, LoadKeeps
<1>6. CASE RecordDelivery(h) BY <1>5, <1>6 DEF RecordDelivery
<1>7. CASE VerifySelfPickup(h) BY <1>5, <1>7 DEF VerifySelfPickup
<1>8. CASE AbandonBySupport(h) BY <1>0, <1>8, AbandonmentKeeps DEF AbandonBySupport
<1>9. QED BY <1>1, <1>2, <1>3, <1>4, <1>6, <1>7, <1>8 DEF Request

-----------------------------------------------------------------------------
(* The writes of a transaction. *)

LEMMA BeginKeeps ==
  ASSUME IInv, NEW h \in Handlers, Begin(h)
  PROVE  IInv'
<1>0. /\ TypeOK /\ holder = Nobody /\ holder' = h /\ h # Nobody
      /\ Active(h) /\ todo' = script[h]
      /\ UNCHANGED <<doc, recorded, debit, txDoc, txRecorded, txDebit,
                     call, copy, dirty, due, script, carried, listed, mishaps, marks>>
  BY NobodyIsNoHandler DEF IInv, Begin, Active, books, handlers
<1>1. TypeOK' BY <1>0 DEF TypeOK
<1>2. txDoc = doc /\ txRecorded = recorded /\ txDebit = debit
  BY <1>0 DEF IInv, ScriptsInv, TransactionFits
<1>3. ScriptFits(h) /\ ScriptFits(h)' BY <1>0 DEF IInv, ScriptsInv, ScriptFits, OfItsCall, Abandons
<1>4. TransactionFits' BY <1>0, <1>3 DEF TransactionFits, ScriptFits, Active, OfItsCall, Abandons
<1>5. "moved" \notin marks => VersionFits(h)'
  BY <1>0, <1>2 DEF IInv, VersionsInv, VersionFits, NotMovedYet, MovedOn, Active
<1>6. Fresh(h)' <=> Fresh(h) BY <1>0, <1>2 DEF Fresh
<1>7. marks \cap {"payment", "moved"} = {} => PaymentFits(h)'
 <2> SUFFICES ASSUME marks \cap {"payment", "moved"} = {}, Keen(h, {"payment", "moved"})'
              PROVE  PaymentInTransaction(h)'
   BY <1>0 DEF PaymentFits
 <2>1. copy[h].payment = doc.payment /\ doc.payment = recorded /\ recorded \in Nat
   BY <1>0, <1>6 DEF IInv, PaymentInv, PaymentFits, Keen, Active, TypeOK
 <2>2. ~RowDue(todo') BY <1>0, <1>3 DEF ScriptFits
 <2>3. QED BY <1>0, <1>2, <2>1, <2>2 DEF PaymentInTransaction
<1>8. marks \cap {"fee", "moved"} = {} => FeeFits(h)'
 <2> SUFFICES ASSUME marks \cap {"fee", "moved"} = {}, Keen(h, {"fee", "moved"})'
              PROVE  FeeInCopy(h)' /\ (FeeWritten(h) \/ FeeRepeated(h) \/ FeeToReverse(h))'
   BY <1>0 DEF FeeFits
 <2>1. FeeInCopy(h) /\ doc.pricing.consumed = debit
   BY <1>0, <1>6 DEF IInv, FeeInv, FeeFits, Keen, Active
 <2>2. FeeInCopy(h)' BY <1>0, <2>1 DEF FeeInCopy, Abandons, AsStored, Charged
 <2>3. ASSUME AsStored(h), ~Facing(script[h], "reverse")
       PROVE  FeeWritten(h)'
   BY <1>0, <1>2, <2>1, <2>3 DEF FeeWritten, AsStored
 <2>4. CASE Abandons(h)
  <3>1. due[h] = debit /\ (AsStored(h) \/ Facing(script[h], "reverse")) BY <2>1, <2>4 DEF FeeInCopy
  <3>2. CASE Facing(script[h], "reverse")
   <4>1. Abandons(h)' /\ Facing(todo', "reverse") /\ Facing(script'[h], "reverse")
     BY <1>0, <2>4, <3>2 DEF Abandons
   <4>2. txDebit' = due'[h] /\ txDoc'.pricing.consumed = due'[h] BY <1>0, <1>2, <2>1, <3>1
   <4>3. QED BY <2>2, <4>1, <4>2 DEF FeeToReverse
  <3>3. QED BY <2>2, <2>3, <3>1, <3>2
 <2>5. CASE ~Abandons(h)
  <3>1. ~Facing(script[h], "reverse")
   <4>1. \A i \in 1..Len(script[h]) : script[h][i] # "reverse"
     BY <1>3, <2>5 DEF ScriptFits, OfItsCall
   <4>2. script[h] \in Seq(Work \cup Status) BY <1>0 DEF TypeOK
   <4>3. script[h] # <<>> => 1 \in 1..Len(script[h]) BY <4>2
   <4>4. script[h] # <<>> => script[h][1] # "reverse" BY <4>1, <4>3
   <4>5. QED BY <4>4 DEF Facing
  <3>2. CASE AsStored(h) BY <2>2, <2>3, <3>1, <3>2
  <3>3. CASE ~AsStored(h)
    BY <1>0, <1>2, <2>1, <2>2, <2>5, <3>3 DEF FeeInCopy, FeeRepeated, Charged, Abandons
  <3>4. QED BY <3>2, <3>3
 <2>6. QED BY <2>2, <2>4, <2>5
<1>9. QED BY <1>0, <1>1, <1>3, <1>4, <1>5, <1>7, <1>8, StepOfOne DEF books

(* What of money a step that keeps the copy's price and amounts, and the
   transaction's, has to say: only the step that is next matters. *)
LEMMA FeeStays ==
  ASSUME IInv, NEW h \in Handlers, NEW step \in Work \cup Status, Doing(h, step), step # "reverse",
         marks \cap {"fee", "moved"} = {}, Keen(h, {"fee", "moved"}),
         UNCHANGED <<doc, call, script, txDebit>>,
         Abandons(h) => due'[h] = due[h],
         copy'[h].pricing = copy[h].pricing,
         \/ step # "save" /\ txDoc'.pricing = txDoc.pricing
         \/ txDoc'.pricing = IF "pricing" \in dirty[h] THEN copy[h].pricing ELSE txDoc.pricing,
         "pricing" \in dirty'[h] => "pricing" \in dirty[h]
  PROVE  FeeFits(h)'
<1>0. /\ holder = h /\ holder' = h /\ todo[1] = step
      /\ todo # <<>> /\ Ordered(todo) /\ todo \in Seq(Work \cup Status) /\ todo' = Tail(todo)
      /\ FeeFits(h)
  BY BeforeStep
<1>1. FeeInCopy(h) /\ (FeeWritten(h) \/ FeeRepeated(h) \/ FeeToReverse(h)) BY <1>0 DEF FeeFits
<1>2. FeeInCopy(h)' BY <1>0, <1>1 DEF FeeInCopy, Abandons, AsStored, Charged
<1>3. ~Facing(todo', "reverse") /\ ~Facing(todo, "reverse") BY <1>0, RestIsOrdered DEF Facing
<1>4. CASE FeeWritten(h)
 <2>1. txDoc'.pricing.consumed = txDebit' BY <1>0, <1>4 DEF FeeWritten, Facing
 <2>2. QED BY <1>0, <1>2, <1>3, <1>4, <2>1 DEF FeeWritten, FeeFits
<1>5. CASE FeeRepeated(h) BY <1>0, <1>2, <1>5 DEF FeeRepeated, Abandons, Charged, FeeFits
<1>6. ~FeeToReverse(h) BY <1>3 DEF FeeToReverse
<1>7. QED BY <1>1, <1>4, <1>5, <1>6

LEMMA SaveKeeps ==
  ASSUME IInv, NEW h \in Handlers, Save(h)
  PROVE  IInv'
<1>0. /\ TypeOK /\ Doing(h, "save") /\ "save" \in Work
      /\ txDoc' = [path \in Path |-> IF path \in dirty[h] THEN copy[h][path] ELSE txDoc[path]]
      /\ dirty' = [dirty EXCEPT ![h] = {}]
      /\ UNCHANGED <<doc, recorded, debit, txRecorded, txDebit, call, copy, due, script,
                     carried, listed, mishaps, marks>>
  BY DEF IInv, Save, Work, books
<1>1. /\ holder = h /\ holder' = h /\ todo \in Seq(Work \cup Status) /\ todo # <<>>
      /\ todo[1] = "save" /\ todo' = Tail(todo) /\ Ordered(todo)
  BY <1>0, BeforeStep
<1>2. /\ txDoc' \in Document
      /\ txDoc'.version = IF "version" \in dirty[h] THEN copy[h].version ELSE txDoc.version
      /\ txDoc'.payment = IF "payment" \in dirty[h] THEN copy[h].payment ELSE txDoc.payment
      /\ txDoc'.pricing = IF "pricing" \in dirty[h] THEN copy[h].pricing ELSE txDoc.pricing
 <2>1. txDoc \in Document /\ copy[h] \in Document BY <1>0 DEF TypeOK
 <2>2. QED BY <1>0, <2>1, SavedDocument
<1>3. dirty'[h] = {} BY <1>0 DEF TypeOK
<1>4. TypeOK' BY <1>0, <1>1, <1>2, LengthOfSteps DEF TypeOK
<1>5. ASSUME "moved" \notin marks, "moved" \notin carried[h]
      PROVE  NotMovedYet(h) /\ txDoc'.version = txDoc.version
  BY <1>0, <1>2, <1>5, BeforeTheMove DEF NotMovedYet
<1>6. "moved" \notin marks => VersionFits(h)'
 <2>1. CASE "moved" \in carried[h] BY <1>0, <2>1 DEF VersionFits
 <2>2. CASE "moved" \notin carried[h] BY <1>0, <1>3, <1>5, <2>2, VersionStays DEF books
 <2>3. QED BY <2>1, <2>2
<1>7. ASSUME "moved" \notin marks, NEW which, "moved" \in which, Keen(h, which)'
      PROVE  Keen(h, which)
  BY <1>0, <1>1, <1>5, <1>7 DEF Keen, Fresh, Active
<1>8. marks \cap {"payment", "moved"} = {} => PaymentFits(h)'
 <2> SUFFICES ASSUME marks \cap {"payment", "moved"} = {}, Keen(h, {"payment", "moved"})'
              PROVE  PaymentInTransaction(h)'
   BY <1>1 DEF PaymentFits
 <2>1. PaymentInTransaction(h) BY <1>0, <1>1, <1>7, BeforeStep DEF PaymentFits
 <2>2. RowDue(todo') <=> RowDue(todo) BY <1>1, RowOfRest
 <2>3. QED BY <1>0, <1>2, <2>1, <2>2 DEF PaymentInTransaction
<1>9. marks \cap {"fee", "moved"} = {} => FeeFits(h)'
 <2> SUFFICES ASSUME marks \cap {"fee", "moved"} = {}, Keen(h, {"fee", "moved"})'
              PROVE  FeeFits(h)'
   BY DEF FeeFits
 <2>1. Keen(h, {"fee", "moved"}) BY <1>7
 <2>2. QED BY <1>0, <1>2, <1>3, <2>1, FeeStays
<1>10. \A k \in Handlers \ {h} : dirty'[k] = dirty[k] BY <1>0 DEF TypeOK
<1>11. QED BY <1>0, <1>4, <1>6, <1>8, <1>9, <1>10, WriteKeeps DEF books

(* A collection counts the amount in the copy and leaves its row to write. *)
LEMMA CollectionKeeps ==
  ASSUME IInv, NEW h \in Handlers, NEW step \in Collects, Doing(h, step),
         NEW amount \in Nat, CollectOn(h, amount)
  PROVE  IInv'
<1>0. /\ TypeOK /\ step \in Work /\ step \notin {"save", "reverse"}
      /\ UNCHANGED <<doc, recorded, debit, txDoc, txRecorded, txDebit, call, script, carried,
                     listed, mishaps, marks>>
  BY DEF IInv, CollectOn, Work, Collects, books
<1>1. /\ holder = h /\ holder' = h /\ todo \in Seq(Work \cup Status) /\ todo # <<>>
      /\ todo[1] = step /\ todo' = Tail(todo) /\ Ordered(todo) /\ OfItsCall(h, todo)
  BY BeforeStep
<1>2. copy[h] \in Document /\ copy[h].payment \in Nat /\ dirty[h] \in SUBSET Path
  BY <1>0, DocumentFields DEF TypeOK
<1>3. PICK paid \in Nat : paid = copy[h].payment + amount BY <1>2
<1>4. [copy[h] EXCEPT !.payment = paid] \in Document BY <1>2 DEF Document
<1>5. copy' = [copy EXCEPT ![h] = [copy[h] EXCEPT !.payment = paid]]
  BY <1>0, <1>3 DEF CollectOn, TypeOK
<1>6. TypeOK'
 <2>1. dirty' \in [Handlers -> SUBSET Path] /\ due' \in [Handlers -> Nat]
   BY <1>0, <1>2 DEF CollectOn, TypeOK, Path
 <2>2. QED BY <1>0, <1>1, <1>4, <1>5, <2>1, LengthOfSteps DEF TypeOK
<1>7. /\ copy'[h].payment = copy[h].payment + amount /\ copy'[h].pricing = copy[h].pricing
      /\ copy'[h].version = copy[h].version /\ due'[h] = amount
      /\ dirty'[h] = dirty[h] \cup {"payment"}
  BY <1>0, <1>2, <1>3, <1>5 DEF TypeOK, CollectOn, Document
<1>8. "moved" \notin marks =>
        VersionFits(h)' /\ (Active(h)' /\ "moved" \notin carried'[h] => (Fresh(h)' <=> Fresh(h)))
  BY <1>0, <1>7, VersionStays DEF books
<1>9. ASSUME "moved" \notin marks, NEW which, "moved" \in which, Keen(h, which)'
      PROVE  Keen(h, which)
  BY <1>0, <1>8, <1>9 DEF Keen, Active
<1>10. marks \cap {"payment", "moved"} = {} => PaymentFits(h)'
 <2> SUFFICES ASSUME marks \cap {"payment", "moved"} = {}, Keen(h, {"payment", "moved"})'
              PROVE  PaymentInTransaction(h)'
   BY <1>1 DEF PaymentFits
 <2>1. PaymentInTransaction(h) BY <1>1, <1>9, BeforeStep DEF PaymentFits
 <2>2. ~RowDue(todo) /\ RowDue(todo') /\ Facing(todo', "save") BY <1>1, RowOfRest
 <2>3. copy[h].payment = txRecorded BY <1>0, <2>1, <2>2 DEF PaymentInTransaction, TypeOK
 <2>4. QED BY <1>0, <1>7, <2>2, <2>3 DEF PaymentInTransaction
<1>11. marks \cap {"fee", "moved"} = {} => FeeFits(h)'
 <2> SUFFICES ASSUME marks \cap {"fee", "moved"} = {}, Keen(h, {"fee", "moved"})'
              PROVE  FeeFits(h)'
   BY DEF FeeFits
 <2>1. Keen(h, {"fee", "moved"}) BY <1>9
 <2>2. ~Abandons(h) BY <1>1, LengthOfSteps DEF OfItsCall
 <2>3. QED BY <1>0, <1>7, <2>1, <2>2, FeeStays
<1>12. \A k \in Handlers \ {h} :
         copy'[k] = copy[k] /\ dirty'[k] = dirty[k] /\ due'[k] = due[k]
  BY <1>0 DEF CollectOn, TypeOK
<1>13. QED BY <1>0, <1>6, <1>8, <1>10, <1>11, <1>12, WriteKeeps DEF books

LEMMA RowKeeps ==
  ASSUME IInv, NEW h \in Handlers, Row(h)
  PROVE  IInv'
<1>0. /\ TypeOK /\ Doing(h, "row") /\ "row" \in Work /\ "row" \notin {"save", "reverse"}
      /\ txRecorded' = txRecorded + due[h]
      /\ UNCHANGED <<doc, recorded, debit, txDoc, txDebit, call, copy, dirty, due, script,
                     carried, listed, mishaps, marks>>
  BY DEF IInv, Row, Work, books, handlers
<1>1. /\ holder = h /\ holder' = h /\ todo \in Seq(Work \cup Status) /\ todo # <<>>
      /\ todo[1] = "row" /\ todo' = Tail(todo) /\ Ordered(todo)
  BY <1>0, BeforeStep
<1>2. TypeOK'
 <2>1. txRecorded' \in Nat BY <1>0 DEF TypeOK
 <2>2. QED BY <1>0, <1>1, <2>1, LengthOfSteps DEF TypeOK
<1>3. "moved" \notin marks =>
        VersionFits(h)' /\ (Active(h)' /\ "moved" \notin carried'[h] => (Fresh(h)' <=> Fresh(h)))
  BY <1>0, VersionStays DEF books
<1>4. ASSUME "moved" \notin marks, NEW which, "moved" \in which, Keen(h, which)'
      PROVE  Keen(h, which)
  BY <1>0, <1>3, <1>4 DEF Keen, Active
<1>5. marks \cap {"payment", "moved"} = {} => PaymentFits(h)'
 <2> SUFFICES ASSUME marks \cap {"payment", "moved"} = {}, Keen(h, {"payment", "moved"})'
              PROVE  PaymentInTransaction(h)'
   BY <1>1 DEF PaymentFits
 <2>1. PaymentInTransaction(h) BY <1>1, <1>4, BeforeStep, <1>0 DEF PaymentFits
 <2>2. RowDue(todo) /\ ~RowDue(todo') /\ ~Facing(todo, "save") BY <1>1, RowOfRest DEF Facing
 <2>3. QED BY <1>0, <2>1, <2>2 DEF PaymentInTransaction, TypeOK
<1>6. marks \cap {"fee", "moved"} = {} => FeeFits(h)'
 <2> SUFFICES ASSUME marks \cap {"fee", "moved"} = {}, Keen(h, {"fee", "moved"})'
              PROVE  FeeFits(h)'
   BY DEF FeeFits
 <2>1. Keen(h, {"fee", "moved"}) BY <1>4
 <2>2. QED BY <1>0, <2>1, FeeStays
<1>7. QED BY <1>0, <1>2, <1>3, <1>5, <1>6, WriteKeeps DEF books

(* consumeOutstandingFee and the reversal: a wallet write, and the copy. *)
LEMMA ChargeKeeps ==
  ASSUME IInv, NEW h \in Handlers, NEW step \in {"fee", "reverse"}, Doing(h, step),
         NEW amount \in Int, NEW consumed \in Nat, Charge(h, amount, consumed),
         step = "fee" =>
           /\ consumed = Chargeable(copy[h].pricing)
           /\ amount = consumed - copy[h].pricing.consumed,
         step = "reverse" => consumed = 0 /\ amount = 0 - due[h]
  PROVE  IInv'
<1>0. /\ TypeOK /\ step \in Work /\ step # "save"
      /\ txDebit' = txDebit + amount
      /\ UNCHANGED <<doc, recorded, debit, txDoc, txRecorded, call, due, script, carried,
                     listed, mishaps, marks>>
  BY DEF IInv, Charge, Work, books
<1>1. /\ holder = h /\ holder' = h /\ todo \in Seq(Work \cup Status) /\ todo # <<>>
      /\ todo[1] = step /\ todo' = Tail(todo) /\ Ordered(todo) /\ OfItsCall(h, todo)
  BY BeforeStep
<1>2. copy[h] \in Document /\ dirty[h] \in SUBSET Path /\ copy[h].pricing \in Pricing
      /\ copy[h].pricing.consumed \in Nat /\ due[h] \in Nat /\ txDebit \in Int
  BY <1>0, DocumentFields, PricingFields DEF TypeOK
<1> DEFINE charged == [copy[h].pricing EXCEPT !.consumed = consumed]
<1>3. charged \in Pricing /\ charged.consumed = consumed
      /\ charged.fee = copy[h].pricing.fee /\ charged.waiver = copy[h].pricing.waiver
  BY <1>2 DEF Pricing
<1>4. copy' = [copy EXCEPT ![h] = [copy[h] EXCEPT !.pricing = charged]] BY <1>0 DEF Charge, TypeOK
<1> HIDE DEF charged
<1>5. [copy[h] EXCEPT !.pricing = charged] \in Document BY <1>2, <1>3 DEF Document
<1>6. TypeOK'
 <2>1. dirty' \in [Handlers -> SUBSET Path] /\ txDebit' \in Int
   BY <1>0, <1>2 DEF Charge, TypeOK, Path
 <2>2. QED BY <1>0, <1>1, <1>4, <1>5, <2>1, LengthOfSteps DEF TypeOK
<1>7. /\ copy'[h].pricing = charged /\ copy'[h].payment = copy[h].payment
      /\ copy'[h].version = copy[h].version
      /\ dirty'[h] = IF amount = 0 THEN dirty[h] ELSE dirty[h] \cup {"pricing"}
  BY <1>0, <1>2, <1>4 DEF TypeOK, Charge, Document
<1>8. "moved" \notin marks =>
        VersionFits(h)' /\ (Active(h)' /\ "moved" \notin carried'[h] => (Fresh(h)' <=> Fresh(h)))
  BY <1>0, <1>7, VersionStays DEF books
<1>9. ASSUME "moved" \notin marks, NEW which, "moved" \in which, Keen(h, which)'
      PROVE  Keen(h, which)
  BY <1>0, <1>8, <1>9 DEF Keen, Active
<1>10. ~RowDue(todo) /\ ~RowDue(todo') /\ Facing(todo', "save") /\ ~Facing(todo, "save")
       /\ ~Facing(todo', "reverse")
  BY <1>1, <1>0, RowOfRest, RestIsOrdered DEF Facing
<1>11. marks \cap {"payment", "moved"} = {} => PaymentFits(h)'
 <2> SUFFICES ASSUME marks \cap {"payment", "moved"} = {}, Keen(h, {"payment", "moved"})'
              PROVE  PaymentInTransaction(h)'
   BY <1>1 DEF PaymentFits
 <2>1. PaymentInTransaction(h) BY <1>1, <1>9, BeforeStep DEF PaymentFits
 <2>2. QED BY <1>0, <1>7, <1>10, <2>1 DEF PaymentInTransaction
<1>12. marks \cap {"fee", "moved"} = {} => FeeFits(h)'
 <2> SUFFICES ASSUME marks \cap {"fee", "moved"} = {}, Keen(h, {"fee", "moved"})'
              PROVE  FeeInCopy(h)' /\ (FeeWritten(h)' \/ FeeRepeated(h)')
   BY DEF FeeFits
 <2>1. FeeInCopy(h) /\ (FeeWritten(h) \/ FeeRepeated(h) \/ FeeToReverse(h))
   BY <1>1, <1>9, BeforeStep DEF FeeFits
 <2>2. Chargeable(charged) = Chargeable(copy[h].pricing) BY <1>3 DEF Chargeable
 <2>3. CASE step = "fee"
  <3>1. ~Abandons(h) /\ ~Abandons(h)' /\ ~Facing(todo, "reverse")
    BY <1>0, <1>1, <2>3, LengthOfSteps DEF OfItsCall, Facing, Abandons
  <3>2. Charged(h)' /\ FeeInCopy(h)' BY <1>1, <1>3, <1>7, <2>2, <2>3, <3>1 DEF Charged, FeeInCopy
  <3>3. CASE FeeWritten(h)
   <4>1. txDebit' = consumed BY <1>0, <1>2, <2>3, <3>3 DEF FeeWritten
   <4>2. txDoc.pricing.consumed = txDebit BY <1>10, <3>3 DEF FeeWritten
   <4>3. amount = 0 => txDoc'.pricing.consumed = txDebit'
    <5>1. amount = 0 => txDebit' = txDebit BY <1>0, <1>2
    <5>2. QED BY <1>0, <4>2, <5>1
   <4>4. QED BY <1>3, <1>7, <1>10, <3>2, <4>1, <4>3 DEF FeeWritten
  <3>4. CASE FeeRepeated(h)
   <4>1. amount = 0 /\ consumed = copy[h].pricing.consumed
     BY <1>2, <2>3, <3>4 DEF FeeRepeated, Charged
   <4>2. txDoc'.pricing.consumed = txDebit' /\ "pricing" \notin dirty'[h]
     BY <1>0, <1>2, <1>7, <3>4, <4>1 DEF FeeRepeated
   <4>3. QED BY <3>1, <3>2, <4>2 DEF FeeRepeated
  <3>5. QED BY <2>1, <3>1, <3>3, <3>4 DEF FeeToReverse
 <2>4. CASE step = "reverse"
  <3>1. Abandons(h) /\ Abandons(h)' /\ Facing(todo, "reverse")
    BY <1>0, <1>1, <2>4, LengthOfSteps DEF OfItsCall, Facing, Abandons
  <3>2. FeeToReverse(h) BY <2>1, <3>1 DEF FeeWritten, FeeRepeated
  <3>3. FeeInCopy(h)' BY <1>0, <2>1, <3>1, <3>2 DEF FeeInCopy, FeeToReverse
  <3>4. txDebit' = 0 /\ copy'[h].pricing.consumed = 0
    BY <1>0, <1>2, <1>3, <1>7, <2>4, <3>2 DEF FeeToReverse
  <3>5. amount = 0 => txDoc'.pricing.consumed = 0
   <4>1. amount = 0 => due[h] = 0 BY <1>2, <2>4
   <4>2. txDoc'.pricing.consumed = due[h] BY <1>0, <3>2 DEF FeeToReverse
   <4>3. QED BY <4>1, <4>2
  <3>6. QED BY <1>7, <1>10, <3>3, <3>4, <3>5 DEF FeeWritten
 <2>5. QED BY <2>3, <2>4
<1>13. \A k \in Handlers \ {h} :
         copy'[k] = copy[k] /\ dirty'[k] = dirty[k] /\ due'[k] = due[k]
  BY <1>0 DEF Charge, TypeOK
<1>14. QED BY <1>0, <1>6, <1>8, <1>11, <1>12, <1>13, WriteKeeps DEF books

LEMMA MoveKeeps ==
  ASSUME IInv, NEW h \in Handlers, Move(h)
  PROVE  IInv'
<1>1. PICK to \in Status :
        /\ Doing(h, to) /\ Accepts(h, to)
        /\ copy' = [copy EXCEPT ![h] = Moved(@, to)]
        /\ txDoc' = [txDoc EXCEPT
             !.status = to, !.version = copy[h].version + 1,
             !.deadline = IF to \in Waiting \/ copy[h].deadline # "none"
                          THEN Stamped(copy[h], to) ELSE @]
        /\ dirty' = [dirty EXCEPT ![h] = @ \cup {"status", "version", "deadline"}]
        /\ UNCHANGED <<books, txRecorded, txDebit, call, due, script, carried,
                       listed, mishaps, marks>>
  BY DEF Move
<1>0. /\ TypeOK /\ to \notin {"save", "row", "fee", "reverse"}
      /\ UNCHANGED <<doc, recorded, debit, txRecorded, txDebit, call, due, script, carried,
                     listed, mishaps, marks>>
  BY <1>1, WorkIsNoStatus DEF IInv, books
<1>2. /\ holder = h /\ holder' = h /\ todo \in Seq(Work \cup Status) /\ todo # <<>>
      /\ todo[1] = to /\ todo' = Tail(todo) /\ Ordered(todo)
  BY <1>1, BeforeStep
<1>3. copy[h] \in Document /\ txDoc \in Document /\ copy[h].version \in Nat /\ doc.version \in Nat
      /\ copy[h].version = txDoc.version
  BY <1>0, <1>1, DocumentFields DEF TypeOK, Accepts
<1>4. /\ Moved(copy[h], to) \in Document /\ Stamped(copy[h], to) \in Deadline
      /\ copy'[h] = Moved(copy[h], to) /\ copy'[h].version = copy[h].version + 1
      /\ copy'[h].payment = copy[h].payment /\ copy'[h].pricing = copy[h].pricing
  BY <1>0, <1>1, <1>3, MovedDocument DEF TypeOK
<1>5. /\ txDoc' \in Document /\ txDoc'.version = copy[h].version + 1
      /\ txDoc'.payment = txDoc.payment /\ txDoc'.pricing = txDoc.pricing
 <2>1. PICK version \in Nat : version = copy[h].version + 1 BY <1>3
 <2>2. PICK deadline \in Deadline :
         deadline = IF to \in Waiting \/ copy[h].deadline # "none"
                    THEN Stamped(copy[h], to) ELSE txDoc.deadline
   BY <1>3, <1>4, DocumentFields
 <2>3. txDoc' = [txDoc EXCEPT !.status = to, !.version = version, !.deadline = deadline]
   BY <1>1, <2>1, <2>2
 <2>4. QED BY <1>3, <2>1, <2>3 DEF Document
<1>6. dirty'[h] = dirty[h] \cup {"status", "version", "deadline"} BY <1>0, <1>1 DEF TypeOK
<1>7. TypeOK'
 <2>1. copy' \in [Handlers -> Document] /\ dirty' \in [Handlers -> SUBSET Path]
   BY <1>0, <1>1, <1>4 DEF TypeOK, Path
 <2>2. QED BY <1>0, <1>2, <1>5, <2>1, LengthOfSteps DEF TypeOK
<1>8. Fresh(h) /\ Fresh(h)' BY <1>2, <1>3, <1>4, <1>5 DEF Fresh
<1>9. ASSUME NEW which, Keen(h, which)'
      PROVE  Keen(h, which)
  BY <1>0, <1>8, <1>9 DEF Keen, Active
<1>10. "moved" \notin marks => VersionFits(h)'
 <2> SUFFICES ASSUME "moved" \notin marks, Active(h)', "moved" \notin carried'[h]
              PROVE  MovedOn(h)'
   BY DEF VersionFits
 <2>1. NotMovedYet(h) \/ MovedOn(h) BY <1>0, <1>1, BeforeStep DEF VersionFits
 <2>2. txDoc.version >= doc.version BY <1>2, <1>3, <2>1 DEF NotMovedYet, MovedOn
 <2>3. \A i \in 1..Len(todo) : todo[i] \in Status BY <1>2 DEF Ordered
 <2>4. \A i \in 1..Len(todo') : todo'[i] \in Status BY <1>2, <2>3, LengthOfSteps
 <2>5. QED BY <1>0, <1>2, <1>3, <1>4, <1>5, <1>6, <2>2, <2>4 DEF MovedOn
<1>11. marks \cap {"payment", "moved"} = {} => PaymentFits(h)'
 <2> SUFFICES ASSUME marks \cap {"payment", "moved"} = {}, Keen(h, {"payment", "moved"})'
              PROVE  PaymentInTransaction(h)'
   BY <1>2 DEF PaymentFits
 <2>1. PaymentInTransaction(h) BY <1>1, <1>2, <1>9, BeforeStep DEF PaymentFits
 <2>2. ~RowDue(todo) /\ ~RowDue(todo') /\ ~Facing(todo, "save") BY <1>0, <1>2, RowOfRest DEF Facing
 <2>3. QED BY <1>0, <1>4, <1>5, <2>1, <2>2 DEF PaymentInTransaction
<1>12. marks \cap {"fee", "moved"} = {} => FeeFits(h)'
 <2> SUFFICES ASSUME marks \cap {"fee", "moved"} = {}, Keen(h, {"fee", "moved"})'
              PROVE  FeeFits(h)'
   BY DEF FeeFits
 <2>1. Keen(h, {"fee", "moved"}) BY <1>9
 <2>2. QED BY <1>0, <1>1, <1>4, <1>5, <1>6, <2>1, FeeStays
<1>13. \A k \in Handlers \ {h} :
         copy'[k] = copy[k] /\ dirty'[k] = dirty[k] /\ due'[k] = due[k]
  BY <1>0, <1>1 DEF TypeOK
<1>14. QED BY <1>0, <1>1, <1>7, <1>10, <1>11, <1>12, <1>13, WriteKeeps DEF books

LEMMA WritesKeep ==
  ASSUME IInv, NEW h \in Handlers,
         CollectOutstanding(h) \/ CollectDue(h) \/ Fee(h) \/ Reverse(h)
  PROVE  IInv'
<1>1. copy[h] \in Document /\ copy[h].pricing \in Pricing /\ due[h] \in Nat
      /\ copy[h].pricing.consumed \in Nat
  BY DocumentFields, PricingFields DEF IInv, TypeOK
<1>2. CASE CollectOutstanding(h)
  BY <1>1, <1>2, OutstandingIsNatural, CollectionKeeps DEF CollectOutstanding, Collects
<1>3. CASE CollectDue(h) BY <1>1, <1>3, CollectionKeeps DEF CollectDue, Collects
<1>4. CASE Fee(h)
 <2>1. PICK consumed \in Nat : consumed = Chargeable(copy[h].pricing) BY <1>1, ChargeableIsNatural
 <2>2. PICK amount \in Int : amount = consumed - copy[h].pricing.consumed BY <1>1, <2>1
 <2>3. Doing(h, "fee") /\ Charge(h, amount, consumed) BY <1>4, <2>1, <2>2 DEF Fee
 <2>4. QED BY <2>1, <2>2, <2>3, ChargeKeeps
<1>5. CASE Reverse(h)
 <2>1. PICK amount \in Int : amount = 0 - due[h] BY <1>1
 <2>2. Doing(h, "reverse") /\ Charge(h, amount, 0) BY <1>5, <2>1 DEF Reverse
 <2>3. QED BY <2>1, <2>2, ChargeKeeps
<1>6. QED BY <1>2, <1>3, <1>4, <1>5

-----------------------------------------------------------------------------
(* The end of a call, of an attempt, of a process. *)

(* A call that ends without its writes has nothing left to show. *)
LEMMA FinishKeeps ==
  ASSUME IInv, NEW h \in Handlers, holder \in {h, Nobody}, UNCHANGED <<books, marks>>,
         mishaps' \in Nat, Finish(h)
  PROVE  IInv'
<1>0. /\ TypeOK /\ h # Nobody /\ holder' = Nobody /\ todo' = <<>>
      /\ doc' = doc /\ recorded' = recorded /\ debit' = debit /\ marks' = marks
      /\ txDoc' = doc' /\ txRecorded' = recorded' /\ txDebit' = debit' /\ listed' = listed
  BY NobodyIsNoHandler DEF IInv, Finish, books
<1>1. /\ call' = [call EXCEPT ![h] = "none"] /\ copy' = [copy EXCEPT ![h] = Blank]
      /\ dirty' = [dirty EXCEPT ![h] = {}] /\ due' = [due EXCEPT ![h] = 0]
      /\ script' = [script EXCEPT ![h] = <<>>] /\ carried' = [carried EXCEPT ![h] = {}]
  BY DEF Finish
<1>2. TypeOK'
 <2>1. /\ copy' \in [Handlers -> Document] /\ dirty' \in [Handlers -> SUBSET Path]
       /\ due' \in [Handlers -> Nat] /\ carried' \in [Handlers -> SUBSET Mark]
       /\ DOMAIN call' = Handlers
   BY <1>0, <1>1, BlankIsDocument DEF TypeOK
 <2>2. script' \in [Handlers -> Seq(Work \cup Status)] /\ todo' \in Seq(Work \cup Status)
   BY <1>0, <1>1 DEF TypeOK
 <2>3. QED BY <1>0, <2>1, <2>2 DEF TypeOK
<1>3. script'[h] = <<>> BY <1>0, <1>1 DEF TypeOK
<1>4. ScriptFits(h)' BY <1>3 DEF ScriptFits, Ordered, EndsInMove, RowDue, OfItsCall
<1>5. TransactionFits' BY <1>0 DEF TransactionFits
<1>6. VersionFits(h)' /\ PaymentFits(h)' /\ FeeFits(h)'
  BY <1>3 DEF VersionFits, PaymentFits, FeeFits, Keen, Active
<1>7. \A k \in Handlers \ {h} :
        /\ call'[k] = call[k] /\ copy'[k] = copy[k] /\ dirty'[k] = dirty[k]
        /\ due'[k] = due[k] /\ script'[k] = script[k] /\ carried'[k] = carried[k]
  BY <1>0, <1>1 DEF TypeOK
<1>8. QED BY <1>0, <1>2, <1>4, <1>5, <1>6, <1>7, StepOfOne DEF books

LEMMA ThrowKeeps ==
  ASSUME IInv, NEW h \in Handlers, Throw(h)
  PROVE  IInv'
<1>1. holder = h /\ Finish(h) /\ UNCHANGED <<books, marks>> /\ mishaps' \in Nat
  BY DEF Throw, IInv, TypeOK
<1>2. QED BY <1>1, FinishKeeps

LEMMA CrashKeeps ==
  ASSUME IInv, NEW h \in Handlers, Crash(h)
  PROVE  IInv'
<1>1. holder \in {h, Nobody} /\ Finish(h) /\ UNCHANGED <<books, marks>> /\ mishaps' \in Nat
  BY DEF Crash, IInv, TypeOK
<1>2. QED BY <1>1, FinishKeeps

(* The next attempt begins on the copy as this one leaves it; what it will
   not compute again is carried. *)
LEMMA AbortKeeps ==
  ASSUME IInv, NEW h \in Handlers, Abort(h)
  PROVE  IInv'
<1>0. /\ TypeOK /\ holder = h /\ h # Nobody /\ holder' = Nobody /\ todo' = <<>>
      /\ mishaps' = mishaps + 1
      /\ txDoc' = doc /\ txRecorded' = recorded /\ txDebit' = debit
      /\ UNCHANGED <<doc, recorded, debit, call, copy, dirty, due, script, listed, marks>>
  BY NobodyIsNoHandler DEF IInv, Abort, books
<1> DEFINE left == carried[h]
       \cup {m \in {"payment"} : copy[h].payment # doc.payment}
       \cup {m \in {"moved"} : "version" \in dirty[h]}
       \cup {m \in {"fee"} : /\ call[h] # "abandonUnsettledOrder"
                             /\ "pricing" \in dirty[h]
                             /\ copy[h].pricing.consumed # doc.pricing.consumed}
<1>1. carried' = [carried EXCEPT ![h] = left] BY DEF Abort
<1>2. left \in SUBSET Mark /\ carried[h] \subseteq left BY <1>0 DEF TypeOK, Mark
<1>3. /\ "payment" \notin left => copy[h].payment = doc.payment
      /\ "moved" \notin left => "version" \notin dirty[h]
      /\ "fee" \notin left => Abandons(h) \/ "pricing" \notin dirty[h] \/ AsStored(h)
  BY DEF Abandons, AsStored
<1> HIDE DEF left
<1>4. carried'[h] = left /\ \A k \in Handlers \ {h} : carried'[k] = carried[k]
  BY <1>0, <1>1 DEF TypeOK
<1>5. TypeOK'
 <2>1. carried' \in [Handlers -> SUBSET Mark] /\ mishaps' \in Nat BY <1>0, <1>1, <1>2 DEF TypeOK
 <2>2. todo' \in Seq(Work \cup Status) BY <1>0
 <2>3. QED BY <1>0, <2>1, <2>2 DEF TypeOK
<1>6. ScriptFits(h)' BY <1>0 DEF IInv, ScriptsInv, ScriptFits, OfItsCall, Abandons
<1>7. TransactionFits' BY <1>0 DEF TransactionFits
<1>8. ASSUME "moved" \notin marks, Active(h), "moved" \notin left
      PROVE  NotMovedYet(h) /\ txDoc.version = doc.version
  BY <1>0, <1>2, <1>3, <1>8 DEF IInv, VersionsInv, VersionFits, NotMovedYet, MovedOn
<1>9. "moved" \notin marks => VersionFits(h)'
  BY <1>0, <1>4, <1>8 DEF VersionFits, Active, NotMovedYet
<1>10. marks \cap {"payment", "moved"} = {} => PaymentFits(h)'
  BY <1>0, <1>3, <1>4 DEF PaymentFits, Keen
<1>11. marks \cap {"fee", "moved"} = {} => FeeFits(h)'
 <2> SUFFICES ASSUME marks \cap {"fee", "moved"} = {}, Keen(h, {"fee", "moved"})'
              PROVE  FeeInCopy(h)'
   BY <1>0 DEF FeeFits
 <2>1. Keen(h, {"fee", "moved"}) BY <1>0, <1>2, <1>4, <1>8 DEF Keen, Active, Fresh
 <2>2. FeeInCopy(h) /\ "fee" \notin left BY <1>4, <2>1 DEF IInv, FeeInv, FeeFits, Keen
 <2>3. CASE Abandons(h) BY <1>0, <2>2, <2>3 DEF FeeInCopy, AsStored, Abandons
 <2>4. CASE ~Abandons(h) BY <1>0, <1>3, <2>2, <2>4 DEF FeeInCopy, AsStored, Abandons, Charged
 <2>5. QED BY <2>3, <2>4
<1>12. QED BY <1>0, <1>4, <1>5, <1>6, <1>7, <1>9, <1>10, <1>11, StepOfOne DEF books

-----------------------------------------------------------------------------
(* The order changes. *)

(* When the version of the order grows, the copies that have not moved are
   stale, and have nothing to show. *)
LEMMA OthersGoStale ==
  ASSUME IInv, "moved" \notin marks, NEW k \in Handlers, holder # k, holder' # k,
         doc'.version \in Nat, doc'.version > doc.version,
         call'[k] = call[k], copy'[k] = copy[k], dirty'[k] = dirty[k],
         due'[k] = due[k], script'[k] = script[k], carried'[k] = carried[k]
  PROVE  VersionFits(k)' /\ PaymentFits(k)' /\ FeeFits(k)'
<1>0. copy[k].version \in Nat /\ doc.version \in Nat BY DocumentFields DEF IInv, TypeOK
<1>1. Active(k)' /\ "moved" \notin carried'[k] => NotMovedYet(k)
  BY DEF IInv, VersionsInv, VersionFits, Active, MovedOn
<1>2. Active(k)' /\ "moved" \notin carried'[k] => NotMovedYet(k)' /\ ~Fresh(k)'
  BY <1>0, <1>1 DEF NotMovedYet, Fresh
<1>3. QED BY <1>2 DEF VersionFits, PaymentFits, FeeFits, Keen

LEMMA CommitKeeps ==
  ASSUME IInv, NEW h \in Handlers, Commit(h)
  PROVE  IInv'
<1>0. /\ TypeOK /\ holder = h /\ h # Nobody /\ holder' = Nobody /\ todo = <<>> /\ todo' = <<>>
      /\ doc' = txDoc /\ recorded' = txRecorded /\ debit' = txDebit
      /\ txDoc' = doc' /\ txRecorded' = recorded' /\ txDebit' = debit'
      /\ listed' = listed /\ mishaps' = mishaps
  BY NobodyIsNoHandler DEF IInv, Commit, Finish
<1>1. /\ call' = [call EXCEPT ![h] = "none"] /\ copy' = [copy EXCEPT ![h] = Blank]
      /\ dirty' = [dirty EXCEPT ![h] = {}] /\ due' = [due EXCEPT ![h] = 0]
      /\ script' = [script EXCEPT ![h] = <<>>] /\ carried' = [carried EXCEPT ![h] = {}]
  BY DEF Commit, Finish
<1>2. marks' \subseteq Mark /\ marks \subseteq marks' /\ carried[h] \subseteq marks'
  BY <1>0 DEF Commit, TypeOK, Mark
<1>3. TypeOK'
 <2>1. /\ copy' \in [Handlers -> Document] /\ dirty' \in [Handlers -> SUBSET Path]
       /\ due' \in [Handlers -> Nat] /\ carried' \in [Handlers -> SUBSET Mark]
       /\ DOMAIN call' = Handlers
   BY <1>0, <1>1, BlankIsDocument DEF TypeOK
 <2>2. script' \in [Handlers -> Seq(Work \cup Status)] /\ todo' \in Seq(Work \cup Status)
   BY <1>0, <1>1 DEF TypeOK
 <2>3. QED BY <1>0, <1>2, <2>1, <2>2 DEF TypeOK
<1>4. script'[h] = <<>> BY <1>0, <1>1 DEF TypeOK
<1>5. \A k \in Handlers \ {h} :
        /\ holder # k /\ holder' # k
        /\ call'[k] = call[k] /\ copy'[k] = copy[k] /\ dirty'[k] = dirty[k]
        /\ due'[k] = due[k] /\ script'[k] = script[k] /\ carried'[k] = carried[k]
  BY <1>0, <1>1, NobodyIsNoHandler DEF TypeOK
<1>6. VersionFits(h)' /\ PaymentFits(h)' /\ FeeFits(h)'
  BY <1>4 DEF VersionFits, PaymentFits, FeeFits, Keen, Active
<1>7. ScriptsInv'
 <2>1. ScriptFits(h)' BY <1>4 DEF ScriptFits, Ordered, EndsInMove, RowDue, OfItsCall
 <2>2. ASSUME NEW k \in Handlers, k # h PROVE ScriptFits(k)'
   BY <1>5, <2>2 DEF IInv, ScriptsInv, ScriptFits, OfItsCall, Abandons
 <2>3. TransactionFits' BY <1>0 DEF TransactionFits
 <2>4. QED BY <2>1, <2>2, <2>3 DEF ScriptsInv
<1>8. ASSUME "moved" \notin marks'
      PROVE  /\ "moved" \notin marks /\ MovedOn(h) /\ Fresh(h)
             /\ \A k \in Handlers : VersionFits(k)' /\ PaymentFits(k)' /\ FeeFits(k)'
 <2>1. "moved" \notin marks /\ "moved" \notin carried[h] /\ Active(h)
   BY <1>0, <1>2, <1>8 DEF IInv, ScriptsInv, TransactionFits
 <2>2. MovedOn(h) BY <1>0, <2>1 DEF IInv, VersionsInv, VersionFits, NotMovedYet
 <2>3. doc'.version \in Nat /\ doc'.version > doc.version
   BY <1>0, <2>2, DocumentFields DEF MovedOn, TypeOK
 <2>4. ASSUME NEW k \in Handlers, k # h
       PROVE  VersionFits(k)' /\ PaymentFits(k)' /\ FeeFits(k)'
   BY <1>5, <2>1, <2>3, <2>4, OthersGoStale
 <2>5. QED BY <1>6, <2>1, <2>2, <2>4 DEF MovedOn, Fresh
<1>9. VersionsInv' BY <1>8 DEF VersionsInv
<1>10. PaymentInv'
 <2> SUFFICES ASSUME marks' \cap {"payment", "moved"} = {}
              PROVE  doc'.payment = recorded'
   BY <1>8 DEF PaymentInv
 <2>1. Keen(h, {"payment", "moved"}) /\ marks \cap {"payment", "moved"} = {}
   BY <1>0, <1>2, <1>8 DEF Keen, IInv, ScriptsInv, TransactionFits
 <2>2. PaymentInTransaction(h) BY <1>0, <2>1 DEF IInv, PaymentInv, PaymentFits
 <2>3. ~RowDue(todo) /\ ~Facing(todo, "save") BY <1>0 DEF RowDue, Facing
 <2>4. QED BY <1>0, <2>2, <2>3 DEF PaymentInTransaction, TypeOK
<1>11. FeeInv'
 <2> SUFFICES ASSUME marks' \cap {"fee", "moved"} = {}
              PROVE  doc'.pricing.consumed = debit'
   BY <1>8 DEF FeeInv
 <2>1. Keen(h, {"fee", "moved"}) /\ marks \cap {"fee", "moved"} = {}
   BY <1>0, <1>2, <1>8 DEF Keen, IInv, ScriptsInv, TransactionFits
 <2>2. FeeWritten(h) \/ FeeRepeated(h) \/ FeeToReverse(h) BY <1>0, <2>1 DEF IInv, FeeInv, FeeFits
 <2>3. ~Facing(todo, "save") /\ ~Facing(todo, "reverse") BY <1>0 DEF Facing
 <2>4. QED BY <1>0, <2>2, <2>3 DEF FeeWritten, FeeRepeated, FeeToReverse
<1>12. QED BY <1>3, <1>7, <1>9, <1>10, <1>11 DEF IInv

(* A move of another call, or of support. *)
LEMMA MoveAlongKeeps ==
  ASSUME IInv, NEW edges, NEW mark \in SUBSET Mark, MoveAlong(edges, mark), mishaps' \in Nat
  PROVE  IInv'
<1>1. PICK to \in Status : doc' = Moved(doc, to) BY DEF MoveAlong
<1>0. /\ TypeOK /\ holder = Nobody /\ holder' = Nobody /\ txDoc' = doc'
      /\ marks' = marks \cup mark
      /\ UNCHANGED <<recorded, debit, todo, txRecorded, txDebit, call, copy, dirty, due, script,
                     carried, listed>>
  BY DEF IInv, MoveAlong, handlers
<1>2. /\ doc' \in Document /\ doc'.version = doc.version + 1 /\ doc.version \in Nat
      /\ doc'.payment = doc.payment /\ doc'.pricing = doc.pricing
  BY <1>0, <1>1, MovedDocument, DocumentFields DEF TypeOK
<1>3. TypeOK' BY <1>0, <1>2 DEF TypeOK
<1>4. ScriptsInv' BY <1>0 DEF IInv, ScriptsInv, TransactionFits, ScriptFits, OfItsCall, Abandons
<1>5. ASSUME "moved" \notin marks, NEW k \in Handlers
      PROVE  VersionFits(k)' /\ PaymentFits(k)' /\ FeeFits(k)'
 <2>1. doc'.version \in Nat /\ doc'.version > doc.version BY <1>2
 <2>2. QED BY <1>0, <1>5, <2>1, NobodyIsNoHandler, OthersGoStale
<1>6. VersionsInv' /\ PaymentInv' /\ FeeInv'
  BY <1>0, <1>2, <1>5 DEF IInv, VersionsInv, PaymentInv, FeeInv
<1>7. QED BY <1>3, <1>4, <1>6 DEF IInv

LEMMA DeadlineKeeps ==
  ASSUME IInv, DeadlinePasses
  PROVE  IInv'
<1>0. /\ TypeOK /\ holder = Nobody /\ holder' = Nobody /\ txDoc' = doc'
      /\ doc' = [doc EXCEPT !.deadline = "passed"]
      /\ UNCHANGED <<recorded, debit, todo, txRecorded, txDebit, call, copy, dirty, due, script,
                     carried, listed, mishaps, marks>>
  BY DEF IInv, DeadlinePasses, handlers
<1>1. /\ doc' \in Document /\ doc'.version = doc.version
      /\ doc'.payment = doc.payment /\ doc'.pricing = doc.pricing
  BY <1>0 DEF TypeOK, Document, Deadline
<1>2. TypeOK' BY <1>0, <1>1 DEF TypeOK
<1>3. ScriptsInv' BY <1>0 DEF IInv, ScriptsInv, TransactionFits, ScriptFits, OfItsCall, Abandons
<1>4. VersionsInv'
  BY <1>0, <1>1, NobodyIsNoHandler
     DEF IInv, VersionsInv, VersionFits, Active, NotMovedYet, MovedOn
<1>5. PaymentInv'
  BY <1>0, <1>1, NobodyIsNoHandler DEF IInv, PaymentInv, PaymentFits, Keen, Fresh, Active
<1>6. FeeInv'
  BY <1>0, <1>1, NobodyIsNoHandler
     DEF IInv, FeeInv, FeeFits, Keen, Fresh, Active, FeeInCopy, AsStored, Charged, Abandons
<1>7. QED BY <1>2, <1>3, <1>4, <1>5, <1>6 DEF IInv

-----------------------------------------------------------------------------
(* The whole. *)

LEMMA SettlementInit == Init => IInv
<1> SUFFICES ASSUME Init PROVE IInv OBVIOUS
<1>1. PICK status \in {"accepted_by_provider", "pickup_arrived"}, waived \in BOOLEAN :
        doc = [Blank EXCEPT
                 !.status = status,
                 !.pricing.fee = PlatformFee(Estimate),
                 !.pricing.waived = waived,
                 !.pricing.waiver = IF waived THEN PlatformFee(Estimate) ELSE 0]
  BY DEF Init
<1>2. PICK fee \in Nat : fee = PlatformFee(Estimate) BY AmountsAreNaturals, FeeIsNatural
<1>3. PICK waiver \in Nat : waiver = IF waived THEN fee ELSE 0 OBVIOUS
<1> DEFINE booked == [Blank.pricing EXCEPT !.fee = fee, !.waived = waived, !.waiver = waiver]
<1>4. booked \in Pricing /\ booked.consumed = 0 BY DEF Blank, Pricing
<1>5. doc = [Blank EXCEPT !.status = status, !.pricing = booked] BY <1>1, <1>2, <1>3 DEF Blank
<1> HIDE DEF booked
<1>6. doc \in Document /\ doc.payment = 0 /\ doc.pricing.consumed = 0
  BY <1>4, <1>5, BlankIsDocument, ZenonT(60) DEF Document, Blank, Status
<1>7. TypeOK BY <1>6, BlankIsDocument DEF Init, TypeOK
<1>8. \A h \in Handlers : script[h] = <<>> BY DEF Init
<1>9. ScriptsInv
  BY <1>8
     DEF Init, ScriptsInv, TransactionFits, ScriptFits, Ordered, EndsInMove, RowDue, OfItsCall
<1>10. VersionsInv /\ PaymentInv /\ FeeInv
  BY <1>6, <1>8 DEF Init, VersionsInv, PaymentInv, FeeInv, VersionFits, PaymentFits, FeeFits,
                    Keen, Active
<1>11. QED BY <1>7, <1>9, <1>10 DEF IInv

LEMMA SettlementStep == IInv /\ [Next]_vars => IInv'
<1> SUFFICES ASSUME IInv, [Next]_vars PROVE IInv' OBVIOUS
<1>1. ASSUME NEW h \in Callers, Request(h) PROVE IInv' BY <1>1, RequestKeeps DEF Handlers
<1>2. ASSUME NEW s \in Sweeps, Job(s) PROVE IInv'
 <2>0. s \in Handlers /\ listed \in [Sweeps -> BOOLEAN] /\ TypeOK BY DEF Handlers, IInv, TypeOK
 <2>1. CASE SweepReads(s)
  <3>1. TypeOK' BY <2>0, <2>1 DEF SweepReads, TypeOK, books, attempt, handlers
  <3>2. QED BY <2>1, <3>1, OutsideKeeps DEF SweepReads
 <2>2. CASE SweepAbandons(s) BY <2>0, <2>2, AbandonmentKeeps DEF SweepAbandons
 <2>3. CASE SweepPassesOver(s)
  <3>1. TypeOK' BY <2>0, <2>3 DEF SweepPassesOver, TypeOK, books, attempt, handlers
  <3>2. QED BY <2>3, <3>1, OutsideKeeps DEF SweepPassesOver
 <2>4. QED BY <1>2, <2>1, <2>2, <2>3 DEF Job
<1>3. ASSUME NEW h \in Handlers, Run(h) PROVE IInv'
  BY <1>3, BeginKeeps, SaveKeeps, WritesKeep, RowKeeps, MoveKeeps, CommitKeeps, ThrowKeeps DEF Run
<1>4. ASSUME NEW h \in Handlers, Abort(h) PROVE IInv' BY <1>4, AbortKeeps
<1>5. ASSUME NEW h \in Handlers, Crash(h) PROVE IInv' BY <1>5, CrashKeeps
<1>6. CASE DeadlinePasses BY <1>6, DeadlineKeeps
<1>7. CASE OtherCall
 <2>1. mishaps' \in Nat BY <1>7 DEF OtherCall, IInv, TypeOK
 <2>2. QED BY <1>7, <2>1, MoveAlongKeeps DEF OtherCall
<1>8. CASE OverrideStatus
 <2>1. mishaps' \in Nat /\ {"overridden"} \in SUBSET Mark
   BY <1>8 DEF OverrideStatus, IInv, TypeOK, Mark
 <2>2. QED BY <1>8, <2>1, MoveAlongKeeps DEF OverrideStatus
<1>9. CASE UNCHANGED vars
 <2>1. TypeOK' BY <1>9 DEF vars, books, attempt, handlers, IInv, TypeOK
 <2>2. QED BY <1>9, <2>1, OutsideKeeps DEF vars
<1>10. QED BY <1>1, <1>2, <1>3, <1>4, <1>5, <1>6, <1>7, <1>8, <1>9 DEF Next

(* What the order says of its money agrees with the collection rows and the
   wallet, for any number of callers and sweeps, any amounts, and however
   many attempts are aborted and processes lost: unless an attempt that was
   cut off in between left a collection, a debit or a move in the copy that
   was committed later.  consumeOutstandingFee, recordCollectionTransaction. *)
THEOREM BooksAgree == Spec => []SettlementBooks
<1>1. IInv => SettlementBooks
  BY DEF IInv, SettlementBooks, FeeInv, PaymentInv, FeeLedgerEquation, CollectedIsRecorded
<1>2. QED BY <1>1, SettlementInit, SettlementStep, PTL DEF Spec

-----------------------------------------------------------------------------
(* The life of the order is sound, and what that rests on.

   A call computes on a copy and its commit may come much later.  What
   makes that safe is the version: a handler whose copy is of the current
   version works on the order as it loaded it, for every other change of
   the order raises the version and leaves the handler nothing to commit.
   So the invariant says, call by call, what a handler that can still
   commit has loaded and what it has written (CallsInv, LoadsInv), and on
   top of that what the wallet holds of a waived fee (WaiversInv) and what
   has been paid and charged (PricesInv, SettledInv). *)

(* The statuses before the laundry is with its provider; those an order can
   be in once it has waited for its customer; and those it ends in. *)
Booked ==
  {"draft", "pricing_validated", "pending_provider_acceptance", "provider_change_proposed",
   "accepted_by_provider", "rejected_by_provider", "cancelled", "awaiting_pickup_assignment",
   "pickup_assigned", "pickup_en_route", "pickup_arrived", "pickup_weighed",
   "pickup_attempt_failed", "awaiting_pickup_reschedule"}
Settled == HandedOver \cup {"disputed"}
Waited ==
  Waiting \cup Settled
  \cup {"redelivery_scheduled", "return_assigned", "return_en_route", "return_arrived",
        "delivery_attempted", "returned_to_provider", "abandoned_unsettled"}

Weighings == {"recordPickupWeight", "receiveAtCounter"}
Handovers == {"recordDelivery", "verifySelfPickup"}

(* The statuses a call finds an order in, and those it moves it to. *)
Finds ==
  ({"recordPickupWeight"} \X {"pickup_arrived", "pickup_weighed"})
  \cup {<<"recordPickupPayment", "pickup_weighed">>,
        <<"receiveAtCounter", "accepted_by_provider">>,
        <<"respondToQualityHold", "laundry_quality_hold">>,
        <<"recordDelivery", "return_arrived">>,
        <<"verifySelfPickup", "awaiting_customer_pickup">>}
  \cup ({"abandonUnsettledOrder"} \X Waiting)
Reaches ==
  {<<"recordPickupWeight", "pickup_weighed">>,
   <<"respondToQualityHold", "laundry_in_progress">>,
   <<"abandonUnsettledOrder", "abandoned_unsettled">>}
  \cup ({"recordPickupPayment"} \X {"picked_up_from_customer", "laundry_in_progress"})
  \cup ({"receiveAtCounter"} \X {"received_by_provider", "laundry_in_progress"})
  \cup (Handovers \X HandedOver)

Contains(s, which) == \E i \in 1..Len(s) : s[i] \in which
Within(t, s) == \A i \in 1..Len(t) : \E k \in 1..Len(s) : t[i] = s[k]

(* The steps that a call may have to take, and what is left of them. *)
StepsOf(name, s) ==
  \A i \in 1..Len(s) :
    /\ s[i] \in Status => <<name, s[i]>> \in Reaches
    /\ s[i] = "collectOutstanding" => name \in {"recordPickupPayment", "receiveAtCounter"}
    /\ s[i] = "collectDue" => name \in Handovers
    /\ s[i] = "fee" => name \in Weighings \cup Handovers
    /\ s[i] \in Collects => \A k \in 1..Len(s) : s[k] \in Collects => i = k

CallOK(name, s) ==
  /\ StepsOf(name, s)
  /\ name \in Weighings => Contains(s, {"fee"})
  /\ name \in Handovers /\ Contains(s, Collects) => Contains(s, {"fee"})

Collecting(h) == Contains(script[h], Collects)
Charging(h) == Contains(script[h], {"fee"})

(* An abandonment that has moved its copy is refused the move ever after. *)
AbandonmentFits(h) ==
  /\ ~Facing(script[h], "reverse") => due[h] = 0 /\ "pricing" \notin dirty[h]
  /\ \/ copy[h].status = "abandoned_unsettled"
     \/ "moved" \notin carried[h] /\ "version" \notin dirty[h]
  /\ holder = h =>
       /\ "moved" \in carried[h] => todo # <<>>
       /\ Facing(script[h], "reverse") =>
            Facing(todo, "reverse") \/ copy[h].pricing.consumed = 0

CallFits(h) ==
  IF Active(h)
  THEN /\ CallOK(call[h], script[h])
       /\ holder = h => StepsOf(call[h], todo) /\ Within(todo, script[h])
       /\ h \in Sweeps => Abandons(h)
       /\ Abandons(h) => AbandonmentFits(h)
       /\ "version" \notin dirty[h] => dirty[h] \subseteq {"payment", "pricing"}
       /\ copy[h].pricing.waived = doc.pricing.waived
  ELSE carried[h] = {}

CallsInv == txDoc.pricing.waived = doc.pricing.waived /\ \A h \in Handlers : CallFits(h)

(* The same price, whatever was taken of its fee. *)
Same(p, q) ==
  /\ p.service = q.service /\ p.fee = q.fee /\ p.penalty = q.penalty
  /\ p.waived = q.waived /\ p.waiver = q.waiver /\ p.total = q.total

(* The price a call has computed from the order's. *)
Repriced(name, p) ==
  IF name \in Weighings THEN \E service \in Services : Same(p, Priced(doc.pricing, service))
  ELSE IF name = "respondToQualityHold"
  THEN \E amount \in Surcharges : Same(p, Surcharged(doc.pricing, amount))
  ELSE Same(p, doc.pricing)

(* A handler that can still commit has loaded the order as it is. *)
Loaded(h) ==
  /\ <<call[h], doc.status>> \in Finds
  /\ Repriced(call[h], copy[h].pricing)
  /\ "version" \notin dirty[h] => (copy[h].deadline = "none" <=> doc.deadline = "none")
  /\ ~Collecting(h) => copy[h].payment = doc.payment /\ "payment" \notin dirty[h]
  /\ ~Charging(h) /\ ~Abandons(h) => AsStored(h)
  /\ call[h] \in Handovers => due[h] = Outstanding(doc) /\ (Collecting(h) \/ due[h] = 0)
  /\ Abandons(h) => due[h] = doc.pricing.consumed
  /\ h \in Sweeps => Outstanding(doc) > 0

Written(h) ==
  /\ Same(txDoc.pricing, doc.pricing) \/ Same(txDoc.pricing, copy[h].pricing)
  /\ ~Collecting(h) => txDoc.payment = doc.payment
  /\ IF "version" \in dirty[h]
     THEN txDoc.deadline = "none" /\ <<call[h], txDoc.status>> \in Reaches
     ELSE txDoc.deadline = "none" <=> doc.deadline = "none"

LoadFits(h) == Keen(h, {"moved"}) => Loaded(h) /\ (holder = h => Written(h))

(* An order that waits on the clock owes, and so does one a sweep has read
   until it is handed over. *)
ClockFits ==
  /\ doc.deadline # "none" => doc.status \in Waiting /\ Outstanding(doc) > 0
  /\ \A s \in Sweeps :
       listed[s] => doc.status \in Waited /\ (doc.status \in Settled \/ Outstanding(doc) > 0)

LoadsInv ==
  "moved" \notin marks =>
    /\ doc.status \in Booked => doc.pricing.penalty = 0
    /\ ClockFits
    /\ \A h \in Handlers : LoadFits(h)

(* What is taken of a waived fee is within the penalties. *)
Kept(p) == p.waived => p.consumed <= Chargeable(p) /\ Chargeable(p) <= p.penalty

Backed(h) ==
  /\ txDebit <= txDoc.pricing.consumed \/ ("pricing" \in dirty[h] /\ Facing(todo, "save"))
  /\ "pricing" \in dirty[h] /\ ~Facing(todo, "reverse") => txDebit <= copy[h].pricing.consumed
  /\ ~Abandons(h) => txDebit <= copy[h].pricing.consumed
  /\ Facing(todo, "reverse") => txDebit = debit

WaiverFits(h) ==
  Keen(h, {"moved"}) /\ doc.pricing.waived =>
    /\ ~Abandons(h) => debit <= copy[h].pricing.consumed
    /\ holder = h => Backed(h)

WaiversInv ==
  "moved" \notin marks =>
    /\ Kept(doc.pricing) /\ Kept(txDoc.pricing)
    /\ \A h \in Handlers : Active(h) => Kept(copy[h].pricing)
    /\ doc.pricing.waived => debit <= doc.pricing.consumed
    /\ \A h \in Handlers : WaiverFits(h)

(* An order is weighed before the laundry is with its provider. *)
Weighed(d) == d.status = "pickup_weighed" \/ d.status \notin Booked
Reconciles(p) == p.total > 0 => p.total = p.service + p.fee + Extras

PricesInv ==
  marks \cap {"overridden", "unpriced", "moved"} = {} =>
    (Weighed(doc) => doc.pricing.total > 0) /\ Reconciles(doc.pricing)

(* How far the first attempt of a call has come with what it has to do. *)
Progress(h) ==
  /\ IF Collecting(h) /\ ~Contains(todo, Collects) THEN copy[h].payment = copy[h].pricing.total
     ELSE copy[h].payment = doc.payment
  /\ Charging(h) /\ ~Contains(todo, {"fee"}) => Charged(h)

(* Nobody pays before the weighing, nor too much; who has paid it all was
   charged, and so was who has just been weighed. *)
MoneyFits(d) ==
  /\ d.status \in Booked => d.payment = 0
  /\ d.payment <= d.pricing.total
  /\ d.status = "pickup_weighed" \/ (d.status \notin Booked /\ d.payment = d.pricing.total)
       => d.pricing.consumed = Chargeable(d.pricing)
  /\ d.status \in HandedOver => d.payment = d.pricing.total

SettledInv ==
  marks = {} =>
    /\ MoneyFits(doc)
    /\ \A h \in Handlers : Keen(h, {"payment", "fee", "moved"}) /\ holder = h => Progress(h)

LifeInv ==
  IInv /\ CallsInv /\ LoadsInv /\ WaiversInv /\ PricesInv /\ SettledInv /\ AbandonedReturnsFee

-----------------------------------------------------------------------------
(* The table, and what a call finds and reaches in it. *)

LEMMA EdgesOfThePhases ==
  ASSUME NEW x \in Status, NEW y \in Status, <<x, y>> \in Edge
  PROVE  /\ y \in Booked => x \in Booked
         /\ x \in Waited => y \in Waited
         /\ x \in Settled => y \in Settled
         /\ x # y \/ x = "pickup_weighed"
BY DEF Edge, Status, Booked, Waited, Waiting, Settled, HandedOver

LEMMA EdgesOfOtherCalls ==
  ASSUME NEW x \in Status, NEW y \in Status, <<x, y>> \in Edge \ MoneyEdge
  PROVE  /\ x \in Booked <=> y \in Booked
         /\ y \notin HandedOver \cup {"pickup_weighed", "abandoned_unsettled"}
<1>1. <<x, y>> \in Edge
      /\ y \notin {"pickup_weighed", "picked_up_from_customer", "received_by_provider",
                   "abandoned_unsettled"} \cup HandedOver
  BY DEF MoneyEdge
<1>2. x \in Booked => y \in Booked BY <1>1 DEF Edge, Status, Booked, HandedOver
<1>3. QED BY <1>1, <1>2, EdgesOfThePhases

LEMMA PhasesApart ==
  /\ Waited \cap Booked = {} /\ HandedOver \cap Booked = {}
  /\ HandedOver \subseteq Settled /\ Settled \subseteq Waited /\ Waiting \subseteq Waited
  /\ Waiting \cap Settled = {} /\ Waiting \cap HandedOver = {}
  /\ "abandoned_unsettled" \notin Settled \cup Booked \cup Waiting \cup HandedOver
  /\ "abandoned_unsettled" \in Waited /\ "pickup_weighed" \notin Waiting \cup HandedOver
BY DEF Waited, Booked, HandedOver, Settled, Waiting

LEMMA WhatCallsFind ==
  ASSUME NEW name, NEW x, <<name, x>> \in Finds
  PROVE  /\ name = "recordPickupWeight" => x \in {"pickup_arrived", "pickup_weighed"}
         /\ name \in Weighings => x \in Booked
         /\ name = "recordPickupPayment" => x = "pickup_weighed"
         /\ name = "receiveAtCounter" => x = "accepted_by_provider"
         /\ name = "respondToQualityHold" => x = "laundry_quality_hold"
         /\ name = "recordDelivery" => x = "return_arrived"
         /\ name = "verifySelfPickup" => x = "awaiting_customer_pickup"
         /\ name = "abandonUnsettledOrder" => x \in Waiting
         /\ x \in Waited => name \in Handovers \cup {"abandonUnsettledOrder"}
         /\ name \in Weighings \cup Handovers
              \cup {"recordPickupPayment", "respondToQualityHold", "abandonUnsettledOrder"}
BY DEF Finds, Weighings, Handovers, Booked, Waiting, Waited, Settled, HandedOver

LEMMA WhatCallsReach ==
  ASSUME NEW name, NEW y, <<name, y>> \in Reaches
  PROVE  /\ y \in Booked => name = "recordPickupWeight" /\ y = "pickup_weighed"
         /\ y = "pickup_weighed" <=> name = "recordPickupWeight"
         /\ y = "abandoned_unsettled" <=> name = "abandonUnsettledOrder"
         /\ y \in HandedOver <=> name \in Handovers
         /\ y \notin Waiting
BY DEF Reaches, Handovers, Booked, Waiting, HandedOver

LEMMA CallsApart ==
  /\ Weighings \cap Handovers = {}
  /\ "abandonUnsettledOrder" \notin Weighings \cup Handovers
  /\ "respondToQualityHold" \notin Weighings \cup Handovers
  /\ "recordPickupPayment" \notin Weighings \cup Handovers
  /\ "recordPickupWeight" \in Weighings /\ "receiveAtCounter" \in Weighings
BY DEF Weighings, Handovers

-----------------------------------------------------------------------------
(* Scripts, and what is left of them. *)

LEMMA RestOfSteps ==
  ASSUME NEW s \in Seq(Work \cup Status), s # <<>>, NEW name, NEW t
  PROVE  /\ StepsOf(name, s) => StepsOf(name, Tail(s))
         /\ Within(s, t) => Within(Tail(s), t)
         /\ \A which : Contains(s, which) <=> s[1] \in which \/ Contains(Tail(s), which)
         /\ StepsOf(name, s) /\ s[1] \in Collects => ~Contains(Tail(s), Collects)
<1>1. /\ Len(s) \in Nat \ {0} /\ Len(Tail(s)) = Len(s) - 1
      /\ \A i \in 1..Len(Tail(s)) : i + 1 \in 1..Len(s) /\ Tail(s)[i] = s[i + 1]
  BY LengthOfSteps
<1>2. \A i \in 1..Len(s) : i # 1 => i - 1 \in 1..Len(Tail(s)) /\ s[i] = Tail(s)[i - 1] BY <1>1
<1>3. StepsOf(name, s) => StepsOf(name, Tail(s)) BY <1>1 DEF StepsOf
<1>4. Within(s, t) => Within(Tail(s), t) BY <1>1 DEF Within
<1>5. ASSUME NEW which PROVE Contains(s, which) <=> s[1] \in which \/ Contains(Tail(s), which)
 <2>1. ASSUME NEW i \in 1..Len(s), s[i] \in which
       PROVE  s[1] \in which \/ Contains(Tail(s), which)
   BY <1>2, <2>1 DEF Contains
 <2>2. ASSUME NEW i \in 1..Len(Tail(s)), Tail(s)[i] \in which PROVE Contains(s, which)
   BY <1>1, <2>2 DEF Contains
 <2>3. 1 \in 1..Len(s) BY <1>1
 <2>4. QED BY <2>1, <2>2, <2>3 DEF Contains
<1>6. StepsOf(name, s) /\ s[1] \in Collects => ~Contains(Tail(s), Collects)
 <2> SUFFICES ASSUME StepsOf(name, s), s[1] \in Collects, NEW i \in 1..Len(Tail(s)),
                     Tail(s)[i] \in Collects
              PROVE  FALSE
   BY DEF Contains
 <2>1. 1 \in 1..Len(s) /\ i + 1 \in 1..Len(s) /\ s[i + 1] \in Collects BY <1>1
 <2>2. s[1] \in Collects => \A k \in 1..Len(s) : s[k] \in Collects => 1 = k BY <2>1 DEF StepsOf
 <2>3. 1 = i + 1 BY <2>1, <2>2
 <2>4. QED BY <1>1, <2>3
<1>7. QED BY <1>3, <1>4, <1>5, <1>6

(* The step that is next is one the script has. *)
LEMMA NextOfScript ==
  ASSUME NEW t \in Seq(Work \cup Status), NEW s \in Seq(Work \cup Status), t # <<>>, Within(t, s)
  PROVE  /\ t[1] \in Collects => Contains(s, Collects)
         /\ t[1] = "fee" => Contains(s, {"fee"})
         /\ Ordered(s) /\ t[1] = "reverse" => Facing(s, "reverse")
<1>1. PICK k \in 1..Len(s) : t[1] = s[k]
 <2>1. 1 \in 1..Len(t) BY LengthOfSteps
 <2>2. QED BY <2>1 DEF Within
<1>2. ASSUME Ordered(s), t[1] = "reverse" PROVE Facing(s, "reverse")
 <2>1. k > 1 => s[k] # "reverse" BY <1>2 DEF Ordered
 <2>2. k = 1 /\ s # <<>> BY <1>1, <1>2, <2>1
 <2>3. QED BY <1>1, <1>2, <2>2 DEF Facing
<1>3. QED BY <1>1, <1>2 DEF Contains

-----------------------------------------------------------------------------
(* Prices: what re-pricing keeps. *)

LEMMA SamePrice ==
  ASSUME NEW p, NEW q, NEW r, Same(p, q)
  PROVE  /\ Chargeable(p) = Chargeable(q) /\ Same(q, p)
         /\ Same(q, r) => Same(p, r)
         /\ p.consumed = q.consumed /\ Kept(q) => Kept(p)
         /\ Reconciles(q) => Reconciles(p)
<1>1. Chargeable(p) = Chargeable(q) BY DEF Same, Chargeable
<1>2. QED BY <1>1 DEF Same, Kept, Reconciles

LEMMA PricedFields ==
  ASSUME NEW p \in Pricing, NEW service \in Nat
  PROVE  LET r == Priced(p, service) IN
         /\ r.service = service /\ r.fee = PlatformFee(service) /\ r.fee \in Nat
         /\ r.penalty = p.penalty /\ r.waived = p.waived
         /\ r.total = service + r.fee + Extras
         /\ p.waived => r.waiver = Max0(r.fee - p.penalty)
<1>1. PICK fee \in Nat : fee = PlatformFee(service) BY FeeIsNatural
<1>2. PICK total \in Nat : total = service + fee + Extras BY AmountsAreNaturals
<1> DEFINE q == [p EXCEPT !.service = service, !.fee = fee, !.total = total]
<1>3. /\ q \in Pricing /\ q.waiver = p.waiver /\ q.service = service /\ q.fee = fee
      /\ q.total = total /\ q.penalty = p.penalty /\ q.waived = p.waived
  BY DEF Pricing
<1>4. Priced(p, service) = [q EXCEPT !.waiver = IF p.waived THEN Waivable(q) ELSE p.waiver]
  BY <1>1, <1>2 DEF Priced
<1> HIDE DEF q
<1>5. PICK waiver \in Nat : waiver = IF p.waived THEN Waivable(q) ELSE p.waiver
  BY <1>3, WaivableIsNatural, PricingFields
<1> DEFINE r == [q EXCEPT !.waiver = waiver]
<1>6. /\ r.waiver = waiver /\ r.service = service /\ r.fee = fee
      /\ r.total = total /\ r.penalty = p.penalty /\ r.waived = p.waived
  BY <1>3 DEF Pricing
<1>7. Priced(p, service) = r BY <1>4, <1>5
<1>8. p.waived => waiver = Max0(fee - p.penalty) BY <1>3, <1>5 DEF Waivable
<1> HIDE DEF r
<1>9. QED BY <1>1, <1>2, <1>6, <1>7, <1>8

LEMMA SurchargedFields ==
  ASSUME NEW p \in Pricing, NEW amount \in Nat
  PROVE  LET r == Surcharged(p, amount) IN
         /\ PlatformFee(amount) \in Nat
         /\ r.service = p.service + amount /\ r.fee = p.fee + PlatformFee(amount)
         /\ r.penalty = p.penalty + PlatformFee(amount)
         /\ r.waived = p.waived /\ r.waiver = p.waiver
         /\ r.total = p.total + amount + PlatformFee(amount)
<1>0. /\ p.service \in Nat /\ p.fee \in Nat /\ p.penalty \in Nat /\ p.total \in Nat
      /\ PlatformFee(amount) \in Nat
  BY PricingFields, FeeIsNatural
<1>1. PICK service \in Nat : service = p.service + amount BY <1>0
<1>2. PICK fee \in Nat : fee = p.fee + PlatformFee(amount) BY <1>0
<1>3. PICK penalty \in Nat : penalty = p.penalty + PlatformFee(amount) BY <1>0
<1>4. PICK total \in Nat : total = p.total + amount + PlatformFee(amount) BY <1>0
<1> DEFINE r == [p EXCEPT !.service = service, !.fee = fee, !.penalty = penalty, !.total = total]
<1>5. /\ r.service = service /\ r.fee = fee /\ r.penalty = penalty /\ r.total = total
      /\ r.waived = p.waived /\ r.waiver = p.waiver
  BY DEF Pricing
<1>6. Surcharged(p, amount) = r BY <1>1, <1>2, <1>3, <1>4 DEF Surcharged
<1> HIDE DEF r
<1>7. QED BY <1>0, <1>1, <1>2, <1>3, <1>4, <1>5, <1>6

(* A weighing of an order without penalties and a surcharge leave of a
   waived fee no more to take than the penalties. *)
LEMMA RepricedIsKept ==
  ASSUME doc \in Document, NEW name, NEW p, Repriced(name, p), p.consumed = doc.pricing.consumed,
         name \in Weighings => doc.pricing.penalty = 0,
         Kept(doc.pricing)
  PROVE  Kept(p)
<1> DEFINE q == doc.pricing
<1>0. /\ q \in Pricing /\ q.fee \in Nat /\ q.penalty \in Nat /\ q.waiver \in Nat
      /\ q.consumed \in Nat /\ Chargeable(q) \in Nat
  BY DocumentFields, PricingFields, ChargeableIsNatural
<1>1. CASE name \in Weighings
 <2>1. PICK service \in Services : Same(p, Priced(q, service)) BY <1>1 DEF Repriced
 <2>2. service \in Nat BY AmountsAreNaturals
 <2> DEFINE r == Priced(q, service)
 <2>3. /\ r.fee \in Nat /\ r.penalty = q.penalty /\ q.penalty = 0
       /\ r.waived = q.waived /\ r.consumed = q.consumed
       /\ q.waived => r.waiver = Max0(r.fee - q.penalty)
   BY <1>0, <1>1, <2>2, PricedFields, PricedIsPricing
 <2> HIDE DEF r
 <2>4. q.waived => q.consumed = 0 BY <1>0, <1>1 DEF Kept
 <2>5. q.waived => Chargeable(r) = 0 BY <2>3 DEF Chargeable, Max0
 <2>6. Kept(r) BY <2>3, <2>4, <2>5 DEF Kept
 <2>7. Same(p, r) BY <2>1 DEF r
 <2>8. QED BY <2>3, <2>6, <2>7, SamePrice
<1>2. CASE name = "respondToQualityHold"
 <2>1. PICK amount \in Surcharges : Same(p, Surcharged(q, amount)) BY <1>2, CallsApart DEF Repriced
 <2>2. amount \in Nat BY AmountsAreNaturals
 <2> DEFINE r == Surcharged(q, amount)
 <2>3. /\ PlatformFee(amount) \in Nat /\ r.fee = q.fee + PlatformFee(amount)
       /\ r.penalty = q.penalty + PlatformFee(amount)
       /\ r.waived = q.waived /\ r.waiver = q.waiver /\ r.consumed = q.consumed
   BY <1>0, <2>2, SurchargedFields, SurchargedIsPricing
 <2> HIDE DEF r
 <2>4. Chargeable(q) <= Chargeable(r) /\ Chargeable(r) <= Chargeable(q) + PlatformFee(amount)
   BY <1>0, <2>3 DEF Chargeable, Max0
 <2>5. Chargeable(r) \in Nat BY <1>0, <2>3 DEF Chargeable, Max0
 <2>6. Kept(r) BY <1>0, <2>3, <2>4, <2>5 DEF Kept
 <2>7. Same(p, r) BY <2>1 DEF r
 <2>8. QED BY <2>3, <2>6, <2>7, SamePrice
<1>3. CASE name \notin Weighings /\ name # "respondToQualityHold" BY <1>3, SamePrice DEF Repriced
<1>4. QED BY <1>1, <1>2, <1>3

(* The price of an order is not lowered, unless it was not weighed before;
   and what it comes to is the service, the fee and the extras. *)
LEMMA RepricedTotal ==
  ASSUME doc \in Document, NEW name, NEW p, Repriced(name, p)
  PROVE  /\ p.waived = doc.pricing.waived
         /\ name # "respondToQualityHold" => p.penalty = doc.pricing.penalty
         /\ name \in Weighings => p.total > 0 /\ p.total \in Nat /\ Reconciles(p)
         /\ name = "respondToQualityHold" =>
              /\ p.total > doc.pricing.total
              /\ doc.pricing.total > 0 /\ Reconciles(doc.pricing) => Reconciles(p)
         /\ name \notin Weighings \cup {"respondToQualityHold"} => Same(p, doc.pricing)
<1> DEFINE q == doc.pricing
<1>0. q \in Pricing /\ q.service \in Nat /\ q.fee \in Nat /\ q.total \in Nat /\ Extras \in Nat
  BY DocumentFields, PricingFields, AmountsAreNaturals
<1>1. CASE name \in Weighings
 <2>1. PICK service \in Services : Same(p, Priced(q, service)) BY <1>1 DEF Repriced
 <2>2. service \in Nat /\ service > 0 BY AmountsAreNaturals
 <2> DEFINE r == Priced(q, service)
 <2>3. /\ r.service = service /\ r.fee \in Nat /\ r.penalty = q.penalty /\ r.waived = q.waived
       /\ r.total = service + r.fee + Extras
   BY <1>0, <2>2, PricedFields
 <2> HIDE DEF r
 <2>4. Same(p, r) BY <2>1 DEF r
 <2>5. r.total > 0 /\ r.total \in Nat /\ Reconciles(r) BY <1>0, <2>2, <2>3 DEF Reconciles
 <2>6. QED BY <1>1, <2>3, <2>4, <2>5, SamePrice, CallsApart DEF Same
<1>2. CASE name = "respondToQualityHold"
 <2>1. PICK amount \in Surcharges : Same(p, Surcharged(q, amount)) BY <1>2, CallsApart DEF Repriced
 <2>2. amount \in Nat /\ amount > 0 BY AmountsAreNaturals
 <2> DEFINE r == Surcharged(q, amount)
 <2>3. /\ PlatformFee(amount) \in Nat /\ r.fee = q.fee + PlatformFee(amount)
       /\ r.service = q.service + amount /\ r.waived = q.waived
       /\ r.total = q.total + amount + PlatformFee(amount)
   BY <1>0, <2>2, SurchargedFields
 <2> HIDE DEF r
 <2>4. Same(p, r) BY <2>1 DEF r
 <2>5. r.total > q.total /\ (q.total > 0 /\ Reconciles(q) => Reconciles(r))
   BY <1>0, <2>2, <2>3 DEF Reconciles
 <2>6. QED BY <1>2, <2>3, <2>4, <2>5, SamePrice, CallsApart DEF Same
<1>3. CASE name \notin Weighings /\ name # "respondToQualityHold" BY <1>3 DEF Repriced, Same
<1>4. QED BY <1>1, <1>2, <1>3

-----------------------------------------------------------------------------
(* What the steps do, handler by handler. *)

Untouched(k) ==
  /\ call'[k] = call[k] /\ copy'[k] = copy[k] /\ dirty'[k] = dirty[k]
  /\ due'[k] = due[k] /\ script'[k] = script[k] /\ carried'[k] = carried[k]

(* A write of an open transaction. *)
Writes(h) ==
  /\ UNCHANGED <<doc, debit, marks, listed, call, script, carried>>
  /\ \A k \in Handlers \ {h} : Untouched(k)

LEMMA CopyOfHandler ==
  ASSUME IInv, NEW h \in Handlers
  PROVE  /\ copy[h] \in Document /\ copy[h].payment \in Nat
         /\ copy[h].pricing \in Pricing /\ copy[h].pricing.consumed \in Nat
         /\ copy[h].pricing.total \in Nat /\ copy[h].pricing.penalty \in Nat
         /\ Chargeable(copy[h].pricing) \in Nat
         /\ dirty[h] \in SUBSET Path /\ due[h] \in Nat /\ script[h] \in Seq(Work \cup Status)
BY DocumentFields, PricingFields, ChargeableIsNatural DEF IInv, TypeOK

LEMMA OrderOfBooks ==
  ASSUME IInv
  PROVE  /\ doc \in Document /\ doc.payment \in Nat /\ doc.status \in Status
         /\ doc.pricing \in Pricing /\ doc.pricing.consumed \in Nat /\ doc.pricing.total \in Nat
         /\ doc.pricing.penalty \in Nat /\ Chargeable(doc.pricing) \in Nat
         /\ txDoc \in Document /\ txDoc.payment \in Nat /\ txDoc.status \in Status
         /\ txDoc.pricing \in Pricing /\ txDoc.pricing.consumed \in Nat
         /\ txDoc.pricing.total \in Nat /\ Chargeable(txDoc.pricing) \in Nat
         /\ debit \in Int /\ txDebit \in Int
BY DocumentFields, PricingFields, ChargeableIsNatural DEF IInv, TypeOK

LEMMA SaveDoes ==
  ASSUME IInv, NEW h \in Handlers, Save(h)
  PROVE  /\ Doing(h, "save") /\ Writes(h) /\ txDebit' = txDebit
         /\ copy'[h] = copy[h] /\ due'[h] = due[h] /\ dirty'[h] = {}
         /\ txDoc'.status = IF "status" \in dirty[h] THEN copy[h].status ELSE txDoc.status
         /\ txDoc'.version = IF "version" \in dirty[h] THEN copy[h].version ELSE txDoc.version
         /\ txDoc'.deadline = IF "deadline" \in dirty[h] THEN copy[h].deadline ELSE txDoc.deadline
         /\ txDoc'.payment = IF "payment" \in dirty[h] THEN copy[h].payment ELSE txDoc.payment
         /\ txDoc'.pricing = IF "pricing" \in dirty[h] THEN copy[h].pricing ELSE txDoc.pricing
<1>1. /\ TypeOK /\ Doing(h, "save")
      /\ txDoc' = [path \in Path |-> IF path \in dirty[h] THEN copy[h][path] ELSE txDoc[path]]
      /\ dirty' = [dirty EXCEPT ![h] = {}]
      /\ UNCHANGED <<doc, debit, marks, listed, call, script, carried, copy, due, txDebit>>
  BY DEF IInv, Save, books
<1>2. dirty'[h] = {} /\ \A k \in Handlers \ {h} : dirty'[k] = dirty[k] BY <1>1 DEF TypeOK
<1>3. Writes(h) BY <1>1, <1>2 DEF Writes, Untouched
<1>4. txDoc \in Document /\ copy[h] \in Document BY <1>1 DEF TypeOK
<1>5. /\ txDoc'.status = IF "status" \in dirty[h] THEN copy[h].status ELSE txDoc.status
      /\ txDoc'.deadline = IF "deadline" \in dirty[h] THEN copy[h].deadline ELSE txDoc.deadline
  BY <1>1, <1>4 DEF Document, Path
<1>6. QED BY <1>1, <1>2, <1>3, <1>4, <1>5, SavedDocument

LEMMA CollectDoes ==
  ASSUME IInv, NEW h \in Handlers, NEW step, Doing(h, step), NEW amount \in Nat,
         CollectOn(h, amount)
  PROVE  /\ Writes(h) /\ txDebit' = txDebit /\ txDoc' = txDoc
         /\ copy'[h].status = copy[h].status /\ copy'[h].version = copy[h].version
         /\ copy'[h].deadline = copy[h].deadline /\ copy'[h].pricing = copy[h].pricing
         /\ copy'[h].payment = copy[h].payment + amount
         /\ due'[h] = amount /\ dirty'[h] = dirty[h] \cup {"payment"}
<1>1. /\ TypeOK /\ copy[h] \in Document /\ copy[h].payment \in Nat BY CopyOfHandler DEF IInv
<1>2. PICK paid \in Nat : paid = copy[h].payment + amount BY <1>1
<1>3. /\ copy' = [copy EXCEPT ![h] = [copy[h] EXCEPT !.payment = paid]]
      /\ due' = [due EXCEPT ![h] = amount]
      /\ dirty' = [dirty EXCEPT ![h] = dirty[h] \cup {"payment"}]
      /\ UNCHANGED <<doc, debit, marks, listed, call, script, carried, txDoc, txDebit>>
  BY <1>1, <1>2 DEF CollectOn, TypeOK, books
<1>4. Writes(h) BY <1>1, <1>3 DEF Writes, Untouched, TypeOK
<1>5. copy'[h] = [copy[h] EXCEPT !.payment = paid] /\ due'[h] = amount
      /\ dirty'[h] = dirty[h] \cup {"payment"}
  BY <1>1, <1>3 DEF TypeOK
<1>6. QED BY <1>1, <1>2, <1>3, <1>4, <1>5 DEF Document

LEMMA RowDoes ==
  ASSUME IInv, NEW h \in Handlers, Row(h)
  PROVE  /\ Doing(h, "row") /\ Writes(h) /\ txDebit' = txDebit /\ txDoc' = txDoc
         /\ copy'[h] = copy[h] /\ due'[h] = due[h] /\ dirty'[h] = dirty[h]
BY DEF Row, Writes, Untouched, books, handlers

LEMMA ChargeDoes ==
  ASSUME IInv, NEW h \in Handlers, NEW step, Doing(h, step), NEW amount \in Int,
         NEW consumed \in Nat, Charge(h, amount, consumed)
  PROVE  /\ Writes(h) /\ txDebit' = txDebit + amount /\ txDoc' = txDoc
         /\ copy'[h].status = copy[h].status /\ copy'[h].version = copy[h].version
         /\ copy'[h].deadline = copy[h].deadline /\ copy'[h].payment = copy[h].payment
         /\ Same(copy'[h].pricing, copy[h].pricing) /\ copy'[h].pricing.consumed = consumed
         /\ due'[h] = due[h]
         /\ dirty'[h] = IF amount = 0 THEN dirty[h] ELSE dirty[h] \cup {"pricing"}
<1>1. /\ TypeOK /\ copy[h] \in Document /\ copy[h].pricing \in Pricing BY CopyOfHandler DEF IInv
<1> DEFINE charged == [copy[h].pricing EXCEPT !.consumed = consumed]
<1>2. Same(charged, copy[h].pricing) /\ charged.consumed = consumed BY <1>1 DEF Pricing, Same
<1>3. /\ copy' = [copy EXCEPT ![h] = [copy[h] EXCEPT !.pricing = charged]]
      /\ dirty' = [dirty EXCEPT ![h] = IF amount = 0 THEN dirty[h] ELSE dirty[h] \cup {"pricing"}]
      /\ txDebit' = txDebit + amount
      /\ UNCHANGED <<doc, debit, marks, listed, call, script, carried, due, txDoc>>
  BY <1>1 DEF Charge, TypeOK, books
<1> HIDE DEF charged
<1>4. Writes(h) BY <1>1, <1>3 DEF Writes, Untouched, TypeOK
<1>5. copy'[h] = [copy[h] EXCEPT !.pricing = charged]
      /\ dirty'[h] = IF amount = 0 THEN dirty[h] ELSE dirty[h] \cup {"pricing"}
  BY <1>1, <1>3 DEF TypeOK
<1>6. QED BY <1>1, <1>2, <1>3, <1>4, <1>5 DEF Document

LEMMA MoveDoes ==
  ASSUME IInv, NEW h \in Handlers, Move(h)
  PROVE  \E to \in Status :
         /\ Doing(h, to) /\ Accepts(h, to) /\ Writes(h) /\ txDebit' = txDebit
         /\ copy'[h].status = to /\ copy'[h].deadline = Stamped(copy[h], to)
         /\ copy'[h].payment = copy[h].payment /\ copy'[h].pricing = copy[h].pricing
         /\ txDoc'.status = to
         /\ txDoc'.deadline = IF to \in Waiting \/ copy[h].deadline # "none"
                              THEN Stamped(copy[h], to) ELSE txDoc.deadline
         /\ txDoc'.payment = txDoc.payment /\ txDoc'.pricing = txDoc.pricing
         /\ due'[h] = due[h] /\ dirty'[h] = dirty[h] \cup {"status", "version", "deadline"}
<1>1. PICK to \in Status :
        /\ Doing(h, to) /\ Accepts(h, to)
        /\ copy' = [copy EXCEPT ![h] = Moved(@, to)]
        /\ txDoc' = [txDoc EXCEPT
             !.status = to, !.version = copy[h].version + 1,
             !.deadline = IF to \in Waiting \/ copy[h].deadline # "none"
                          THEN Stamped(copy[h], to) ELSE @]
        /\ dirty' = [dirty EXCEPT ![h] = @ \cup {"status", "version", "deadline"}]
        /\ UNCHANGED <<books, txRecorded, txDebit, call, due, script, carried,
                       listed, mishaps, marks>>
  BY DEF Move
<1>2. TypeOK /\ copy[h] \in Document /\ txDoc \in Document BY CopyOfHandler, OrderOfBooks DEF IInv
<1>3. Writes(h) /\ txDebit' = txDebit BY <1>1, <1>2 DEF Writes, Untouched, TypeOK, books
<1>4. /\ copy'[h] = Moved(copy[h], to) /\ due'[h] = due[h]
      /\ dirty'[h] = dirty[h] \cup {"status", "version", "deadline"}
  BY <1>1, <1>2 DEF TypeOK
<1>5. /\ copy'[h].status = to /\ copy'[h].deadline = Stamped(copy[h], to)
      /\ copy'[h].payment = copy[h].payment /\ copy'[h].pricing = copy[h].pricing
 <2>1. PICK deadline : deadline = Stamped(copy[h], to) OBVIOUS
 <2>2. PICK version : version = copy[h].version + 1 OBVIOUS
 <2>3. copy'[h] = [copy[h] EXCEPT !.status = to, !.version = version, !.deadline = deadline]
   BY <1>4, <2>1, <2>2 DEF Moved
 <2>4. QED BY <1>2, <2>1, <2>3 DEF Document
<1>6. /\ txDoc'.status = to
      /\ txDoc'.deadline = IF to \in Waiting \/ copy[h].deadline # "none"
                           THEN Stamped(copy[h], to) ELSE txDoc.deadline
      /\ txDoc'.payment = txDoc.payment /\ txDoc'.pricing = txDoc.pricing
 <2>1. PICK version : version = copy[h].version + 1 OBVIOUS
 <2>2. PICK deadline :
         deadline = IF to \in Waiting \/ copy[h].deadline # "none"
                    THEN Stamped(copy[h], to) ELSE txDoc.deadline
   OBVIOUS
 <2>3. txDoc' = [txDoc EXCEPT !.status = to, !.version = version, !.deadline = deadline]
   BY <1>1, <2>1, <2>2
 <2>4. QED BY <1>2, <2>2, <2>3 DEF Document
<1>7. QED BY <1>1, <1>3, <1>4, <1>5, <1>6

(* Who can commit after a write of a transaction, could before it; and a
   transaction that is not moving the order has not moved it. *)
LEMMA KeenBefore ==
  ASSUME IInv, NEW h \in Handlers, NEW step, Doing(h, step), Writes(h), "moved" \notin marks,
         NEW which, "moved" \in which, Keen(h, which)',
         IF step \in Status THEN Accepts(h, step)
         ELSE /\ copy'[h].version = copy[h].version
              /\ "version" \notin dirty[h] => txDoc'.version = txDoc.version
  PROVE  Keen(h, which) /\ (step \notin Status => NotMovedYet(h) /\ "version" \notin dirty[h])
<1>1. holder = h /\ holder' = h /\ step \in Work \cup Status BY BeforeStep
<1>2. Active(h) /\ carried[h] \cap which = {} /\ "moved" \notin carried[h]
  BY DEF Writes, Keen, Active
<1>3. CASE step \in Status BY <1>1, <1>2, <1>3 DEF Keen, Fresh, Accepts
<1>4. CASE step \notin Status
 <2>1. NotMovedYet(h) BY <1>1, <1>2, <1>4, BeforeTheMove
 <2>2. Fresh(h) BY <1>1, <1>4, <2>1 DEF NotMovedYet, Keen, Fresh
 <2>3. QED BY <1>2, <1>4, <2>1, <2>2 DEF Keen, NotMovedYet
<1>5. QED BY <1>3, <1>4

-----------------------------------------------------------------------------
(* A step of one handler. *)

(* The others have nothing to show while the order stays as it is. *)
LEMMA OthersLive ==
  ASSUME LifeInv, NEW k \in Handlers, holder # k, holder' # k, doc' = doc, debit' = debit, Untouched(k)
  PROVE  /\ CallFits(k)'
         /\ "moved" \notin marks =>
              LoadFits(k)' /\ WaiverFits(k)' /\ (Active(k)' => Kept(copy'[k].pricing))
<1>1. CallFits(k)'
 <2>1. CallFits(k) BY DEF LifeInv, CallsInv
 <2>2. QED BY <2>1 DEF Untouched, CallFits, Active, Abandons, AbandonmentFits
<1> SUFFICES ASSUME "moved" \notin marks
             PROVE  LoadFits(k)' /\ WaiverFits(k)' /\ (Active(k)' => Kept(copy'[k].pricing))
  BY <1>1
<1>2. LoadFits(k) /\ WaiverFits(k) /\ (Active(k) => Kept(copy[k].pricing))
  BY DEF LifeInv, LoadsInv, WaiversInv
<1>3. \A which : Keen(k, which)' => Keen(k, which) BY DEF Untouched, Keen, Active, Fresh
<1>4. Loaded(k) => Loaded(k)'
  BY DEF Untouched, Loaded, Repriced, Collecting, Charging, Abandons, AsStored
<1>5. QED BY <1>2, <1>3, <1>4 DEF Untouched, LoadFits, WaiverFits, Abandons, Active

LEMMA OneLives ==
  ASSUME LifeInv, IInv', NEW h \in Handlers, holder \in {h, Nobody}, holder' \in {h, Nobody},
         UNCHANGED <<doc, debit, marks>>, \A k \in Handlers \ {h} : Untouched(k),
         \A s \in Sweeps : listed'[s] => listed[s],
         txDoc'.pricing.waived = doc.pricing.waived,
         CallFits(h)',
         "moved" \notin marks =>
           /\ LoadFits(h)' /\ WaiverFits(h)'
           /\ Kept(txDoc'.pricing) /\ (Active(h)' => Kept(copy'[h].pricing)),
         marks = {} => (Keen(h, {"payment", "fee", "moved"})' /\ holder' = h => Progress(h)')
  PROVE  LifeInv'
<1>0. \A k \in Handlers \ {h} : holder # k /\ holder' # k BY NobodyIsNoHandler
<1>1. ASSUME NEW k \in Handlers, k # h
      PROVE  /\ CallFits(k)'
             /\ "moved" \notin marks =>
                  LoadFits(k)' /\ WaiverFits(k)' /\ (Active(k)' => Kept(copy'[k].pricing))
  BY <1>0, <1>1, OthersLive
<1>2. CallsInv' BY <1>1 DEF CallsInv
<1>3. LoadsInv'
 <2> SUFFICES ASSUME "moved" \notin marks PROVE LoadsInv' BY DEF LoadsInv
 <2>1. ClockFits' BY DEF LifeInv, LoadsInv, ClockFits
 <2>2. QED BY <1>1, <2>1 DEF LifeInv, LoadsInv
<1>4. WaiversInv'
 <2> SUFFICES ASSUME "moved" \notin marks PROVE WaiversInv' BY DEF WaiversInv
 <2>1. \A k \in Handlers : WaiverFits(k)' /\ (Active(k)' => Kept(copy'[k].pricing)) BY <1>1
 <2>2. Kept(doc'.pricing) /\ (doc'.pricing.waived => debit' <= doc'.pricing.consumed)
   BY DEF LifeInv, WaiversInv
 <2>3. QED BY <2>1, <2>2 DEF WaiversInv
<1>5. PricesInv' /\ AbandonedReturnsFee' BY DEF LifeInv, PricesInv, AbandonedReturnsFee
<1>6. SettledInv'
 <2> SUFFICES ASSUME marks = {} PROVE SettledInv' BY DEF SettledInv
 <2>1. MoneyFits(doc)' BY DEF LifeInv, SettledInv
 <2>2. ASSUME NEW k \in Handlers, k # h PROVE holder' # k BY <1>0, <2>2
 <2>3. QED BY <2>1, <2>2 DEF SettledInv
<1>7. QED BY <1>2, <1>3, <1>4, <1>5, <1>6 DEF LifeInv

-----------------------------------------------------------------------------
(* A call begins, and a transaction. *)

(* What a call asks for: the price it has computed, its paths, the amount
   and the steps. *)
Asked(name, pricing, paths, amount, steps) ==
  /\ <<name, doc.status>> \in Finds
  /\ CallOK(name, steps)
  /\ pricing \in Pricing /\ Repriced(name, pricing)
  /\ pricing.consumed = doc.pricing.consumed
  /\ paths \subseteq {"pricing"}
  /\ name \in Handovers =>
       amount = Outstanding(doc) /\ (Contains(steps, Collects) \/ amount = 0)
  /\ name = "abandonUnsettledOrder" =>
       /\ amount = doc.pricing.consumed /\ paths = {}
       /\ Facing(steps, "reverse") \/ amount = 0

LEMMA LoadLives ==
  ASSUME LifeInv, IInv', NEW h \in Handlers, NEW name, NEW first, NEW pricing, NEW paths,
         NEW amount, NEW steps, Load(h, name, first, pricing, paths, amount, steps),
         steps # <<>>, Asked(name, pricing, paths, amount, steps),
         \A s \in Sweeps : listed'[s] => listed[s],
         h \in Sweeps => name = "abandonUnsettledOrder" /\ listed[h]
  PROVE  LifeInv'
<1>0. /\ IInv /\ TypeOK /\ holder = Nobody /\ holder' = Nobody /\ h # Nobody /\ ~Active(h)
      /\ UNCHANGED <<doc, debit, txDoc, marks, carried>>
      /\ txDoc = doc /\ doc \in Document
  BY NobodyIsNoHandler DEF LifeInv, IInv, TypeOK, ScriptsInv, TransactionFits, Load, Active,
                           books, attempt
<1> DEFINE loaded == [doc EXCEPT !.pricing = pricing]
<1>1. /\ loaded.version = doc.version /\ loaded.payment = doc.payment
      /\ loaded.pricing = pricing /\ loaded.deadline = doc.deadline
  BY <1>0 DEF Document
<1> HIDE DEF loaded
<1>2. /\ call' = [call EXCEPT ![h] = name] /\ copy' = [copy EXCEPT ![h] = loaded]
      /\ dirty' = [dirty EXCEPT ![h] = paths] /\ due' = [due EXCEPT ![h] = amount]
      /\ script' = [script EXCEPT ![h] = steps]
  BY DEF Load, loaded
<1>3. /\ call'[h] = name /\ copy'[h] = loaded /\ dirty'[h] = paths /\ due'[h] = amount
      /\ script'[h] = steps /\ carried'[h] = carried[h]
  BY <1>0, <1>2 DEF TypeOK
<1>4. \A k \in Handlers \ {h} : Untouched(k) BY <1>0, <1>2 DEF TypeOK, Untouched
<1>5. carried'[h] = {} BY <1>0, <1>3 DEF LifeInv, CallsInv, CallFits
<1>6. "version" \notin paths /\ "payment" \notin paths BY DEF Asked
<1>7. pricing.waived = doc.pricing.waived BY <1>0, RepricedTotal DEF Asked
<1>8. CallFits(h)'
 <2>1. Abandons(h)' => AbandonmentFits(h)'
   BY <1>0, <1>3, <1>5, <1>6 DEF Asked, Abandons, AbandonmentFits
 <2>2. QED BY <1>0, <1>1, <1>3, <1>7, <2>1 DEF CallFits, Asked, Abandons, Active
<1>9. "moved" \notin marks => LoadFits(h)'
 <2> SUFFICES ASSUME "moved" \notin marks PROVE Loaded(h)' BY <1>0 DEF LoadFits
 <2>1. h \in Sweeps => Outstanding(doc) > 0
  <3> SUFFICES ASSUME h \in Sweeps PROVE Outstanding(doc) > 0 OBVIOUS
  <3>1. doc.status \in Waiting BY WhatCallsFind DEF Asked
  <3>2. doc.status \notin Settled BY <3>1, PhasesApart
  <3>3. QED BY <3>2 DEF LifeInv, LoadsInv, ClockFits
 <2>2. AsStored(h)' BY <1>0, <1>1, <1>3 DEF AsStored, Asked
 <2>3. Repriced(name, pricing)' BY <1>0 DEF Asked, Repriced
 <2>4. QED
   BY <1>0, <1>1, <1>3, <1>6, <2>1, <2>2, <2>3 DEF Loaded, Asked, Abandons, Collecting, Repriced
<1>10. ASSUME "moved" \notin marks
       PROVE  WaiverFits(h)' /\ Kept(txDoc'.pricing) /\ Kept(copy'[h].pricing)
 <2>1. name \in Weighings => doc.pricing.penalty = 0
  <3>1. name \in Weighings => doc.status \in Booked BY WhatCallsFind DEF Asked
  <3>2. QED BY <1>10, <3>1 DEF LifeInv, LoadsInv
 <2>2. Kept(doc.pricing) /\ (doc.pricing.waived => debit <= doc.pricing.consumed)
   BY <1>10 DEF LifeInv, WaiversInv
 <2>3. Kept(pricing) BY <1>0, <2>1, <2>2, RepricedIsKept DEF Asked
 <2>4. copy'[h].pricing.consumed = doc.pricing.consumed BY <1>1, <1>3 DEF Asked
 <2>5. QED BY <1>0, <1>1, <1>3, <2>2, <2>3, <2>4 DEF WaiverFits
<1>11. QED BY <1>0, <1>4, <1>8, <1>9, <1>10, OneLives

LEMMA BeginLives ==
  ASSUME LifeInv, IInv', NEW h \in Handlers, Begin(h)
  PROVE  LifeInv'
<1>0. /\ IInv /\ TypeOK /\ holder = Nobody /\ holder' = h /\ h # Nobody
      /\ Active(h) /\ todo' = script[h]
      /\ UNCHANGED <<doc, recorded, debit, txDoc, txRecorded, txDebit,
                     call, copy, dirty, due, script, carried, listed, mishaps, marks>>
  BY NobodyIsNoHandler DEF LifeInv, IInv, Begin, Active, books, handlers
<1>1. txDoc = doc /\ txRecorded = recorded /\ txDebit = debit
  BY <1>0 DEF IInv, ScriptsInv, TransactionFits
<1>2. CallFits(h) BY DEF LifeInv, CallsInv
<1>3. CallFits(h)'
 <2>1. StepsOf(call[h], script[h]) /\ Within(script[h], script[h])
   BY <1>0, <1>2 DEF CallFits, CallOK, Within
 <2>2. Abandons(h) => AbandonmentFits(h)'
  <3>1. Facing(script[h], "reverse") => Facing(todo', "reverse") BY <1>0
  <3>2. todo' # <<>> BY <1>0 DEF Active
  <3>3. Abandons(h) => AbandonmentFits(h) BY <1>0, <1>2 DEF CallFits
  <3>4. QED BY <1>0, <3>1, <3>2, <3>3 DEF AbandonmentFits
 <2>3. QED BY <1>0, <1>2, <2>1, <2>2 DEF CallFits, Active, Abandons
<1>4. ASSUME "moved" \notin marks, Keen(h, {"moved"})'
      PROVE  Keen(h, {"moved"}) /\ "version" \notin dirty[h]
 <2>1. Keen(h, {"moved"}) BY <1>0, <1>1, <1>4 DEF Keen, Active, Fresh
 <2>2. VersionFits(h) /\ ~MovedOn(h) BY <1>0, <1>4 DEF IInv, VersionsInv, MovedOn
 <2>3. QED BY <2>1, <2>2 DEF Keen, VersionFits, NotMovedYet
<1>5. "moved" \notin marks => LoadFits(h)'
 <2> SUFFICES ASSUME "moved" \notin marks, Keen(h, {"moved"})' PROVE Loaded(h)' /\ Written(h)'
   BY DEF LoadFits
 <2>1. Loaded(h) BY <1>4 DEF LifeInv, LoadsInv, LoadFits
 <2>2. Loaded(h)' BY <1>0, <2>1 DEF Loaded, Repriced, Collecting, Charging, Abandons, AsStored
 <2>3. Written(h)' BY <1>0, <1>1, <1>4 DEF Written, Same, Collecting
 <2>4. QED BY <2>2, <2>3
<1>6. ASSUME "moved" \notin marks
      PROVE  WaiverFits(h)' /\ Kept(txDoc'.pricing) /\ Kept(copy'[h].pricing)
 <2>1. WaiverFits(h) /\ Kept(doc.pricing) /\ Kept(copy[h].pricing)
       /\ (doc.pricing.waived => debit <= doc.pricing.consumed)
   BY <1>0, <1>6 DEF LifeInv, WaiversInv
 <2>2. ASSUME Keen(h, {"moved"})', doc.pricing.waived PROVE Backed(h)'
  <3>1. ~Abandons(h) => debit <= copy[h].pricing.consumed BY <1>4, <1>6, <2>1, <2>2 DEF WaiverFits
  <3>2. Abandons(h) => "pricing" \notin dirty[h] \/ Facing(todo', "reverse")
    BY <1>0, <1>2 DEF CallFits, AbandonmentFits
  <3>3. QED BY <1>0, <1>1, <2>1, <2>2, <3>1, <3>2 DEF Backed, Abandons
 <2>3. ASSUME Keen(h, {"moved"})', doc.pricing.waived, ~Abandons(h)
       PROVE  debit <= copy[h].pricing.consumed
   BY <1>4, <1>6, <2>1, <2>3 DEF WaiverFits
 <2>4. QED BY <1>0, <1>1, <2>1, <2>2, <2>3 DEF WaiverFits, Abandons
<1>7. marks = {} => (Keen(h, {"payment", "fee", "moved"})' => Progress(h)')
 <2> SUFFICES ASSUME marks = {}, Keen(h, {"payment", "fee", "moved"})' PROVE Progress(h)' OBVIOUS
 <2>1. Keen(h, {"payment", "moved"}) BY <1>0, <1>1 DEF Keen, Active, Fresh
 <2>2. copy[h].payment = doc.payment BY <1>0, <2>1 DEF IInv, PaymentInv, PaymentFits
 <2>3. (Contains(todo', Collects) <=> Collecting(h)') /\ (Contains(todo', {"fee"}) <=> Charging(h)')
   BY <1>0 DEF Collecting, Charging
 <2>4. QED BY <1>0, <2>2, <2>3 DEF Progress
<1>8. \A k \in Handlers \ {h} : Untouched(k) BY <1>0 DEF Untouched
<1>9. txDoc'.pricing.waived = doc.pricing.waived BY <1>0, <1>1
<1>10. \A s \in Sweeps : listed'[s] => listed[s] BY <1>0
<1>11. QED BY <1>0, <1>3, <1>5, <1>6, <1>7, <1>8, <1>9, <1>10, OneLives

-----------------------------------------------------------------------------
(* The writes of a transaction. *)

LEMMA BeforeWrite ==
  ASSUME LifeInv, NEW h \in Handlers, NEW step \in Work \cup Status, Doing(h, step)
  PROVE  /\ IInv /\ CallFits(h) /\ Active(h) /\ holder = h /\ holder' = h /\ h # Nobody
         /\ CallOK(call[h], script[h]) /\ StepsOf(call[h], todo)
         /\ todo \in Seq(Work \cup Status) /\ todo # <<>> /\ todo[1] = step /\ todo' = Tail(todo)
         /\ 1 \in 1..Len(todo) /\ Ordered(todo)
         /\ ~Facing(todo', "reverse") /\ (step # "reverse" => ~Facing(todo, "reverse"))
         /\ Abandons(h) => AbandonmentFits(h) /\ step \notin {"fee"} \cup Collects
         /\ step \in Status => <<call[h], step>> \in Reaches
         /\ step \in Collects => Collecting(h)
         /\ step = "fee" => Charging(h)
         /\ step = "reverse" => Facing(script[h], "reverse") /\ Abandons(h)
<1>1. IInv /\ CallFits(h) BY DEF LifeInv, CallsInv
<1>2. /\ Active(h) /\ holder = h /\ holder' = h /\ h # Nobody
      /\ todo \in Seq(Work \cup Status) /\ todo # <<>> /\ todo[1] = step /\ todo' = Tail(todo)
      /\ OfItsCall(h, todo) /\ Ordered(todo)
  BY <1>1, BeforeStep
<1>3. 1 \in 1..Len(todo) BY <1>2, LengthOfSteps
<1>4. /\ CallOK(call[h], script[h]) /\ StepsOf(call[h], todo) /\ Within(todo, script[h])
      /\ Abandons(h) => AbandonmentFits(h)
  BY <1>1, <1>2 DEF CallFits
<1>5. (Abandons(h) => step \notin {"fee"} \cup Collects) /\ (step = "reverse" => Abandons(h))
  BY <1>2, <1>3 DEF OfItsCall
<1>6. step \in Status => <<call[h], step>> \in Reaches BY <1>2, <1>3, <1>4 DEF StepsOf
<1>7. script[h] \in Seq(Work \cup Status) /\ Ordered(script[h])
  BY <1>1 DEF IInv, TypeOK, ScriptsInv, ScriptFits
<1>8. /\ step \in Collects => Collecting(h)
      /\ step = "fee" => Charging(h)
      /\ step = "reverse" => Facing(script[h], "reverse")
  BY <1>2, <1>4, <1>7, NextOfScript DEF Collecting, Charging
<1>9. ~Facing(todo', "reverse") /\ (step # "reverse" => ~Facing(todo, "reverse"))
 <2>1. ~Facing(Tail(todo), "reverse") BY <1>2, RestIsOrdered
 <2>2. QED BY <1>2, <2>1 DEF Facing
<1>10. QED BY <1>1, <1>2, <1>3, <1>4, <1>5, <1>6, <1>8, <1>9

LEMMA WriteLives ==
  ASSUME LifeInv, IInv', NEW h \in Handlers, NEW step \in Work \cup Status, Doing(h, step), Writes(h),
         txDoc'.pricing.waived = doc.pricing.waived,
         copy'[h].pricing.waived = copy[h].pricing.waived,
         "version" \notin dirty'[h] => dirty'[h] \subseteq {"payment", "pricing"},
         IF step \in Status THEN Accepts(h, step) /\ copy'[h].status = step
         ELSE copy'[h].status = copy[h].status /\ ("version" \in dirty'[h] => "version" \in dirty[h]),
         step \notin {"fee"} \cup Collects =>
           /\ due'[h] = due[h]
           /\ step # "reverse" =>
                /\ copy'[h].pricing.consumed = copy[h].pricing.consumed
                /\ "pricing" \in dirty'[h] => "pricing" \in dirty[h]
           /\ step = "reverse" => copy'[h].pricing.consumed = 0,
         "moved" \notin marks =>
           LoadFits(h)' /\ WaiverFits(h)' /\ Kept(txDoc'.pricing) /\ Kept(copy'[h].pricing),
         marks = {} => (Keen(h, {"payment", "fee", "moved"})' => Progress(h)')
  PROVE  LifeInv'
<1>1. /\ IInv /\ CallFits(h) /\ Active(h) /\ holder = h /\ holder' = h /\ h # Nobody
      /\ StepsOf(call[h], todo)
      /\ todo \in Seq(Work \cup Status) /\ todo # <<>> /\ todo[1] = step /\ todo' = Tail(todo)
      /\ Abandons(h) => AbandonmentFits(h) /\ step \notin {"fee"} \cup Collects
      /\ step \in Status => <<call[h], step>> \in Reaches
      /\ step = "reverse" => Facing(script[h], "reverse") /\ Abandons(h)
  BY BeforeWrite
<1>2. call'[h] = call[h] /\ script'[h] = script[h] /\ carried'[h] = carried[h] /\ doc' = doc
  BY DEF Writes
<1>3. Within(todo, script[h]) BY <1>1 DEF CallFits
<1>4. StepsOf(call[h], todo') /\ Within(todo', script[h]) BY <1>1, <1>3, RestOfSteps
<1>5. ASSUME Abandons(h) PROVE AbandonmentFits(h)'
 <2>0. AbandonmentFits(h) /\ due'[h] = due[h] BY <1>1, <1>5
 <2>1. ~Facing(script[h], "reverse") => due'[h] = 0 /\ "pricing" \notin dirty'[h]
   BY <1>1, <1>5, <2>0 DEF AbandonmentFits
 <2>2. step \in Status => step = "abandoned_unsettled" /\ copy[h].status # "abandoned_unsettled"
  <3> SUFFICES ASSUME step \in Status
               PROVE  step = "abandoned_unsettled" /\ copy[h].status # "abandoned_unsettled"
    OBVIOUS
  <3>1. step = "abandoned_unsettled" BY <1>1, <1>5, WhatCallsReach DEF Abandons
  <3>2. <<copy[h].status, step>> \in Edge /\ copy[h].status \in Status
    BY <1>1, CopyOfHandler, DocumentFields DEF Accepts
  <3>3. copy[h].status # step BY <3>1, <3>2, EdgesOfThePhases
  <3>4. QED BY <3>1, <3>3
 <2>3. \/ copy'[h].status = "abandoned_unsettled"
       \/ "moved" \notin carried[h] /\ "version" \notin dirty'[h]
   BY <2>0, <2>2 DEF AbandonmentFits
 <2>4. "moved" \in carried[h] => todo' # <<>>
  <3>1. step \in Status => "moved" \notin carried[h] BY <2>0, <2>2 DEF AbandonmentFits
  <3>2. EndsInMove(todo) BY <1>1, BeforeStep
  <3>3. todo' = <<>> => step \in Status BY <1>1, <3>2, RestEndsInMove
  <3>4. QED BY <3>1, <3>3
 <2>5. Facing(script[h], "reverse") => copy'[h].pricing.consumed = 0
   BY <1>1, <1>5, <2>0 DEF AbandonmentFits, Facing
 <2>6. QED BY <1>1, <1>2, <2>1, <2>3, <2>4, <2>5 DEF AbandonmentFits
<1>6. CallFits(h)' BY <1>1, <1>2, <1>4, <1>5 DEF CallFits, Abandons, Active
<1>7. UNCHANGED <<doc, debit, marks>> /\ (\A k \in Handlers \ {h} : Untouched(k))
      /\ (\A s \in Sweeps : listed'[s] => listed[s])
  BY DEF Writes
<1>8. QED BY <1>1, <1>6, <1>7, OneLives

(* A step that is no collection and no fee is no progress in either. *)
LEMMA SameProgress ==
  ASSUME LifeInv, NEW h \in Handlers, NEW step \in Work \cup Status, Doing(h, step), Writes(h),
         step \notin {"fee"} \cup Collects, Progress(h),
         copy'[h].payment = copy[h].payment, copy'[h].pricing = copy[h].pricing
  PROVE  Progress(h)'
<1>1. /\ todo \in Seq(Work \cup Status) /\ todo # <<>> /\ todo[1] = step /\ todo' = Tail(todo)
      /\ doc' = doc /\ script'[h] = script[h]
  BY BeforeWrite DEF Writes
<1>2. /\ Contains(todo', Collects) <=> Contains(todo, Collects)
      /\ Contains(todo', {"fee"}) <=> Contains(todo, {"fee"})
  BY <1>1, RestOfSteps
<1>3. QED BY <1>1, <1>2 DEF Progress, Collecting, Charging, Charged

LEMMA SaveLives ==
  ASSUME LifeInv, IInv', NEW h \in Handlers, Save(h)
  PROVE  LifeInv'
<1>0. /\ Doing(h, "save") /\ Writes(h) /\ txDebit' = txDebit
      /\ copy'[h] = copy[h] /\ due'[h] = due[h] /\ dirty'[h] = {}
      /\ txDoc'.status = IF "status" \in dirty[h] THEN copy[h].status ELSE txDoc.status
      /\ txDoc'.version = IF "version" \in dirty[h] THEN copy[h].version ELSE txDoc.version
      /\ txDoc'.deadline = IF "deadline" \in dirty[h] THEN copy[h].deadline ELSE txDoc.deadline
      /\ txDoc'.payment = IF "payment" \in dirty[h] THEN copy[h].payment ELSE txDoc.payment
      /\ txDoc'.pricing = IF "pricing" \in dirty[h] THEN copy[h].pricing ELSE txDoc.pricing
  BY SaveDoes DEF LifeInv
<1>1. /\ IInv /\ CallFits(h) /\ Active(h) /\ holder = h /\ holder' = h
      /\ ~Facing(todo, "reverse") /\ ~Facing(todo', "reverse")
 <2>1. Doing(h, "save") /\ "save" # "reverse" /\ "save" \in Work \cup Status BY <1>0 DEF Work
 <2>2. QED BY <2>1, BeforeWrite
<1>2. /\ "save" \notin Status /\ "save" \notin {"fee"} \cup Collects
      /\ "save" \in Work \cup Status /\ "save" # "reverse"
  BY WorkIsNoStatus DEF Collects, Work
<1>3. /\ call'[h] = call[h] /\ script'[h] = script[h] /\ carried'[h] = carried[h]
      /\ doc' = doc /\ debit' = debit /\ marks' = marks
  BY <1>0 DEF Writes
<1>4. ASSUME "moved" \notin marks, NEW which, "moved" \in which, Keen(h, which)'
      PROVE  /\ Keen(h, which) /\ "version" \notin dirty[h]
             /\ dirty[h] \subseteq {"payment", "pricing"}
 <2>1. Keen(h, which) /\ "version" \notin dirty[h] BY <1>0, <1>1, <1>2, <1>4, KeenBefore
 <2>2. QED BY <1>1, <2>1 DEF CallFits
<1>5. "moved" \notin marks => LoadFits(h)'
 <2> SUFFICES ASSUME "moved" \notin marks, Keen(h, {"moved"})' PROVE Loaded(h)' /\ Written(h)'
   BY DEF LoadFits
 <2>1. Keen(h, {"moved"}) /\ "version" \notin dirty[h] /\ dirty[h] \subseteq {"payment", "pricing"}
   BY <1>4
 <2>2. Loaded(h) /\ Written(h) BY <1>1, <2>1 DEF LifeInv, LoadsInv, LoadFits
 <2>3. Loaded(h)'
   BY <1>0, <1>3, <2>1, <2>2 DEF Loaded, Repriced, Collecting, Charging, Abandons, AsStored
 <2>4. txDoc'.status = txDoc.status /\ txDoc'.deadline = txDoc.deadline BY <1>0, <2>1
 <2>5. ~Collecting(h) => txDoc'.payment = doc.payment BY <1>0, <2>2 DEF Loaded, Written
 <2>6. Same(txDoc'.pricing, doc.pricing) \/ Same(txDoc'.pricing, copy[h].pricing)
   BY <1>0, <2>2 DEF Written, Same
 <2>7. Written(h)' BY <1>0, <1>3, <2>1, <2>2, <2>4, <2>5, <2>6 DEF Written, Collecting
 <2>8. QED BY <2>3, <2>7
<1>6. ASSUME "moved" \notin marks
      PROVE  WaiverFits(h)' /\ Kept(txDoc'.pricing) /\ Kept(copy'[h].pricing)
 <2>1. WaiverFits(h) /\ Kept(txDoc.pricing) /\ Kept(copy[h].pricing)
   BY <1>1, <1>6 DEF LifeInv, WaiversInv
 <2>2. Kept(txDoc'.pricing) BY <1>0, <2>1
 <2>3. ASSUME Keen(h, {"moved"})', doc.pricing.waived
       PROVE  Backed(h)' /\ (~Abandons(h) => debit <= copy[h].pricing.consumed)
  <3>1. Backed(h) /\ (~Abandons(h) => debit <= copy[h].pricing.consumed)
    BY <1>1, <1>4, <1>6, <2>1, <2>3 DEF WaiverFits
  <3>2. txDebit' <= txDoc'.pricing.consumed BY <1>0, <1>1, <3>1 DEF Backed
  <3>3. QED BY <1>0, <1>1, <1>3, <3>1, <3>2 DEF Backed, Abandons
 <2>4. QED BY <1>0, <1>3, <2>1, <2>2, <2>3 DEF WaiverFits, Abandons
<1>7. marks = {} => (Keen(h, {"payment", "fee", "moved"})' => Progress(h)')
 <2> SUFFICES ASSUME marks = {}, Keen(h, {"payment", "fee", "moved"})' PROVE Progress(h)' OBVIOUS
 <2>1. Progress(h) BY <1>1, <1>4 DEF LifeInv, SettledInv
 <2>2. QED BY <1>0, <1>2, <2>1, SameProgress
<1>8. txDoc'.pricing.waived = doc.pricing.waived BY <1>0, <1>1 DEF LifeInv, CallsInv, CallFits
<1>9. QED BY <1>0, <1>2, <1>5, <1>6, <1>7, <1>8, WriteLives

(* A collection takes what is left of the price, and takes it once. *)
LEMMA CollectionSettles ==
  ASSUME LifeInv, marks = {}, NEW h \in Handlers, NEW step \in Collects, Doing(h, step),
         Keen(h, {"payment", "fee", "moved"}),
         NEW amount \in Nat, amount = IF step = "collectDue" THEN due[h] ELSE Outstanding(copy[h])
  PROVE  copy[h].payment + amount = copy[h].pricing.total
<1>0. step \in Work \cup Status BY DEF Work, Collects
<1>1. /\ IInv /\ holder = h /\ StepsOf(call[h], todo) /\ todo[1] = step /\ 1 \in 1..Len(todo)
  BY <1>0, BeforeWrite
<1>2. Contains(todo, Collects) BY <1>1 DEF Contains
<1>3. copy[h].payment = doc.payment BY <1>1, <1>2 DEF LifeInv, SettledInv, Progress
<1>4. Loaded(h) /\ MoneyFits(doc) BY DEF LifeInv, LoadsInv, LoadFits, SettledInv, Keen
<1>5. /\ doc \in Document /\ doc.payment \in Nat /\ doc.pricing.total \in Nat
      /\ copy[h].pricing.total \in Nat /\ due[h] \in Nat
  BY <1>1, OrderOfBooks, CopyOfHandler
<1>6. doc.payment <= doc.pricing.total BY <1>4 DEF MoneyFits
<1>7. CASE step = "collectDue"
 <2>1. call[h] \in Handovers BY <1>1, <1>7 DEF StepsOf
 <2>2. Same(copy[h].pricing, doc.pricing) /\ due[h] = Outstanding(doc)
   BY <1>4, <1>5, <2>1, CallsApart, RepricedTotal DEF Loaded
 <2>3. copy[h].pricing.total = doc.pricing.total BY <2>2 DEF Same
 <2>4. amount = Max0(doc.pricing.total - doc.payment) BY <1>7, <2>2 DEF Outstanding
 <2>5. QED BY <1>3, <1>5, <1>6, <2>3, <2>4 DEF Max0
<1>8. CASE step = "collectOutstanding"
 <2>1. call[h] \in {"recordPickupPayment", "receiveAtCounter"} BY <1>1, <1>8 DEF StepsOf
 <2>2. doc.payment <= copy[h].pricing.total
  <3>1. CASE call[h] = "recordPickupPayment"
   <4>1. call[h] \notin Weighings \cup {"respondToQualityHold"} BY <3>1, CallsApart
   <4>2. Same(copy[h].pricing, doc.pricing) BY <1>4, <1>5, <4>1, RepricedTotal DEF Loaded
   <4>3. QED BY <1>6, <4>2 DEF Same
  <3>2. CASE call[h] = "receiveAtCounter"
   <4>1. doc.status \in Booked BY <1>4, <3>2, WhatCallsFind, CallsApart DEF Loaded
   <4>2. QED BY <1>4, <1>5, <4>1 DEF MoneyFits
  <3>3. QED BY <2>1, <3>1, <3>2
 <2>3. amount = Max0(copy[h].pricing.total - doc.payment) BY <1>3, <1>8 DEF Outstanding
 <2>4. QED BY <1>3, <1>5, <2>2, <2>3 DEF Max0
<1>9. QED BY <1>7, <1>8 DEF Collects

LEMMA CollectionLives ==
  ASSUME LifeInv, IInv', NEW h \in Handlers, NEW step \in Collects, Doing(h, step),
         NEW amount \in Nat, amount = IF step = "collectDue" THEN due[h] ELSE Outstanding(copy[h]),
         CollectOn(h, amount)
  PROVE  LifeInv'
<1>0. /\ Writes(h) /\ txDebit' = txDebit /\ txDoc' = txDoc
      /\ copy'[h].status = copy[h].status /\ copy'[h].version = copy[h].version
      /\ copy'[h].deadline = copy[h].deadline /\ copy'[h].pricing = copy[h].pricing
      /\ copy'[h].payment = copy[h].payment + amount
      /\ due'[h] = amount /\ dirty'[h] = dirty[h] \cup {"payment"}
  BY CollectDoes DEF LifeInv
<1>1. /\ step \in Work \cup Status /\ step \notin Status /\ step \in {"fee"} \cup Collects
      /\ step # "reverse" /\ step # "save"
  BY WorkIsNoStatus DEF Collects, Work
<1>2. /\ IInv /\ CallFits(h) /\ Active(h) /\ holder = h /\ holder' = h
      /\ StepsOf(call[h], todo) /\ 1 \in 1..Len(todo)
      /\ todo \in Seq(Work \cup Status) /\ todo # <<>> /\ todo[1] = step /\ todo' = Tail(todo)
      /\ ~Facing(todo, "reverse") /\ ~Facing(todo', "reverse")
      /\ ~Abandons(h) /\ Collecting(h)
  BY <1>1, BeforeWrite
<1>3. /\ call'[h] = call[h] /\ script'[h] = script[h] /\ carried'[h] = carried[h]
      /\ doc' = doc /\ debit' = debit /\ marks' = marks
  BY <1>0 DEF Writes
<1>4. ASSUME "moved" \notin marks, NEW which, "moved" \in which, Keen(h, which)'
      PROVE  Keen(h, which)
  BY <1>0, <1>1, <1>2, <1>4, KeenBefore
<1>5. "moved" \notin marks => LoadFits(h)'
 <2> SUFFICES ASSUME "moved" \notin marks, Keen(h, {"moved"})' PROVE Loaded(h)' /\ Written(h)'
   BY DEF LoadFits
 <2>1. Loaded(h) /\ Written(h) BY <1>2, <1>4 DEF LifeInv, LoadsInv, LoadFits
 <2>2. call[h] \in Handovers => step = "collectDue"
  <3>1. step = "collectOutstanding" => call[h] \in {"recordPickupPayment", "receiveAtCounter"}
    BY <1>2 DEF StepsOf
  <3>2. QED BY <3>1 DEF Collects, Handovers
 <2>3. Collecting(h)' /\ ~Abandons(h)' BY <1>2, <1>3 DEF Collecting, Abandons
 <2>4. Loaded(h)'
  <3>1. <<call[h], doc.status>>' \in Finds /\ Repriced(call[h], copy[h].pricing)'
    BY <1>0, <1>3, <2>1 DEF Loaded, Repriced
  <3>2. call'[h] \in Handovers => due'[h] = Outstanding(doc') BY <1>0, <1>3, <2>1, <2>2 DEF Loaded
  <3>3. (~Charging(h) => AsStored(h))' BY <1>0, <1>2, <1>3, <2>1 DEF Loaded, Charging, AsStored
  <3>4. /\ "version" \notin dirty'[h] => (copy'[h].deadline = "none" <=> doc'.deadline = "none")
        /\ h \in Sweeps => Outstanding(doc') > 0
    BY <1>0, <1>3, <2>1 DEF Loaded
  <3>5. QED BY <2>3, <3>1, <3>2, <3>3, <3>4 DEF Loaded
 <2>5. Written(h)' BY <1>0, <1>3, <2>1, <2>3 DEF Written
 <2>6. QED BY <2>4, <2>5
<1>6. ASSUME "moved" \notin marks
      PROVE  WaiverFits(h)' /\ Kept(txDoc'.pricing) /\ Kept(copy'[h].pricing)
 <2>1. WaiverFits(h) /\ Kept(txDoc.pricing) /\ Kept(copy[h].pricing)
   BY <1>2, <1>6 DEF LifeInv, WaiversInv
 <2>2. ASSUME Keen(h, {"moved"})', doc.pricing.waived
       PROVE  Backed(h)' /\ debit <= copy[h].pricing.consumed
  <3>1. Backed(h) /\ debit <= copy[h].pricing.consumed
    BY <1>2, <1>4, <1>6, <2>1, <2>2 DEF WaiverFits
  <3>2. txDebit <= txDoc.pricing.consumed BY <1>1, <1>2, <3>1 DEF Backed, Facing
  <3>3. txDebit <= copy[h].pricing.consumed BY <1>2, <3>1 DEF Backed
  <3>4. QED BY <1>0, <1>2, <1>3, <3>1, <3>2, <3>3 DEF Backed
 <2>3. QED BY <1>0, <1>3, <2>1, <2>2 DEF WaiverFits
<1>7. marks = {} => (Keen(h, {"payment", "fee", "moved"})' => Progress(h)')
 <2> SUFFICES ASSUME marks = {}, Keen(h, {"payment", "fee", "moved"})' PROVE Progress(h)' OBVIOUS
 <2>1. Keen(h, {"payment", "fee", "moved"}) BY <1>4
 <2>2. Progress(h) BY <1>2, <2>1 DEF LifeInv, SettledInv
 <2>3. copy'[h].payment = copy'[h].pricing.total BY <1>0, <2>1, CollectionSettles
 <2>4. /\ ~Contains(todo', Collects)
       /\ Contains(todo', {"fee"}) <=> Contains(todo, {"fee"})
  <3>1. ~Contains(todo', Collects) BY <1>2, RestOfSteps
  <3>2. Contains(todo, {"fee"}) <=> step \in {"fee"} \/ Contains(todo', {"fee"})
    BY <1>2, RestOfSteps
  <3>3. QED BY <3>1, <3>2 DEF Collects
 <2>5. Collecting(h)' BY <1>2, <1>3 DEF Collecting
 <2>6. (Charging(h) /\ ~Contains(todo, {"fee"}) => Charged(h))'
   BY <1>0, <1>3, <2>2, <2>4 DEF Progress, Charging, Charged
 <2>7. QED BY <2>3, <2>4, <2>5, <2>6 DEF Progress
<1>8. txDoc'.pricing.waived = doc.pricing.waived BY <1>0 DEF LifeInv, CallsInv
<1>9. "version" \notin dirty'[h] => dirty'[h] \subseteq {"payment", "pricing"}
  BY <1>0, <1>2 DEF CallFits
<1>10. QED BY <1>0, <1>1, <1>5, <1>6, <1>7, <1>8, <1>9, WriteLives

LEMMA RowLives ==
  ASSUME LifeInv, IInv', NEW h \in Handlers, Row(h)
  PROVE  LifeInv'
<1>0. /\ Doing(h, "row") /\ Writes(h) /\ txDebit' = txDebit /\ txDoc' = txDoc
      /\ copy'[h] = copy[h] /\ due'[h] = due[h] /\ dirty'[h] = dirty[h]
  BY RowDoes DEF LifeInv
<1>1. /\ "row" \in Work \cup Status /\ "row" \notin Status /\ "row" \notin {"fee"} \cup Collects
      /\ "row" # "reverse" /\ "row" # "save"
  BY WorkIsNoStatus DEF Collects, Work
<1>2. /\ IInv /\ CallFits(h) /\ Active(h) /\ holder = h /\ holder' = h
      /\ todo # <<>> /\ todo[1] = "row"
      /\ ~Facing(todo, "reverse") /\ ~Facing(todo', "reverse")
  BY <1>0, <1>1, BeforeWrite
<1>3. /\ call'[h] = call[h] /\ script'[h] = script[h] /\ carried'[h] = carried[h]
      /\ doc' = doc /\ debit' = debit /\ marks' = marks
  BY <1>0 DEF Writes
<1>4. ASSUME "moved" \notin marks, NEW which, "moved" \in which, Keen(h, which)'
      PROVE  Keen(h, which)
  BY <1>0, <1>1, <1>2, <1>4, KeenBefore
<1>5. "moved" \notin marks => LoadFits(h)'
 <2> SUFFICES ASSUME "moved" \notin marks, Keen(h, {"moved"})' PROVE Loaded(h)' /\ Written(h)'
   BY DEF LoadFits
 <2>1. Loaded(h) /\ Written(h) BY <1>2, <1>4 DEF LifeInv, LoadsInv, LoadFits
 <2>2. Loaded(h)' BY <1>0, <1>3, <2>1 DEF Loaded, Repriced, Collecting, Charging, Abandons, AsStored
 <2>3. Written(h)' BY <1>0, <1>3, <2>1 DEF Written, Collecting
 <2>4. QED BY <2>2, <2>3
<1>6. ASSUME "moved" \notin marks
      PROVE  WaiverFits(h)' /\ Kept(txDoc'.pricing) /\ Kept(copy'[h].pricing)
 <2>1. WaiverFits(h) /\ Kept(txDoc.pricing) /\ Kept(copy[h].pricing)
   BY <1>2, <1>6 DEF LifeInv, WaiversInv
 <2>2. ASSUME Keen(h, {"moved"})', doc.pricing.waived
       PROVE  Backed(h)' /\ (~Abandons(h) => debit <= copy[h].pricing.consumed)
  <3>1. Backed(h) /\ (~Abandons(h) => debit <= copy[h].pricing.consumed)
    BY <1>2, <1>4, <1>6, <2>1, <2>2 DEF WaiverFits
  <3>2. txDebit <= txDoc.pricing.consumed BY <1>1, <1>2, <3>1 DEF Backed, Facing
  <3>3. QED BY <1>0, <1>2, <1>3, <3>1, <3>2 DEF Backed, Abandons
 <2>3. QED BY <1>0, <1>3, <2>1, <2>2 DEF WaiverFits, Abandons
<1>7. marks = {} => (Keen(h, {"payment", "fee", "moved"})' => Progress(h)')
 <2> SUFFICES ASSUME marks = {}, Keen(h, {"payment", "fee", "moved"})' PROVE Progress(h)' OBVIOUS
 <2>1. Progress(h) BY <1>2, <1>4 DEF LifeInv, SettledInv
 <2>2. QED BY <1>0, <1>1, <2>1, SameProgress
<1>8. /\ txDoc'.pricing.waived = doc.pricing.waived
      /\ "version" \notin dirty'[h] => dirty'[h] \subseteq {"payment", "pricing"}
  BY <1>0, <1>2 DEF LifeInv, CallsInv, CallFits
<1>9. QED BY <1>0, <1>1, <1>5, <1>6, <1>7, <1>8, WriteLives

LEMMA ChargeLives ==
  ASSUME LifeInv, IInv', NEW h \in Handlers, NEW step \in {"fee", "reverse"}, Doing(h, step),
         NEW amount \in Int, NEW consumed \in Nat, Charge(h, amount, consumed),
         step = "fee" =>
           /\ consumed = Chargeable(copy[h].pricing)
           /\ amount = consumed - copy[h].pricing.consumed,
         step = "reverse" => consumed = 0 /\ amount = 0 - due[h]
  PROVE  LifeInv'
<1>0. /\ Writes(h) /\ txDebit' = txDebit + amount /\ txDoc' = txDoc
      /\ copy'[h].status = copy[h].status /\ copy'[h].version = copy[h].version
      /\ copy'[h].deadline = copy[h].deadline /\ copy'[h].payment = copy[h].payment
      /\ Same(copy'[h].pricing, copy[h].pricing) /\ copy'[h].pricing.consumed = consumed
      /\ due'[h] = due[h]
      /\ dirty'[h] = IF amount = 0 THEN dirty[h] ELSE dirty[h] \cup {"pricing"}
  BY ChargeDoes DEF LifeInv
<1>1. /\ step \in Work \cup Status /\ step \notin Status /\ step \notin Collects /\ step # "save"
  BY WorkIsNoStatus DEF Collects, Work
<1>2. /\ IInv /\ CallFits(h) /\ Active(h) /\ holder = h /\ holder' = h
      /\ todo \in Seq(Work \cup Status) /\ todo # <<>> /\ todo[1] = step /\ todo' = Tail(todo)
      /\ Ordered(todo) /\ ~Facing(todo', "reverse")
      /\ step = "fee" => ~Abandons(h) /\ Charging(h) /\ ~Facing(todo, "reverse")
      /\ step = "reverse" => Abandons(h)
  BY <1>1, BeforeWrite
<1>3. /\ call'[h] = call[h] /\ script'[h] = script[h] /\ carried'[h] = carried[h]
      /\ doc' = doc /\ debit' = debit /\ marks' = marks
  BY <1>0 DEF Writes
<1>4. ASSUME "moved" \notin marks, NEW which, "moved" \in which, Keen(h, which)'
      PROVE  Keen(h, which)
 <2>1. "version" \notin dirty[h] => txDoc'.version = txDoc.version BY <1>0
 <2>2. QED BY <1>0, <1>1, <1>2, <1>4, <2>1, KeenBefore
<1>5. "moved" \notin marks => LoadFits(h)'
 <2> SUFFICES ASSUME "moved" \notin marks, Keen(h, {"moved"})' PROVE Loaded(h)' /\ Written(h)'
   BY DEF LoadFits
 <2>1. Loaded(h) /\ Written(h) BY <1>2, <1>4 DEF LifeInv, LoadsInv, LoadFits
 <2>2. \A r : Same(copy[h].pricing, r) => Same(copy'[h].pricing, r) BY <1>0 DEF Same
 <2>3. Repriced(call[h], copy[h].pricing)' BY <1>3, <2>1, <2>2 DEF Loaded, Repriced
 <2>4. Charging(h)' \/ Abandons(h)' BY <1>2, <1>3 DEF Charging, Abandons
 <2>5. /\ "version" \in dirty'[h] <=> "version" \in dirty[h]
       /\ "payment" \in dirty'[h] <=> "payment" \in dirty[h]
   BY <1>0
 <2>6. Loaded(h)' BY <1>0, <1>3, <2>1, <2>3, <2>4, <2>5 DEF Loaded, Collecting, Abandons
 <2>7. Same(txDoc.pricing, copy[h].pricing) => Same(txDoc.pricing, copy'[h].pricing)
   BY <1>0 DEF Same
 <2>8. Written(h)' BY <1>0, <1>3, <2>1, <2>5, <2>7 DEF Written, Collecting
 <2>9. QED BY <2>6, <2>8
<1>6. ASSUME "moved" \notin marks
      PROVE  WaiverFits(h)' /\ Kept(txDoc'.pricing) /\ Kept(copy'[h].pricing)
 <2>0. /\ copy[h].pricing.consumed \in Nat /\ Chargeable(copy[h].pricing) \in Nat /\ due[h] \in Nat
       /\ txDebit \in Int /\ debit \in Int /\ doc.pricing.consumed \in Nat
       /\ txDoc.pricing.consumed \in Nat /\ copy[h].pricing.penalty \in Nat
   BY <1>2, CopyOfHandler, OrderOfBooks
 <2>1. /\ WaiverFits(h) /\ Kept(txDoc.pricing) /\ Kept(copy[h].pricing)
       /\ doc.pricing.waived => debit <= doc.pricing.consumed
   BY <1>2, <1>6 DEF LifeInv, WaiversInv
 <2>2. /\ Chargeable(copy'[h].pricing) = Chargeable(copy[h].pricing)
       /\ copy'[h].pricing.waived = copy[h].pricing.waived
       /\ copy'[h].pricing.penalty = copy[h].pricing.penalty
   BY <1>0, SamePrice DEF Same
 <2>3. consumed <= Chargeable(copy[h].pricing) BY <2>0
 <2>4. Kept(copy'[h].pricing) BY <1>0, <2>0, <2>1, <2>2, <2>3 DEF Kept
 <2>5. ASSUME Keen(h, {"moved"})', doc.pricing.waived
       PROVE  Backed(h)' /\ (~Abandons(h) => debit <= consumed)
  <3>1. /\ Loaded(h) /\ Backed(h)
        /\ ~Abandons(h) => debit <= copy[h].pricing.consumed
    BY <1>2, <1>4, <1>6, <2>1, <2>5 DEF WaiverFits, LifeInv, LoadsInv, LoadFits
  <3>2. txDebit <= txDoc.pricing.consumed BY <1>1, <1>2, <3>1 DEF Backed, Facing
  <3>3. txDebit' <= consumed /\ (~Abandons(h) => debit <= consumed)
   <4>1. CASE step = "fee"
    <5>1. txDebit <= copy[h].pricing.consumed /\ debit <= copy[h].pricing.consumed
      BY <1>2, <3>1, <4>1 DEF Backed
    <5>2. copy[h].pricing.consumed <= consumed BY <1>2, <2>1, <2>5, <4>1 DEF Kept, CallFits
    <5>3. QED BY <1>0, <2>0, <4>1, <5>1, <5>2
   <4>2. CASE step = "reverse"
    <5>1. Facing(todo, "reverse") /\ Abandons(h) BY <1>2, <4>2 DEF Facing
    <5>2. txDebit = debit /\ due[h] = doc.pricing.consumed BY <3>1, <5>1 DEF Backed, Loaded
    <5>3. QED BY <1>0, <2>0, <2>1, <2>5, <4>2, <5>1, <5>2
   <4>3. QED BY <4>1, <4>2
  <3>4. Facing(todo', "save") BY <1>2, RowOfRest
  <3>5. txDebit' <= txDoc'.pricing.consumed \/ ("pricing" \in dirty'[h] /\ Facing(todo', "save"))
   <4>1. CASE amount = 0 BY <1>0, <2>0, <3>2, <4>1
   <4>2. CASE amount # 0 BY <1>0, <3>4, <4>2
   <4>3. QED BY <4>1, <4>2
  <3>6. QED BY <1>0, <1>2, <3>3, <3>5 DEF Backed
 <2>6. QED BY <1>0, <1>3, <2>1, <2>4, <2>5 DEF WaiverFits, Abandons
<1>7. marks = {} => (Keen(h, {"payment", "fee", "moved"})' => Progress(h)')
 <2> SUFFICES ASSUME marks = {}, Keen(h, {"payment", "fee", "moved"})' PROVE Progress(h)' OBVIOUS
 <2>1. Progress(h) BY <1>2, <1>4 DEF LifeInv, SettledInv
 <2>2. Contains(todo', Collects) <=> Contains(todo, Collects) BY <1>1, <1>2, RestOfSteps
 <2>3. copy'[h].pricing.total = copy[h].pricing.total BY <1>0 DEF Same
 <2>4. (Charging(h) => Charged(h))'
  <3>1. CASE step = "fee" BY <1>0, <3>1, SamePrice DEF Charged
  <3>2. CASE step = "reverse"
   <4>1. script'[h] = script[h] /\ OfItsCall(h, script[h]) /\ Abandons(h)
     BY <1>2, <1>3, <3>2 DEF IInv, ScriptsInv, ScriptFits
   <4>2. QED BY <4>1 DEF OfItsCall, Charging, Contains
  <3>3. QED BY <3>1, <3>2
 <2>5. QED BY <1>0, <1>3, <2>1, <2>2, <2>3, <2>4 DEF Progress, Collecting
<1>8. /\ txDoc'.pricing.waived = doc.pricing.waived
      /\ copy'[h].pricing.waived = copy[h].pricing.waived
      /\ "version" \notin dirty'[h] => dirty'[h] \subseteq {"payment", "pricing"}
      /\ "version" \in dirty'[h] => "version" \in dirty[h]
  BY <1>0, <1>2 DEF LifeInv, CallsInv, CallFits, Same
<1>9. step \notin {"fee"} \cup Collects =>
        /\ due'[h] = due[h]
        /\ step # "reverse" =>
             /\ copy'[h].pricing.consumed = copy[h].pricing.consumed
             /\ "pricing" \in dirty'[h] => "pricing" \in dirty[h]
        /\ step = "reverse" => copy'[h].pricing.consumed = 0
  BY <1>0
<1>10. QED BY <1>0, <1>1, <1>5, <1>6, <1>7, <1>8, <1>9, WriteLives

LEMMA MoveLives ==
  ASSUME LifeInv, IInv', NEW h \in Handlers, Move(h)
  PROVE  LifeInv'
<1>0. PICK to \in Status :
      /\ Doing(h, to) /\ Accepts(h, to) /\ Writes(h) /\ txDebit' = txDebit
      /\ copy'[h].status = to /\ copy'[h].deadline = Stamped(copy[h], to)
      /\ copy'[h].payment = copy[h].payment /\ copy'[h].pricing = copy[h].pricing
      /\ txDoc'.status = to
      /\ txDoc'.deadline = IF to \in Waiting \/ copy[h].deadline # "none"
                           THEN Stamped(copy[h], to) ELSE txDoc.deadline
      /\ txDoc'.payment = txDoc.payment /\ txDoc'.pricing = txDoc.pricing
      /\ due'[h] = due[h] /\ dirty'[h] = dirty[h] \cup {"status", "version", "deadline"}
  BY MoveDoes DEF LifeInv
<1>1. /\ to \in Work \cup Status /\ to \notin {"fee"} \cup Collects /\ to # "reverse" /\ to # "save"
  BY WorkIsNoStatus
<1>2. /\ IInv /\ CallFits(h) /\ Active(h) /\ holder = h /\ holder' = h
      /\ todo # <<>> /\ todo[1] = to
      /\ ~Facing(todo, "reverse") /\ ~Facing(todo', "reverse")
      /\ <<call[h], to>> \in Reaches
  BY <1>0, <1>1, BeforeWrite
<1>3. /\ call'[h] = call[h] /\ script'[h] = script[h] /\ carried'[h] = carried[h]
      /\ doc' = doc /\ debit' = debit /\ marks' = marks
  BY <1>0 DEF Writes
<1>4. ASSUME "moved" \notin marks, NEW which, "moved" \in which, Keen(h, which)'
      PROVE  Keen(h, which)
  BY <1>0, <1>1, <1>2, <1>4, KeenBefore
<1>5. "moved" \notin marks => LoadFits(h)'
 <2> SUFFICES ASSUME "moved" \notin marks, Keen(h, {"moved"})' PROVE Loaded(h)' /\ Written(h)'
   BY DEF LoadFits
 <2>1. Loaded(h) /\ Written(h) BY <1>2, <1>4 DEF LifeInv, LoadsInv, LoadFits
 <2>2. "version" \in dirty'[h] /\ ("payment" \in dirty'[h] => "payment" \in dirty[h]) BY <1>0
 <2>3. Loaded(h)'
   BY <1>0, <1>3, <2>1, <2>2 DEF Loaded, Repriced, Collecting, Charging, Abandons, AsStored
 <2>4. to \notin Waiting /\ Stamped(copy[h], to) = "none" BY <1>2, WhatCallsReach DEF Stamped
 <2>5. copy[h].deadline = "none" => txDoc.deadline = "none" BY <2>1 DEF Loaded, Written
 <2>6. txDoc'.deadline = "none" BY <1>0, <2>4, <2>5
 <2>7. Written(h)' BY <1>0, <1>2, <1>3, <2>1, <2>2, <2>6 DEF Written, Collecting
 <2>8. QED BY <2>3, <2>7
<1>6. ASSUME "moved" \notin marks
      PROVE  WaiverFits(h)' /\ Kept(txDoc'.pricing) /\ Kept(copy'[h].pricing)
 <2>1. WaiverFits(h) /\ Kept(txDoc.pricing) /\ Kept(copy[h].pricing)
   BY <1>2, <1>6 DEF LifeInv, WaiversInv
 <2>2. ASSUME Keen(h, {"moved"})', doc.pricing.waived
       PROVE  Backed(h)' /\ (~Abandons(h) => debit <= copy[h].pricing.consumed)
  <3>1. Backed(h) /\ (~Abandons(h) => debit <= copy[h].pricing.consumed)
    BY <1>2, <1>4, <1>6, <2>1, <2>2 DEF WaiverFits
  <3>2. txDebit <= txDoc.pricing.consumed BY <1>1, <1>2, <3>1 DEF Backed, Facing
  <3>3. "pricing" \in dirty'[h] => "pricing" \in dirty[h] BY <1>0
  <3>4. QED BY <1>0, <1>2, <1>3, <3>1, <3>2, <3>3 DEF Backed, Abandons
 <2>3. QED BY <1>0, <1>3, <2>1, <2>2 DEF WaiverFits, Abandons
<1>7. marks = {} => (Keen(h, {"payment", "fee", "moved"})' => Progress(h)')
 <2> SUFFICES ASSUME marks = {}, Keen(h, {"payment", "fee", "moved"})' PROVE Progress(h)' OBVIOUS
 <2>1. Progress(h) BY <1>2, <1>4 DEF LifeInv, SettledInv
 <2>2. QED BY <1>0, <1>1, <2>1, SameProgress
<1>8. /\ txDoc'.pricing.waived = doc.pricing.waived
      /\ "version" \notin dirty'[h] => dirty'[h] \subseteq {"payment", "pricing"}
      /\ "pricing" \in dirty'[h] => "pricing" \in dirty[h]
  BY <1>0 DEF LifeInv, CallsInv
<1>9. QED BY <1>0, <1>1, <1>5, <1>6, <1>7, <1>8, WriteLives

-----------------------------------------------------------------------------
(* The end of a call, of an attempt, of a process. *)

LEMMA FinishDoes ==
  ASSUME IInv, NEW h \in Handlers, Finish(h)
  PROVE  /\ holder' = Nobody /\ h # Nobody /\ txDoc' = doc' /\ listed' = listed
         /\ ~Active(h)' /\ carried'[h] = {} /\ \A k \in Handlers \ {h} : Untouched(k)
<1>1. TypeOK /\ h # Nobody BY NobodyIsNoHandler DEF IInv
<1>2. /\ holder' = Nobody /\ txDoc' = doc' /\ listed' = listed
      /\ call' = [call EXCEPT ![h] = "none"] /\ copy' = [copy EXCEPT ![h] = Blank]
      /\ dirty' = [dirty EXCEPT ![h] = {}] /\ due' = [due EXCEPT ![h] = 0]
      /\ script' = [script EXCEPT ![h] = <<>>] /\ carried' = [carried EXCEPT ![h] = {}]
  BY DEF Finish
<1>3. script'[h] = <<>> /\ carried'[h] = {} BY <1>1, <1>2 DEF TypeOK
<1>4. \A k \in Handlers \ {h} : Untouched(k) BY <1>1, <1>2 DEF TypeOK, Untouched
<1>5. QED BY <1>1, <1>2, <1>3, <1>4 DEF Active

LEMMA FinishLives ==
  ASSUME LifeInv, IInv', NEW h \in Handlers, holder \in {h, Nobody}, UNCHANGED <<books, marks>>,
         Finish(h)
  PROVE  LifeInv'
<1>1. /\ holder' = Nobody /\ h # Nobody /\ txDoc' = doc' /\ listed' = listed
      /\ ~Active(h)' /\ carried'[h] = {} /\ \A k \in Handlers \ {h} : Untouched(k)
  BY FinishDoes DEF LifeInv
<1>2. doc' = doc /\ debit' = debit /\ marks' = marks BY DEF books
<1>3. CallFits(h)' BY <1>1 DEF CallFits
<1>4. "moved" \notin marks => LoadFits(h)' /\ WaiverFits(h)' /\ Kept(txDoc'.pricing)
  BY <1>1, <1>2 DEF LoadFits, WaiverFits, Keen, LifeInv, WaiversInv
<1>5. QED BY <1>1, <1>2, <1>3, <1>4, OneLives

LEMMA AbortLives ==
  ASSUME LifeInv, IInv', NEW h \in Handlers, Abort(h)
  PROVE  LifeInv'
<1>0. /\ IInv /\ TypeOK /\ holder = h /\ h # Nobody /\ holder' = Nobody /\ Active(h)
      /\ txDoc' = doc
      /\ UNCHANGED <<doc, debit, call, copy, dirty, due, script, listed, marks>>
  BY NobodyIsNoHandler DEF LifeInv, IInv, ScriptsInv, TransactionFits, Abort, books
<1> DEFINE left == carried[h]
       \cup {m \in {"payment"} : copy[h].payment # doc.payment}
       \cup {m \in {"moved"} : "version" \in dirty[h]}
       \cup {m \in {"fee"} : /\ call[h] # "abandonUnsettledOrder"
                             /\ "pricing" \in dirty[h]
                             /\ copy[h].pricing.consumed # doc.pricing.consumed}
<1>1. carried' = [carried EXCEPT ![h] = left] BY DEF Abort
<1>2. /\ carried[h] \subseteq left
      /\ "moved" \in left <=> "moved" \in carried[h] \/ "version" \in dirty[h]
  OBVIOUS
<1> HIDE DEF left
<1>3. carried'[h] = left /\ \A k \in Handlers \ {h} : Untouched(k)
  BY <1>0, <1>1 DEF TypeOK, Untouched
<1>4. CallFits(h) BY DEF LifeInv, CallsInv
<1>5. CallFits(h)'
 <2>1. Abandons(h) => AbandonmentFits(h)' BY <1>0, <1>2, <1>3, <1>4 DEF CallFits, AbandonmentFits
 <2>2. QED BY <1>0, <1>4, <2>1 DEF CallFits, Active, Abandons
<1>6. ASSUME "moved" \notin marks, Keen(h, {"moved"})' PROVE Keen(h, {"moved"})
 <2>1. "moved" \notin left BY <1>3, <1>6 DEF Keen
 <2>2. "moved" \notin carried[h] /\ "version" \notin dirty[h] BY <1>2, <2>1
 <2>3. NotMovedYet(h) BY <1>0, <1>6, <2>2 DEF IInv, VersionsInv, VersionFits, MovedOn
 <2>4. QED BY <1>0, <1>6, <2>2, <2>3 DEF Keen, Active, Fresh, NotMovedYet
<1>7. "moved" \notin marks => LoadFits(h)'
 <2> SUFFICES ASSUME "moved" \notin marks, Keen(h, {"moved"})' PROVE Loaded(h)' BY <1>0 DEF LoadFits
 <2>1. Loaded(h) BY <1>6 DEF LifeInv, LoadsInv, LoadFits
 <2>2. QED BY <1>0, <2>1 DEF Loaded, Repriced, Collecting, Charging, Abandons, AsStored
<1>8. ASSUME "moved" \notin marks
      PROVE  WaiverFits(h)' /\ Kept(txDoc'.pricing) /\ Kept(copy'[h].pricing)
 <2>1. WaiverFits(h) /\ Kept(doc.pricing) /\ Kept(copy[h].pricing)
   BY <1>0, <1>8 DEF LifeInv, WaiversInv
 <2>2. QED BY <1>0, <1>6, <1>8, <2>1 DEF WaiverFits, Abandons
<1>9. QED BY <1>0, <1>3, <1>5, <1>7, <1>8, OneLives

-----------------------------------------------------------------------------
(* The order changes. *)

(* When the version grows, those whose copy has not moved are stale. *)
LEMMA OthersAreStale ==
  ASSUME LifeInv, "moved" \notin marks, NEW k \in Handlers, holder # k, holder' # k,
         doc'.version \in Nat, doc'.version > doc.version, Untouched(k)
  PROVE  /\ LoadFits(k)' /\ WaiverFits(k)'
         /\ Active(k)' => Kept(copy'[k].pricing)
<1>0. copy[k].version \in Nat /\ doc.version \in Nat BY DocumentFields DEF LifeInv, IInv, TypeOK
<1>1. Active(k)' /\ "moved" \notin carried'[k] => NotMovedYet(k)
  BY DEF LifeInv, IInv, VersionsInv, VersionFits, Active, MovedOn, Untouched
<1>2. Active(k)' /\ "moved" \notin carried'[k] => ~Fresh(k)'
  BY <1>0, <1>1 DEF NotMovedYet, Fresh, Untouched
<1>3. ~Keen(k, {"moved"})' BY <1>2 DEF Keen
<1>4. Active(k)' => Kept(copy'[k].pricing) BY DEF LifeInv, WaiversInv, Active, Untouched
<1>5. QED BY <1>3, <1>4 DEF LoadFits, WaiverFits

(* The calls do not depend on the order but for its waiver. *)
LEMMA OthersAreCalls ==
  ASSUME LifeInv, NEW k \in Handlers, holder # k, holder' # k, Untouched(k),
         doc'.pricing.waived = doc.pricing.waived
  PROVE  CallFits(k)'
<1>1. CallFits(k) BY DEF LifeInv, CallsInv
<1>2. QED BY <1>1 DEF Untouched, CallFits, Active, Abandons, AbandonmentFits

(* What commits: a transaction that has moved a copy of the order as it is,
   and whose price is the copy's unless that is marked. *)
LEMMA CommitDoes ==
  ASSUME LifeInv, NEW h \in Handlers, Commit(h)
  PROVE  /\ IInv /\ holder = h /\ todo = <<>> /\ Active(h) /\ CallFits(h) /\ ~Contains(todo, Collects)
         /\ ~Contains(todo, {"fee"})
         /\ doc' = txDoc /\ debit' = txDebit /\ txDoc' = txDoc /\ marks \subseteq marks'
         /\ "moved" \notin marks' =>
              /\ "moved" \notin marks /\ carried[h] \cap {"moved"} = {} /\ MovedOn(h) /\ Fresh(h)
              /\ doc'.version \in Nat /\ doc'.version > doc.version
              /\ <<call[h], txDoc.status>> \in Reaches /\ Loaded(h) /\ Written(h)
         /\ carried[h] \subseteq marks'
         /\ "unpriced" \notin marks' => txDoc.pricing = copy[h].pricing
         /\ "forgiven" \notin marks' => ~Abandons(h) \/ Outstanding(txDoc) # 0
<1>0. /\ IInv /\ holder = h /\ h # Nobody /\ todo = <<>> /\ Active(h) /\ CallFits(h)
      /\ doc' = txDoc /\ debit' = txDebit /\ txDoc' = txDoc
  BY NobodyIsNoHandler
     DEF LifeInv, CallsInv, IInv, ScriptsInv, TransactionFits, Commit, Finish
<1>1. /\ marks \subseteq marks' /\ carried[h] \subseteq marks'
      /\ "unpriced" \notin marks' => txDoc.pricing = copy[h].pricing
      /\ "forgiven" \notin marks' => ~Abandons(h) \/ Outstanding(txDoc) # 0
  BY DEF Commit, Abandons
<1>2. ~Contains(todo, Collects) /\ ~Contains(todo, {"fee"}) BY <1>0 DEF Contains
<1>3. ASSUME "moved" \notin marks'
      PROVE  /\ "moved" \notin marks /\ carried[h] \cap {"moved"} = {} /\ MovedOn(h) /\ Fresh(h)
             /\ doc'.version \in Nat /\ doc'.version > doc.version
             /\ <<call[h], txDoc.status>> \in Reaches /\ Loaded(h) /\ Written(h)
 <2>1. "moved" \notin marks /\ carried[h] \cap {"moved"} = {} BY <1>1, <1>3
 <2>2. MovedOn(h) /\ Fresh(h)
   BY <1>0, <2>1 DEF IInv, VersionsInv, VersionFits, NotMovedYet, MovedOn, Fresh
 <2>3. doc'.version \in Nat /\ doc'.version > doc.version
   BY <1>0, <2>2, OrderOfBooks, DocumentFields DEF MovedOn
 <2>4. Loaded(h) /\ Written(h) BY <1>0, <2>1, <2>2 DEF LifeInv, LoadsInv, LoadFits, Keen
 <2>5. QED BY <2>1, <2>2, <2>3, <2>4 DEF Written, MovedOn
<1>4. QED BY <1>0, <1>1, <1>2, <1>3

LEMMA CommitLoads ==
  ASSUME LifeInv, NEW h \in Handlers, Commit(h), "moved" \notin marks'
  PROVE  (doc'.status \in Booked => doc'.pricing.penalty = 0) /\ ClockFits'
<1>0. /\ IInv /\ Active(h) /\ CallFits(h) /\ doc' = txDoc /\ "moved" \notin marks
      /\ <<call[h], txDoc.status>> \in Reaches /\ Loaded(h) /\ Written(h) /\ MovedOn(h)
  BY CommitDoes
<1>1. /\ <<call[h], doc.status>> \in Finds /\ Repriced(call[h], copy[h].pricing)
      /\ doc \in Document /\ doc.status \in Status
  BY <1>0, OrderOfBooks DEF Loaded
<1>2. doc'.status \in Booked => doc'.pricing.penalty = 0
 <2> SUFFICES ASSUME txDoc.status \in Booked PROVE txDoc.pricing.penalty = 0 BY <1>0
 <2>1. call[h] = "recordPickupWeight" BY <1>0, WhatCallsReach
 <2>2. doc.status \in Booked BY <1>1, <2>1, WhatCallsFind, CallsApart
 <2>3. doc.pricing.penalty = 0 BY <1>0, <2>2 DEF LifeInv, LoadsInv
 <2>4. copy[h].pricing.penalty = doc.pricing.penalty BY <1>1, <2>1, RepricedTotal
 <2>5. QED BY <1>0, <2>3, <2>4 DEF Written, Same
<1>3. doc'.deadline = "none" BY <1>0 DEF Written, MovedOn
<1>4. ASSUME NEW s \in Sweeps, listed'[s]
      PROVE  doc'.status \in Waited /\ (doc'.status \in Settled \/ Outstanding(doc') > 0)
 <2>1. listed[s] BY <1>0, <1>4, FinishDoes DEF Commit
 <2>2. doc.status \in Waited /\ (doc.status \in Settled \/ Outstanding(doc) > 0)
   BY <1>0, <2>1 DEF LifeInv, LoadsInv, ClockFits
 <2>3. call[h] \in Handovers \cup {"abandonUnsettledOrder"} BY <1>1, <2>2, WhatCallsFind
 <2>4. CASE call[h] \in Handovers BY <1>0, <2>4, WhatCallsReach, PhasesApart
 <2>5. CASE call[h] = "abandonUnsettledOrder"
  <3>1. txDoc.status = "abandoned_unsettled" /\ doc.status \in Waiting
    BY <1>0, <1>1, <2>5, WhatCallsReach, WhatCallsFind
  <3>2. Outstanding(doc) > 0 BY <2>2, <3>1, PhasesApart
  <3>3. ~Collecting(h)
   <4>1. OfItsCall(h, script[h]) /\ Abandons(h)
     BY <1>0, <2>5 DEF IInv, ScriptsInv, ScriptFits, Abandons
   <4>2. QED BY <4>1 DEF OfItsCall, Collecting, Contains
  <3>4. txDoc.payment = doc.payment BY <1>0, <3>3 DEF Written
  <3>5. Same(copy[h].pricing, doc.pricing) BY <1>1, <2>5, RepricedTotal, CallsApart
  <3>6. txDoc.pricing.total = doc.pricing.total BY <1>0, <3>5 DEF Written, Same
  <3>7. Outstanding(txDoc) = Outstanding(doc) BY <3>4, <3>6 DEF Outstanding
  <3>8. QED BY <1>0, <3>1, <3>2, <3>7, PhasesApart
 <2>6. QED BY <2>3, <2>4, <2>5
<1>5. QED BY <1>2, <1>3, <1>4 DEF ClockFits

LEMMA CommitPrices ==
  ASSUME LifeInv, NEW h \in Handlers, Commit(h)
  PROVE  PricesInv'
<1> SUFFICES ASSUME marks' \cap {"overridden", "unpriced", "moved"} = {}
             PROVE  (Weighed(txDoc) => txDoc.pricing.total > 0) /\ Reconciles(txDoc.pricing)
  BY CommitDoes DEF PricesInv
<1>0. /\ IInv /\ "moved" \notin marks' /\ marks \cap {"overridden", "unpriced", "moved"} = {}
      /\ <<call[h], txDoc.status>> \in Reaches /\ Loaded(h)
      /\ txDoc.pricing = copy[h].pricing
  BY CommitDoes
<1>1. /\ <<call[h], doc.status>> \in Finds /\ Repriced(call[h], copy[h].pricing)
      /\ doc \in Document /\ doc.status \in Status
      /\ doc.pricing.total \in Nat /\ copy[h].pricing.total \in Nat
  BY <1>0, OrderOfBooks, CopyOfHandler DEF Loaded
<1>2. (Weighed(doc) => doc.pricing.total > 0) /\ Reconciles(doc.pricing)
  BY <1>0 DEF LifeInv, PricesInv
<1>3. CASE call[h] \in Weighings BY <1>0, <1>1, <1>3, RepricedTotal
<1>4. CASE call[h] = "respondToQualityHold"
 <2>1. doc.status = "laundry_quality_hold" BY <1>1, <1>4, WhatCallsFind
 <2>2. Weighed(doc) BY <2>1 DEF Weighed, Booked
 <2>3. copy[h].pricing.total > doc.pricing.total /\ Reconciles(copy[h].pricing)
   BY <1>1, <1>2, <1>4, <2>2, RepricedTotal
 <2>4. QED BY <1>0, <1>1, <1>2, <2>2, <2>3
<1>5. CASE call[h] \notin Weighings \cup {"respondToQualityHold"}
 <2>1. Same(copy[h].pricing, doc.pricing) BY <1>1, <1>5, RepricedTotal
 <2>2. Weighed(doc)
  <3>1. call[h] = "recordPickupPayment" \/ call[h] \in Handovers \/ call[h] = "abandonUnsettledOrder"
    BY <1>1, <1>5, WhatCallsFind
  <3>2. \/ doc.status = "pickup_weighed" \/ doc.status \in Waiting
        \/ doc.status = "return_arrived"
    BY <1>1, <3>1, WhatCallsFind DEF Handovers, Waiting
  <3>3. QED BY <3>2 DEF Weighed, Waiting, Booked
 <2>3. QED BY <1>0, <1>2, <2>1, <2>2, SamePrice DEF Same
<1>6. QED BY <1>3, <1>4, <1>5

LEMMA CommitSettles ==
  ASSUME LifeInv, NEW h \in Handlers, Commit(h), marks' = {}
  PROVE  MoneyFits(txDoc)
<1>0. /\ IInv /\ marks = {} /\ carried[h] = {} /\ Active(h) /\ holder = h /\ todo = <<>>
      /\ CallFits(h) /\ Fresh(h)
      /\ <<call[h], txDoc.status>> \in Reaches /\ Loaded(h)
      /\ txDoc.pricing = copy[h].pricing
      /\ ~Contains(todo, Collects) /\ ~Contains(todo, {"fee"})
      /\ ~Abandons(h) \/ Outstanding(txDoc) # 0
  BY CommitDoes
<1>1. /\ <<call[h], doc.status>> \in Finds /\ Repriced(call[h], copy[h].pricing)
      /\ doc \in Document /\ doc.status \in Status
      /\ doc.payment \in Nat /\ doc.pricing.total \in Nat /\ copy[h].pricing.total \in Nat
      /\ txDoc.payment \in Nat
  BY <1>0, OrderOfBooks, CopyOfHandler DEF Loaded
<1>2. Keen(h, {"payment", "moved"}) /\ Keen(h, {"payment", "fee", "moved"}) BY <1>0 DEF Keen
<1>3. txDoc.payment = copy[h].payment
 <2>1. PaymentInTransaction(h) BY <1>0, <1>2 DEF IInv, PaymentInv, PaymentFits
 <2>2. QED BY <1>0, <2>1 DEF PaymentInTransaction, Facing
<1>4. /\ Collecting(h) => txDoc.payment = copy[h].pricing.total
      /\ ~Collecting(h) => txDoc.payment = doc.payment
      /\ Charging(h) => Charged(h)
  BY <1>0, <1>2, <1>3 DEF LifeInv, SettledInv, Progress
<1>5. MoneyFits(doc) BY <1>0 DEF LifeInv, SettledInv
<1>6. CallOK(call[h], script[h]) BY <1>0 DEF CallFits
<1>7. /\ Collecting(h) => call[h] \in Handovers \cup {"recordPickupPayment", "receiveAtCounter"}
      /\ Charging(h) => call[h] \in Weighings \cup Handovers
      /\ call[h] \in Weighings => Charging(h)
      /\ call[h] \in Handovers /\ Collecting(h) => Charging(h)
 <2>1. Collecting(h) => call[h] \in Handovers \cup {"recordPickupPayment", "receiveAtCounter"}
   BY <1>6 DEF CallOK, StepsOf, Collecting, Contains, Collects
 <2>2. Charging(h) => call[h] \in Weighings \cup Handovers
   BY <1>6 DEF CallOK, StepsOf, Charging, Contains
 <2>3. QED BY <1>6, <2>1, <2>2 DEF CallOK, Collecting, Charging
<1>8. call[h] \in Weighings => doc.status \in Booked /\ doc.payment = 0
  BY <1>1, <1>5, WhatCallsFind DEF MoneyFits
<1>9. txDoc.status \in Booked => txDoc.payment = 0
 <2> SUFFICES ASSUME txDoc.status \in Booked PROVE txDoc.payment = 0 OBVIOUS
 <2>1. call[h] = "recordPickupWeight" BY <1>0, WhatCallsReach
 <2>2. ~Collecting(h) /\ call[h] \in Weighings BY <1>7, <2>1, CallsApart
 <2>3. QED BY <1>4, <1>8, <2>2
<1>10. call[h] \in Handovers /\ ~Collecting(h) => Outstanding(doc) = 0 BY <1>0 DEF Loaded
<1>11. call[h] \notin Weighings \cup {"respondToQualityHold"} =>
         /\ copy[h].pricing.total = doc.pricing.total
         /\ Chargeable(copy[h].pricing) = Chargeable(doc.pricing)
 <2>1. call[h] \notin Weighings \cup {"respondToQualityHold"} => Same(copy[h].pricing, doc.pricing)
   BY <1>1, RepricedTotal
 <2>2. QED BY <2>1, SamePrice DEF Same
<1>12. ~Collecting(h) => txDoc.payment <= copy[h].pricing.total
 <2>1. doc.payment <= doc.pricing.total BY <1>5 DEF MoneyFits
 <2>2. call[h] = "respondToQualityHold" => copy[h].pricing.total > doc.pricing.total
   BY <1>1, RepricedTotal
 <2>3. QED BY <1>1, <1>4, <1>8, <1>11, <2>1, <2>2
<1>13. txDoc.payment <= txDoc.pricing.total BY <1>0, <1>1, <1>4, <1>12
<1>14. txDoc.status \in HandedOver => txDoc.payment = txDoc.pricing.total
 <2> SUFFICES ASSUME txDoc.status \in HandedOver PROVE txDoc.payment = txDoc.pricing.total OBVIOUS
 <2>1. call[h] \in Handovers BY <1>0, WhatCallsReach
 <2>2. ~Collecting(h) => txDoc.payment >= txDoc.pricing.total
  <3>1. ~Collecting(h) => doc.pricing.total - doc.payment <= 0
    BY <1>1, <1>10, <2>1 DEF Outstanding, Max0
  <3>2. copy[h].pricing.total = doc.pricing.total BY <1>11, <2>1, CallsApart
  <3>3. QED BY <1>0, <1>1, <1>4, <3>1, <3>2
 <2>3. QED BY <1>0, <1>1, <1>4, <1>13, <2>2
<1>15. Charging(h) => txDoc.pricing.consumed = Chargeable(txDoc.pricing) BY <1>0, <1>4 DEF Charged
<1>16. ASSUME ~Charging(h), ~Abandons(h), call[h] \notin Weighings \cup {"respondToQualityHold"},
              doc.pricing.consumed = Chargeable(doc.pricing)
       PROVE  txDoc.pricing.consumed = Chargeable(txDoc.pricing)
 <2>1. AsStored(h) BY <1>0, <1>16 DEF Loaded
 <2>2. QED BY <1>0, <1>11, <1>16, <2>1 DEF AsStored
<1>17. ASSUME txDoc.status = "pickup_weighed" \/ (txDoc.status \notin Booked /\ txDoc.payment = txDoc.pricing.total)
       PROVE  txDoc.pricing.consumed = Chargeable(txDoc.pricing)
 <2>1. CASE call[h] \in Weighings BY <1>7, <1>15, <2>1
 <2>2. txDoc.status = "pickup_weighed" => call[h] \in Weighings BY <1>0, WhatCallsReach, CallsApart
 <2>3. CASE call[h] = "recordPickupPayment"
  <3>1. doc.status = "pickup_weighed" BY <1>1, <2>3, WhatCallsFind
  <3>2. doc.pricing.consumed = Chargeable(doc.pricing) BY <1>5, <3>1 DEF MoneyFits
  <3>3. ~Charging(h) /\ ~Abandons(h) /\ call[h] \notin Weighings \cup {"respondToQualityHold"}
    BY <1>7, <2>3, CallsApart DEF Abandons
  <3>4. QED BY <1>16, <3>2, <3>3
 <2>4. CASE call[h] = "respondToQualityHold"
  <3>1. ~Collecting(h) /\ call[h] \notin Weighings BY <1>7, <2>4, CallsApart
  <3>2. copy[h].pricing.total > doc.pricing.total /\ doc.payment <= doc.pricing.total
    BY <1>1, <1>5, <2>4, RepricedTotal DEF MoneyFits
  <3>3. txDoc.payment # txDoc.pricing.total BY <1>0, <1>1, <1>4, <3>1, <3>2
  <3>4. QED BY <1>17, <2>2, <3>1, <3>3
 <2>5. CASE call[h] \in Handovers
  <3>1. CASE Charging(h) BY <1>15, <3>1
  <3>2. CASE ~Charging(h)
   <4>1. ~Collecting(h) /\ ~Abandons(h) /\ call[h] \notin Weighings \cup {"respondToQualityHold"}
     BY <1>7, <2>5, <3>2, CallsApart DEF Abandons
   <4>2. doc.pricing.total - doc.payment <= 0 BY <1>1, <1>10, <2>5, <4>1 DEF Outstanding, Max0
   <4>3. doc.payment = doc.pricing.total BY <1>1, <1>5, <4>2 DEF MoneyFits
   <4>4. doc.status \notin Booked
    <5>1. doc.status \in {"return_arrived", "awaiting_customer_pickup"}
      BY <1>1, <2>5, WhatCallsFind DEF Handovers
    <5>2. QED BY <5>1 DEF Booked
   <4>5. doc.pricing.consumed = Chargeable(doc.pricing) BY <1>5, <4>3, <4>4 DEF MoneyFits
   <4>6. QED BY <1>16, <3>2, <4>1, <4>5
  <3>3. QED BY <3>1, <3>2
 <2>6. CASE call[h] = "abandonUnsettledOrder"
  <3>1. Outstanding(txDoc) # 0 /\ call[h] \notin Weighings BY <1>0, <2>6, CallsApart DEF Abandons
  <3>2. txDoc.payment # txDoc.pricing.total BY <1>0, <1>1, <3>1 DEF Outstanding, Max0
  <3>3. QED BY <1>17, <2>2, <3>1, <3>2
 <2>7. QED BY <1>1, <2>1, <2>3, <2>4, <2>5, <2>6, WhatCallsFind
<1>18. QED BY <1>9, <1>13, <1>14, <1>17 DEF MoneyFits

LEMMA CommitReturnsFee ==
  ASSUME LifeInv, NEW h \in Handlers, Commit(h)
  PROVE  AbandonedReturnsFee'
<1> SUFFICES ASSUME txDoc.status = "abandoned_unsettled", marks' \cap {"overridden", "fee", "moved"} = {}
             PROVE  txDebit = 0
  BY CommitDoes DEF AbandonedReturnsFee
<1>0. /\ IInv /\ marks \cap {"fee", "moved"} = {} /\ carried[h] \cap {"fee", "moved"} = {}
      /\ Active(h) /\ holder = h /\ todo = <<>> /\ CallFits(h) /\ Fresh(h)
      /\ <<call[h], txDoc.status>> \in Reaches
  BY CommitDoes
<1>1. Abandons(h) /\ AbandonmentFits(h) BY <1>0, WhatCallsReach DEF Abandons, CallFits
<1>2. FeeInCopy(h) /\ (FeeWritten(h) \/ FeeRepeated(h) \/ FeeToReverse(h))
  BY <1>0 DEF IInv, FeeInv, FeeFits, Keen
<1>3. txDebit = copy[h].pricing.consumed
  BY <1>0, <1>1, <1>2 DEF FeeWritten, FeeRepeated, FeeToReverse, Facing
<1>4. CASE Facing(script[h], "reverse") BY <1>0, <1>1, <1>3, <1>4 DEF AbandonmentFits, Facing
<1>5. CASE ~Facing(script[h], "reverse")
  BY <1>1, <1>2, <1>3, <1>5 DEF AbandonmentFits, FeeInCopy, AsStored
<1>6. QED BY <1>4, <1>5

LEMMA CommitLives ==
  ASSUME LifeInv, IInv', NEW h \in Handlers, Commit(h)
  PROVE  LifeInv'
<1>0. /\ IInv /\ holder = h /\ Active(h) /\ CallFits(h) /\ doc' = txDoc /\ debit' = txDebit
      /\ txDoc' = txDoc /\ todo = <<>>
  BY CommitDoes
<1>1. /\ holder' = Nobody /\ h # Nobody /\ ~Active(h)' /\ carried'[h] = {}
      /\ \A k \in Handlers \ {h} : Untouched(k)
  BY <1>0, FinishDoes DEF Commit
<1>2. \A k \in Handlers \ {h} : holder # k /\ holder' # k BY <1>0, <1>1, NobodyIsNoHandler
<1>3. CallsInv'
 <2>1. doc'.pricing.waived = doc.pricing.waived BY <1>0 DEF LifeInv, CallsInv
 <2>2. CallFits(h)' BY <1>1 DEF CallFits
 <2>3. ASSUME NEW k \in Handlers, k # h PROVE CallFits(k)' BY <1>1, <1>2, <2>1, <2>3, OthersAreCalls
 <2>4. QED BY <1>0, <2>2, <2>3 DEF CallsInv
<1>4. ASSUME "moved" \notin marks', NEW k \in Handlers
      PROVE  LoadFits(k)' /\ WaiverFits(k)' /\ (Active(k)' => Kept(copy'[k].pricing))
 <2>1. CASE k = h BY <1>1, <2>1 DEF LoadFits, WaiverFits, Keen
 <2>2. CASE k # h
  <3>1. "moved" \notin marks /\ doc'.version \in Nat /\ doc'.version > doc.version
    BY <1>4, CommitDoes
  <3>2. QED BY <1>1, <1>2, <2>2, <3>1, OthersAreStale
 <2>3. QED BY <2>1, <2>2
<1>5. LoadsInv' BY <1>4, CommitLoads DEF LoadsInv
<1>6. WaiversInv'
 <2> SUFFICES ASSUME "moved" \notin marks' PROVE WaiversInv' BY DEF WaiversInv
 <2>1. "moved" \notin marks /\ carried[h] \cap {"moved"} = {} /\ Fresh(h) BY CommitDoes
 <2>2. Kept(txDoc.pricing) /\ WaiverFits(h) /\ Keen(h, {"moved"})
   BY <1>0, <2>1 DEF LifeInv, WaiversInv, Keen
 <2>3. txDoc.pricing.waived => txDebit <= txDoc.pricing.consumed
   BY <1>0, <2>2 DEF LifeInv, CallsInv, WaiverFits, Backed, Facing
 <2>4. QED BY <1>0, <1>4, <2>2, <2>3 DEF WaiversInv
<1>7. SettledInv'
 <2> SUFFICES ASSUME marks' = {} PROVE SettledInv' BY DEF SettledInv
 <2>1. MoneyFits(doc') BY <1>0, CommitSettles
 <2>2. \A k \in Handlers : holder' # k BY <1>1, NobodyIsNoHandler
 <2>3. QED BY <2>1, <2>2 DEF SettledInv
<1>8. QED BY <1>3, <1>5, <1>6, <1>7, CommitPrices, CommitReturnsFee DEF LifeInv

(* A move of another call, or of support. *)
LEMMA MoveAlongLives ==
  ASSUME LifeInv, IInv', NEW edges \in SUBSET Edge, NEW mark \in SUBSET Mark, MoveAlong(edges, mark),
         edges \subseteq Edge \ MoneyEdge \/ "overridden" \in mark
  PROVE  LifeInv'
<1>1. PICK to \in Status : <<doc.status, to>> \in edges /\ doc' = Moved(doc, to) BY DEF MoveAlong
<1>0. /\ IInv /\ holder = Nobody /\ holder' = Nobody /\ txDoc' = doc'
      /\ marks' = marks \cup mark
      /\ UNCHANGED <<debit, call, copy, dirty, due, script, carried, listed>>
  BY DEF LifeInv, MoveAlong, handlers
<1>2. /\ doc \in Document /\ doc.status \in Status /\ doc.version \in Nat /\ doc.payment \in Nat
      /\ doc'.status = to /\ doc'.version = doc.version + 1 /\ doc'.deadline = Stamped(doc, to)
      /\ doc'.payment = doc.payment /\ doc'.pricing = doc.pricing
 <2>1. doc \in Document /\ doc.status \in Status /\ doc.version \in Nat /\ doc.payment \in Nat
   BY <1>0, OrderOfBooks, DocumentFields
 <2>2. PICK deadline : deadline = Stamped(doc, to) OBVIOUS
 <2>3. PICK version : version = doc.version + 1 OBVIOUS
 <2>4. doc' = [doc EXCEPT !.status = to, !.version = version, !.deadline = deadline]
   BY <1>1, <2>2, <2>3 DEF Moved
 <2>5. QED BY <2>1, <2>2, <2>3, <2>4 DEF Document
<1>3. \A k \in Handlers : Untouched(k) /\ holder # k /\ holder' # k
  BY <1>0, NobodyIsNoHandler DEF Untouched
<1>4. CallsInv'
 <2>1. \A k \in Handlers : CallFits(k)' BY <1>2, <1>3, OthersAreCalls
 <2>2. QED BY <1>0, <2>1 DEF CallsInv
<1>5. ASSUME "moved" \notin marks', NEW k \in Handlers
      PROVE  LoadFits(k)' /\ WaiverFits(k)' /\ (Active(k)' => Kept(copy'[k].pricing))
 <2>1. "moved" \notin marks /\ doc'.version \in Nat /\ doc'.version > doc.version
   BY <1>0, <1>2, <1>5
 <2>2. QED BY <1>3, <2>1, OthersAreStale
<1>6. Outstanding(doc') = Outstanding(doc) BY <1>2 DEF Outstanding
<1>7. /\ to \in Booked => doc.status \in Booked
      /\ doc.status \in Waited => to \in Waited
      /\ doc.status \in Settled => to \in Settled
 <2>1. <<doc.status, to>> \in Edge BY <1>1
 <2>2. QED BY <1>2, <2>1, EdgesOfThePhases
<1>8. LoadsInv'
 <2> SUFFICES ASSUME "moved" \notin marks'
              PROVE  (doc'.status \in Booked => doc'.pricing.penalty = 0) /\ ClockFits'
   BY <1>5 DEF LoadsInv
 <2>1. (doc.status \in Booked => doc.pricing.penalty = 0) /\ ClockFits BY <1>0 DEF LifeInv, LoadsInv
 <2>2. doc'.deadline # "none" => to \in Waiting /\ Outstanding(doc) > 0 BY <1>2 DEF Stamped
 <2>3. QED BY <1>0, <1>2, <1>6, <1>7, <2>1, <2>2 DEF ClockFits
<1>9. WaiversInv' BY <1>0, <1>2, <1>5 DEF LifeInv, WaiversInv
<1>10. ASSUME "overridden" \notin marks'
       PROVE  /\ marks' \subseteq marks \cup mark /\ marks \subseteq marks'
              /\ doc.status \in Booked <=> to \in Booked
              /\ to \notin HandedOver \cup {"pickup_weighed", "abandoned_unsettled"}
 <2>1. <<doc.status, to>> \in Edge \ MoneyEdge BY <1>0, <1>1, <1>10
 <2>2. QED BY <1>0, <1>2, <2>1, EdgesOfOtherCalls
<1>11. PricesInv'
 <2> SUFFICES ASSUME marks' \cap {"overridden", "unpriced", "moved"} = {}
              PROVE  (Weighed(doc') => doc'.pricing.total > 0) /\ Reconciles(doc'.pricing)
   BY DEF PricesInv
 <2>1. marks \cap {"overridden", "unpriced", "moved"} = {} /\ "overridden" \notin marks' BY <1>0
 <2>2. (Weighed(doc) => doc.pricing.total > 0) /\ Reconciles(doc.pricing)
   BY <2>1 DEF LifeInv, PricesInv
 <2>3. Weighed(doc') => Weighed(doc) BY <1>2, <1>10, <2>1 DEF Weighed
 <2>4. QED BY <1>2, <2>2, <2>3
<1>12. SettledInv'
 <2> SUFFICES ASSUME marks' = {} PROVE MoneyFits(doc') BY <1>3 DEF SettledInv
 <2>1. marks = {} /\ MoneyFits(doc) BY <1>0 DEF LifeInv, SettledInv
 <2>2. QED BY <1>2, <1>10, <2>1 DEF MoneyFits
<1>13. AbandonedReturnsFee'
 <2> SUFFICES ASSUME doc'.status = "abandoned_unsettled", "overridden" \notin marks' PROVE FALSE
   BY DEF AbandonedReturnsFee
 <2>1. QED BY <1>2, <1>10
<1>14. QED BY <1>4, <1>8, <1>9, <1>11, <1>12, <1>13 DEF LifeInv

LEMMA DeadlineLives ==
  ASSUME LifeInv, IInv', DeadlinePasses
  PROVE  LifeInv'
<1>0. /\ IInv /\ holder = Nobody /\ holder' = Nobody /\ txDoc' = doc'
      /\ doc.deadline = "running" /\ doc' = [doc EXCEPT !.deadline = "passed"]
      /\ UNCHANGED <<debit, call, copy, dirty, due, script, carried, listed, marks>>
  BY DEF LifeInv, DeadlinePasses, handlers
<1>1. /\ doc'.version = doc.version /\ doc'.status = doc.status /\ doc'.deadline = "passed"
      /\ doc'.payment = doc.payment /\ doc'.pricing = doc.pricing
  BY <1>0, OrderOfBooks DEF Document
<1>2. Outstanding(doc') = Outstanding(doc) BY <1>1 DEF Outstanding
<1>3. \A k \in Handlers : Untouched(k) /\ holder # k /\ holder' # k
  BY <1>0, NobodyIsNoHandler DEF Untouched
<1>4. CallsInv'
 <2>1. \A k \in Handlers : CallFits(k)' BY <1>1, <1>3, OthersAreCalls
 <2>2. QED BY <1>0, <2>1 DEF CallsInv
<1>5. ASSUME NEW k \in Handlers
      PROVE  /\ Keen(k, {"moved"})' => Keen(k, {"moved"})
             /\ Loaded(k) => Loaded(k)'
 <2>1. Keen(k, {"moved"})' => Keen(k, {"moved"}) BY <1>1, <1>3 DEF Untouched, Keen, Active, Fresh
 <2>2. Loaded(k) => Loaded(k)'
   BY <1>0, <1>1, <1>2, <1>3
      DEF Untouched, Loaded, Repriced, Collecting, Charging, Abandons, AsStored
 <2>3. QED BY <2>1, <2>2
<1>6. LoadsInv'
 <2> SUFFICES ASSUME "moved" \notin marks PROVE LoadsInv' BY <1>0 DEF LoadsInv
 <2>1. /\ doc.status \in Booked => doc.pricing.penalty = 0
       /\ ClockFits /\ \A k \in Handlers : LoadFits(k)
   BY DEF LifeInv, LoadsInv
 <2>2. ClockFits' BY <1>0, <1>1, <1>2, <2>1 DEF ClockFits
 <2>3. \A k \in Handlers : LoadFits(k)' BY <1>3, <1>5, <2>1 DEF LoadFits
 <2>4. QED BY <1>1, <2>1, <2>2, <2>3 DEF LoadsInv
<1>7. WaiversInv'
 <2> SUFFICES ASSUME "moved" \notin marks PROVE WaiversInv' BY <1>0 DEF WaiversInv
 <2>1. /\ Kept(doc.pricing) /\ (doc.pricing.waived => debit <= doc.pricing.consumed)
       /\ \A k \in Handlers : WaiverFits(k) /\ (Active(k) => Kept(copy[k].pricing))
   BY DEF LifeInv, WaiversInv
 <2>2. ASSUME NEW k \in Handlers PROVE WaiverFits(k)' /\ (Active(k)' => Kept(copy'[k].pricing))
  <3>1. WaiverFits(k) /\ (Active(k) => Kept(copy[k].pricing)) BY <2>1
  <3>2. QED BY <1>0, <1>1, <1>3, <1>5, <3>1 DEF WaiverFits, Abandons, Active, Untouched
 <2>3. QED BY <1>0, <1>1, <2>1, <2>2 DEF WaiversInv
<1>8. PricesInv' /\ AbandonedReturnsFee'
  BY <1>0, <1>1 DEF LifeInv, PricesInv, AbandonedReturnsFee, Weighed
<1>9. SettledInv'
 <2> SUFFICES ASSUME marks = {} PROVE SettledInv' BY <1>0 DEF SettledInv
 <2>1. MoneyFits(doc) BY DEF LifeInv, SettledInv
 <2>2. MoneyFits(doc') BY <1>1, <2>1 DEF MoneyFits
 <2>3. QED BY <1>3, <2>2 DEF SettledInv
<1>10. QED BY <1>4, <1>6, <1>7, <1>8, <1>9 DEF LifeInv

(* A step that only the list of a sweep sees. *)
LEMMA OutsideLives ==
  ASSUME LifeInv, IInv', UNCHANGED <<books, attempt, handlers, marks>>,
         \A s \in Sweeps :
           listed'[s] => listed[s] \/ (doc.status \in Waiting /\ doc.deadline # "none")
  PROVE  LifeInv'
<1> USE DEF books, attempt, handlers
<1>1. CallsInv' BY DEF LifeInv, CallsInv, CallFits, Active, Abandons, AbandonmentFits
<1>2. ASSUME NEW k \in Handlers, NEW which PROVE Keen(k, which)' <=> Keen(k, which)
  BY DEF Keen, Active, Fresh
<1>3. LoadsInv'
 <2> SUFFICES ASSUME "moved" \notin marks PROVE LoadsInv' BY DEF LoadsInv
 <2>1. ClockFits' BY PhasesApart DEF LifeInv, LoadsInv, ClockFits
 <2>2. ASSUME NEW k \in Handlers PROVE LoadFits(k)'
  <3>1. LoadFits(k) BY DEF LifeInv, LoadsInv
  <3>2. Loaded(k) => Loaded(k)' BY DEF Loaded, Repriced, Collecting, Charging, Abandons, AsStored
  <3>3. Written(k) => Written(k)' BY DEF Written, Collecting
  <3>4. QED BY <1>2, <3>1, <3>2, <3>3 DEF LoadFits
 <2>3. QED BY <2>1, <2>2 DEF LifeInv, LoadsInv
<1>4. WaiversInv'
 <2> SUFFICES ASSUME "moved" \notin marks PROVE WaiversInv' BY DEF WaiversInv
 <2>1. ASSUME NEW k \in Handlers PROVE WaiverFits(k)' /\ (Active(k)' => Kept(copy'[k].pricing))
  <3>1. WaiverFits(k) /\ (Active(k) => Kept(copy[k].pricing)) BY DEF LifeInv, WaiversInv
  <3>2. Backed(k) => Backed(k)' BY DEF Backed, Abandons
  <3>3. QED BY <1>2, <3>1, <3>2 DEF WaiverFits, Abandons, Active
 <2>2. QED BY <2>1 DEF LifeInv, WaiversInv
<1>5. PricesInv' /\ AbandonedReturnsFee' BY DEF LifeInv, PricesInv, AbandonedReturnsFee
<1>6. SettledInv'
 <2>1. \A k \in Handlers : Progress(k) => Progress(k)'
   BY DEF Progress, Collecting, Charging, Charged
 <2>2. QED BY <1>2, <2>1 DEF LifeInv, SettledInv
<1>7. QED BY <1>1, <1>3, <1>4, <1>5, <1>6 DEF LifeInv

-----------------------------------------------------------------------------
(* What the calls ask for. *)

LEMMA StepsOfCalls ==
  /\ CallOK("recordPickupWeight", <<"save", "fee", "save", "pickup_weighed">>)
  /\ CallOK("recordPickupPayment",
            <<"save", "collectOutstanding", "save", "row",
              "picked_up_from_customer", "laundry_in_progress">>)
  /\ CallOK("recordPickupPayment",
            <<"save", "picked_up_from_customer", "laundry_in_progress">>)
  /\ CallOK("receiveAtCounter",
            <<"save", "collectOutstanding", "save", "row", "fee", "save",
              "received_by_provider", "laundry_in_progress">>)
  /\ CallOK("receiveAtCounter",
            <<"save", "fee", "save", "received_by_provider", "laundry_in_progress">>)
  /\ CallOK("respondToQualityHold", <<"save", "laundry_in_progress">>)
  /\ \A name \in Handovers, to \in {"delivered_to_customer", "customer_pickup_verified"} :
       /\ CallOK(name, <<"save", "collectDue", "save", "row", "fee", "save", to, "completed">>)
       /\ CallOK(name, <<"save", to, "completed">>)
  /\ CallOK("abandonUnsettledOrder", <<"reverse", "save", "abandoned_unsettled">>)
  /\ CallOK("abandonUnsettledOrder", <<"save", "abandoned_unsettled">>)
<1> USE DEF CallOK, StepsOf, Contains, Collects, Status, Reaches, Weighings, Handovers, HandedOver
<1>1. CallOK("recordPickupWeight", <<"save", "fee", "save", "pickup_weighed">>) OBVIOUS
<1>2. CallOK("recordPickupPayment",
             <<"save", "collectOutstanding", "save", "row",
               "picked_up_from_customer", "laundry_in_progress">>)
  OBVIOUS
<1>3. CallOK("recordPickupPayment",
             <<"save", "picked_up_from_customer", "laundry_in_progress">>)
  OBVIOUS
<1>4. CallOK("receiveAtCounter",
             <<"save", "collectOutstanding", "save", "row", "fee", "save",
               "received_by_provider", "laundry_in_progress">>)
  OBVIOUS
<1>5. CallOK("receiveAtCounter",
             <<"save", "fee", "save", "received_by_provider", "laundry_in_progress">>)
  OBVIOUS
<1>6. CallOK("respondToQualityHold", <<"save", "laundry_in_progress">>) OBVIOUS
<1>7. ASSUME NEW name \in Handovers, NEW to \in {"delivered_to_customer", "customer_pickup_verified"}
      PROVE  CallOK(name, <<"save", "collectDue", "save", "row", "fee", "save", to, "completed">>)
  OBVIOUS
<1>8. ASSUME NEW name \in Handovers, NEW to \in {"delivered_to_customer", "customer_pickup_verified"}
      PROVE  CallOK(name, <<"save", to, "completed">>)
  OBVIOUS
<1>9. CallOK("abandonUnsettledOrder", <<"reverse", "save", "abandoned_unsettled">>) OBVIOUS
<1>10. CallOK("abandonUnsettledOrder", <<"save", "abandoned_unsettled">>) OBVIOUS
<1> HIDE DEF CallOK, StepsOf, Contains, Collects, Status, Reaches, Weighings, Handovers, HandedOver
<1>11. QED BY <1>1, <1>2, <1>3, <1>4, <1>5, <1>6, <1>7, <1>8, <1>9, <1>10

(* Where the first move of a call is legal. *)
LEMMA WhereCallsBegin ==
  ASSUME NEW x \in Status
  PROVE  /\ <<x, "pickup_weighed">> \in Edge => <<"recordPickupWeight", x>> \in Finds
         /\ <<x, "picked_up_from_customer">> \in Edge => <<"recordPickupPayment", x>> \in Finds
         /\ <<x, "received_by_provider">> \in Edge => <<"receiveAtCounter", x>> \in Finds
         /\ x = "laundry_quality_hold" => <<"respondToQualityHold", x>> \in Finds
         /\ <<x, "delivered_to_customer">> \in Edge => <<"recordDelivery", x>> \in Finds
         /\ <<x, "customer_pickup_verified">> \in Edge => <<"verifySelfPickup", x>> \in Finds
         /\ <<x, "abandoned_unsettled">> \in Edge => <<"abandonUnsettledOrder", x>> \in Finds
BY DEF Edge, Finds, Waiting

LEMMA AbandonmentLives ==
  ASSUME LifeInv, IInv', NEW h \in Handlers, AbandonUnsettledOrder(h),
         \A s \in Sweeps : listed'[s] => listed[s],
         h \in Sweeps => listed[h]
  PROVE  LifeInv'
<1> DEFINE steps == IF doc.pricing.consumed > 0
       THEN <<"reverse", "save", "abandoned_unsettled">>
       ELSE <<"save", "abandoned_unsettled">>
<1>1. Load(h, "abandonUnsettledOrder", "abandoned_unsettled", doc.pricing, {},
           doc.pricing.consumed, steps)
  BY DEF AbandonUnsettledOrder
<1>2. CallOK("abandonUnsettledOrder", steps) /\ steps # <<>> BY StepsOfCalls
<1>3. /\ doc.pricing \in Pricing /\ doc.pricing.consumed \in Nat /\ doc.status \in Status
      /\ <<doc.status, "abandoned_unsettled">> \in Edge
  BY <1>1, OrderOfBooks DEF LifeInv, Load
<1>4. Facing(steps, "reverse") \/ doc.pricing.consumed = 0 BY <1>3 DEF Facing
<1> HIDE DEF steps
<1>5. <<"abandonUnsettledOrder", doc.status>> \in Finds BY <1>3, WhereCallsBegin
<1>6. Repriced("abandonUnsettledOrder", doc.pricing) BY CallsApart DEF Repriced, Same
<1>7. Asked("abandonUnsettledOrder", doc.pricing, {}, doc.pricing.consumed, steps)
  BY <1>2, <1>3, <1>4, <1>5, <1>6, CallsApart DEF Asked
<1>8. QED BY <1>1, <1>2, <1>7, LoadLives

LEMMA RequestLives ==
  ASSUME LifeInv, IInv', NEW h \in Callers, Request(h)
  PROVE  LifeInv'
<1>0. /\ h \in Handlers /\ h \notin Sweeps /\ doc \in Document /\ doc.status \in Status
      /\ doc.pricing \in Pricing /\ Services \subseteq Nat /\ Surcharges \subseteq Nat
  BY HandlersDisjoint, OrderOfBooks, AmountsAreNaturals DEF Handlers, LifeInv
<1>1. ASSUME NEW name, NEW first, NEW pricing, NEW paths, NEW amount, NEW steps,
             Load(h, name, first, pricing, paths, amount, steps),
             steps # <<>>, Asked(name, pricing, paths, amount, steps), listed' = listed
      PROVE  LifeInv'
  BY <1>0, <1>1, LoadLives
<1>2. ASSUME NEW name, NEW first, NEW pricing, NEW paths, NEW amount, NEW steps,
             Load(h, name, first, pricing, paths, amount, steps)
      PROVE  <<doc.status, first>> \in Edge
  BY <1>2 DEF Load
<1>3. CASE RecordPickupWeight(h)
 <2> DEFINE steps == <<"save", "fee", "save", "pickup_weighed">>
 <2>1. PICK service \in Services :
         Load(h, "recordPickupWeight", "pickup_weighed", Priced(doc.pricing, service),
              {"pricing"}, 0, steps)
   BY <1>3 DEF RecordPickupWeight
 <2>2. CallOK("recordPickupWeight", steps) /\ steps # <<>> BY StepsOfCalls
 <2> HIDE DEF steps
 <2>3. <<"recordPickupWeight", doc.status>> \in Finds BY <1>0, <1>2, <2>1, WhereCallsBegin
 <2>4. /\ Priced(doc.pricing, service) \in Pricing
       /\ Priced(doc.pricing, service).consumed = doc.pricing.consumed
   BY <1>0, PricedIsPricing
 <2>5. Repriced("recordPickupWeight", Priced(doc.pricing, service)) BY CallsApart DEF Repriced, Same
 <2>6. Asked("recordPickupWeight", Priced(doc.pricing, service), {"pricing"}, 0, steps)
   BY <2>2, <2>3, <2>4, <2>5, CallsApart DEF Asked
 <2>7. QED BY <1>1, <1>3, <2>1, <2>2, <2>6 DEF RecordPickupWeight
<1>4. CASE RecordPickupPayment(h)
 <2>1. PICK now \in BOOLEAN :
         Load(h, "recordPickupPayment", "picked_up_from_customer", doc.pricing, {}, 0,
              IF now
              THEN <<"save", "collectOutstanding", "save", "row",
                     "picked_up_from_customer", "laundry_in_progress">>
              ELSE <<"save", "picked_up_from_customer", "laundry_in_progress">>)
   BY <1>4 DEF RecordPickupPayment
 <2> DEFINE steps == IF now
              THEN <<"save", "collectOutstanding", "save", "row",
                     "picked_up_from_customer", "laundry_in_progress">>
              ELSE <<"save", "picked_up_from_customer", "laundry_in_progress">>
 <2>2. CallOK("recordPickupPayment", steps) /\ steps # <<>> BY StepsOfCalls
 <2>3. Load(h, "recordPickupPayment", "picked_up_from_customer", doc.pricing, {}, 0, steps) BY <2>1
 <2> HIDE DEF steps
 <2>4. <<"recordPickupPayment", doc.status>> \in Finds BY <1>0, <1>2, <2>3, WhereCallsBegin
 <2>5. Repriced("recordPickupPayment", doc.pricing) BY CallsApart DEF Repriced, Same
 <2>6. Asked("recordPickupPayment", doc.pricing, {}, 0, steps)
   BY <1>0, <2>2, <2>4, <2>5, CallsApart DEF Asked
 <2>7. QED BY <1>1, <1>4, <2>2, <2>3, <2>6 DEF RecordPickupPayment
<1>5. CASE ReceiveAtCounter(h)
 <2>1. PICK service \in Services, now \in BOOLEAN :
         Load(h, "receiveAtCounter", "received_by_provider",
              Priced(doc.pricing, service), {"pricing"}, 0,
              IF now
              THEN <<"save", "collectOutstanding", "save", "row", "fee", "save",
                     "received_by_provider", "laundry_in_progress">>
              ELSE <<"save", "fee", "save",
                     "received_by_provider", "laundry_in_progress">>)
   BY <1>5 DEF ReceiveAtCounter
 <2> DEFINE steps == IF now
              THEN <<"save", "collectOutstanding", "save", "row", "fee", "save",
                     "received_by_provider", "laundry_in_progress">>
              ELSE <<"save", "fee", "save",
                     "received_by_provider", "laundry_in_progress">>
 <2>2. CallOK("receiveAtCounter", steps) /\ steps # <<>> BY StepsOfCalls
 <2>3. Load(h, "receiveAtCounter", "received_by_provider",
            Priced(doc.pricing, service), {"pricing"}, 0, steps)
   BY <2>1
 <2> HIDE DEF steps
 <2>4. <<"receiveAtCounter", doc.status>> \in Finds BY <1>0, <1>2, <2>3, WhereCallsBegin
 <2>5. /\ Priced(doc.pricing, service) \in Pricing
       /\ Priced(doc.pricing, service).consumed = doc.pricing.consumed
   BY <1>0, PricedIsPricing
 <2>6. Repriced("receiveAtCounter", Priced(doc.pricing, service)) BY CallsApart DEF Repriced, Same
 <2>7. Asked("receiveAtCounter", Priced(doc.pricing, service), {"pricing"}, 0, steps)
   BY <2>2, <2>4, <2>5, <2>6, CallsApart DEF Asked
 <2>8. QED BY <1>1, <1>5, <2>2, <2>3, <2>7 DEF ReceiveAtCounter
<1>6. CASE ApproveSurcharge(h)
 <2> DEFINE steps == <<"save", "laundry_in_progress">>
 <2>1. PICK amount \in Surcharges :
         Load(h, "respondToQualityHold", "laundry_in_progress",
              Surcharged(doc.pricing, amount), {"pricing"}, 0, steps)
   BY <1>6 DEF ApproveSurcharge
 <2>2. CallOK("respondToQualityHold", steps) /\ steps # <<>> BY StepsOfCalls
 <2> HIDE DEF steps
 <2>3. <<"respondToQualityHold", doc.status>> \in Finds
   BY <1>0, <1>6, WhereCallsBegin DEF ApproveSurcharge
 <2>4. /\ Surcharged(doc.pricing, amount) \in Pricing
       /\ Surcharged(doc.pricing, amount).consumed = doc.pricing.consumed
   BY <1>0, SurchargedIsPricing
 <2>5. Repriced("respondToQualityHold", Surcharged(doc.pricing, amount))
   BY CallsApart DEF Repriced, Same
 <2>6. Asked("respondToQualityHold", Surcharged(doc.pricing, amount), {"pricing"}, 0, steps)
   BY <2>2, <2>3, <2>4, <2>5, CallsApart DEF Asked
 <2>7. QED BY <1>1, <1>6, <2>1, <2>2, <2>6 DEF ApproveSurcharge
<1>7. ASSUME NEW name \in Handovers,
             NEW to \in {"delivered_to_customer", "customer_pickup_verified"},
             <<doc.status, to>> \in Edge => <<name, doc.status>> \in Finds,
             HandOver(h, name, to)
      PROVE  LifeInv'
 <2> DEFINE steps == IF Outstanding(doc) > 0
         THEN <<"save", "collectDue", "save", "row", "fee", "save", to, "completed">>
         ELSE <<"save", to, "completed">>
 <2>1. Load(h, name, to, doc.pricing, {}, Outstanding(doc), steps) /\ listed' = listed
   BY <1>7 DEF HandOver
 <2>2. CallOK(name, steps) /\ steps # <<>> BY <1>7, StepsOfCalls
 <2>3. Contains(steps, Collects) \/ Outstanding(doc) = 0
  <3>1. Outstanding(doc) \in Nat BY <1>0, OutstandingIsNatural
  <3>2. Contains(<<"save", "collectDue", "save", "row", "fee", "save", to, "completed">>, Collects)
    BY DEF Contains, Collects
  <3>3. QED BY <3>1, <3>2
 <2> HIDE DEF steps
 <2>4. <<name, doc.status>> \in Finds BY <1>2, <1>7, <2>1
 <2>5. Repriced(name, doc.pricing) BY <1>7, CallsApart DEF Repriced, Same
 <2>6. Asked(name, doc.pricing, {}, Outstanding(doc), steps)
   BY <1>0, <1>7, <2>2, <2>3, <2>4, <2>5, CallsApart DEF Asked
 <2>7. QED BY <1>1, <2>1, <2>2, <2>6
<1>8. CASE RecordDelivery(h)
 <2>1. <<doc.status, "delivered_to_customer">> \in Edge => <<"recordDelivery", doc.status>> \in Finds
   BY <1>0, WhereCallsBegin
 <2>2. QED BY <1>7, <1>8, <2>1 DEF RecordDelivery, Handovers
<1>9. CASE VerifySelfPickup(h)
 <2>1. <<doc.status, "customer_pickup_verified">> \in Edge => <<"verifySelfPickup", doc.status>> \in Finds
   BY <1>0, WhereCallsBegin
 <2>2. QED BY <1>7, <1>9, <2>1 DEF VerifySelfPickup, Handovers
<1>10. CASE AbandonBySupport(h) BY <1>0, <1>10, AbandonmentLives DEF AbandonBySupport
<1>11. QED BY <1>3, <1>4, <1>5, <1>6, <1>8, <1>9, <1>10 DEF Request

-----------------------------------------------------------------------------
(* The whole. *)

LEMMA LifeInit == Init => LifeInv
<1> SUFFICES ASSUME Init PROVE LifeInv OBVIOUS
<1>1. PICK status \in {"accepted_by_provider", "pickup_arrived"}, waived \in BOOLEAN :
        doc = [Blank EXCEPT
                 !.status = status,
                 !.pricing.fee = PlatformFee(Estimate),
                 !.pricing.waived = waived,
                 !.pricing.waiver = IF waived THEN PlatformFee(Estimate) ELSE 0]
  BY DEF Init
<1>2. PICK fee \in Nat : fee = PlatformFee(Estimate) BY AmountsAreNaturals, FeeIsNatural
<1>3. PICK waiver \in Nat : waiver = IF waived THEN fee ELSE 0 OBVIOUS
<1> DEFINE booked == [Blank.pricing EXCEPT !.fee = fee, !.waived = waived, !.waiver = waiver]
<1>4. /\ booked.consumed = 0 /\ booked.penalty = 0 /\ booked.total = 0
      /\ booked.fee = fee /\ booked.waiver = waiver /\ booked.waived = waived
  BY DEF Blank
<1>5. doc = [Blank EXCEPT !.status = status, !.pricing = booked] BY <1>1, <1>2, <1>3 DEF Blank
<1> HIDE DEF booked
<1>6. doc.status = status /\ doc.payment = 0 /\ doc.pricing = booked /\ doc.deadline = "none"
  BY <1>5 DEF Blank
<1>7. IInv BY SettlementInit
<1>8. /\ \A h \in Handlers : ~Active(h) /\ carried[h] = {}
      /\ \A s \in Sweeps : ~listed[s]
      /\ txDoc = doc /\ debit = 0
  BY DEF Init, Active
<1>9. CallsInv BY <1>8 DEF CallsInv, CallFits
<1>10. LoadsInv BY <1>4, <1>6, <1>8 DEF LoadsInv, ClockFits, LoadFits, Keen
<1>11. Kept(doc.pricing) BY <1>3, <1>4, <1>6 DEF Kept, Chargeable, Max0
<1>12. WaiversInv BY <1>4, <1>6, <1>8, <1>11 DEF WaiversInv, WaiverFits, Keen
<1>13. doc.status \in Booked /\ doc.status \notin HandedOver \cup {"pickup_weighed", "abandoned_unsettled"}
  BY <1>6 DEF Booked, HandedOver
<1>14. PricesInv /\ AbandonedReturnsFee
  BY <1>4, <1>6, <1>13 DEF PricesInv, Weighed, Reconciles, AbandonedReturnsFee
<1>15. SettledInv BY <1>4, <1>6, <1>8, <1>13 DEF SettledInv, MoneyFits, Keen
<1>16. QED BY <1>7, <1>9, <1>10, <1>12, <1>14, <1>15 DEF LifeInv

LEMMA LifeStep == LifeInv /\ [Next]_vars => LifeInv'
<1> SUFFICES ASSUME LifeInv, [Next]_vars PROVE LifeInv' OBVIOUS
<1>0. IInv /\ IInv' BY SettlementStep DEF LifeInv
<1>1. ASSUME NEW h \in Callers, Request(h) PROVE LifeInv' BY <1>0, <1>1, RequestLives
<1>2. ASSUME NEW s \in Sweeps, Job(s) PROVE LifeInv'
 <2>0. s \in Handlers /\ listed \in [Sweeps -> BOOLEAN] BY <1>0 DEF Handlers, IInv, TypeOK
 <2>1. CASE SweepReads(s)
  <3>1. \A r \in Sweeps :
          listed'[r] => listed[r] \/ (doc.status \in Waiting /\ doc.deadline # "none")
    BY <2>0, <2>1 DEF SweepReads
  <3>2. QED BY <1>0, <2>1, <3>1, OutsideLives DEF SweepReads
 <2>2. CASE SweepAbandons(s)
  <3>1. listed[s] /\ \A r \in Sweeps : listed'[r] => listed[r] BY <2>0, <2>2 DEF SweepAbandons
  <3>2. QED BY <1>0, <2>0, <2>2, <3>1, AbandonmentLives DEF SweepAbandons
 <2>3. CASE SweepPassesOver(s)
  <3>1. \A r \in Sweeps : listed'[r] => listed[r] BY <2>0, <2>3 DEF SweepPassesOver
  <3>2. QED BY <1>0, <2>3, <3>1, OutsideLives DEF SweepPassesOver
 <2>4. QED BY <1>2, <2>1, <2>2, <2>3 DEF Job
<1>3. ASSUME NEW h \in Handlers, Run(h) PROVE LifeInv'
 <2>0. /\ IInv /\ copy[h] \in Document /\ copy[h].pricing \in Pricing /\ due[h] \in Nat
       /\ copy[h].pricing.consumed \in Nat
   BY <1>0, <1>3, CopyOfHandler
 <2>1. CASE CollectOutstanding(h)
  <3>1. PICK amount \in Nat : amount = Outstanding(copy[h]) BY <2>0, OutstandingIsNatural
  <3>2. Doing(h, "collectOutstanding") /\ CollectOn(h, amount) BY <2>1, <3>1 DEF CollectOutstanding
  <3>3. QED BY <1>0, <3>1, <3>2, CollectionLives DEF Collects
 <2>2. CASE CollectDue(h)
  <3>1. Doing(h, "collectDue") /\ CollectOn(h, due[h]) BY <2>2 DEF CollectDue
  <3>2. QED BY <1>0, <2>0, <3>1, CollectionLives DEF Collects
 <2>3. CASE Fee(h)
  <3>1. PICK consumed \in Nat : consumed = Chargeable(copy[h].pricing) BY <2>0, ChargeableIsNatural
  <3>2. PICK amount \in Int : amount = consumed - copy[h].pricing.consumed BY <2>0, <3>1
  <3>3. Doing(h, "fee") /\ Charge(h, amount, consumed) BY <2>3, <3>1, <3>2 DEF Fee
  <3>4. QED BY <1>0, <3>1, <3>2, <3>3, ChargeLives
 <2>4. CASE Reverse(h)
  <3>1. PICK amount \in Int : amount = 0 - due[h] BY <2>0
  <3>2. Doing(h, "reverse") /\ Charge(h, amount, 0) BY <2>4, <3>1 DEF Reverse
  <3>3. QED BY <1>0, <3>1, <3>2, ChargeLives
 <2>5. CASE Throw(h)
  <3>1. holder = h /\ Finish(h) /\ UNCHANGED <<books, marks>> BY <2>5 DEF Throw
  <3>2. QED BY <1>0, <3>1, FinishLives
 <2>6. QED
   BY <1>0, <1>3, <2>1, <2>2, <2>3, <2>4, <2>5, BeginLives, SaveLives, RowLives, MoveLives,
      CommitLives DEF Run
<1>4. ASSUME NEW h \in Handlers, Abort(h) PROVE LifeInv' BY <1>0, <1>4, AbortLives
<1>5. ASSUME NEW h \in Handlers, Crash(h) PROVE LifeInv'
 <2>1. holder \in {h, Nobody} /\ Finish(h) /\ UNCHANGED <<books, marks>> BY <1>5 DEF Crash
 <2>2. QED BY <1>0, <2>1, FinishLives
<1>6. CASE DeadlinePasses BY <1>0, <1>6, DeadlineLives
<1>7. CASE OtherCall
 <2>1. MoveAlong(Edge \ MoneyEdge, {}) /\ Edge \ MoneyEdge \in SUBSET Edge /\ {} \in SUBSET Mark
   BY <1>7 DEF OtherCall
 <2>2. QED BY <1>0, <2>1, MoveAlongLives
<1>8. CASE OverrideStatus
 <2>1. MoveAlong(MoneyEdge, {"overridden"}) /\ MoneyEdge \in SUBSET Edge
       /\ {"overridden"} \in SUBSET Mark
   BY <1>8 DEF OverrideStatus, MoneyEdge, Mark
 <2>2. QED BY <1>0, <2>1, MoveAlongLives
<1>9. CASE UNCHANGED vars BY <1>0, <1>9, OutsideLives DEF vars
<1>10. QED BY <1>1, <1>2, <1>3, <1>4, <1>5, <1>6, <1>7, <1>8, <1>9 DEF Next

(* A sweep commits on the order as it loaded it, which owed. *)
LEMMA SweepFindsDebtor == LifeInv => SweptOrderOwes
<1> SUFFICES ASSUME LifeInv, NEW s \in Sweeps, Commit(s), "moved" \notin marks
             PROVE  Outstanding(doc) > 0
  BY DEF SweptOrderOwes
<1>0. s \in Handlers BY DEF Handlers
<1>1. /\ IInv /\ holder = s /\ todo = <<>> /\ Active(s) /\ CallFits(s) BY <1>0, CommitDoes
<1>2. "moved" \notin carried[s] BY <1>1 DEF CallFits, AbandonmentFits
<1>3. Fresh(s) BY <1>0, <1>1, <1>2 DEF IInv, VersionsInv, VersionFits, NotMovedYet, MovedOn, Fresh
<1>4. Loaded(s) BY <1>0, <1>1, <1>2, <1>3 DEF LifeInv, LoadsInv, LoadFits, Keen
<1>5. QED BY <1>4 DEF Loaded

(* An order's life is sound, for any number of callers and sweeps, any
   amounts, attempts aborted and processes lost at any point: what it says
   is paid and charged when the laundry changes hands, that its price adds
   up, that a waived fee stays waived and an abandoned order costs nothing,
   and that a sweep abandons no order that owes nothing.  finalizePricing,
   abandonUnsettledOrder, recordDelivery, sweepAbandonedOrders. *)
THEOREM LifeKeptSound == Spec => LifeIsSound
<1>1. LifeInv => HandedOverIsSettled /\ PriceReconciles /\ WaiverHolds /\ AbandonedReturnsFee
 <2> SUFFICES ASSUME LifeInv
              PROVE  HandedOverIsSettled /\ PriceReconciles /\ WaiverHolds /\ AbandonedReturnsFee
   OBVIOUS
 <2>1. HandedOverIsSettled
   BY PhasesApart
      DEF LifeInv, PricesInv, SettledInv, MoneyFits, Weighed, HandedOverIsSettled
 <2>2. PriceReconciles BY DEF LifeInv, PricesInv, Reconciles, PriceReconciles
 <2>3. WaiverHolds
  <3>1. /\ debit \in Int /\ doc.pricing.consumed \in Nat /\ doc.pricing.penalty \in Nat
        /\ Chargeable(doc.pricing) \in Nat
    BY OrderOfBooks DEF LifeInv
  <3>2. QED BY <3>1 DEF LifeInv, WaiversInv, Kept, WaiverHolds
 <2>4. QED BY <2>1, <2>2, <2>3 DEF LifeInv
<1>2. QED BY <1>1, LifeInit, LifeStep, SweepFindsDebtor, PTL DEF Spec, LifeIsSound

=============================================================================
