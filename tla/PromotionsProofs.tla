-------------------------- MODULE PromotionsProofs --------------------------
(* Theorems of Promotions, for every set of handlers, promotions, orders,
   rows, customers and branches, and every cap and bound. *)
EXTENDS Promotions, FiniteSetTheorems, TLAPS

(* What a request names at each of its stages. *)
RequestOK(h) ==
  /\ pc[h] = "idle" => order[h] = None /\ promo[h] = None /\ given[h] = None
  /\ pc[h] \in {"count", "act"} => promo[h] \in Promos
  /\ pc[h] \in {"begin", "commit"} => purpose[h] = "waive"
  /\ pc[h] = "stamp" => purpose[h] = "reserve"
  /\ purpose[h] \in {"book", "reserve"}
       => order[h] \in Orders /\ promo[h] \in Codes \cup {None}
  /\ purpose[h] = "book" => promo[h] # None /\ status[order[h]] = "none"
  /\ purpose[h] = "reserve" => code[order[h]] # None /\ status[order[h]] # "none"
  /\ purpose[h] = "waive"
       => order[h] \in Orders /\ promo[h] \in Waivers \cup {None}
  /\ purpose[h] = "waive" /\ pc[h] # "begin" => taken[order[h]] = h
  /\ purpose[h] = "waive"
       => seenCap[h] = 0 /\ (pc[h] \in {"count", "act"} <=> promo[h] # None)
  /\ given[h] # None
       => purpose[h] = "waive" /\ (saved[h] \/ order[h] \in stray)
  /\ saved[h] => given[h] # None
  /\ promo[h] = None => seenCap[h] = 0
  /\ promo[h] # None => seenCap[h] <= ceiling[promo[h]]

(* An order is being placed by one request, and accepted by one at a time. *)
OrderOK(o) ==
  /\ \A g, h \in Handlers :
       order[g] = o /\ order[h] = o /\ purpose[g] = "book" => g = h
  /\ taken[o] # None
       => status[o] = "pending" /\ order[taken[o]] = o /\ purpose[taken[o]] = "waive"

(* A held slot is within reach of the transition that will free it. *)
SlotOK(r) ==
  LET o == rowOrder[r] IN
  o # None /\ o \notin stray
    => /\ rowState[r] = "RESERVED"
            => /\ status[o] \in Open
               /\ \/ code[o] # None \/ waiver[o] # None
                  \/ taken[o] # None /\ given[taken[o]] # None
       /\ rowState[r] = "RELEASED" => status[o] = "ended" \/ o \in revived

Requests == \A h \in Handlers : RequestOK(h)
OrdersOK == \A o \in Orders : OrderOK(o)
SlotsOK == \A r \in Redemptions : SlotOK(r)
CapsOK == \A p \in Promos : cap[p] <= ceiling[p] /\ count[p] <= ceiling[p]

Facts == TypeOK /\ Requests /\ OrdersOK /\ CountIsLedger /\ CapsOK

LEMMA Empty ==
  ASSUME Init PROVE TypeOK /\ Requests /\ OrdersOK /\ SlotsOK /\ CapsOK
<1> USE PromosDisjoint, OrdersOwned, CapsAreNaturals, NoneIsNothing DEF Init
<1>1. TypeOK BY DEF TypeOK, RowState, Status, Stage, Purpose, Promos
<1>2. Requests BY DEF Requests, RequestOK
<1>3. OrdersOK BY DEF OrdersOK, OrderOK
<1>4. SlotsOK BY DEF SlotsOK, SlotOK
<1>5. CapsOK BY DEF CapsOK
<1>6. QED BY <1>1, <1>2, <1>3, <1>4, <1>5

(* The rows that count for a promotion, and what an action does to them. *)
Live(p) == {r \in Redemptions : Counts(r) /\ rowPromo[r] = p}

LEMMA LiveIsFinite ==
  ASSUME NEW p PROVE IsFiniteSet(Live(p)) /\ Cardinality(Live(p)) \in Nat
<1>1. Live(p) \in SUBSET Redemptions BY DEF Live
<1>2. IsFiniteSet(Live(p)) BY <1>1, FiniteRows, FS_Subset
<1>3. QED BY <1>2, FS_CardinalityType

LEMMA FreedRows ==
  ASSUME TypeOK, CountIsLedger, NEW o \in Orders, NEW p \in Promos
  PROVE  /\ {r \in Freed(o) : rowPromo[r] = p} \in SUBSET Live(p)
         /\ Cardinality({r \in Freed(o) : rowPromo[r] = p}) \in Nat
         /\ Cardinality({r \in Freed(o) : rowPromo[r] = p}) <= count[p]
<1>1. {r \in Freed(o) : rowPromo[r] = p} \in SUBSET Live(p) BY DEF Freed, Held, Live, Counts
<1>2. /\ IsFiniteSet({r \in Freed(o) : rowPromo[r] = p})
      /\ Cardinality({r \in Freed(o) : rowPromo[r] = p}) <= Cardinality(Live(p))
  BY <1>1, LiveIsFinite, FS_Subset
<1>3. Cardinality({r \in Freed(o) : rowPromo[r] = p}) \in Nat BY <1>2, FS_CardinalityType
<1>4. count[p] = Cardinality(Live(p)) BY DEF CountIsLedger, Live
<1>5. QED BY <1>1, <1>2, <1>3, <1>4

LEMMA TypeStep == ASSUME Facts, Next PROVE TypeOK'
<1> USE PromosDisjoint, OrdersOwned, CapsAreNaturals, BoundsAreNaturals,
        NoneIsNothing
    DEF Facts, TypeOK, RowState, Status, Stage, Purpose, Promos, Subjects,
        promotions, ledger, orders, requests, history
<1>1. ASSUME NEW h \in Handlers, NEW o \in Orders, AcceptOrder(h, o) PROVE TypeOK'
  BY <1>1 DEF AcceptOrder, Start
<1>2. ASSUME NEW h \in Handlers, NEW o \in Orders, NEW p \in Codes,
             PlaceOrder(h, o, p)
      PROVE TypeOK'
  BY <1>2 DEF PlaceOrder, Start
<1>3. ASSUME NEW h \in Handlers, NEW c \in Customers, NEW p \in Codes,
             NEW o \in Orders \cup {None}, Redeem(h, c, p, o)
      PROVE TypeOK'
  BY <1>3 DEF Redeem, Start
<1>4. ASSUME NEW h \in Handlers, ReadPromo(h) PROVE TypeOK' BY <1>4 DEF ReadPromo
<1>5. ASSUME NEW h \in Handlers, FindWaiver(h) PROVE TypeOK' BY <1>5 DEF FindWaiver
<1>6. ASSUME NEW h \in Handlers, CountUses(h) PROVE TypeOK' BY <1>6 DEF CountUses
<1>7. ASSUME NEW h \in Handlers, Invalid(h) PROVE TypeOK' BY <1>7 DEF Invalid, Finish
<1>8. ASSUME NEW h \in Handlers, NoWaiver(h) PROVE TypeOK' BY <1>8 DEF NoWaiver, Leave
<1>9. ASSUME NEW h \in Handlers, SaveOrder(h) PROVE TypeOK'
  BY <1>9 DEF SaveOrder, Requests, RequestOK
<1>10. ASSUME NEW h \in Handlers, ReserveForOrder(h) PROVE TypeOK'
  BY <1>10 DEF ReserveForOrder, Take, Leave, Requests, RequestOK
<1>11. ASSUME NEW h \in Handlers, GrantDirectly(h) PROVE TypeOK'
  BY <1>11 DEF GrantDirectly, Take, Finish, Requests, RequestOK
<1>12. ASSUME NEW h \in Handlers, ReserveForBranch(h) PROVE TypeOK'
  BY <1>12 DEF ReserveForBranch, Take, Leave, Requests, RequestOK
<1>13. ASSUME NEW h \in Handlers, StampPromoId(h) PROVE TypeOK'
  BY <1>13 DEF StampPromoId, Finish, Requests, RequestOK
<1>14. ASSUME NEW h \in Handlers, BeginAttempt(h) PROVE TypeOK'
  BY <1>14 DEF BeginAttempt, Requests, RequestOK
<1>15. ASSUME NEW h \in Handlers, AlreadyMoved(h) PROVE TypeOK' BY <1>15 DEF AlreadyMoved, Finish
<1>16. ASSUME NEW h \in Handlers, CommitAccept(h) PROVE TypeOK'
  BY <1>16 DEF CommitAccept, Finish, Requests, RequestOK
<1>17. ASSUME NEW h \in Handlers, AbortAccept(h) PROVE TypeOK'
  BY <1>17 DEF AbortAccept, Leaves, Requests, RequestOK
<1>18. ASSUME NEW h \in Handlers, Crash(h) PROVE TypeOK'
  BY <1>18 DEF Crash, Leaves, Finish, Requests, RequestOK
<1>19. ASSUME NEW o \in Orders, PlaceOrderWithoutCode(o) PROVE TypeOK'
  BY <1>19 DEF PlaceOrderWithoutCode
<1>20. ASSUME NEW o \in Orders, EndOrder(o) PROVE TypeOK'
 <2>1. count' \in [Promos -> Nat] BY <1>20, FreedRows DEF EndOrder
 <2>2. QED BY <1>20, <2>1 DEF EndOrder, Move
<1>21. ASSUME NEW o \in Orders, CompleteOrder(o) PROVE TypeOK' BY <1>21 DEF CompleteOrder, Move
<1>22. ASSUME NEW p \in Promos, SetActive(p) PROVE TypeOK' BY <1>22 DEF SetActive
<1>23. ASSUME NEW p \in Promos, NEW m \in Caps, UpdateCap(p, m) PROVE TypeOK' BY <1>23 DEF UpdateCap
<1>24. QED
  BY <1>1, <1>2, <1>3, <1>4, <1>5, <1>6, <1>7, <1>8, <1>9, <1>10, <1>11, <1>12, <1>13, <1>14, <1>15, <1>16, <1>17, <1>18, <1>19, <1>20, <1>21, <1>22, <1>23 DEF Next, Request, Run

LEMMA RequestsStep == ASSUME Facts, Next PROVE Requests'
<1> USE PromosDisjoint, NoneIsNothing, CapsAreNaturals
    DEF Facts, TypeOK, Requests, OrdersOK, OrderOK, RequestOK, CapsOK, Promos, Subjects,
        promotions, ledger, orders, requests, history, Stage, Purpose, Open
<1>1. ASSUME NEW h \in Handlers, NEW o \in Orders, AcceptOrder(h, o) PROVE Requests'
  BY <1>1 DEF AcceptOrder, Start
<1>2. ASSUME NEW h \in Handlers, NEW o \in Orders, NEW p \in Codes,
             PlaceOrder(h, o, p)
      PROVE Requests'
  BY <1>2 DEF PlaceOrder, Start
<1>3. ASSUME NEW h \in Handlers, NEW c \in Customers, NEW p \in Codes,
             NEW o \in Orders \cup {None}, Redeem(h, c, p, o)
      PROVE Requests'
  BY <1>3 DEF Redeem, Start
<1>4. ASSUME NEW h \in Handlers, ReadPromo(h) PROVE Requests'
 <2>1. promo[h] \in Promos /\ cap[promo[h]] <= ceiling[promo[h]] BY <1>4 DEF ReadPromo
 <2>2. RequestOK(h)' BY <1>4, <2>1 DEF ReadPromo
 <2>3. ASSUME NEW g \in Handlers, g # h PROVE RequestOK(g)' BY <1>4, <2>3 DEF ReadPromo
 <2>4. QED BY <2>2, <2>3
<1>5. ASSUME NEW h \in Handlers, FindWaiver(h) PROVE Requests'
 <2>1. PICK p \in Waivers : promo' = [promo EXCEPT ![h] = p] BY <1>5 DEF FindWaiver
 <2>2. seenCap[h] = 0 BY <1>5 DEF FindWaiver
 <2>3. RequestOK(h)' BY <1>5, <2>1, <2>2 DEF FindWaiver
 <2>4. ASSUME NEW g \in Handlers, g # h PROVE RequestOK(g)' BY <1>5, <2>1, <2>4 DEF FindWaiver
 <2>5. QED BY <2>3, <2>4
<1>6. ASSUME NEW h \in Handlers, CountUses(h) PROVE Requests' BY <1>6 DEF CountUses
<1>7. ASSUME NEW h \in Handlers, Invalid(h) PROVE Requests' BY <1>7 DEF Invalid, Finish
<1>8. ASSUME NEW h \in Handlers, NoWaiver(h) PROVE Requests' BY <1>8 DEF NoWaiver, Leave
<1>9. ASSUME NEW h \in Handlers, SaveOrder(h) PROVE Requests' BY <1>9 DEF SaveOrder
<1>10. ASSUME NEW h \in Handlers, ReserveForOrder(h) PROVE Requests'
  BY <1>10 DEF ReserveForOrder, Take, Leave
<1>11. ASSUME NEW h \in Handlers, GrantDirectly(h) PROVE Requests'
  BY <1>11 DEF GrantDirectly, Take, Finish
<1>12. ASSUME NEW h \in Handlers, ReserveForBranch(h) PROVE Requests'
  BY <1>12 DEF ReserveForBranch, Take, Leave
<1>13. ASSUME NEW h \in Handlers, StampPromoId(h) PROVE Requests' BY <1>13 DEF StampPromoId, Finish
<1>14. ASSUME NEW h \in Handlers, BeginAttempt(h) PROVE Requests' BY <1>14 DEF BeginAttempt
<1>15. ASSUME NEW h \in Handlers, AlreadyMoved(h) PROVE Requests' BY <1>15 DEF AlreadyMoved, Finish
<1>16. ASSUME NEW h \in Handlers, CommitAccept(h) PROVE Requests'
 <2>1. order[h] \in Orders /\ taken[order[h]] = h /\ status[order[h]] = "pending"
   BY <1>16 DEF CommitAccept
 <2>2. RequestOK(h)' BY <1>16 DEF CommitAccept, Finish
 <2>3. ASSUME NEW g \in Handlers, g # h PROVE RequestOK(g)'
  <3>1. /\ pc'[g] = pc[g] /\ purpose'[g] = purpose[g] /\ promo'[g] = promo[g]
        /\ order'[g] = order[g] /\ given'[g] = given[g]
        /\ saved'[g] = saved[g] /\ seenCap'[g] = seenCap[g]
        /\ stray' = stray /\ ceiling' = ceiling /\ code' = code
    BY <1>16, <2>3 DEF CommitAccept, Finish
  <3>2. /\ purpose[g] = "book" => status'[order[g]] = "none"
        /\ purpose[g] = "reserve" => status'[order[g]] # "none"
    BY <1>16, <2>1 DEF CommitAccept
  <3>3. purpose[g] = "waive" /\ pc[g] # "begin" => taken'[order[g]] = g
    BY <1>16, <2>1, <2>3 DEF CommitAccept
  <3>4. RequestOK(g) OBVIOUS
  <3>5. QED BY <3>1, <3>2, <3>3, <3>4
 <2>4. QED BY <2>2, <2>3
<1>17. ASSUME NEW h \in Handlers, AbortAccept(h) PROVE Requests'
 <2>1. order[h] \in Orders /\ taken[order[h]] = h BY <1>17 DEF AbortAccept
 <2>2. RequestOK(h)' BY <1>17, <2>1 DEF AbortAccept, Leaves
 <2>3. ASSUME NEW g \in Handlers, g # h PROVE RequestOK(g)'
  <3>1. /\ pc'[g] = pc[g] /\ purpose'[g] = purpose[g] /\ promo'[g] = promo[g]
        /\ order'[g] = order[g] /\ given'[g] = given[g]
        /\ saved'[g] = saved[g] /\ seenCap'[g] = seenCap[g]
        /\ stray \subseteq stray' /\ ceiling' = ceiling /\ code' = code
        /\ status' = status
    BY <1>17, <2>3 DEF AbortAccept, Leaves
  <3>2. purpose[g] = "waive" /\ pc[g] # "begin" => taken'[order[g]] = g
    BY <1>17, <2>1, <2>3 DEF AbortAccept
  <3>3. RequestOK(g) OBVIOUS
  <3>4. QED BY <3>1, <3>2, <3>3
 <2>4. QED BY <2>2, <2>3
<1>18. ASSUME NEW h \in Handlers, Crash(h) PROVE Requests' BY <1>18 DEF Crash, Leaves, Finish
<1>19. ASSUME NEW o \in Orders, PlaceOrderWithoutCode(o) PROVE Requests'
  BY <1>19 DEF PlaceOrderWithoutCode
<1>20. ASSUME NEW o \in Orders, EndOrder(o) PROVE Requests' BY <1>20 DEF EndOrder, Move
<1>21. ASSUME NEW o \in Orders, CompleteOrder(o) PROVE Requests' BY <1>21 DEF CompleteOrder, Move
<1>22. ASSUME NEW p \in Promos, SetActive(p) PROVE Requests' BY <1>22 DEF SetActive
<1>23. ASSUME NEW p \in Promos, NEW m \in Caps, UpdateCap(p, m) PROVE Requests'
  BY <1>23 DEF UpdateCap
<1>24. QED
  BY <1>1, <1>2, <1>3, <1>4, <1>5, <1>6, <1>7, <1>8, <1>9, <1>10, <1>11, <1>12, <1>13, <1>14, <1>15, <1>16, <1>17, <1>18, <1>19, <1>20, <1>21, <1>22, <1>23 DEF Next, Request, Run

LEMMA OrdersStep == ASSUME Facts, Next PROVE OrdersOK'
<1> USE PromosDisjoint, NoneIsNothing
    DEF Facts, TypeOK, Requests, OrdersOK, OrderOK, RequestOK, Promos, Subjects,
        promotions, ledger, orders, requests, history, Stage, Purpose, Open
<1>1. ASSUME NEW h \in Handlers, NEW o \in Orders, AcceptOrder(h, o) PROVE OrdersOK'
  BY <1>1 DEF AcceptOrder, Start
<1>2. ASSUME NEW h \in Handlers, NEW o \in Orders, NEW p \in Codes,
             PlaceOrder(h, o, p)
      PROVE OrdersOK'
  BY <1>2 DEF PlaceOrder, Start
<1>3. ASSUME NEW h \in Handlers, NEW c \in Customers, NEW p \in Codes,
             NEW o \in Orders \cup {None}, Redeem(h, c, p, o)
      PROVE OrdersOK'
  BY <1>3 DEF Redeem, Start
<1>4. ASSUME NEW h \in Handlers, ReadPromo(h) PROVE OrdersOK' BY <1>4 DEF ReadPromo
<1>5. ASSUME NEW h \in Handlers, FindWaiver(h) PROVE OrdersOK' BY <1>5 DEF FindWaiver
<1>6. ASSUME NEW h \in Handlers, CountUses(h) PROVE OrdersOK' BY <1>6 DEF CountUses
<1>7. ASSUME NEW h \in Handlers, Invalid(h) PROVE OrdersOK' BY <1>7 DEF Invalid, Finish
<1>8. ASSUME NEW h \in Handlers, NoWaiver(h) PROVE OrdersOK' BY <1>8 DEF NoWaiver, Leave
<1>9. ASSUME NEW h \in Handlers, SaveOrder(h) PROVE OrdersOK' BY <1>9 DEF SaveOrder
<1>10. ASSUME NEW h \in Handlers, ReserveForOrder(h) PROVE OrdersOK'
  BY <1>10 DEF ReserveForOrder, Take, Leave
<1>11. ASSUME NEW h \in Handlers, GrantDirectly(h) PROVE OrdersOK'
  BY <1>11 DEF GrantDirectly, Take, Finish
<1>12. ASSUME NEW h \in Handlers, ReserveForBranch(h) PROVE OrdersOK'
  BY <1>12 DEF ReserveForBranch, Take, Leave
<1>13. ASSUME NEW h \in Handlers, StampPromoId(h) PROVE OrdersOK' BY <1>13 DEF StampPromoId, Finish
<1>14. ASSUME NEW h \in Handlers, BeginAttempt(h) PROVE OrdersOK' BY <1>14 DEF BeginAttempt
<1>15. ASSUME NEW h \in Handlers, AlreadyMoved(h) PROVE OrdersOK' BY <1>15 DEF AlreadyMoved, Finish
<1>16. ASSUME NEW h \in Handlers, CommitAccept(h) PROVE OrdersOK' BY <1>16 DEF CommitAccept, Finish
<1>17. ASSUME NEW h \in Handlers, AbortAccept(h) PROVE OrdersOK' BY <1>17 DEF AbortAccept, Leaves
<1>18. ASSUME NEW h \in Handlers, Crash(h) PROVE OrdersOK' BY <1>18 DEF Crash, Leaves, Finish
<1>19. ASSUME NEW o \in Orders, PlaceOrderWithoutCode(o) PROVE OrdersOK'
  BY <1>19 DEF PlaceOrderWithoutCode
<1>20. ASSUME NEW o \in Orders, EndOrder(o) PROVE OrdersOK' BY <1>20 DEF EndOrder, Move
<1>21. ASSUME NEW o \in Orders, CompleteOrder(o) PROVE OrdersOK' BY <1>21 DEF CompleteOrder, Move
<1>22. ASSUME NEW p \in Promos, SetActive(p) PROVE OrdersOK' BY <1>22 DEF SetActive
<1>23. ASSUME NEW p \in Promos, NEW m \in Caps, UpdateCap(p, m) PROVE OrdersOK'
  BY <1>23 DEF UpdateCap
<1>24. QED
  BY <1>1, <1>2, <1>3, <1>4, <1>5, <1>6, <1>7, <1>8, <1>9, <1>10, <1>11, <1>12, <1>13, <1>14, <1>15, <1>16, <1>17, <1>18, <1>19, <1>20, <1>21, <1>22, <1>23 DEF Next, Request, Run

(* Taking a slot adds one row to its promotion, and no other. *)
LEMMA TakeCounts ==
  ASSUME TypeOK, CountIsLedger, NEW h \in Handlers, promo[h] \in Promos,
         NEW limit, NEW as \in {"RESERVED", "REDEEMED"}, Take(h, limit, as)
  PROVE  CountIsLedger'
<1> USE DEF TypeOK, RowState
<1>1. PICK r \in Redemptions :
        /\ rowState[r] = "none"
        /\ rowState' = [rowState EXCEPT ![r] = as]
        /\ rowPromo' = [rowPromo EXCEPT ![r] = promo[h]]
  BY DEF Take
<1>2. ASSUME NEW p \in Promos PROVE count'[p] = Cardinality(Live(p)')
 <2>1. count[p] = Cardinality(Live(p)) BY DEF CountIsLedger, Live
 <2>2. CASE p = promo[h]
  <3>1. Live(p)' = Live(p) \cup {r} BY <1>1, <2>2 DEF Live, Counts
  <3>2. r \notin Live(p) BY <1>1 DEF Live, Counts
  <3>3. IsFiniteSet(Live(p)) BY LiveIsFinite
  <3>4. Cardinality(Live(p) \cup {r}) = Cardinality(Live(p)) + 1 BY <3>2, <3>3, FS_AddElement
  <3>5. QED BY <2>1, <2>2, <3>1, <3>4 DEF Take
 <2>3. CASE p # promo[h]
  <3>1. Live(p)' = Live(p) BY <1>1, <2>3 DEF Live, Counts
  <3>2. QED BY <2>1, <2>3, <3>1 DEF Take
 <2>4. QED BY <2>2, <2>3
<1>3. QED BY <1>2 DEF CountIsLedger, Live

LEMMA CountStep == ASSUME Facts, Next PROVE CountIsLedger'
<1> USE DEF Facts
<1>1. ASSUME UNCHANGED <<count, rowState, rowPromo>> PROVE CountIsLedger'
  BY <1>1 DEF CountIsLedger, Counts
<1>2. ASSUME NEW h \in Handlers, ReserveForOrder(h) PROVE CountIsLedger'
 <2>1. promo[h] \in Promos BY <1>2 DEF ReserveForOrder, Take, Requests, RequestOK
 <2>2. QED BY <1>2, <2>1, TakeCounts DEF ReserveForOrder
<1>3. ASSUME NEW h \in Handlers, GrantDirectly(h) PROVE CountIsLedger'
 <2>1. promo[h] \in Promos BY <1>3 DEF GrantDirectly, Take, Requests, RequestOK
 <2>2. QED BY <1>3, <2>1, TakeCounts DEF GrantDirectly
<1>4. ASSUME NEW h \in Handlers, ReserveForBranch(h) PROVE CountIsLedger'
 <2>1. promo[h] \in Promos BY <1>4 DEF ReserveForBranch, Take, Requests, RequestOK
 <2>2. QED BY <1>4, <2>1, TakeCounts DEF ReserveForBranch
<1>5. ASSUME NEW o \in Orders, EndOrder(o) PROVE CountIsLedger'
 <2>1. ASSUME NEW p \in Promos PROVE count'[p] = Cardinality(Live(p)')
  <3> DEFINE F == {r \in Freed(o) : rowPromo[r] = p}
  <3>1. count[p] = Cardinality(Live(p)) BY DEF CountIsLedger, Live
  <3>2. F \in SUBSET Live(p) /\ IsFiniteSet(F) BY FreedRows, LiveIsFinite, FS_Subset
  <3>3. Live(p)' = Live(p) \ F BY <1>5 DEF EndOrder, Move, Live, Counts, Freed, Held, TypeOK
  <3>4. Cardinality(Live(p)') = Cardinality(Live(p)) - Cardinality(Live(p) \cap F)
    BY <3>3, LiveIsFinite, FS_Difference
  <3>5. Live(p) \cap F = F BY <3>2
  <3>6. count'[p] = count[p] - Cardinality(F) BY <1>5 DEF EndOrder
  <3>7. QED BY <3>1, <3>4, <3>5, <3>6
 <2>2. QED BY <2>1 DEF CountIsLedger, Live
<1>6. ASSUME NEW o \in Orders, CompleteOrder(o) PROVE CountIsLedger'
 <2>1. ASSUME NEW p \in Promos PROVE Live(p)' = Live(p) /\ count'[p] = count[p]
   BY <1>6 DEF CompleteOrder, Move, Live, Counts, Freed, Held, TypeOK
 <2>2. QED BY <2>1 DEF CountIsLedger, Live
<1>7. QED
 <2>1. CASE \E h \in Handlers : Request(h)
   BY <2>1, <1>1 DEF Request, AcceptOrder, PlaceOrder, Redeem, Start, promotions, ledger
 <2>2. CASE \E h \in Handlers : Run(h)
   BY <2>2, <1>1, <1>2, <1>3, <1>4
   DEF Run, ReadPromo, FindWaiver, CountUses, Invalid, NoWaiver, SaveOrder,
       StampPromoId, BeginAttempt, AlreadyMoved, CommitAccept, promotions, ledger
 <2>3. CASE \E h \in Handlers : AbortAccept(h) \/ Crash(h)
   BY <2>3, <1>1 DEF AbortAccept, Crash, promotions, ledger
 <2>4. CASE \E o \in Orders :
              PlaceOrderWithoutCode(o) \/ EndOrder(o) \/ CompleteOrder(o)
   BY <2>4, <1>1, <1>5, <1>6 DEF PlaceOrderWithoutCode, promotions, ledger
 <2>5. CASE \E p \in Promos : SetActive(p) \/ \E m \in Caps : UpdateCap(p, m)
   BY <2>5, <1>1 DEF SetActive, UpdateCap, ledger
 <2>6. QED BY <2>1, <2>2, <2>3, <2>4, <2>5 DEF Next

LEMMA TakeStaysBelow ==
  ASSUME TypeOK, CapsOK, NEW h \in Handlers, promo[h] \in Promos,
         NEW limit \in Nat, limit <= ceiling[promo[h]], NEW as, Take(h, limit, as)
  PROVE  CapsOK'
BY DEF TypeOK, CapsOK, Take

LEMMA CapsStep == ASSUME Facts, Next PROVE CapsOK'
<1> USE DEF Facts
<1>1. ASSUME UNCHANGED <<count, cap, ceiling>> PROVE CapsOK' BY <1>1 DEF CapsOK
<1>2. ASSUME NEW h \in Handlers, ReserveForOrder(h) \/ GrantDirectly(h)
      PROVE CapsOK'
 <2>1. /\ promo[h] \in Promos /\ seenCap[h] \in Nat
       /\ seenCap[h] <= ceiling[promo[h]]
   BY <1>2, NoneIsNothing
   DEF ReserveForOrder, GrantDirectly, Take, Requests, RequestOK, TypeOK
 <2>2. QED BY <1>2, <2>1, TakeStaysBelow DEF ReserveForOrder, GrantDirectly
<1>3. ASSUME NEW h \in Handlers, ReserveForBranch(h) PROVE CapsOK'
 <2>1. promo[h] \in Promos BY <1>3 DEF ReserveForBranch, Take, Requests, RequestOK
 <2>2. cap[promo[h]] \in Nat /\ cap[promo[h]] <= ceiling[promo[h]] BY <2>1 DEF CapsOK, TypeOK
 <2>3. QED BY <1>3, <2>1, <2>2, TakeStaysBelow DEF ReserveForBranch
<1>4. ASSUME NEW o \in Orders, EndOrder(o) PROVE CapsOK'
 <2>1. ASSUME NEW p \in Promos PROVE count'[p] <= count[p] /\ count'[p] \in Int
   BY <1>4, FreedRows DEF EndOrder, TypeOK
 <2>2. QED BY <1>4, <2>1 DEF EndOrder, Move, CapsOK, TypeOK
<1>5. ASSUME NEW p \in Promos, NEW m \in Caps, UpdateCap(p, m) PROVE CapsOK'
  BY <1>5, CapsAreNaturals DEF UpdateCap, CapsOK, TypeOK
<1>6. QED
 <2>1. CASE \E h \in Handlers : Request(h)
   BY <2>1, <1>1 DEF Request, AcceptOrder, PlaceOrder, Redeem, Start, promotions
 <2>2. CASE \E h \in Handlers : Run(h)
   BY <2>2, <1>1, <1>2, <1>3
   DEF Run, ReadPromo, FindWaiver, CountUses, Invalid, NoWaiver, SaveOrder,
       StampPromoId, BeginAttempt, AlreadyMoved, CommitAccept, promotions
 <2>3. CASE \E h \in Handlers : AbortAccept(h) \/ Crash(h)
   BY <2>3, <1>1 DEF AbortAccept, Crash, promotions
 <2>4. CASE \E o \in Orders :
              PlaceOrderWithoutCode(o) \/ EndOrder(o) \/ CompleteOrder(o)
   BY <2>4, <1>1, <1>4 DEF PlaceOrderWithoutCode, CompleteOrder, Move, promotions
 <2>5. CASE \E p \in Promos : SetActive(p) \/ \E m \in Caps : UpdateCap(p, m)
   BY <2>5, <1>1, <1>5 DEF SetActive
 <2>6. QED BY <2>1, <2>2, <2>3, <2>4, <2>5 DEF Next

(* Only a transition frees a slot, and it frees all that its order holds. *)
LEMMA SlotsStep == ASSUME Facts, SlotsOK, Next PROVE SlotsOK'
<1> USE NoneIsNothing
    DEF Facts, TypeOK, Requests, RequestOK, OrdersOK, OrderOK, Open,
        promotions, ledger, orders, requests, history
<1>1. ASSUME UNCHANGED <<rowState, rowOrder, status, code, waiver, taken, given, stray, revived>>
      PROVE  SlotsOK'
  BY <1>1 DEF SlotsOK, SlotOK
<1>2. ASSUME NEW h \in Handlers, Invalid(h) \/ AlreadyMoved(h) PROVE SlotsOK'
 <2>1. \A o \in Orders : taken[o] # h BY <1>2 DEF Invalid, AlreadyMoved
 <2>2. /\ UNCHANGED <<rowState, rowOrder, status, code, waiver, taken, stray, revived>>
       /\ \A g \in Handlers : g # h => given'[g] = given[g]
   BY <1>2 DEF Invalid, AlreadyMoved, Finish
 <2>3. QED BY <2>1, <2>2 DEF SlotsOK, SlotOK
<1>3. ASSUME NEW h \in Handlers, SaveOrder(h) PROVE SlotsOK' BY <1>3 DEF SaveOrder, SlotsOK, SlotOK
<1>4. ASSUME NEW h \in Handlers, ReserveForOrder(h) PROVE SlotsOK'
  BY <1>4 DEF ReserveForOrder, Take, Leave, SlotsOK, SlotOK
<1>5. ASSUME NEW h \in Handlers, GrantDirectly(h) PROVE SlotsOK'
  BY <1>5 DEF GrantDirectly, Take, Finish, SlotsOK, SlotOK
<1>6. ASSUME NEW h \in Handlers, ReserveForBranch(h) PROVE SlotsOK'
  BY <1>6 DEF ReserveForBranch, Take, Leave, SlotsOK, SlotOK
<1>7. ASSUME NEW h \in Handlers, StampPromoId(h) PROVE SlotsOK'
  BY <1>7 DEF StampPromoId, Finish, SlotsOK, SlotOK
<1>8. ASSUME NEW h \in Handlers, BeginAttempt(h) PROVE SlotsOK'
  BY <1>8 DEF BeginAttempt, SlotsOK, SlotOK
<1>9. ASSUME NEW h \in Handlers, CommitAccept(h) PROVE SlotsOK'
 <2>1. /\ order[h] \in Orders /\ taken[order[h]] = h
       /\ given[h] # None => saved[h] \/ order[h] \in stray
       /\ saved[h] => given[h] # None
   BY <1>9 DEF CommitAccept
 <2>2. ASSUME NEW r \in Redemptions PROVE SlotOK(r)'
  <3>1. SlotOK(r) /\ rowOrder[r] \in Orders \cup {None} BY DEF SlotsOK
  <3>2. CASE rowOrder[r] = order[h]
   <4>1. /\ rowState'[r] = rowState[r] /\ rowOrder'[r] = order[h]
         /\ stray' = stray /\ revived' = revived /\ code' = code
         /\ status'[order[h]] = "accepted" /\ status[order[h]] = "pending"
         /\ waiver'[order[h]] = IF saved[h] THEN given[h] ELSE waiver[order[h]]
     BY <1>9, <2>1, <3>2 DEF CommitAccept
   <4>2. order[h] \notin stray /\ given[h] # None
           => waiver'[order[h]] # None
     BY <2>1, <4>1
   <4>3. order[h] \notin stray /\ waiver[order[h]] # None
           => waiver'[order[h]] # None
     BY <2>1, <4>1
   <4> HIDE DEF RequestOK, OrderOK, TypeOK, Requests, OrdersOK
   <4>4. QED BY <2>1, <3>1, <3>2, <4>1, <4>2, <4>3 DEF SlotOK
  <3>3. CASE rowOrder[r] # order[h]
   <4>1. taken[rowOrder[r]] # h \/ rowOrder[r] = None BY <2>1, <3>1, <3>3
   <4>2. QED BY <1>9, <2>1, <3>1, <3>3, <4>1 DEF CommitAccept, Finish, SlotOK
  <3>4. QED BY <3>2, <3>3
 <2>3. QED BY <2>2 DEF SlotsOK
<1>10. ASSUME NEW h \in Handlers, AbortAccept(h) PROVE SlotsOK'
  BY <1>10 DEF AbortAccept, Leaves, SlotsOK, SlotOK
<1>11. ASSUME NEW h \in Handlers, Crash(h) PROVE SlotsOK'
  BY <1>11 DEF Crash, Leaves, Finish, SlotsOK, SlotOK
<1>12. ASSUME NEW o \in Orders, PlaceOrderWithoutCode(o) PROVE SlotsOK'
  BY <1>12 DEF PlaceOrderWithoutCode, SlotsOK, SlotOK
<1>13. ASSUME NEW o \in Orders, EndOrder(o) PROVE SlotsOK'
  BY <1>13 DEF EndOrder, Move, Freed, Held, Names, SlotsOK, SlotOK
<1>14. ASSUME NEW o \in Orders, CompleteOrder(o) PROVE SlotsOK'
  BY <1>14 DEF CompleteOrder, Move, Freed, Held, Names, SlotsOK, SlotOK
<1>15. QED
 <2>1. CASE \E h \in Handlers : Request(h)
   BY <2>1, <1>1 DEF Request, AcceptOrder, PlaceOrder, Redeem, Start
 <2>2. CASE \E h \in Handlers : Run(h)
   BY <2>2, <1>1, <1>2, <1>3, <1>4, <1>5, <1>6, <1>7, <1>8, <1>9
   DEF Run, ReadPromo, FindWaiver, CountUses, NoWaiver
 <2>3. CASE \E h \in Handlers : AbortAccept(h) \/ Crash(h) BY <2>3, <1>10, <1>11
 <2>4. CASE \E o \in Orders :
              PlaceOrderWithoutCode(o) \/ EndOrder(o) \/ CompleteOrder(o)
   BY <2>4, <1>12, <1>13, <1>14
 <2>5. CASE \E p \in Promos : SetActive(p) \/ \E m \in Caps : UpdateCap(p, m)
   BY <2>5, <1>1 DEF SetActive, UpdateCap
 <2>6. QED BY <2>1, <2>2, <2>3, <2>4, <2>5 DEF Next

LEMMA Stutter ==
  ASSUME Facts, SlotsOK, UNCHANGED vars PROVE (Facts /\ SlotsOK)'
<1> USE DEF vars, promotions, ledger, orders, requests, history, Facts
<1>1. TypeOK' BY DEF TypeOK
<1>2. Requests' BY DEF Requests, RequestOK
<1>3. OrdersOK' BY DEF OrdersOK, OrderOK
<1>4. CountIsLedger' BY DEF CountIsLedger, Counts
<1>5. CapsOK' BY DEF CapsOK
<1>6. SlotsOK' BY DEF SlotsOK, SlotOK
<1>7. QED BY <1>1, <1>2, <1>3, <1>4, <1>5, <1>6

LEMMA NothingCounts == Init => CountIsLedger
<1>1. ASSUME Init, NEW p \in Promos PROVE count[p] = Cardinality(Live(p))
 <2>1. Live(p) = {} BY <1>1 DEF Init, Live, Counts
 <2>2. QED BY <1>1, <2>1, FS_EmptySet DEF Init
<1>2. QED BY <1>1 DEF CountIsLedger, Live

LEMMA Inductive == Spec => [](Facts /\ SlotsOK)
<1>1. Init => Facts /\ SlotsOK BY Empty, NothingCounts DEF Facts
<1>2. Facts /\ SlotsOK /\ [Next]_vars => (Facts /\ SlotsOK)'
 <2>1. ASSUME Facts, SlotsOK, Next PROVE (Facts /\ SlotsOK)'
   BY <2>1, TypeStep, RequestsStep, OrdersStep, CountStep, CapsStep, SlotsStep
   DEF Facts
 <2>2. QED BY <2>1, Stutter
<1>3. QED BY <1>1, <1>2, PTL DEF Spec

(* Counters are natural numbers, and a request names things that exist. *)
THEOREM TypeCorrect == Spec => []TypeOK
BY Inductive, PTL DEF Facts

(* redemptionCount is the number of RESERVED and REDEEMED rows, through
   every order of reservations, settlements, releases and grants. *)
THEOREM CountCorrect == Spec => []CountIsLedger
BY Inductive, PTL DEF Facts

(* The conditional increment is enough: a request that read an old cap, or
   that reads it again, never takes more than the highest cap there was. *)
THEOREM CapsHold == Spec => []CapHolds
<1>1. Facts => CapHolds BY DEF Facts, CapsOK, CapHolds
<1>2. QED BY <1>1, Inductive, PTL

(* settlePromoForTransition finds every slot of an order that is not stray,
   whichever of the code and the waiver it looks for first. *)
THEOREM SlotsFollow == Spec => []SlotFollowsOrder
<1>1. SlotsOK => SlotFollowsOrder BY DEF SlotsOK, SlotOK, SlotFollowsOrder
<1>2. QED BY <1>1, Inductive, PTL

(* Rows, counters, caps and orders keep together in every reachable state,
   whatever the number of promotions, subjects, orders and requests. *)
THEOREM CapsAndCounts == Spec => []CapsAndCountsHold
<1>1. TypeOK /\ CountIsLedger /\ CapHolds /\ SlotFollowsOrder => CapsAndCountsHold
  BY DEF CapsAndCountsHold
<1>2. QED BY <1>1, TypeCorrect, CountCorrect, CapsHold, SlotsFollow, PTL

(* No step moves a row that was spent or given back. *)
THEOREM FinalStay == Spec => FinalRowsStay
<1> DEFINE Stays == \A r \in Redemptions :
      rowState[r] \in {"REDEEMED", "RELEASED"} => rowState'[r] = rowState[r]
<1>1. ASSUME TypeOK, Next PROVE Stays
 <2>1. CASE UNCHANGED rowState BY <2>1
 <2>2. ASSUME NEW h \in Handlers, NEW limit, NEW as, Take(h, limit, as) PROVE Stays
   BY <1>1, <2>2 DEF Take, TypeOK
 <2>3. ASSUME NEW o \in Orders, EndOrder(o) \/ CompleteOrder(o) PROVE Stays
   BY <1>1, <2>3 DEF EndOrder, CompleteOrder, Freed, Held, TypeOK
 <2>4. CASE \E h \in Handlers : Request(h)
   BY <2>1, <2>4 DEF Request, AcceptOrder, PlaceOrder, Redeem, Start, ledger
 <2>5. CASE \E h \in Handlers : Run(h)
   BY <2>1, <2>2, <2>5
   DEF Run, ReadPromo, FindWaiver, CountUses, Invalid, NoWaiver, SaveOrder,
       StampPromoId, BeginAttempt, AlreadyMoved, CommitAccept, ReserveForOrder,
       GrantDirectly, ReserveForBranch, ledger
 <2>6. CASE \E h \in Handlers : AbortAccept(h) \/ Crash(h)
   BY <2>1, <2>6 DEF AbortAccept, Crash, ledger
 <2>7. CASE \E o \in Orders :
              PlaceOrderWithoutCode(o) \/ EndOrder(o) \/ CompleteOrder(o)
   BY <2>1, <2>3, <2>7 DEF PlaceOrderWithoutCode, ledger
 <2>8. CASE \E p \in Promos : SetActive(p) \/ \E m \in Caps : UpdateCap(p, m)
   BY <2>1, <2>8 DEF SetActive, UpdateCap, ledger
 <2>9. QED BY <1>1, <2>4, <2>5, <2>6, <2>7, <2>8 DEF Next
<1>2. TypeOK /\ [Next]_vars => [Stays]_vars BY <1>1
<1>3. QED BY <1>2, TypeCorrect, PTL DEF Spec, FinalRowsStay

-----------------------------------------------------------------------------
(* Waivers and limits.  What the proofs above do not need of a request: a
   grant is of a code, and an acceptance asks for its branch and has named
   no waiver until it has reserved one. *)
AskingOK(h) ==
  /\ purpose[h] = "grant" => promo[h] \in Codes
  /\ purpose[h] = "waive" => subject[h] = Branch[order[h]]
  /\ purpose[h] = "waive" /\ pc[h] \in {"read", "count", "act"} => given[h] = None
  /\ saved[h] => pc[h] = "commit"

(* The waiver an order names, or will when its acceptance commits. *)
Named(o) ==
  CASE status[o] = "pending" /\ taken[o] # None -> given[taken[o]]
    [] status[o] \in {"accepted", "completed"} -> waiver[o]
    [] OTHER -> None

SlotsFor(o, p) == {r \in Uses(p, Branch[o]) : rowOrder[r] = o}

(* An order that is not stray has one slot for the waiver it names, and none
   for any other. *)
WaiverOK(o) ==
  /\ waiver[o] # None => status[o] \notin {"none", "pending"}
  /\ o \notin stray =>
       \A p \in Waivers : IF p = Named(o) THEN \E r : SlotsFor(o, p) = {r} ELSE SlotsFor(o, p) = {}

(* Until it completes its slot is held, and not spent. *)
HeldOK(o) ==
  o \notin stray => \A p \in Waivers : \A r \in SlotsFor(o, p) :
                      rowState[r] = "RESERVED" \/ status[o] = "completed"

Asking == \A h \in Handlers : AskingOK(h)
WaiversOK == \A o \in Orders : WaiverOK(o) /\ HeldOK(o)

LEMMA AskingStep == ASSUME Facts, Asking, Next PROVE Asking'
<1> USE PromosDisjoint, NoneIsNothing, OrdersOwned
    DEF Facts, TypeOK, Requests, RequestOK, OrdersOK, OrderOK, Asking, AskingOK, Promos, Subjects,
        promotions, ledger, orders, requests, history, Stage, Purpose
<1>1. ASSUME NEW h \in Handlers, NEW o \in Orders, AcceptOrder(h, o) PROVE Asking'
  BY <1>1 DEF AcceptOrder, Start
<1>2. ASSUME NEW h \in Handlers, NEW o \in Orders, NEW p \in Codes,
             PlaceOrder(h, o, p)
      PROVE Asking'
  BY <1>2 DEF PlaceOrder, Start
<1>3. ASSUME NEW h \in Handlers, NEW c \in Customers, NEW p \in Codes,
             NEW o \in Orders \cup {None}, Redeem(h, c, p, o)
      PROVE Asking'
  BY <1>3 DEF Redeem, Start
<1>4. ASSUME NEW h \in Handlers, ReadPromo(h) \/ FindWaiver(h) \/ CountUses(h) PROVE Asking'
  BY <1>4 DEF ReadPromo, FindWaiver, CountUses
<1>5. ASSUME NEW h \in Handlers, Invalid(h) \/ AlreadyMoved(h) \/ CommitAccept(h) \/ StampPromoId(h)
      PROVE Asking'
 <2>1. Finish(h) BY <1>5 DEF Invalid, AlreadyMoved, CommitAccept, StampPromoId
 <2> QED BY <2>1 DEF Finish
<1>6. ASSUME NEW h \in Handlers, NoWaiver(h) PROVE Asking' BY <1>6 DEF NoWaiver, Leave
<1>7. ASSUME NEW h \in Handlers, SaveOrder(h) \/ BeginAttempt(h) PROVE Asking'
  BY <1>7 DEF SaveOrder, BeginAttempt
<1>8. ASSUME NEW h \in Handlers, ReserveForOrder(h) \/ ReserveForBranch(h) PROVE Asking'
  BY <1>8, SMTT(60) DEF ReserveForOrder, ReserveForBranch, Take, Leave
<1>9. ASSUME NEW h \in Handlers, GrantDirectly(h) PROVE Asking'
  BY <1>9 DEF GrantDirectly, Take, Finish
<1>10. ASSUME NEW h \in Handlers, AbortAccept(h) PROVE Asking' BY <1>10 DEF AbortAccept
<1>11. ASSUME NEW h \in Handlers, Crash(h) PROVE Asking' BY <1>11 DEF Crash, Finish
<1>12. ASSUME NEW o \in Orders, PlaceOrderWithoutCode(o) \/ EndOrder(o) \/ CompleteOrder(o) PROVE Asking'
  BY <1>12 DEF PlaceOrderWithoutCode, EndOrder, CompleteOrder, Move
<1>13. ASSUME NEW p \in Promos, SetActive(p) \/ \E m \in Caps : UpdateCap(p, m) PROVE Asking'
  BY <1>13 DEF SetActive, UpdateCap
<1> QED
  BY <1>1, <1>2, <1>3, <1>4, <1>5, <1>6, <1>7, <1>8, <1>9, <1>10, <1>11, <1>12, <1>13, ZenonT(60) DEF Next, Request, Run

(* A step that leaves an order, its acceptance and its slots alone. *)
LEMMA WaiverStays ==
  ASSUME NEW o \in Orders, WaiverOK(o),
         status'[o] = status[o], waiver'[o] = waiver[o], Named(o)' = Named(o),
         stray \subseteq stray',
         \A p \in Waivers : SlotsFor(o, p)' = SlotsFor(o, p)
  PROVE  WaiverOK(o)'
  BY DEF WaiverOK

(* Taking a slot adds it to its promotion, subject and order. *)
LEMMA TakeAddsASlot ==
  ASSUME TypeOK, NEW h \in Handlers, NEW limit, NEW as \in {"RESERVED", "REDEEMED"}, Take(h, limit, as)
  PROVE  \E r \in Redemptions :
           /\ \A p, s : r \notin Uses(p, s)
           /\ \A p, s : Uses(p, s)' = IF p = promo[h] /\ s = subject[h] THEN Uses(p, s) \cup {r} ELSE Uses(p, s)
           /\ rowOrder' = [rowOrder EXCEPT ![r] = order[h]]
 <1>1. PICK r \in Redemptions :
         /\ rowState[r] = "none"
         /\ rowState' = [rowState EXCEPT ![r] = as]
         /\ rowPromo' = [rowPromo EXCEPT ![r] = promo[h]]
         /\ rowSubject' = [rowSubject EXCEPT ![r] = subject[h]]
         /\ rowOrder' = [rowOrder EXCEPT ![r] = order[h]]
   BY DEF Take
 <1>2. \A p, s : r \notin Uses(p, s) BY <1>1 DEF Uses, Counts
 <1>3. /\ rowState'[r] = as /\ rowPromo'[r] = promo[h] /\ rowSubject'[r] = subject[h]
       /\ \A q \in Redemptions : q # r =>
            rowState'[q] = rowState[q] /\ rowPromo'[q] = rowPromo[q] /\ rowSubject'[q] = rowSubject[q]
   BY <1>1 DEF TypeOK
 <1>4. ASSUME NEW p, NEW s
       PROVE  Uses(p, s)' = IF p = promo[h] /\ s = subject[h] THEN Uses(p, s) \cup {r} ELSE Uses(p, s)
   BY <1>1, <1>2, <1>3 DEF Uses, Counts
 <1> QED BY <1>1, <1>2, <1>4

(* A step of the ledger that gives no slot back for a waiver keeps, of each
   order, the slots it has for waivers. *)
LEMMA OtherSlotsStay ==
  ASSUME TypeOK, NEW h \in Handlers, NEW limit, NEW as \in {"RESERVED", "REDEEMED"}, Take(h, limit, as),
         NEW o \in Orders, NEW p \in Waivers, p # promo[h] \/ o # order[h]
  PROVE  SlotsFor(o, p)' = SlotsFor(o, p)
 <1>1. PICK r \in Redemptions :
          /\ \A q, s : r \notin Uses(q, s)
          /\ \A q, s : Uses(q, s)' = IF q = promo[h] /\ s = subject[h] THEN Uses(q, s) \cup {r} ELSE Uses(q, s)
          /\ rowOrder' = [rowOrder EXCEPT ![r] = order[h]]
   BY TakeAddsASlot
 <1>2. \A q \in Redemptions : q # r => rowOrder'[q] = rowOrder[q] BY <1>1 DEF TypeOK
 <1>3. rowOrder'[r] = order[h] BY <1>1 DEF TypeOK
 <1>4. Uses(p, Branch[o]) \subseteq Redemptions BY DEF Uses
 <1>5. r \notin Uses(p, Branch[o]) BY <1>1
 <1>6. Uses(p, Branch[o])' = IF p = promo[h] /\ Branch[o] = subject[h]
                             THEN Uses(p, Branch[o]) \cup {r} ELSE Uses(p, Branch[o])
   BY <1>1 DEF Uses, Counts
 <1> QED BY <1>2, <1>3, <1>4, <1>5, <1>6 DEF SlotsFor

(* Only the end of an order gives slots back, and only the order's own. *)
LEMMA MovedSlots ==
  ASSUME TypeOK, NEW o \in Orders, EndOrder(o) \/ CompleteOrder(o), NEW q \in Orders, NEW p \in Waivers,
         q # o \/ CompleteOrder(o)
  PROVE  SlotsFor(q, p)' = SlotsFor(q, p)
 <1>1. UNCHANGED <<rowPromo, rowSubject, rowOrder>> BY DEF EndOrder, CompleteOrder, Move
 <1>2. \A r \in Redemptions : rowOrder[r] = q => (Counts(r)' <=> Counts(r))
   BY DEF EndOrder, CompleteOrder, Counts, Freed, Held, TypeOK
 <1> QED BY <1>1, <1>2 DEF SlotsFor, Uses

(* An order that ends gives back every slot it has for a waiver. *)
LEMMA EndedHasNone ==
  ASSUME Facts, NEW o \in Orders, WaiverOK(o), HeldOK(o), EndOrder(o), o \notin stray, NEW p \in Waivers
  PROVE  SlotsFor(o, p)' = {}
 <1>1. /\ status[o] \in {"pending", "accepted"} /\ taken[o] = None
       /\ UNCHANGED <<rowPromo, rowSubject, rowOrder>>
       /\ rowState' = [r \in Redemptions |-> IF r \in Freed(o) THEN "RELEASED" ELSE rowState[r]]
   BY DEF EndOrder, Move, Open
 <1>2. SlotsFor(o, p)' \subseteq SlotsFor(o, p) \ Freed(o) BY <1>1 DEF SlotsFor, Uses, Counts
 <1>3. CASE SlotsFor(o, p) = {} BY <1>2, <1>3
 <1>4. CASE SlotsFor(o, p) # {}
  <2>1. p = Named(o) BY <1>4 DEF WaiverOK
  <2>2. waiver[o] = p BY <1>1, <2>1, NoneIsNothing DEF Named, Promos
  <2>3. Names(o) BY <2>2, NoneIsNothing DEF Names, Promos
  <2>4. \A r \in SlotsFor(o, p) : rowState[r] = "RESERVED" BY <1>1 DEF HeldOK
  <2>5. SlotsFor(o, p) \subseteq Freed(o) BY <2>3, <2>4 DEF Freed, Held, SlotsFor, Uses
  <2> QED BY <1>2, <2>5
 <1> QED BY <1>3, <1>4

LEMMA HeldStep == ASSUME Facts, Asking, WaiversOK, Next, NEW o \in Orders PROVE HeldOK(o)'
<1>0. /\ TypeOK /\ WaiverOK(o) /\ HeldOK(o) /\ OrderOK(o)
      /\ \A h \in Handlers : RequestOK(h) /\ AskingOK(h)
      /\ \A q \in Orders : OrderOK(q)
  BY DEF Facts, WaiversOK, Requests, OrdersOK, Asking
<1> USE NoneIsNothing
<1>1. ASSUME UNCHANGED ledger, stray \subseteq stray', status[o] = "completed" => status'[o] = "completed"
      PROVE  HeldOK(o)'
  BY <1>0, <1>1 DEF HeldOK, SlotsFor, Uses, Counts, ledger
<1>2. ASSUME NEW h \in Handlers, ReserveForOrder(h) \/ GrantDirectly(h) \/ ReserveForBranch(h)
      PROVE  HeldOK(o)'
 <2>1. \E limit, as : /\ Take(h, limit, as)
                       /\ \/ as = "RESERVED"
                          \/ as = "REDEEMED" /\ GrantDirectly(h)
   BY <1>2, ZenonT(30) DEF ReserveForOrder, GrantDirectly, ReserveForBranch
 <2>0. PICK limit, as : /\ Take(h, limit, as)
                        /\ \/ as = "RESERVED"
                           \/ as = "REDEEMED" /\ GrantDirectly(h)
   BY <2>1
 <2>2. PICK r \in Redemptions :
         /\ rowState[r] = "none"
         /\ rowState' = [rowState EXCEPT ![r] = as]
         /\ rowPromo' = [rowPromo EXCEPT ![r] = promo[h]]
         /\ rowSubject' = [rowSubject EXCEPT ![r] = subject[h]]
         /\ rowOrder' = [rowOrder EXCEPT ![r] = order[h]]
   BY <2>0 DEF Take
 <2>3. UNCHANGED status /\ stray \subseteq stray'
   BY <1>2 DEF ReserveForOrder, GrantDirectly, ReserveForBranch, Take, orders
 <2>4. GrantDirectly(h) => promo[h] \notin Waivers
   BY <1>0, PromosDisjoint DEF GrantDirectly, AskingOK
 <2>5. ASSUME NEW p \in Waivers, NEW q \in SlotsFor(o, p)'
       PROVE  \/ q \in SlotsFor(o, p) /\ rowState'[q] = rowState[q]
              \/ rowState'[q] = "RESERVED"
  <3>1. q \in Redemptions BY <2>5 DEF SlotsFor, Uses
  <3>2. CASE q = r
   <4>1. promo[h] = p BY <1>0, <2>2, <2>5, <3>2 DEF SlotsFor, Uses, TypeOK
   <4>2. as = "RESERVED" BY <2>0, <2>4, <4>1
   <4> QED BY <1>0, <2>2, <3>2, <4>2 DEF TypeOK
  <3>3. CASE q # r BY <1>0, <2>2, <2>5, <3>1, <3>3 DEF SlotsFor, Uses, Counts, TypeOK
  <3> QED BY <3>2, <3>3
 <2> QED BY <1>0, <2>3, <2>5 DEF HeldOK
<1>3. ASSUME NEW h \in Handlers, StampPromoId(h) PROVE HeldOK(o)'
 <2>1. /\ order[h] \in Orders
       /\ status' = [status EXCEPT ![order[h]] = "pending"]
       /\ stray' = IF waiver[order[h]] = None THEN stray ELSE stray \cup {order[h]}
       /\ UNCHANGED ledger
   BY <1>0, <1>3 DEF StampPromoId, RequestOK
 <2>2. CASE status[o] # "completed" \/ o # order[h] BY <1>0, <1>1, <2>1, <2>2 DEF TypeOK
 <2>3. CASE status[o] = "completed" /\ o = order[h]
  <3>1. Named(o) = waiver[o] BY <2>3 DEF Named
  <3>2. o \notin stray' => waiver[o] = None /\ o \notin stray BY <2>1, <2>3
  <3>3. o \notin stray' => \A p \in Waivers : SlotsFor(o, p) = {}
    BY <1>0, <3>1, <3>2 DEF WaiverOK, Promos
  <3>4. \A p \in Waivers : SlotsFor(o, p)' = SlotsFor(o, p)
    BY <2>1 DEF SlotsFor, Uses, Counts, ledger
  <3> QED BY <3>3, <3>4 DEF HeldOK
 <2> QED BY <2>2, <2>3
<1>4. ASSUME NEW h \in Handlers, SaveOrder(h) \/ CommitAccept(h) PROVE HeldOK(o)'
 <2>1. /\ order[h] \in Orders /\ status[order[h]] # "completed"
       /\ \E s : status' = [status EXCEPT ![order[h]] = s]
       /\ UNCHANGED <<ledger, stray>>
   BY <1>0, <1>4 DEF SaveOrder, CommitAccept, RequestOK, OrderOK, history
 <2> QED BY <1>0, <1>1, <2>1 DEF TypeOK
<1>5. ASSUME NEW q \in Orders, PlaceOrderWithoutCode(q) PROVE HeldOK(o)'
  BY <1>0, <1>1, <1>5 DEF PlaceOrderWithoutCode, TypeOK, history
<1>6. ASSUME NEW q \in Orders, EndOrder(q) PROVE HeldOK(o)'
 <2>1. UNCHANGED stray /\ status' = [status EXCEPT ![q] = "ended"]
   BY <1>6 DEF EndOrder, Move, history
 <2>2. CASE o = q
  <3>1. o \notin stray => \A p \in Waivers : SlotsFor(o, p)' = {} BY <1>0, <1>6, <2>2, EndedHasNone
  <3> QED BY <2>1, <3>1 DEF HeldOK
 <2>3. CASE o # q
  <3>1. \A p \in Waivers : SlotsFor(o, p)' = SlotsFor(o, p) BY <1>0, <1>6, <2>3, MovedSlots
  <3>2. status'[o] = status[o] BY <1>0, <2>1, <2>3 DEF TypeOK
  <3>3. \A r \in Redemptions : rowOrder[r] = o => rowState'[r] = rowState[r]
    BY <1>6, <2>3 DEF EndOrder, Freed, Held
  <3> QED BY <1>0, <2>1, <3>1, <3>2, <3>3 DEF HeldOK, SlotsFor, Uses
 <2> QED BY <2>2, <2>3
<1>7. ASSUME NEW q \in Orders, CompleteOrder(q) PROVE HeldOK(o)'
 <2>1. UNCHANGED stray /\ status' = [status EXCEPT ![q] = "completed"]
   BY <1>7 DEF CompleteOrder, Move, history
 <2>2. CASE o = q
  <3>1. status'[o] = "completed" BY <1>0, <2>1, <2>2 DEF TypeOK
  <3> QED BY <3>1 DEF HeldOK
 <2>3. CASE o # q
  <3>1. \A p \in Waivers : SlotsFor(o, p)' = SlotsFor(o, p) BY <1>0, <1>7, MovedSlots
  <3>2. status'[o] = status[o] BY <1>0, <2>1, <2>3 DEF TypeOK
  <3>3. \A r \in Redemptions : rowOrder[r] = o => rowState'[r] = rowState[r]
    BY <1>7, <2>3 DEF CompleteOrder, Freed, Held
  <3> QED BY <1>0, <2>1, <3>1, <3>2, <3>3 DEF HeldOK, SlotsFor, Uses
 <2> QED BY <2>2, <2>3
<1>8. QED
 <2>1. CASE \E h \in Handlers : Request(h)
   BY <2>1, <1>1 DEF Request, AcceptOrder, PlaceOrder, Redeem, Start, orders, history
 <2>2. CASE \E h \in Handlers :
              \/ ReadPromo(h) \/ FindWaiver(h) \/ CountUses(h) \/ Invalid(h) \/ NoWaiver(h)
              \/ BeginAttempt(h) \/ AlreadyMoved(h)
   BY <2>2, <1>1
   DEF ReadPromo, FindWaiver, CountUses, Invalid, NoWaiver, BeginAttempt, AlreadyMoved, orders, history
 <2>3. CASE \E h \in Handlers : AbortAccept(h) \/ Crash(h)
   BY <2>3, <1>1 DEF AbortAccept, Crash, Leaves
 <2>4. CASE \E p \in Promos : SetActive(p) \/ \E m \in Caps : UpdateCap(p, m)
   BY <2>4, <1>1 DEF SetActive, UpdateCap, orders, history
 <2>5. QED BY <2>1, <2>2, <2>3, <2>4, <1>2, <1>3, <1>4, <1>5, <1>6, <1>7 DEF Next, Run

LEMMA WaiversStep == ASSUME Facts, Asking, WaiversOK, Next PROVE WaiversOK'
<1> SUFFICES ASSUME NEW o \in Orders PROVE WaiverOK(o)' BY HeldStep DEF WaiversOK
<1>0. /\ TypeOK /\ WaiverOK(o) /\ HeldOK(o) /\ OrderOK(o) /\ \A h \in Handlers : RequestOK(h) /\ AskingOK(h)
      /\ \A q \in Orders : OrderOK(q)
  BY DEF Facts, WaiversOK, Requests, OrdersOK, Asking
<1> USE NoneIsNothing DEF Promos, Subjects
<1>1. ASSUME UNCHANGED <<ledger, status, waiver, taken, stray>>,
             \A h \in Handlers : taken[o] = h => given'[h] = given[h]
      PROVE  WaiverOK(o)'
 <2>1. Named(o)' = Named(o) BY <1>0, <1>1 DEF Named, TypeOK
 <2>2. \A p \in Waivers : SlotsFor(o, p)' = SlotsFor(o, p) BY <1>1 DEF SlotsFor, Uses, Counts, ledger
 <2> QED BY <1>0, <1>1, <2>1, <2>2, WaiverStays
<1>2. ASSUME NEW h \in Handlers, Invalid(h) \/ AlreadyMoved(h) PROVE WaiverOK(o)'
 <2>1. taken[o] # h BY <1>0, <1>2 DEF Invalid, AlreadyMoved, OrderOK, RequestOK
 <2>2. \A g \in Handlers : g # h => given'[g] = given[g] BY <1>0, <1>2 DEF Invalid, AlreadyMoved, Finish, TypeOK
 <2> QED BY <1>1, <1>2, <2>1, <2>2 DEF Invalid, AlreadyMoved, orders, history
<1>3. ASSUME NEW h \in Handlers, SaveOrder(h) PROVE WaiverOK(o)'
 <2>1. /\ order[h] \in Orders /\ status[order[h]] = "none" /\ status' = [status EXCEPT ![order[h]] = "pending"]
       /\ taken[order[h]] = None
   BY <1>0, <1>3 DEF SaveOrder, RequestOK, OrderOK
 <2>2. UNCHANGED <<ledger, waiver, taken, given, stray>> BY <1>3 DEF SaveOrder, history
 <2>3. Named(o)' = Named(o) BY <1>0, <2>1, <2>2 DEF Named, TypeOK
 <2>4. \A p \in Waivers : SlotsFor(o, p)' = SlotsFor(o, p) BY <2>2 DEF SlotsFor, Uses, Counts, ledger
 <2> QED BY <1>0, <2>1, <2>2, <2>3, <2>4 DEF WaiverOK, TypeOK
<1>4. ASSUME NEW q \in Orders, PlaceOrderWithoutCode(q) PROVE WaiverOK(o)'
 <2>1. status[q] = "none" /\ status' = [status EXCEPT ![q] = "pending"] /\ taken[q] = None
   BY <1>0, <1>4 DEF PlaceOrderWithoutCode, OrderOK
 <2>2. UNCHANGED <<ledger, waiver, taken, given, stray>> BY <1>4 DEF PlaceOrderWithoutCode, requests, history
 <2>3. Named(o)' = Named(o) BY <1>0, <2>1, <2>2 DEF Named, TypeOK
 <2>4. \A p \in Waivers : SlotsFor(o, p)' = SlotsFor(o, p) BY <2>2 DEF SlotsFor, Uses, Counts, ledger
 <2> QED BY <1>0, <2>1, <2>2, <2>3, <2>4 DEF WaiverOK, TypeOK
<1>5. ASSUME NEW h \in Handlers, ReserveForOrder(h) \/ GrantDirectly(h) PROVE WaiverOK(o)'
 <2>1. \E limit : \E as \in {"RESERVED", "REDEEMED"} : Take(h, limit, as)
   BY <1>5 DEF ReserveForOrder, GrantDirectly
 <2>2. promo[h] \notin Waivers
   BY <1>0, <1>5, PromosDisjoint DEF ReserveForOrder, GrantDirectly, RequestOK, AskingOK
 <2>3. \A p \in Waivers : SlotsFor(o, p)' = SlotsFor(o, p) BY <1>0, <2>1, <2>2, OtherSlotsStay
 <2>4. /\ UNCHANGED <<status, waiver, taken>> /\ stray \subseteq stray' /\ purpose[h] \in {"reserve", "grant"}
       /\ \A g \in Handlers \ {h} : given'[g] = given[g]
   BY <1>0, <1>5 DEF ReserveForOrder, GrantDirectly, Take, Finish, orders, TypeOK
 <2>5. taken[o] # h BY <1>0, <2>4 DEF OrderOK
 <2>6. Named(o)' = Named(o) BY <1>0, <2>4, <2>5 DEF Named, TypeOK
 <2> QED BY <1>0, <2>3, <2>4, <2>6, WaiverStays
<1>6. ASSUME NEW h \in Handlers, ReserveForBranch(h) PROVE WaiverOK(o)'
 <2>1. /\ Take(h, cap[promo[h]], "RESERVED") /\ promo[h] \in Waivers
       /\ order[h] \in Orders /\ taken[order[h]] = h /\ status[order[h]] = "pending"
       /\ subject[h] = Branch[order[h]] /\ given[h] = None
  <3>1. /\ Take(h, cap[promo[h]], "RESERVED") /\ pc[h] = "act" /\ purpose[h] = "waive" /\ promo[h] # None
    BY <1>6 DEF ReserveForBranch, Take
  <3>2. promo[h] \in Waivers /\ order[h] \in Orders /\ taken[order[h]] = h BY <1>0, <3>1 DEF RequestOK
  <3>3. subject[h] = Branch[order[h]] /\ given[h] = None BY <1>0, <3>1 DEF AskingOK
  <3> QED BY <1>0, <3>1, <3>2, <3>3 DEF OrderOK
 <2>2. PICK v \in Waivers : v = promo[h] BY <2>1
 <2>3. UNCHANGED <<status, waiver, taken, stray>> /\ given' = [given EXCEPT ![h] = v]
   BY <1>6, <2>2 DEF ReserveForBranch, Take, orders
 <2>4. \A p \in Waivers : p # v \/ o # order[h] => SlotsFor(o, p)' = SlotsFor(o, p)
   BY <1>0, <2>1, <2>2, OtherSlotsStay
 <2>5. CASE o # order[h]
  <3>1. taken[o] # h BY <1>0, <2>1, <2>5 DEF OrderOK
  <3>2. Named(o)' = Named(o) BY <1>0, <2>3, <3>1 DEF Named, TypeOK
  <3> QED BY <1>0, <2>3, <2>4, <2>5, <3>2, WaiverStays
 <2>6. CASE o = order[h]
  <3>1. Named(o) = None /\ Named(o)' = v
   <4>1. status[o] = "pending" /\ taken[o] = h /\ h # None BY <2>1, <2>6
   <4>2. status'[o] = "pending" /\ taken'[o] = h /\ given'[h] = v BY <1>0, <2>3, <4>1 DEF TypeOK
   <4> QED BY <2>1, <4>1, <4>2 DEF Named
  <3>2. PICK r \in Redemptions :
          /\ \A q, s : r \notin Uses(q, s)
          /\ \A q, s : Uses(q, s)' = IF q = promo[h] /\ s = subject[h] THEN Uses(q, s) \cup {r} ELSE Uses(q, s)
          /\ rowOrder' = [rowOrder EXCEPT ![r] = order[h]]
    BY <1>0, <2>1, TakeAddsASlot
  <3>3. rowOrder'[r] = o /\ \A q \in Redemptions : q # r => rowOrder'[q] = rowOrder[q]
    BY <1>0, <2>6, <3>2 DEF TypeOK
  <3>4. Uses(v, Branch[o]) \subseteq Redemptions /\ r \notin Uses(v, Branch[o]) BY <3>2 DEF Uses
  <3>5. Uses(v, Branch[o])' = Uses(v, Branch[o]) \cup {r} BY <2>1, <2>2, <2>6, <3>2 DEF Uses, Counts
  <3>6. SlotsFor(o, v) = {} => SlotsFor(o, v)' = {r} BY <3>3, <3>4, <3>5 DEF SlotsFor
  <3> QED BY <1>0, <2>1, <2>2, <2>3, <2>4, <2>6, <3>1, <3>6 DEF WaiverOK
 <2> QED BY <2>5, <2>6
<1>7. ASSUME NEW h \in Handlers, StampPromoId(h) PROVE WaiverOK(o)'
 <2>1. /\ order[h] \in Orders /\ taken[order[h]] = None /\ purpose[h] = "reserve"
       /\ waiver' = [waiver EXCEPT ![order[h]] = None]
       /\ stray' = IF waiver[order[h]] = None THEN stray ELSE stray \cup {order[h]}
       /\ status' = [status EXCEPT ![order[h]] = "pending"]
       /\ UNCHANGED <<ledger, taken>>
   BY <1>0, <1>7 DEF StampPromoId, RequestOK
 <2>2. \A g \in Handlers : g # h => given'[g] = given[g] BY <1>0, <1>7 DEF StampPromoId, Finish, TypeOK
 <2>3. taken[o] # h BY <1>0, <2>1 DEF OrderOK
 <2>4. \A p \in Waivers : SlotsFor(o, p)' = SlotsFor(o, p) BY <2>1 DEF SlotsFor, Uses, Counts, ledger
 <2>5. CASE o = order[h]
  <3>1. waiver'[o] = None /\ status'[o] = "pending" /\ taken'[o] = None /\ taken[o] = None
    BY <1>0, <1>7, <2>1, <2>5 DEF StampPromoId, TypeOK
  <3>2. Named(o)' = None BY <3>1 DEF Named
  <3>3. o \notin stray' => waiver[o] = None /\ o \notin stray BY <2>1, <2>5
  <3>4. o \notin stray' => Named(o) = None BY <3>1, <3>3 DEF Named
  <3>5. o \notin stray' => \A p \in Waivers : SlotsFor(o, p) = {} BY <1>0, <3>3, <3>4 DEF WaiverOK
  <3> QED BY <2>4, <3>1, <3>2, <3>5 DEF WaiverOK
 <2>6. CASE o # order[h]
  <3>1. waiver'[o] = waiver[o] /\ status'[o] = status[o] /\ stray \subseteq stray'
    BY <1>0, <2>1, <2>6 DEF TypeOK
  <3>2. Named(o)' = Named(o) BY <1>0, <2>1, <2>2, <2>3, <3>1 DEF Named, TypeOK
  <3> QED BY <1>0, <2>1, <2>4, <3>1, <3>2, WaiverStays
 <2> QED BY <2>5, <2>6
<1>8. ASSUME NEW h \in Handlers, BeginAttempt(h) PROVE WaiverOK(o)'
 <2>1. /\ order[h] \in Orders /\ taken[order[h]] = None /\ status[order[h]] = "pending"
       /\ taken' = [taken EXCEPT ![order[h]] = h]
       /\ given[h] # None => order[h] \in stray
       /\ UNCHANGED <<ledger, status, waiver, given, stray>>
   BY <1>0, <1>8 DEF BeginAttempt, RequestOK, AskingOK, TypeOK, history
 <2>2. \A p \in Waivers : SlotsFor(o, p)' = SlotsFor(o, p) BY <2>1 DEF SlotsFor, Uses, Counts, ledger
 <2>3. CASE o # order[h] \/ given[h] = None
  <3>1. Named(o)' = Named(o) BY <1>0, <2>1, <2>3 DEF Named, TypeOK
  <3> QED BY <1>0, <2>1, <2>2, <3>1, WaiverStays
 <2>4. CASE o = order[h] /\ given[h] # None BY <1>0, <2>1, <2>4 DEF WaiverOK
 <2> QED BY <2>3, <2>4
<1>9. ASSUME NEW h \in Handlers, CommitAccept(h) PROVE WaiverOK(o)'
 <2>1. /\ order[h] \in Orders /\ taken[order[h]] = h /\ status[order[h]] = "pending"
       /\ given[h] # None => saved[h] \/ order[h] \in stray
       /\ saved[h] => given[h] # None
       /\ UNCHANGED <<ledger, stray>>
       /\ status' = [status EXCEPT ![order[h]] = "accepted"]
       /\ waiver' = [waiver EXCEPT ![order[h]] = IF saved[h] THEN given[h] ELSE @]
       /\ taken' = [taken EXCEPT ![order[h]] = None]
   BY <1>0, <1>9 DEF CommitAccept, RequestOK, OrderOK, history
 <2>2. \A g \in Handlers : g # h => given'[g] = given[g] BY <1>0, <1>9 DEF CommitAccept, Finish, TypeOK
 <2>3. \A p \in Waivers : SlotsFor(o, p)' = SlotsFor(o, p) BY <2>1 DEF SlotsFor, Uses, Counts, ledger
 <2>4. CASE o = order[h]
  <3>1. Named(o) = given[h] BY <2>1, <2>4 DEF Named
  <3>2. Named(o)' = waiver'[o] /\ status'[o] = "accepted"
   <4>1. status'[o] = "accepted" BY <1>0, <2>1, <2>4 DEF TypeOK
   <4> QED BY <4>1 DEF Named
  <3>3. waiver[o] = None BY <1>0, <2>1, <2>4 DEF WaiverOK
  <3>4. o \notin stray => waiver'[o] = given[h] BY <1>0, <2>1, <2>4, <3>3 DEF TypeOK
  <3> QED BY <1>0, <2>1, <2>3, <2>4, <3>1, <3>2, <3>4, ZenonT(60) DEF WaiverOK
 <2>5. CASE o # order[h]
  <3>1. taken[o] # h BY <1>0, <2>5 DEF OrderOK
  <3>2. status'[o] = status[o] /\ waiver'[o] = waiver[o] /\ taken'[o] = taken[o] BY <1>0, <2>1, <2>5 DEF TypeOK
  <3>3. Named(o)' = Named(o) BY <1>0, <2>2, <3>1, <3>2 DEF Named, TypeOK
  <3> QED BY <1>0, <2>1, <2>3, <3>2, <3>3, WaiverStays
 <2> QED BY <2>4, <2>5
<1>10. ASSUME NEW h \in Handlers, AbortAccept(h) \/ Crash(h) PROVE WaiverOK(o)'
 <2>1. /\ UNCHANGED <<ledger, status, waiver>>
       /\ taken'[o] = IF taken[o] = h THEN None ELSE taken[o]
       /\ stray' = IF given[h] = None THEN stray ELSE stray \cup {order[h]}
       /\ \A g \in Handlers : g # h => given'[g] = given[g]
   BY <1>0, <1>10 DEF AbortAccept, Crash, Leaves, Finish, OrderOK, TypeOK
 <2>2. \A p \in Waivers : SlotsFor(o, p)' = SlotsFor(o, p) BY <2>1 DEF SlotsFor, Uses, Counts, ledger
 <2>3. CASE taken[o] # h
  <3>1. Named(o)' = Named(o) BY <1>0, <2>1, <2>3 DEF Named, TypeOK
  <3> QED BY <1>0, <2>1, <2>2, <3>1, WaiverStays
 <2>4. CASE taken[o] = h
  <3>1. order[h] = o /\ status[o] = "pending" BY <1>0, <2>4 DEF OrderOK
  <3>2. CASE given[h] = None
   <4>1. Named(o) = None /\ Named(o)' = None BY <2>1, <2>4, <3>1, <3>2 DEF Named
   <4> QED BY <1>0, <2>1, <2>2, <3>2, <4>1, WaiverStays
  <3>3. CASE given[h] # None BY <1>0, <2>1, <3>1, <3>3 DEF WaiverOK
  <3> QED BY <3>2, <3>3
 <2> QED BY <2>3, <2>4
<1>11. ASSUME NEW q \in Orders, EndOrder(q) \/ CompleteOrder(q) PROVE WaiverOK(o)'
 <2>1. /\ UNCHANGED <<waiver, taken, given, stray>> /\ taken[q] = None
       /\ status[q] # "none"
       /\ \/ EndOrder(q) /\ status' = [status EXCEPT ![q] = "ended"]
          \/ CompleteOrder(q) /\ status' = [status EXCEPT ![q] = "completed"] /\ status[q] = "accepted"
   BY <1>11 DEF EndOrder, CompleteOrder, Move, Open, requests, history
 <2>2. CASE o # q
  <3>1. \A p \in Waivers : SlotsFor(o, p)' = SlotsFor(o, p) BY <1>0, <1>11, <2>2, MovedSlots
  <3>2. status'[o] = status[o] BY <1>0, <2>1, <2>2 DEF TypeOK
  <3>3. Named(o)' = Named(o) BY <1>0, <2>1, <3>2 DEF Named
  <3> QED BY <1>0, <2>1, <3>1, <3>2, <3>3, WaiverStays
 <2>3. CASE o = q /\ CompleteOrder(q) /\ status' = [status EXCEPT ![q] = "completed"] /\ status[q] = "accepted"
  <3>1. \A p \in Waivers : SlotsFor(o, p)' = SlotsFor(o, p) BY <1>0, <2>3, MovedSlots
  <3>2. status'[o] = "completed" BY <1>0, <2>3 DEF TypeOK
  <3>3. Named(o)' = waiver[o] /\ Named(o) = waiver[o] BY <2>1, <2>3, <3>2 DEF Named
  <3> QED BY <1>0, <2>1, <2>3, <3>1, <3>2, <3>3 DEF WaiverOK
 <2>4. CASE o = q /\ status' = [status EXCEPT ![q] = "ended"]
  <3>1. status'[o] = "ended" BY <1>0, <2>4 DEF TypeOK
  <3>2. Named(o)' = None BY <3>1 DEF Named
  <3>3. EndOrder(o) BY <1>0, <2>1, <2>4, <3>1 DEF CompleteOrder, Move, TypeOK
  <3>4. o \notin stray => \A p \in Waivers : SlotsFor(o, p)' = {} BY <1>0, <3>3, EndedHasNone
  <3>5. stray' = stray BY <2>1
  <3> QED BY <3>1, <3>2, <3>4, <3>5 DEF WaiverOK
 <2> QED BY <2>1, <2>2, <2>3, <2>4
<1>12. QED
 <2>1. CASE \E h \in Handlers : Request(h)
   BY <2>1, <1>1 DEF Request, AcceptOrder, PlaceOrder, Redeem, Start, orders, history
 <2>2. CASE \E h \in Handlers : Run(h)
   BY <2>2, <1>1, <1>2, <1>3, <1>5, <1>6, <1>7, <1>8, <1>9
   DEF Run, ReadPromo, FindWaiver, CountUses, NoWaiver, orders, history
 <2>3. CASE \E h \in Handlers : AbortAccept(h) \/ Crash(h) BY <2>3, <1>10
 <2>4. CASE \E q \in Orders :
              PlaceOrderWithoutCode(q) \/ EndOrder(q) \/ CompleteOrder(q)
   BY <2>4, <1>4, <1>11
 <2>5. CASE \E p \in Promos : SetActive(p) \/ \E m \in Caps : UpdateCap(p, m)
   BY <2>5, <1>1 DEF SetActive, UpdateCap, orders, requests, history
 <2>6. QED BY <2>1, <2>2, <2>3, <2>4, <2>5 DEF Next

-----------------------------------------------------------------------------
(* The requests that have been counted for a subject and have not taken
   their slot: with the slots of the subject they stay within the bound,
   since the last to be counted found fewer slots than the subject may use. *)
Counted(p, s) == {h \in Handlers : /\ pc[h] = "act" /\ purpose[h] # "book"
                                   /\ promo[h] = p /\ subject[h] = s}
WithinLimit(p, s) ==
  Cardinality(Uses(p, s)) + Cardinality(Counted(p, s)) <= PerSubject + Cardinality(Handlers) - 1

LEMMA Sizes ==
  /\ Cardinality(Handlers) \in Nat \ {0}
  /\ \A p, s : /\ IsFiniteSet(Uses(p, s)) /\ Cardinality(Uses(p, s)) \in Nat
               /\ IsFiniteSet(Counted(p, s)) /\ Cardinality(Counted(p, s)) \in Nat
               /\ Cardinality(Counted(p, s)) <= Cardinality(Handlers)
 <1>1. Cardinality(Handlers) \in Nat \ {0} BY SomeHandlers, FS_CardinalityType, FS_EmptySet
 <1>2. ASSUME NEW p, NEW s
       PROVE  /\ IsFiniteSet(Uses(p, s)) /\ Cardinality(Uses(p, s)) \in Nat
              /\ IsFiniteSet(Counted(p, s)) /\ Cardinality(Counted(p, s)) \in Nat
              /\ Cardinality(Counted(p, s)) <= Cardinality(Handlers)
  <2>1. Uses(p, s) \in SUBSET Redemptions BY DEF Uses
  <2>2. Counted(p, s) \in SUBSET Handlers BY DEF Counted
  <2> QED BY <2>1, <2>2, FiniteRows, SomeHandlers, FS_Subset, FS_CardinalityType
 <1> QED BY <1>1, <1>2

(* A step that adds no slot and counts for nobody. *)
LEMMA FewerStayWithin ==
  ASSUME NEW p, NEW s, WithinLimit(p, s), Uses(p, s)' \subseteq Uses(p, s), Counted(p, s)' \subseteq Counted(p, s)
  PROVE  WithinLimit(p, s)'
 <1>1. Cardinality(Uses(p, s)') \in Nat /\ Cardinality(Uses(p, s)') <= Cardinality(Uses(p, s))
   BY Sizes, FS_Subset, FS_CardinalityType
 <1>2. Cardinality(Counted(p, s)') \in Nat /\ Cardinality(Counted(p, s)') <= Cardinality(Counted(p, s))
   BY Sizes, FS_Subset, FS_CardinalityType
 <1>3. Cardinality(Uses(p, s)) \in Nat /\ Cardinality(Counted(p, s)) \in Nat /\ Cardinality(Handlers) \in Nat
       /\ PerSubject \in Nat
   BY Sizes, CapsAreNaturals
 <1> QED BY <1>1, <1>2, <1>3 DEF WithinLimit

(* A request that takes its slot is counted for no longer. *)
LEMMA TakingStaysWithin ==
  ASSUME TypeOK, NEW h \in Handlers, NEW limit, NEW as \in {"RESERVED", "REDEEMED"}, Take(h, limit, as),
         purpose[h] # "book", pc'[h] # "act",
         \A g \in Handlers \ {h} : pc'[g] = pc[g] /\ purpose'[g] = purpose[g]
                                   /\ promo'[g] = promo[g] /\ subject'[g] = subject[g],
         NEW p, NEW s, WithinLimit(p, s)
  PROVE  WithinLimit(p, s)'
 <1>1. PICK r \in Redemptions :
          /\ \A q, t : r \notin Uses(q, t)
          /\ \A q, t : Uses(q, t)' = IF q = promo[h] /\ t = subject[h] THEN Uses(q, t) \cup {r} ELSE Uses(q, t)
   BY TakeAddsASlot
 <1>2. Counted(p, s)' \subseteq Counted(p, s) \ {h} BY DEF Counted
 <1>3. CASE p = promo[h] /\ s = subject[h]
  <2>1. h \in Counted(p, s) BY <1>3 DEF Counted, Take
  <2>2. Uses(p, s)' = Uses(p, s) \cup {r} /\ r \notin Uses(p, s)
   <3>1. Uses(p, s)' = IF p = promo[h] /\ s = subject[h] THEN Uses(p, s) \cup {r} ELSE Uses(p, s)
     BY <1>1, SMTT(60) DEF Uses, Counts
   <3> QED BY <1>1, <1>3, <3>1
  <2>3. Cardinality(Uses(p, s)') = Cardinality(Uses(p, s)) + 1 BY <2>2, Sizes, FS_AddElement
  <2>4. Cardinality(Counted(p, s) \ {h}) = Cardinality(Counted(p, s)) - 1
        /\ IsFiniteSet(Counted(p, s) \ {h})
    BY <2>1, Sizes, FS_RemoveElement
  <2>5. Cardinality(Counted(p, s)') <= Cardinality(Counted(p, s)) - 1 /\ Cardinality(Counted(p, s)') \in Nat
    BY <1>2, <2>4, FS_Subset, FS_CardinalityType
  <2>6. Cardinality(Uses(p, s)) \in Nat /\ Cardinality(Counted(p, s)) \in Nat /\ Cardinality(Handlers) \in Nat
        /\ PerSubject \in Nat
    BY Sizes, CapsAreNaturals
  <2> QED BY <2>3, <2>5, <2>6 DEF WithinLimit
 <1>4. CASE ~(p = promo[h] /\ s = subject[h])
  <2>1. Uses(p, s)' = IF p = promo[h] /\ s = subject[h] THEN Uses(p, s) \cup {r} ELSE Uses(p, s)
    BY <1>1, SMTT(60) DEF Uses, Counts
  <2> QED BY <1>2, <1>4, <2>1, FewerStayWithin
 <1> QED BY <1>3, <1>4

LEMMA LimitsStep ==
  ASSUME Facts, Next, NEW p, NEW s, WithinLimit(p, s)
  PROVE  WithinLimit(p, s)'
<1> USE DEF Facts
<1>1. ASSUME UNCHANGED <<rowState, rowPromo, rowSubject>>, Counted(p, s)' \subseteq Counted(p, s)
      PROVE  WithinLimit(p, s)'
 <2>1. Uses(p, s)' = Uses(p, s) BY <1>1 DEF Uses, Counts
 <2> QED BY <1>1, <2>1, FewerStayWithin
<1>2. ASSUME NEW h \in Handlers, NEW at \in Stage \ {"act"}, pc' = [pc EXCEPT ![h] = at],
             \A g \in Handlers \ {h} : purpose'[g] = purpose[g] /\ promo'[g] = promo[g] /\ subject'[g] = subject[g]
      PROVE  Counted(p, s)' \subseteq Counted(p, s)
  BY <1>2 DEF Counted, TypeOK
<1>3. ASSUME NEW h \in Handlers, Request(h) PROVE WithinLimit(p, s)'
 <2>1. PICK at \in {"read", "begin"} : pc' = [pc EXCEPT ![h] = at]
   BY <1>3 DEF Request, AcceptOrder, PlaceOrder, Redeem, Start
 <2>2. /\ UNCHANGED ledger
       /\ \A g \in Handlers \ {h} : purpose'[g] = purpose[g] /\ promo'[g] = promo[g] /\ subject'[g] = subject[g]
   BY <1>3 DEF Request, AcceptOrder, PlaceOrder, Redeem, Start, TypeOK
 <2> QED BY <1>1, <1>2, <2>1, <2>2 DEF ledger, Stage
<1>4. ASSUME NEW h \in Handlers, CountUses(h) PROVE WithinLimit(p, s)'
 <2>1. Uses(p, s)' = Uses(p, s) BY <1>4 DEF CountUses, Uses, Counts, ledger
 <2>2. CASE promo[h] = p /\ subject[h] = s
  <3>1. Cardinality(Uses(p, s)) < PerSubject BY <1>4, <2>2 DEF CountUses, Eligible
  <3>2. /\ Cardinality(Counted(p, s)') \in Nat /\ Cardinality(Counted(p, s)') <= Cardinality(Handlers)
        /\ Cardinality(Handlers) \in Nat /\ Cardinality(Uses(p, s)) \in Nat /\ PerSubject \in Nat
   <4>1. Counted(p, s)' \in SUBSET Handlers BY DEF Counted
   <4> QED BY <4>1, Sizes, SomeHandlers, FS_Subset, FS_CardinalityType, CapsAreNaturals
  <3> QED BY <2>1, <3>1, <3>2 DEF WithinLimit
 <2>3. CASE ~(promo[h] = p /\ subject[h] = s)
  <3>1. Counted(p, s)' \subseteq Counted(p, s) BY <1>4, <2>3 DEF CountUses, Counted, TypeOK
  <3> QED BY <2>1, <3>1, FewerStayWithin
 <2> QED BY <2>2, <2>3
<1>5. ASSUME NEW h \in Handlers, ReserveForOrder(h) \/ GrantDirectly(h) \/ ReserveForBranch(h)
      PROVE  WithinLimit(p, s)'
 <2>1. \E limit : \E as \in {"RESERVED", "REDEEMED"} : Take(h, limit, as)
   BY <1>5 DEF ReserveForOrder, GrantDirectly, ReserveForBranch
 <2>2. /\ purpose[h] # "book" /\ pc'[h] # "act"
       /\ \A g \in Handlers \ {h} : pc'[g] = pc[g] /\ purpose'[g] = purpose[g]
                                    /\ promo'[g] = promo[g] /\ subject'[g] = subject[g]
   BY <1>5 DEF ReserveForOrder, GrantDirectly, ReserveForBranch, Leave, Finish, TypeOK
 <2> QED BY <2>1, <2>2, TakingStaysWithin
<1>6. ASSUME NEW h \in Handlers,
             \/ ReadPromo(h) \/ FindWaiver(h) \/ Invalid(h) \/ NoWaiver(h) \/ SaveOrder(h) \/ StampPromoId(h)
             \/ BeginAttempt(h) \/ AlreadyMoved(h) \/ CommitAccept(h) \/ AbortAccept(h) \/ Crash(h)
      PROVE  WithinLimit(p, s)'
 <2>1. PICK at \in {"idle", "read", "count", "begin", "commit"} : pc' = [pc EXCEPT ![h] = at]
   BY <1>6 DEF ReadPromo, FindWaiver, Invalid, NoWaiver, SaveOrder, StampPromoId, BeginAttempt, AlreadyMoved,
               CommitAccept, AbortAccept, Crash, Leave, Finish
 <2>2. /\ UNCHANGED ledger
       /\ \A g \in Handlers \ {h} : purpose'[g] = purpose[g] /\ promo'[g] = promo[g] /\ subject'[g] = subject[g]
   BY <1>6 DEF ReadPromo, FindWaiver, Invalid, NoWaiver, SaveOrder, StampPromoId, BeginAttempt, AlreadyMoved,
               CommitAccept, AbortAccept, Crash, Leave, Finish, TypeOK
 <2> QED BY <1>1, <1>2, <2>1, <2>2 DEF ledger, Stage
<1>7. ASSUME NEW o \in Orders, EndOrder(o) \/ CompleteOrder(o) PROVE WithinLimit(p, s)'
 <2>1. UNCHANGED <<rowPromo, rowSubject, requests>> BY <1>7 DEF EndOrder, CompleteOrder, Move
 <2>2. \A r \in Redemptions : Counts(r)' => Counts(r)
   BY <1>7 DEF EndOrder, CompleteOrder, Counts, Freed, Held, TypeOK
 <2>3. Uses(p, s)' \subseteq Uses(p, s) BY <2>1, <2>2 DEF Uses
 <2>4. Counted(p, s)' = Counted(p, s) BY <2>1 DEF Counted, requests
 <2> QED BY <2>3, <2>4, FewerStayWithin
<1>8. ASSUME UNCHANGED <<ledger, requests>> PROVE WithinLimit(p, s)'
 <2>1. Counted(p, s)' = Counted(p, s) BY <1>8 DEF Counted, requests
 <2> QED BY <1>1, <1>8, <2>1 DEF ledger
<1>9. QED
 <2>1. CASE \E h \in Handlers : Run(h) \/ AbortAccept(h) \/ Crash(h)
   BY <2>1, <1>4, <1>5, <1>6 DEF Run
 <2>2. CASE \E o \in Orders : PlaceOrderWithoutCode(o) BY <2>2, <1>8 DEF PlaceOrderWithoutCode
 <2>3. CASE \E q \in Promos : SetActive(q) \/ \E m \in Caps : UpdateCap(q, m)
   BY <2>3, <1>8 DEF SetActive, UpdateCap
 <2> QED BY <1>3, <1>7, <2>1, <2>2, <2>3 DEF Next

WaiversInv == Asking /\ WaiversOK /\ \A p \in Promos, s \in Subjects : WithinLimit(p, s)

LEMMA WaiversInvInit == Init => WaiversInv
 <1> SUFFICES ASSUME Init PROVE WaiversInv OBVIOUS
 <1>1. Asking BY NoneIsNothing DEF Init, Asking, AskingOK
 <1>2. WaiversOK
  <2>1. \A o \in Orders : Named(o) = None BY DEF Init, Named
  <2>2. \A o \in Orders, p \in Waivers : SlotsFor(o, p) = {} BY DEF Init, SlotsFor, Uses, Counts
  <2> QED BY <2>1, <2>2, NoneIsNothing DEF Init, WaiversOK, WaiverOK, HeldOK, Promos
 <1>3. ASSUME NEW p, NEW s PROVE WithinLimit(p, s)
  <2>1. Uses(p, s) = {} /\ Counted(p, s) = {} BY DEF Init, Uses, Counts, Counted
  <2>2. Cardinality(Handlers) \in Nat \ {0} /\ PerSubject \in Nat BY Sizes, CapsAreNaturals
  <2> QED BY <2>1, <2>2, FS_EmptySet DEF WithinLimit
 <1> QED BY <1>1, <1>2, <1>3 DEF WaiversInv

LEMMA WaiversInvNext == Facts /\ WaiversInv /\ [Next]_vars => WaiversInv'
 <1> SUFFICES ASSUME Facts, WaiversInv, [Next]_vars PROVE WaiversInv' OBVIOUS
 <1>1. CASE Next
  <2>1. Asking' /\ WaiversOK' BY <1>1, AskingStep, WaiversStep DEF WaiversInv
  <2>2. \A p \in Promos, s \in Subjects : WithinLimit(p, s)' BY <1>1, LimitsStep DEF WaiversInv
  <2> QED BY <2>1, <2>2 DEF WaiversInv
 <1>2. CASE UNCHANGED vars
  <2> USE <1>2 DEF vars, ledger, orders, requests, history, WaiversInv
  <2>1. Asking' BY DEF Asking, AskingOK
  <2>2. \A o \in Orders : Named(o)' = Named(o) BY DEF Named
  <2>3. \A o \in Orders, p \in Waivers : SlotsFor(o, p)' = SlotsFor(o, p) BY DEF SlotsFor, Uses, Counts
  <2>4. WaiversOK'
   <3> SUFFICES ASSUME NEW o \in Orders PROVE WaiverOK(o)' /\ HeldOK(o)' BY DEF WaiversOK
   <3>1. WaiverOK(o) /\ HeldOK(o) BY DEF WaiversOK
   <3>2. /\ waiver' = waiver /\ status' = status /\ stray' = stray
         /\ rowState' = rowState
     OBVIOUS
   <3> HIDE DEF vars, ledger, orders, requests, history, WaiversInv
   <3>3. WaiverOK(o)' BY <2>2, <2>3, <3>1, <3>2, ZenonT(30) DEF WaiverOK
   <3>4. HeldOK(o)' BY <2>3, <3>1, <3>2, ZenonT(30) DEF HeldOK
   <3> QED BY <3>3, <3>4
  <2>5. ASSUME NEW p \in Promos, NEW s \in Subjects PROVE WithinLimit(p, s)'
   <3>1. Uses(p, s)' = Uses(p, s) /\ Counted(p, s)' = Counted(p, s) BY DEF Uses, Counts, Counted
   <3> QED BY <3>1 DEF WithinLimit
  <2> QED BY <2>1, <2>4, <2>5
 <1> QED BY <1>1, <1>2

LEMMA WaiversInvSays == Facts /\ WaiversInv => WaiversAndLimits
 <1> SUFFICES ASSUME Facts, WaiversInv PROVE OverIssueIsBounded /\ WaiverHasItsSlot BY DEF WaiversAndLimits
 <1>1. OverIssueIsBounded BY DEF WaiversInv, OverIssueIsBounded, WithinLimit, Uses, Counted
 <1>2. ASSUME NEW o \in Orders \ stray, NEW p \in Waivers, status[o] \in {"accepted", "completed"}
       PROVE  Cardinality(SlotsFor(o, p)) = IF waiver[o] = p THEN 1 ELSE 0
  <2>1. Named(o) = waiver[o] BY <1>2 DEF Named
  <2>2. WaiverOK(o) BY DEF WaiversInv, WaiversOK
  <2>3. CASE waiver[o] = p
   <3>1. PICK r : SlotsFor(o, p) = {r} BY <1>2, <2>1, <2>2, <2>3 DEF WaiverOK
   <3> QED BY <2>3, <3>1, FS_Singleton
  <2>4. CASE waiver[o] # p
   <3>1. SlotsFor(o, p) = {} BY <1>2, <2>1, <2>2, <2>4 DEF WaiverOK
   <3> QED BY <2>4, <3>1, FS_EmptySet
  <2> QED BY <2>3, <2>4
 <1> QED BY <1>1, <1>2 DEF WaiverHasItsSlot, SlotsFor

(* A subject goes over its own cap only by the requests counted for at the
   same time, and an accepted order has one slot for the waiver it names and
   none for another, unless it is stray; whatever requests, aborted attempts,
   lost processes and transitions interleave. *)
THEOREM WaiversKept == Spec => []WaiversAndLimits
<1>1. Spec => []WaiversInv BY WaiversInvInit, WaiversInvNext, Inductive, PTL DEF Spec
<1>2. QED BY <1>1, Inductive, WaiversInvSays, PTL

=============================================================================
