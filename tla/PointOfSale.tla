---------------------------- MODULE PointOfSale ----------------------------
(* The counter of a branch: walk-in orders, their payment, hand-over,
   cancellation, voiding and add-ons, and the stock item that their
   products and services consume.

   A request reads the order, checks it, and writes it later by identity,
   so that what it checked may have changed.  Only the claim of a payment
   and the taking of stock are conditional updates.  Creation,
   cancellation, voiding and add-ons each run in one transaction, which
   still works from the order read before it began.

   One stock item, one product sold at one unit of money a piece; a service
   consumes the same item.  What a piece is worth in units of the item is
   not on the order: it is converted anew from the product and the item of
   the day.  Names, notes, prices, receipts and dates are left out. *)
EXTENDS Naturals, Integers, FiniteSets, FiniteSetsExt

CONSTANTS
  PosRequests,     \* requests in progress
  PosKeys,         \* idempotency keys of the till
  NoTillKey,
  MaxPosOrders,    \* bound: orders ever created
  MaxPosCalls,     \* bound: requests ever made, and mishaps
  MaxQuantity,     \* bound: units in one call
  OpeningStock,
  UnitSizes,       \* units of the item that a piece may be worth
  MaxPosMishaps    \* bound: server processes lost

ASSUME PosBoundsAssumption ==
  /\ {MaxPosOrders, MaxPosCalls, MaxQuantity, OpeningStock, MaxPosMishaps} \subseteq Nat
  /\ IsFiniteSet(PosRequests) /\ UnitSizes \subseteq Nat /\ UnitSizes # {}

PosOrders == 1..MaxPosOrders

VARIABLES
  posStatus, posPaid, posItems, posTotal, posKey, posServed,  \* pos_orders
  posTakings, posRefunds,   \* per order: sums of its pos_transactions rows
  posOut,                   \* per order: stock taken less stock returned
  posKept,                  \* orders closed by a caller that kept the stock out
  stock, stockMoves,        \* stockQuantity; sum of the movement rows
  itemArchived, productArchived,
  goodsUnits,               \* convertQuantity of the product: units in one piece
  serviceUnits,             \* convertQuantity of the service's default product
  ppc, pord, pseen, parg,   \* a request in progress
  posCalls, posMishaps,
  posCrossed, posTwins, posLost, stockStale, stockLost, posRevived,
  posResized \* history

posOrders == <<posStatus, posPaid, posItems, posTotal, posKey, posServed>>
posMoney == <<posTakings, posRefunds>>
posStock == <<posOut, posKept, stock, stockMoves>>
posCatalogue == <<itemArchived, productArchived, goodsUnits, serviceUnits>>
posRequest == <<ppc, pord, pseen, parg>>
posHistory == <<posCrossed, posTwins, posLost, stockStale, stockLost, posRevived, posResized>>
posVars == <<posOrders, posMoney, posStock, posCatalogue, posRequest,
             posCalls, posMishaps, posHistory>>

LaundryStatus == {"none", "PENDING", "IN_PROGRESS", "READY", "COMPLETED",
                  "CLAIMED", "CANCELLED", "VOID"}
PosPayment == {"UNPAID", "PAID", "REFUNDED"}
Closed == {"CANCELLED", "VOID"}

Seen(o) == <<posStatus[o], posPaid[o], posItems[o], posTotal[o]>>
Nothing == <<"none", "UNPAID", 0, 0>>

PosInit ==
  /\ posStatus = [o \in PosOrders |-> "none"]
  /\ posPaid = [o \in PosOrders |-> "UNPAID"]
  /\ posItems = [o \in PosOrders |-> 0] /\ posTotal = [o \in PosOrders |-> 0]
  /\ posKey = [o \in PosOrders |-> NoTillKey]
  /\ posServed = [o \in PosOrders |-> 0]
  /\ posTakings = [o \in PosOrders |-> 0] /\ posRefunds = [o \in PosOrders |-> 0]
  /\ posOut = [o \in PosOrders |-> 0] /\ posKept = {}
  /\ stock = OpeningStock /\ stockMoves = 0
  /\ itemArchived = FALSE /\ productArchived = FALSE
  /\ goodsUnits \in UnitSizes /\ serviceUnits \in UnitSizes
  /\ ppc = [h \in PosRequests |-> "idle"] /\ pord = [h \in PosRequests |-> 0]
  /\ pseen = [h \in PosRequests |-> Nothing] /\ parg = [h \in PosRequests |-> 0]
  /\ posCalls = 0 /\ posMishaps = 0
  /\ posCrossed = {} /\ posTwins = {} /\ posLost = {}
  /\ stockStale = FALSE /\ stockLost = 0 /\ posRevived = FALSE /\ posResized = {}

-----------------------------------------------------------------------------
(* Steps of a request. *)
PosBegin(h, at, o, seen, arg) ==
  /\ ppc[h] = "idle" /\ posCalls < MaxPosCalls /\ posCalls' = posCalls + 1
  /\ ppc' = [ppc EXCEPT ![h] = at]
  /\ pord' = [pord EXCEPT ![h] = o]
  /\ pseen' = [pseen EXCEPT ![h] = seen]
  /\ parg' = [parg EXCEPT ![h] = arg]

PosEnd(h) ==
  /\ ppc' = [ppc EXCEPT ![h] = "idle"]
  /\ pord' = [pord EXCEPT ![h] = 0]
  /\ pseen' = [pseen EXCEPT ![h] = Nothing]
  /\ parg' = [parg EXCEPT ![h] = 0]

(* The order is no longer what the request read. *)
Cross(h) == posCrossed' = IF Seen(pord[h]) = pseen[h]
                          THEN posCrossed ELSE posCrossed \cup {pord[h]}

(* resolveProductItem refuses what is archived, itself or its stock item. *)
Sellable == ~itemArchived /\ ~productArchived

(* What `items` pieces of order o are worth, at the conversions of now; the
   services among them are those it was created with. *)
Worth(o, items) == (items - posServed[o]) * goodsUnits + posServed[o] * serviceUnits

(* deductInventory: n units leave for order o with their movement row, if the
   shelf holds them; otherwise the whole transaction is refused. *)
Deduct(o, n) ==
  /\ n <= stock
  /\ stock' = stock - n
  /\ stockMoves' = stockMoves - n
  /\ posOut' = [posOut EXCEPT ![o] = @ + n]

(* returnInventory: what comes back is compared with nothing, not with what
   was taken either. *)
Return(o, n) ==
  /\ stock' = stock + n
  /\ stockMoves' = stockMoves + n
  /\ posOut' = [posOut EXCEPT ![o] = @ - n]

-----------------------------------------------------------------------------
(* The orders that a creation finds under its key. *)
AlreadyHere(k) ==
  <<"none", "UNPAID", Cardinality({o \in PosOrders : posKey[o] = k /\ k # NoTillKey}), 0>>

(* create: an order with the key of this call is answered as it is, else one
   transaction saves the order and takes its stock. *)
BeginCreate(h, k) ==
  /\ k # NoTillKey => \A o \in PosOrders : posKey[o] # k
  /\ PosBegin(h, "create", 0, AlreadyHere(k), k)
  /\ UNCHANGED <<posOrders, posMoney, posStock, posCatalogue, posMishaps, posHistory>>

(* One line of goods, or a service that consumes it: n pieces, n of money. *)
SaveOrder(h, o, n, service) ==
  /\ ppc[h] = "create"
  /\ posStatus[o] = "none" /\ \A q \in 1..(o - 1) : posStatus[q] # "none"
  /\ service \/ Sellable
  /\ Deduct(o, n * IF service THEN serviceUnits ELSE goodsUnits)
  /\ posStatus' = [posStatus EXCEPT ![o] = "PENDING"]
  /\ posItems' = [posItems EXCEPT ![o] = n]
  /\ posTotal' = [posTotal EXCEPT ![o] = n]
  /\ posKey' = [posKey EXCEPT ![o] = parg[h]]
  /\ posServed' = [posServed EXCEPT ![o] = IF service THEN n ELSE 0]
  /\ posTwins' = IF parg[h] # NoTillKey /\ pseen[h] # AlreadyHere(parg[h])
                 THEN posTwins \cup {o} ELSE posTwins
  /\ PosEnd(h)
  /\ UNCHANGED <<posPaid, posMoney, posKept, posCatalogue, posCalls, posMishaps,
                 posCrossed, posLost, stockStale, stockLost, posRevived, posResized>>

(* The lines are archived, too many, or the process is lost. *)
CreateFails(h) ==
  /\ ppc[h] = "create"
  /\ PosEnd(h)
  /\ UNCHANGED <<posOrders, posMoney, posStock, posCatalogue, posCalls, posMishaps, posHistory>>

-----------------------------------------------------------------------------

(* What each operation asks of the order it read. *)
Asks(op, s, p) ==
  \/ op = "IN_PROGRESS" /\ s = "PENDING"
  \/ op = "READY" /\ s = "IN_PROGRESS"
  \/ op = "CLAIMED" /\ s = "READY" /\ p = "PAID"
  \/ op = "cancel" /\ s \in {"PENDING", "IN_PROGRESS"} /\ p # "PAID"
  \/ op = "void" /\ s \notin Closed
  \/ op = "addons" /\ p = "PAID" /\ s \notin Closed \cup {"CLAIMED"}

ReadOrder(h, o, op, arg) ==
  /\ posStatus[o] # "none"
  /\ Asks(op, posStatus[o], posPaid[o])
  /\ PosBegin(h, op, o, Seen(o), arg)
  /\ UNCHANGED <<posOrders, posMoney, posStock, posCatalogue, posMishaps, posHistory>>

(* markInProgress, markReady, processPickup: the status, by identity. *)
WriteStatus(h) ==
  /\ ppc[h] \in {"IN_PROGRESS", "READY", "CLAIMED"}
  /\ posStatus' = [posStatus EXCEPT ![pord[h]] = ppc[h]]
  /\ Cross(h)
  /\ PosEnd(h)
  /\ UNCHANGED <<posPaid, posItems, posTotal, posKey, posServed, posMoney, posStock,
                 posCatalogue, posCalls, posMishaps, posTwins, posLost,
                 stockStale, stockLost, posRevived, posResized>>

(* cancelOrder and voidOrder put back the items of the order they read, at the
   conversions of now, unless the caller keeps them out; voiding a paid order
   refunds the total it read. *)
CloseStock(h) ==
  IF parg[h] = 1
  THEN Return(pord[h], Worth(pord[h], pseen[h][3])) /\ UNCHANGED posKept
  ELSE /\ posKept' = posKept \cup {pord[h]}
       /\ UNCHANGED <<stock, stockMoves, posOut>>

CancelOrder(h) ==
  /\ ppc[h] = "cancel"
  /\ CloseStock(h)
  /\ posStatus' = [posStatus EXCEPT ![pord[h]] = "CANCELLED"]
  /\ Cross(h)
  /\ PosEnd(h)
  /\ UNCHANGED <<posPaid, posItems, posTotal, posKey, posServed, posMoney,
                 posCatalogue, posCalls, posMishaps, posTwins, posLost,
                 stockStale, stockLost, posRevived, posResized>>

(* Mutant: a refund is due whatever the order had paid. *)
VoidAlwaysRefunds(h) ==
  LET o == pord[h] IN
  /\ ppc[h] = "void"
  /\ posRefunds' = [posRefunds EXCEPT ![o] = @ + pseen[h][4]]
  /\ posPaid' = [posPaid EXCEPT ![o] = IF pseen[h][2] = "PAID"
                                       THEN "REFUNDED" ELSE "UNPAID"]
  /\ CloseStock(h)
  /\ posStatus' = [posStatus EXCEPT ![o] = "VOID"]
  /\ Cross(h)
  /\ PosEnd(h)
  /\ UNCHANGED <<posItems, posTotal, posKey, posServed, posTakings,
                 posCatalogue, posCalls, posMishaps, posTwins, posLost,
                 stockStale, stockLost, posRevived, posResized>>

VoidOrder(h) ==
  LET o == pord[h] paid == pseen[h][2] = "PAID" IN
  /\ ppc[h] = "void"
  /\ posRefunds' = [posRefunds EXCEPT ![o] = @ + IF paid THEN pseen[h][4] ELSE 0]
  /\ posPaid' = [posPaid EXCEPT ![o] = IF paid THEN "REFUNDED" ELSE "UNPAID"]
  /\ CloseStock(h)
  /\ posStatus' = [posStatus EXCEPT ![o] = "VOID"]
  /\ Cross(h)
  /\ PosEnd(h)
  /\ UNCHANGED <<posItems, posTotal, posKey, posServed, posTakings,
                 posCatalogue, posCalls, posMishaps, posTwins, posLost,
                 stockStale, stockLost, posRevived, posResized>>

(* addOrderItems: the lines are pushed, the total is set from the read order. *)
AddItems(h, n) ==
  LET o == pord[h] IN
  /\ ppc[h] = "addons" /\ Sellable
  /\ posTakings' = [posTakings EXCEPT ![o] = @ + n]
  /\ Deduct(o, n * goodsUnits)
  /\ posItems' = [posItems EXCEPT ![o] = @ + n]
  /\ posTotal' = [posTotal EXCEPT ![o] = pseen[h][4] + n]
  /\ Cross(h)
  /\ PosEnd(h)
  /\ UNCHANGED <<posStatus, posPaid, posKey, posServed, posRefunds, posKept,
                 posCatalogue, posCalls, posMishaps, posTwins, posLost,
                 stockStale, stockLost, posRevived, posResized>>

(* The transaction is refused for its lines, or the process is lost. *)
WriteFails(h) ==
  /\ ppc[h] \in {"cancel", "void", "addons"}
  /\ PosEnd(h)
  /\ UNCHANGED <<posOrders, posMoney, posStock, posCatalogue, posCalls, posMishaps, posHistory>>

-----------------------------------------------------------------------------
(* processPayment claims the order first, and only then looks whether it may
   be paid; a refused payment puts UNPAID back. *)
BeginPayment(h, o, good) ==
  /\ posStatus[o] # "none" /\ posPaid[o] = "UNPAID"
  /\ posPaid' = [posPaid EXCEPT ![o] = "PAID"]
  /\ PosBegin(h, IF good /\ posStatus[o] \notin Closed THEN "charge" ELSE "refuse",
              o, <<posStatus[o], "PAID", posItems[o], posTotal[o]>>, 0)
  /\ UNCHANGED <<posStatus, posItems, posTotal, posKey, posServed, posMoney,
                 posStock, posCatalogue, posMishaps, posHistory>>

RefusePayment(h) ==
  /\ ppc[h] = "refuse"
  /\ posPaid' = [posPaid EXCEPT ![pord[h]] = "UNPAID"]
  /\ Cross(h)
  /\ PosEnd(h)
  /\ UNCHANGED <<posStatus, posItems, posTotal, posKey, posServed, posMoney,
                 posStock, posCatalogue, posCalls, posMishaps, posTwins, posLost,
                 stockStale, stockLost, posRevived, posResized>>

ChargePayment(h) ==
  /\ ppc[h] = "charge"
  /\ posTakings' = [posTakings EXCEPT ![pord[h]] = @ + pseen[h][4]]
  /\ ppc' = [ppc EXCEPT ![h] = "settle"]
  /\ UNCHANGED <<posOrders, posRefunds, posStock, posCatalogue, pord, pseen, parg,
                 posCalls, posMishaps, posHistory>>

(* A sale of goods only is complete once it is paid. *)
SettlePayment(h) ==
  LET o == pord[h] IN
  /\ ppc[h] = "settle"
  /\ posStatus' = [posStatus EXCEPT ![o] =
                     IF posServed[o] = 0 /\ pseen[h][1] = "PENDING" THEN "COMPLETED" ELSE @]
  /\ posCrossed' = IF posPaid[o] = "PAID" /\ posStatus[o] = pseen[h][1]
                   THEN posCrossed ELSE posCrossed \cup {o}
  /\ PosEnd(h)
  /\ UNCHANGED <<posPaid, posItems, posTotal, posKey, posServed, posMoney, posStock,
                 posCatalogue, posCalls, posMishaps, posTwins, posLost,
                 stockStale, stockLost, posRevived, posResized>>

-----------------------------------------------------------------------------
(* restock, adjust, damage: what the read allows is added later, whatever the
   shelf then holds, and the movement row is written after that. *)
ReadStock(h, change) ==
  /\ ~itemArchived /\ change # 0
  /\ change > 0 \/ stock + change >= 0
  /\ PosBegin(h, "shelf", 0, <<"none", "UNPAID", stock, 0>>, change)
  /\ UNCHANGED <<posOrders, posMoney, posStock, posCatalogue, posMishaps, posHistory>>

ChangeStock(h) ==
  /\ ppc[h] = "shelf"
  /\ stock' = stock + parg[h]
  /\ stockStale' = (stockStale \/ (stock < pseen[h][3] /\ stock + parg[h] < 0))
  /\ ppc' = [ppc EXCEPT ![h] = "log"]
  /\ pseen' = [pseen EXCEPT ![h] = Nothing]
  /\ UNCHANGED <<posOrders, posMoney, posOut, posKept, stockMoves, posCatalogue,
                 pord, parg, posCalls, posMishaps, posCrossed, posTwins, posLost,
                 stockLost, posRevived, posResized>>

LogTransaction(h) ==
  /\ ppc[h] = "log"
  /\ stockMoves' = stockMoves + parg[h]
  /\ PosEnd(h)
  /\ UNCHANGED <<posOrders, posMoney, posOut, posKept, stock, posCatalogue,
                 posCalls, posMishaps, posHistory>>

(* archive: the active products are counted before the write. *)
ReadArchive(h) ==
  /\ ~itemArchived /\ productArchived
  /\ PosBegin(h, "archive", 0, Nothing, 0)
  /\ UNCHANGED <<posOrders, posMoney, posStock, posCatalogue, posMishaps, posHistory>>

ArchiveItem(h) ==
  /\ ppc[h] = "archive"
  /\ itemArchived' = TRUE
  /\ PosEnd(h)
  /\ UNCHANGED <<posOrders, posMoney, posStock, productArchived, goodsUnits, serviceUnits,
                 posCalls, posMishaps, posHistory>>

(* restore of the item. *)
RestoreItem ==
  /\ itemArchived
  /\ posCalls < MaxPosCalls /\ posCalls' = posCalls + 1
  /\ itemArchived' = FALSE
  /\ UNCHANGED <<posOrders, posMoney, posStock, productArchived, goodsUnits, serviceUnits,
                 posRequest, posMishaps, posHistory>>

(* archive and restore of the product, which asks nothing about the item. *)
ToggleProduct ==
  /\ posCalls < MaxPosCalls /\ posCalls' = posCalls + 1
  /\ productArchived' = ~productArchived
  /\ posRevived' = (posRevived \/ (productArchived
                      /\ (itemArchived \/ \E h \in PosRequests : ppc[h] = "archive")))
  /\ UNCHANGED <<posOrders, posMoney, posStock, itemArchived, goodsUnits, serviceUnits,
                 posRequest, posMishaps,
                 posCrossed, posTwins, posLost, stockStale, stockLost, posResized>>

(* The orders with stock out, of which one may yet come back. *)
HoldsStock(o) == posStatus[o] # "none" /\ (posStatus[o] \in Closed => o \in posKept)

(* update of the product: its quantity or unit is another.  No order, open or
   closed, is looked at. *)
UpdateProduct(u) ==
  /\ posCalls < MaxPosCalls /\ posCalls' = posCalls + 1
  /\ u # goodsUnits /\ goodsUnits' = u
  /\ posResized' = posResized \cup {o \in PosOrders : HoldsStock(o) /\ posItems[o] # posServed[o]}
  /\ UNCHANGED <<posOrders, posMoney, posStock, itemArchived, productArchived, serviceUnits,
                 posRequest, posMishaps, posCrossed, posTwins, posLost,
                 stockStale, stockLost, posRevived>>

(* update of the item: its unit is another, and with it what everything that
   is converted to it is worth; the number on the shelf stays. *)
UpdateItem(u, v) ==
  /\ posCalls < MaxPosCalls /\ posCalls' = posCalls + 1
  /\ goodsUnits' = u /\ serviceUnits' = v
  /\ posResized' = posResized \cup {o \in PosOrders : HoldsStock(o)}
  /\ UNCHANGED <<posOrders, posMoney, posStock, itemArchived, productArchived,
                 posRequest, posMishaps, posCrossed, posTwins, posLost,
                 stockStale, stockLost, posRevived>>

-----------------------------------------------------------------------------
(* The server process that serves a request is lost between two writes. *)
LosePosRequest(h) ==
  /\ ppc[h] \in {"charge", "refuse", "settle", "log"}
  /\ posMishaps < MaxPosMishaps /\ posMishaps' = posMishaps + 1
  /\ posCalls < MaxPosCalls /\ posCalls' = posCalls + 1
  /\ posLost' = IF ppc[h] = "log" THEN posLost ELSE posLost \cup {pord[h]}
  /\ stockLost' = stockLost + IF ppc[h] = "log" THEN parg[h] ELSE 0
  /\ PosEnd(h)
  /\ UNCHANGED <<posOrders, posMoney, posStock, posCatalogue, posCrossed, posTwins,
                 stockStale, posRevived, posResized>>

PosNext ==
  \/ \E h \in PosRequests :
       \/ \E k \in PosKeys \cup {NoTillKey} : BeginCreate(h, k)
       \/ \E o \in PosOrders, n \in 1..MaxQuantity, service \in BOOLEAN :
            SaveOrder(h, o, n, service)
       \/ CreateFails(h)
       \/ \E o \in PosOrders, op \in {"IN_PROGRESS", "READY", "CLAIMED", "addons"} :
            ReadOrder(h, o, op, 0)
       \/ \E o \in PosOrders, op \in {"cancel", "void"}, restore \in {0, 1} :
            ReadOrder(h, o, op, restore)
       \/ WriteStatus(h) \/ CancelOrder(h) \/ VoidOrder(h)
       \/ \E n \in 1..MaxQuantity : AddItems(h, n)
       \/ WriteFails(h)
       \/ \E o \in PosOrders, good \in BOOLEAN : BeginPayment(h, o, good)
       \/ RefusePayment(h) \/ ChargePayment(h) \/ SettlePayment(h)
       \/ \E change \in (-MaxQuantity)..MaxQuantity : ReadStock(h, change)
       \/ ChangeStock(h) \/ LogTransaction(h)
       \/ ReadArchive(h) \/ ArchiveItem(h)
       \/ LosePosRequest(h)
  \/ RestoreItem \/ ToggleProduct
  \/ \E u \in UnitSizes : UpdateProduct(u)
  \/ \E u \in UnitSizes, v \in UnitSizes : UpdateItem(u, v)

PosSpec == PosInit /\ [][PosNext]_posVars

-----------------------------------------------------------------------------
PosTypeOK ==
  /\ posStatus \in [PosOrders -> LaundryStatus]
  /\ posPaid \in [PosOrders -> PosPayment]
  /\ posItems \in [PosOrders -> Nat] /\ posTotal \in [PosOrders -> Nat]
  /\ posKey \in [PosOrders -> PosKeys \cup {NoTillKey}]
  /\ posServed \in [PosOrders -> Nat]
  /\ posTakings \in [PosOrders -> Nat] /\ posRefunds \in [PosOrders -> Nat]
  /\ posOut \in [PosOrders -> Int] /\ posKept \subseteq PosOrders
  /\ stock \in Int /\ stockMoves \in Int
  /\ goodsUnits \in UnitSizes /\ serviceUnits \in UnitSizes
  /\ posCrossed \subseteq PosOrders /\ posResized \subseteq PosOrders /\ posTwins \subseteq PosOrders

Settled(o) == \A h \in PosRequests : pord[h] = o => ppc[h] \notin {"charge", "refuse", "settle"}
Plain(o) == posStatus[o] # "none" /\ o \notin posCrossed \cup posLost /\ Settled(o)

(* What was handed over is paid for.  processPickup refuses an unpaid order,
   yet a payment that is about to be refused shows PAID for a while, and a
   stale void or payment can take the mark away: only such an order, written
   by a request whose read no longer held, is the exception. *)
HandedOverIsPaid ==
  \A o \in PosOrders : Plain(o) /\ posStatus[o] = "CLAIMED" => posPaid[o] = "PAID"

(* The rows of the till agree with the order: an unpaid order took nothing, a
   paid one its total with every add-on, a refunded one gave all of it back. *)
TakingsReconcile ==
  \A o \in PosOrders : Plain(o) =>
    /\ posTakings[o] = IF posPaid[o] = "UNPAID" THEN 0 ELSE posTotal[o]
    /\ posRefunds[o] = IF posPaid[o] = "REFUNDED" THEN posTotal[o] ELSE 0

(* The shelf agrees with the orders: an order holds what its lines are worth,
   and returns it once, all of it, when it is cancelled or voided, unless the
   caller kept it out.  Two closings that cross return it twice; and when the
   product or its item was measured otherwise in between, what comes back is
   not what was taken, for returnInventory converts anew. *)
StockReconciles ==
  \A o \in PosOrders : Plain(o) /\ o \notin posResized =>
    posOut[o] = IF posStatus[o] \in Closed /\ o \notin posKept THEN 0 ELSE Worth(o, posItems[o])

(* No more is sold than the shelf holds.  The unconditional increments of
   adjust and damage go below zero when the stock they read has been sold. *)
StockNeverNegative == stock < 0 => stockStale

(* The movement rows explain the shelf, apart from the increments whose row is
   not yet written and those whose process was lost in between. *)
LedgerExplainsStock ==
  stock = OpeningStock + stockMoves + stockLost
          + SumFunctionOnSet(parg, {h \in PosRequests : ppc[h] = "log"})

(* A till that repeats a creation gets the order it made.  The index over the
   key is not unique: two repeats that both look before either saves make two. *)
OneOrderPerKey ==
  \A o, q \in PosOrders :
    o < q /\ posKey[o] = posKey[q] /\ posKey[o] # NoTillKey => q \in posTwins

(* No product on sale hangs on an archived item, unless it was put back on
   sale under it: restoring a product never looks at its item. *)
ArchivedItemHasNoProduct == itemArchived /\ ~productArchived => posRevived

(* The till agrees with itself whatever sales, payments, voids, damages and
   retries cross: money with the orders, stock with its log and with what was
   sold, keys with orders, and products with their items. *)
TillIsSound ==
  /\ PosTypeOK
  /\ HandedOverIsPaid
  /\ TakingsReconcile
  /\ StockReconciles
  /\ StockNeverNegative
  /\ LedgerExplainsStock
  /\ OneOrderPerKey
  /\ ArchivedItemHasNoProduct

=============================================================================
