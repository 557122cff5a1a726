# Lalaba backend: specification and verification

Lalaba is a laundry marketplace: a NestJS application (GraphQL and a few REST
endpoints) over MongoDB (a replica set, so multi-document transactions are
available), Redis (a cache) and Firebase (identity and push messages), with
Xendit as the gateway of wallet top-ups. Customers book a provider (a branch of
a merchant, or a single washer), a courier fetches and returns the laundry, the
provider's prepaid wallet pays the platform's fee.

This directory holds TLA+ modules of the parts of that program whose
correctness depends on the order of things, TLC configurations that check them
on small instances and theorems about them that TLAPS checks for every
instance. Paths are relative to the repository root; most are under
`src/src/`.

How to read it: the inventory lists the program's parts; "Modules" says which
module stands for which part and how; "Runs" what TLC explores and why the
bounds suffice; "Proofs" what is proved and how; "Findings" where the code and
what the repository says of it differ; "Plan" what is still to be modelled.

## How the program runs

Three facts of the environment shape every module.

* **Many requests at once.** A handler is an `async` function: at every `await`
  another request, a scheduled job or another server process may run. What a
  handler read before an `await` may be stale after it.
* **`session.withTransaction`.** The callback runs on a snapshot. The first
  write to a document takes it for the session; a second session that writes
  it, or whose snapshot is older than the last commit, is aborted with a
  transient error, and *the callback is run again*. The database's state is
  rolled back; JavaScript objects captured by the callback are not. A Mongoose
  document that was saved or edited in the first attempt enters the second one
  already edited, with clean modified paths.
* **No distributed lock.** Every server process runs every `@Cron` job; jobs
  rely on the filters of their updates.

## Inventory

For each part: the state it keeps, its operations, whom it meets, what is hard,
and what makes it correct. Parts marked * are modelled, at least partly.

### Wallets * (`wallets/`)

State: one `Wallet` per branch (`balanceCentavos`, `activatedAt`), `TopUpIntent`s
(PENDING, SUCCEEDED, FAILED, EXPIRED), an append-only `WalletLedgerEntry` collection
with a unique index on the credit of an intent (fee rows have none). Operations:
`createWallet`, `initializeTopUp` (intent, gateway call, store the invoice),
`postVerifiedTopUp` and `resolveIntentWithoutCredit` (called by the webhook),
`consumeFee` and `reverseFee` (inside an order's session), `adminAdjustBalance`,
`reconciliationReport`. Meets: online orders, Xendit, account deletion (a funded
wallet blocks it). Hard: repeated, concurrent, early and late callbacks; write
conflicts on the one wallet document; a correction checked against a balance that a
fee then lowers. Correct when: the balance is the sum of the ledger, an intent is
credited once and exactly when SUCCEEDED, a paid invoice is credited in the end, no
correction overdraws.

### Online orders * (`online-orders/`)

State: the `OnlineOrder` document (status, version, assignments, payment
summary, quality hold, fee and promotion snapshots), `OrderEvent` rows,
`OnlineTransaction` rows. Operations: creation and quoting; 33 mutations that
move the order along the transition table; two sweeps. Meets: wallets (fee),
promotions (redemptions), platform fee (rate at creation), booking availability
and washer (gates of creation and acceptance), notifications, chat, KYC badge.
Hard: every mutation loads the document outside its transaction and checks the
copy; transactions are retried with the objects of the first attempt; a few
calls run two transactions; fees are taken in the same transaction as the
customer's payment. Correct when: concurrent calls serialise by version, the
history is the document's history, a hold resolves once, nobody travels without
an assignment; money collected is money recorded, the fee is taken once and
returned once, redemptions follow the order.

### Accounts * (`users/`, `auth/`, `account-deletion/`)

State: the `User` document (`isActive`, `accountStatus`, `sessionsValidAfter`,
gate fields copied from other collections), Redis copies of it for five minutes
and of verified tokens for fifty, `AccountDeletionRecord`s, personal data in
nine places. Operations: registration (one transaction with consents and a
washer's shop), deactivation and reactivation, session revocation, deletion
request, cancellation, the nightly erasure; the guard on every request. Meets:
everything that writes a gate field, devices, Firebase. Hard: read-check-write
without filters (cancel against erase, deactivate against reactivate, two last
admins), a cache filled from a read that a writer has overtaken, erasure in
eleven writes without a transaction. Correct when: DELETED is final and
complete, a cancelled request is not carried out, a revoked session is refused.

### Devices and biometric login * (`devices/`, `biometric/`)

State: `Device` rows (owner, token, branch, staff, status, `activeSession`), an
authorisation cache; credentials and single-use challenges. Operations: register,
approve, disapprove, block, unblock, delete, claim the active device; enroll,
challenge, login, revoke. Hard: claims of two devices at once, a cached authorisation
that outlives a block, a challenge used twice. Correct when: a staff member has one
active device, a blocked device is refused.

### Promotions and campaigns * (`promotions/`, `campaigns/`)

State: `PromoCode` with a global cap and one per customer or branch, `PromoRedemption`
(RESERVED, REDEEMED, RELEASED), `UserVoucher`; `Campaign`, `CampaignImpression`.
Operations: validate, redeem, reserve for an order, reserve for a branch,
settle, release, claim, revoke; the next campaign and its impression. Hard: caps
counted before a row is written; a reservation in its own transaction beside the
order's; release and settle against retries. Correct when: caps hold, the
counter is the number of live redemptions, a redemption ends with its order.

### Booking availability, booking policy, washer * (`booking-availability/`, `booking-policy/`, `washer/`)

State: configuration per branch, date overrides, blackouts, `BookingSlotCounter`
per branch and day; versions of the policy, milestones, campaigns; the washer's
profile with a daily cap. Operations: resolve a day, assert it bookable, count;
publish; entitlement; toggle and certify. Hard: a day resolved from four layers
of rules; the count read at booking and the slot taken at acceptance; Manila
days against UTC timestamps. Correct when: a day is never accepted beyond its
capacity, every layer can only restrict the one below it where it says so.

### KYC and courier verification * (`kyc/`, `courier-verification/`)

State: documents per type with status and review claim, the derived
verification on branch or profile, an audit log; a courier's current selfie.
Operations: submit (replaces), claim and release a case or document, approve,
reject, complete a review; submit and revoke a selfie. Hard: a decision on a
document that was replaced meanwhile, two reviewers, the derived status computed
from a read. Correct when: the derived status is the one its documents imply, a
decision applies to the document its reviewer saw.

### Point of sale, inventory, products * (`pos_orders/`, `pos_transactions/`, `inventory/`, `products/`)

State: counter orders (laundry and payment status, items), payment rows, stock
of an item and its movement log. Operations: create, pay, progress, claim,
cancel, void, add items; restock, adjust, damage, archive. Hard: stock taken for
several items one after the other, cancel against payment, the movement log
beside the counter. Correct when: stock is initial stock plus movements and is
never negative, an order's items are returned once.

### Support tickets * (`support-tickets/`)

State: status, assignee, priority, response and resolution deadlines, notes,
events. Operations: create, note, assign, status, priority, resolve. Hard: two
agents, first-response stamp, reopening by a customer's note. Correct when: the
first response is stamped once, the log is the ticket's history.

### Platform fee * (`platform-fee/`)

State: versioned rules with an effective period per provider type. Operations:
create, update, activate, set the legacy percentage, resolve the rule of an
instant. Hard: overlapping periods, the snapshot taken at order creation.
Correct when: one rule applies at an instant and an order keeps its rate.

### Notifications, chat, ratings * (`notifications/`, `chat/`, `ratings/`)

State: feed rows, read marks and a read-all cursor; conversations and messages;
ratings and a running aggregate on the provider. Operations: persist, mark one,
mark all; start, send; submit, update, take down, restore. Hard: unread counts
over cursor and marks; the aggregate kept by deltas beside the rows. Correct
when: the aggregate is the one of the visible rows, a thread ends with its order.

### Maintenance * (`maintenance/`)

State: the singleton of planned and emergency windows. Operations: update,
effective state per role. Hard: overlapping windows, back-office exemption.

### Access: roles, permissions, staff * (`auth/`, `permissions/`, `roles/`, `staff/`)

State: an account's role, its grants per branch (`branchAccess`) with the fields
mirrored from them, permission rows found by name. Operations: the guards of
every request; edits of grants by the owner; the permission table by an
administrator. Hard: some three hundred operations each with roles, permissions
and exemptions of its own; old documents that hold a list instead of grants.
Correct when: everything that locks an account out can be undone by a call it or
the back office may still make, and a grant on one branch opens no other.

### Branches * (`branches/`)

State: a merchant's branches, each with a wallet opened after it. Hard: names
checked before they are written, a process lost between branch and wallet.
Correct when: every branch has its wallet, active branches of one merchant have
different names.

### Discovery, search, back-office views * (`discovery/`, `search/`, `directory/`, `now-queue/`, `operational-context/`)

No state of their own, but decisions: which provider is shown as bookable, what
an operator finds, what the queue of work leaves out. Hard: sources read one
after the other while they change, limits that cut results, conditions written
twice. Correct when: what is shown can be booked and what can be booked is shown,
an exact match is found, a page says when it is incomplete, an impersonation is
on record before its token exists.

### Data migrations * (`migrations/`)

State: the documents an older program left. Operations: scripts run by hand
beside the live program, repeatable. Correct when: a rewritten document means
what it meant, and a second run finds nothing.

### Record keeping, reports and infrastructure

`services/`, `tasks/`, `addresses/`, `favorites/`, `site-content/`, `presence/`,
`activity-logs/`, `admin-audit/`, `consents/`, `costing/` are records edited by
their owner or append-only logs; `analytics/`, `platform-analytics/`,
`order-dashboard/` are sums; `common/`, `config/`, `firebase/`, `email/`,
`storage/`, `media/`, `logger/`, `scalars/` are wiring and I/O.

## Modules

Every module follows one pattern. Variables are documents and the handlers that
work on them; a handler's private variables are the objects it holds between two
`await`s. An action is what runs between two points where another request can
come in. `MC*` modules give the constants of the runs.

### `WalletLedger`, `PrepaidAccount`, `MCWalletLedger`

| TLA+ | code |
|---|---|
| `wallets`, `balance`, `activated` | `Wallet` documents |
| `ledger` | `WalletLedgerEntry` rows of a branch, in commit order |
| `status`, `amount`, `checkout` | `TopUpIntent` documents |
| `caller`, `CreateIntent`, `InvoiceCreated`, `InvoiceFails`, `MarkFailed`, `StoreInvoice`, `CallerCrashes` | `initializeTopUp`, step by step |
| `invoice`, `Pay`, `Expire` | Xendit (external) |
| `ReceiveExpired`, `ReceivePaid` | the webhook, which may call again at any time |
| `Claim`, `AlreadyPosted`, `Post`, `CommitTopUp`, `Duplicate` | the transaction of `postVerifiedTopUp` |
| `BeginFee`, `Post`, `PostRefused`, `CommitFee` | `consumeFee` and `reverseFee` in the session of an order |
| `CheckAdjust`, `CommitAdjust` | `adminAdjustBalance` |
| `WriteConflict`, `Abort`, `NoConflict` | MongoDB: a write conflict or a lost primary aborts the session, `withTransaction` runs the callback again |

A transaction is three steps: the snapshot, the conflicting write, the commit.
The slips beside the definitions (`ClaimOutsideSession`, `LeftByOldDocument`,
...) are plausible bugs; each property is shown to notice one of them.

`PrepaidAccount` is the promise: an account per branch on which a top-up counts
once, a fee is charged and returned at most once and in that order, and a
correction never overdraws. `WalletLedger` implements it under the mapping in
`ImplementsAccount`.

### `OrderStatuses`, `OrderLifecycle`, `MCOrderLifecycle`

One order, any number of requests on it, and the sweeps.

| TLA+ | code |
|---|---|
| `status`, `version`, `doc`, `lastEvent` | the stored `OnlineOrder` and its newest `OrderEvent`s |
| `Edge` (in `OrderStatuses`, shared with the settlement), `Legal` | `ORDER_STATUS_TRANSITIONS`, `assertValidTransition` |
| `known[h]` | status and version of handler `h`'s Mongoose document |
| `seen[h]` | history: the version of the stored document that copy was made of |
| `edit[h]` | its modified paths and their values |
| `moved[h]` | `applyTransition` has run on it, so status and version are modified paths too |
| `todo[h]` | the transactions the call still runs, each a list of statuses |
| `Load` | `findOrderOrThrow` and the call's checks and edits |
| the 33 actions named like mutations | what each call checks, edits and runs |
| `Marked` | `saveAndTransition` marks both assignments modified |
| `Commit`, `Refuse` | one attempt of a transaction: save, then `applyTransition` with its filter on the version |
| `AbortAndRetry` | the database aborts the attempt; the callback runs again with the moved object |
| `Crash` | the process dies between two transactions or before the first |
| `SaveOrderOnly` | `saveOrderOnly`, a save without transition or version |
| `RejectAssignment`, `AppendAuditEvent`, `audit` | an assignment that is turned down writes an event row of its own, outside any transaction, with the status of its copy; either it is created or it is not |
| `UpdateCourierLocation`, `SaveLocation` | a ping: the whole assignment is saved as it was loaded |
| `StampCreated`, `stamping` | the last save of `createOrder`, which stores the promotion's id and with it the status and version its copy was given |

The heart of the module is what a *moved* copy can do. Its save writes status
and version like any other modified path, so the filter on the version that
`applyTransition` then uses matches what the same transaction has just written.
The history variable `rewound` records that such a copy went over a newer
document; the properties that depend on versions say what holds until then, and
"Findings" tells when it happens. Whether a write goes over a newer document cannot
be told from the versions alone, since a moved copy counts its own on: `seen` keeps
which one the copy was made of.

Four writers go by no version at all: the note, the ping, the audit row and the
stamp. Each is a load and, any number of other steps later, a write of what was
loaded. Three history variables say that such a write came too late:
`restored`, a ping went over a document that had moved on and may have given the
leg back to a courier who was replaced; `overtaken`, an audit row names a status
the order no longer had; `rewound` with `unrecorded`, a stamp took an order that
had moved on back to where it was created, and no transition has been recorded
since. `HistoryIsKept` and `CouriersStay` hold until those, and only those, and
their mutants are slips in other writers.

`chooseReturnOption` edits an `Object` path in place without `markModified`
(online-orders.service.ts:2461). Mongoose compares what such a path holds only when it is
marked, so the customer's choice decides this transition and is not stored: a later
`reinstateAbandonedOrder` goes by the mode the order was booked with.

A transaction is one step: it takes the document with its first write, and a
concurrent writer is made to start over, which is `AbortAndRetry`. An attempt
may be aborted before or after `applyTransition` has touched the copy; either
way its edits are saved and clean, and the callback runs again without them, on
a copy that is as it was or moved already. `acceptOrder` alone resets status and
version before it tries again. Money is left to `OrderSettlement`; a surcharge
is a count. `MaxVersion` bounds how long the callers go on, and `MaxStamped` how
long while the stamp is still to come; they stop new calls, never a call in progress.
Coordinates, order of pings and the note of an audit row are left out.

### `Accounts`

| TLA+ | code |
|---|---|
| `active`, `account`, `ended`, `due` | the `User` document: `isActive`, `accountStatus`, `sessionsValidAfter` against the token in use, `deletionScheduledFor` against the clock |
| `busy` | whether `listBlockers` finds an order that is still live |
| `records` | the `AccountDeletionRecord`s of a user: open, cancelled, completed with `firebaseIdentityDeleted`, or (reported) without it |
| `kept` | the collections and services that still hold what the person had left there when the erasure began |
| `orphaned`, `halfway` | history: storage refused to delete a face; a sweep failed or died after the first write |
| `copy`, `Invalidate`, `CopyExpires` | the user in Redis, `invalidateUserCache`, the time to live |
| `GuardMiss`, `GuardFill` | `findOneByIdWithRoleCached`: the read and, one `await` later, the store |
| `Begin`, `Write`, `DropCopy`, `LogRecord` | a mutation's checks on what it read, its update by `_id`, its invalidation, its row in the deletion records |
| `RequestLost` | the process ends, or the next call fails, between those |
| `Select`, `StartErasing`, `Erase` | the nightly sweep, one step per write of `eraseAccount`; `eraseForUser` is two, the stored faces and then the rows that name them (`Cleaned`: without a row a second sweep deletes no face) |
| `EraseFails`, `Refused`, `SweepLost` | the failure of a write, which ends the erasure of this account; the two refusals that are caught and passed over, storage's and Firebase's; the loss of the process |

`due` abstracts dates to what the sweep asks of them. Registration, consents and
the gate fields other services copy onto the user are not in the module.
`missed` is a history variable: the copy in the cache outlived the invalidation
that should have removed it.

What a closed record proves is stated with those refusals in it: nothing is left
but an identity the record reports and a stored face that it does not mention.
What an account writes after its erasure began (support may have reactivated it,
a cached copy may still admit it) is not in `kept`.

### `OrderSettlement`, `MCOrderSettlement`

The money of one order, from the weigh-in to its end, each transaction write by
write.

| TLA+ | code |
|---|---|
| `doc` | status, version, abandonment clock, pricing and payment summary of the `OnlineOrder` |
| `recorded` | the sum of its collection rows (`OnlineTransaction`) |
| `debit` | what `consumeFee` and `reverseFee` have moved in the provider's wallet for it |
| `copy`, `dirty`, `due`, `script` | a handler's document, its modified paths, the amount it computed before the transaction, the writes of its transaction |
| `holder`, `todo`, `txDoc`, `txRecorded`, `txDebit` | the open session and what it would leave |
| `Priced`, `Surcharged`, `Waivable`, `Chargeable`, `Outstanding` | `finalizePricing`, the approved surcharge, the fee a waiver forgives, the fee to charge, the balance to collect |
| `RecordPickupWeight`, `ReceiveAtCounter`, `RecordPickupPayment`, `ApproveSurcharge`, `RecordDelivery`, `VerifySelfPickup`, `AbandonBySupport`, `SweepAbandons` | the calls and the job that touch money: what each prices, collects, charges and moves |
| `Save`, `CollectOutstanding`, `CollectDue`, `Row`, `Fee`, `Reverse`, `Move` | the writes inside those transactions |
| `Abort` | the database aborts the attempt; the copy stays as the attempt left it |
| `OtherCall`, `OverrideStatus` | every other move of the table; support's override |

`carried` is what an aborted attempt has left in a copy that the next attempt
will not compute again; when such an attempt commits, `marks` (a history
variable) says what it carried. A property that a carried value breaks says so
in its premise: `CollectedIsRecorded`, for one, holds until a collection is
carried over.

### `Promotions`, `MCPromotions`

| TLA+ | code |
|---|---|
| `live`, `cap`, `count` | `PromoCode`: active and within its dates, its total cap, `redemptionCount` |
| `rowState`, `rowPromo`, `rowSubject`, `rowOrder` | `PromoRedemption` rows |
| `status`, `code`, `waiver` | an order: how far it is, and what its pricing names |
| `taken` | the open transaction of `acceptOrder` that has written the order |
| `PlaceOrder`, `SaveOrder`, `ReserveForOrder`, `StampPromoId` | `createOrder` with a code: validated, saved, reserved, stamped |
| `Redeem`, `GrantDirectly` | `redeem`, by an administrator |
| `ReadPromo`, `CountUses`, `Invalid` | `validateAgainst`: the promotion is read first and the subject's rows are counted later |
| `AcceptOrder`, `BeginAttempt`, `FindWaiver`, `ReserveForBranch`, `NoWaiver`, `CommitAccept`, `AbortAccept` | `acceptOrder` and, within it, `applyPlatformFeePromo`, whose reservation commits in a session of its own |
| `Take` | the conditional increment and the row, one transaction |
| `EndOrder`, `CompleteOrder` | any transition that ends the order, with `settlePromoForTransition` |
| `SetActive`, `UpdateCap` | the administrator's edits, and the two dates passing |

Three history variables: `ceiling` is the highest cap a promotion has had, since a
cap may be lowered below what is redeemed already. `stray` holds the orders
whose slot the code loses track of: the order had ended before its code was
reserved, an acceptance lost its attempt or its process after it had reserved a
waiver, or the last save of `createOrder` wrote over a waiver. That save also
writes the status and version its copy was given by `applyTransition`
(online-orders.service.ts:819-821): `StampPromoId` sets an order that was
accepted, completed or cancelled meanwhile back to pending. `revived` holds the
orders that had ended; they are on their way again without the slot they gave
back.

### Composed modules: `BackOffice`, `Storefront`, `FrontOffice`

The smaller components are checked together, three compositions in three runs.
Each composition EXTENDS its components' modules and conjoins their initial
states; a variable `focus`, chosen at the start, names the component that takes
the steps of the behaviour while the others stand in an initial state. That
loses nothing: the modelled components of one composition share no variable, and
what one reads of another (a wallet's balance, an order's status) its own module
changes freely. The product of their interleavings would therefore show nothing
that one component alone does not, and would be far out of reach.

Conventions shared by all of them. A request is a program counter per handler
(`kpc`, `dpc`, ...) with the values it read; every `await` between a read and a
write is a step of its own, so two handlers interleave everywhere the program
does. `Lose...` ends a request anywhere, as a lost process does. A comment
`Mutant:` marks the slip beside the definition it imitates. *History*
variables say that a cause the code does not guard against has occurred, for
instance that two claims overlapped; the properties exclude exactly those
behaviours and hold in all others, and "Findings" lists what the causes are.

#### `BackOffice`

| module | stands for | the state that matters |
|---|---|---|
| `KycReview` | `kyc/kyc.service.ts` | documents of one provider in the order they were submitted, who holds them, the badge; requests that save what they loaded |
| `DeviceSessions` | `devices/devices.service.ts` | phones of one member of staff, which one is active, the cached decision of the guard |
| `CourierSelfies` | `courier-verification/` | selfie rows, their objects in storage, photo and gate of the user |
| `AccessTable` | every `*.resolver.ts` | who may call which of the operations: roles, permissions, exemptions of the gates |
| `AccessControl` | `auth/guards/`, `permissions/`, `maintenance/`, `staff/`, `washer/` | one account of any kind, everything that locks it out, its grants per branch |
| `Registration` | `users/`, `staff/`, `consents/` | logins at Firebase beside user documents, shops and wallets; invitations and their roll-backs |
| `Migrations` | `migrations/` | documents as an older program left them, the runs of one migration, the live program's writes; addresses in the public bucket and keys in the private one while `cert-proofs-to-private` moves a washer's evidence |
| `BackOfficeViews` | `now-queue/`, `operational-context/`, `directory/`, `search/` | work items and since when, wallets beside ledgers, the page being built, impersonation; what was searched for, what each searcher found |
| `BiometricLogin` | `biometric/` | credentials, challenges in the cache, logins step by step |

`AccessTable` is data, one set of operations per resolver class, so that
`AccessControl` can ask of every operation at once: is there always a call that
reopens what has been locked (`EveryLockHasAKey`), does a grant shown as a switch
mean what it says on that branch only (`SwitchesMeanWhatTheySay`).

`Migrations` keeps beside every document what it should mean to the program
(`mgMeant`): `Says` reads a document as the live program does, and `Keeps`
compares. One behaviour is about one migration, `mgTask`. `legacy-on-delivery` is
four statements (`Statements`), each over its own filter and one after the other, so
that an order may change between two of them; support may put an abandoned
order back on its way (`back`), before or after a run has called it settled. What an
order owes is kept either way (`Owes`); what its timing says is kept unless it was put
back, because the migration takes it to be over.

`CourierSelfies` has the bucket refuse a delete on every path: a replaced, revoked or
erased face may stay, and an erasure then deletes the rows all the same. `sleft` says
which objects were left behind that way, by a lost request, or by a row created while
the rows were being erased.

`BackOfficeViews` reads each source on its own: tickets, reviews and stuck orders by
age, unsettled orders by the deadline of their sweep, where those the sweep gave up
have none and come first (`StandsBefore`, `SweepItem`); the wallets through a query of
a limited number (`WalletPages`). An order that matches by its customer's or
provider's phone is found through the accounts of a number, of which the query joins a
limited number too (`Reached`, `SrPhoneUsers`).

In `BiometricLogin` the stamp on the credential and the custom token are two steps; a
login may be lost between them.

#### `Storefront`

| module | stands for | the state that matters |
|---|---|---|
| `PlatformFees` | `platform-fee/` | versions of rules with their periods, the snapshots on orders, days passing |
| `BookingPolicies` | `booking-policy/` | the policy rows, milestones, campaigns, the capacity granted |
| `BookingDays` | `booking-availability/`, `createOrder`, `acceptOrder` | hours, exceptions, the orders of a day, the two counters that make transactions conflict |
| `PriceList` | `pricing.util`, `fulfillment-pricing.util`, washer services, `quoteOrder`, `createOrder` | template, offer, legs' fees, and a quote and an order each read in five steps |
| `Marketplace` | `discovery/`, `provider-eligibility.service.ts`, `washer/` | one provider's switches, wallet, cap and pin; what the card shows and what the gates demand |
| `BranchOpenings` | `branches/` | branches with names and wallets |

In `BookingDays` a transaction that raises a counter another has raised since its
snapshot is marked stale and starts over, as MongoDB has it do; that conflict is the
only thing between two bookings of the last place. `PriceList` computes the price of
the quote and of the order in two definitions, because the program does. A price keeps
the model and the unit price it was computed with, as the line snapshot on the order
does: a home washer's line comes to nothing only when the unit price is 0, or when an
order by weight has no weight yet and no minimum to fall back on, and `NothingIsFree`
says so. An edit of a template is one field, left out, sent or sent as `Null`: it is
checked on the merge over what is stored, and stored as sent.

`Marketplace` answers a customer's question: with a place or without, with a radius
she chose, the default or any, on a page with room for `MkLimit` and `ahead` others
before this provider. The card of a washer asks no day and no policy as long as she
has no calendar, since the code then answers before it resolves one; `createOrder`
always does. Filters by category, rating, name and opening hours are left out: a
customer who sets one asks for fewer.

#### `FrontOffice`

| module | stands for | the state that matters |
|---|---|---|
| `PointOfSale` | `pos_orders/`, `pos_transactions/`, `inventory/`, `products/` | counter orders, payments and refunds, one stock item with its log and unit, one product with its size, archive |
| `Ratings` | `ratings/` | reviews and the aggregate kept by deltas, attempts that are run again |
| `ChatThreads` | `chat/`, `courier-access.util` | threads of one order, counters of the two sides, messages with who has seen them |
| `NotificationFeed` | `notifications/` | direct and branch rows until the TTL deletes them, marks, watermark, pushes, what the owner holds; of a broadcast the accounts and their tokens, the record, chunks, what phones have shown |
| `SupportDesk` | `support-tickets/` | tickets and the newest row of their trail |
| `CampaignShowings` | `campaigns/` | campaigns, the rows of showings and their windows |

In `PointOfSale` a sale takes as many units off the shelf as its lines are worth at
that moment (`Worth`), and a cancellation or void works it out again from the product
and the item as they are then; `UpdateProduct` and `UpdateItem` may have changed
either. `posResized` remembers the orders this happened to. A line keeps its price, so
an edit of a price changes no order and is left out.

A row of `NotificationFeed` is of an event that has an id or of one that has none; the
unique index covers the former, and the TTL deletes rows and marks some time after
they expire (`ReapRow`, `ReapMark`), after which the index no longer knows the event.
Rows are numbered in the order they are stored and no number is used again.
`ownerHolds` is what the owner of the branches is granted: the floor of a merchant, or
whatever a washer's grants give. `branchPushRecipients` pushes to the owner either
way. A push reaches all its recipients in one step; `push: false` and the sender's own
exclusion are left out.

`ChatThreads` follows the code where its comments disagree: `isCourierLegOver` ends
the thread of a courier for both sides (`SilentOnceOver`).

`SupportDesk` leaves the `ASSIGNED` and `UNASSIGNED` events out of the trail: they
name no status. `CampaignShowings` ranks campaigns once and for all; the rank stands
for `priority` and, among equals, `createdAt`.

## Runs

All runs but the violation end with every reachable state visited.
`CHECK_DEADLOCK FALSE` everywhere: orders end, intents are resolved and callers
reach their bound, and then nothing is left to do.

| run | question | instance |
|---|---|---|
| `wallet` | balance against ledger, credit exactly once, refinement of `PrepaidAccount`, a paid invoice is credited | two intents, two hooks, one fee with its reversal, one correction |
| `order_calls` | history and document agree, couriers and legs, fresh copies serialise | two callers, one sweep, every call but holds and support, pings, a rejected assignment, an order with a promotion or without |
| `order_hold` | a hold is resolved once, and in the end | two callers, one sweep, two holds, notes |
| `accounts_erasure` | complete erasure, records closed once, a due account is erased | one user, two requests, two sweeps |
| `accounts_cache` | when the cached user may be stale, and that it catches up | two users, a request, a sweep, a guard |
| `settlement_race` | fee and collection rows against the documents | two callers, the job |
| `settlement_life` | price, waiver, abandonment and hand-over | one caller, the job |
| `promotions` | counters, caps, rows, orders | two requests, two orders, three rows |
| `back_office` | review, devices, selfies, access, registration, migrations, views, login, search | two requests each; see below |
| `storefront` | fees, policies, capacity, prices, what is shown, branches | two requests each; see below |
| `front_office` | counter, ratings, chat, feed, broadcasts, campaigns, tickets | two requests each; see below |
| `settlement_discount` | refuted, see Findings | the least that shows it |

A property of a run is in most cases a conjunction of named parts, each defined
and explained where it stands in its module, so that a run asks one question of a
component:

| property | parts |
|---|---|
| `BooksAgree` | types, `BalanceIsLedgerTotal`, `SucceededIffCreditedOnce`, `AdjustmentNeverOverdraws` |
| `HistoryIsKept`, `CouriersStay` | types, `StatusIsRecorded`, `AuditIsTruthful`; `TravellingLegHasCourier` with `AssignmentMovesWithStatus` of every step |
| `ErasureIsProof` | types, `CompletedMeansErased` |
| `SettlementBooks` | types, `FeeLedgerEquation`, `CollectedIsRecorded` |
| `LifeIsSound` | `HandedOverIsSettled`, `PriceReconciles`, `WaiverHolds`, `AbandonedReturnsFee`, and `SweptOrderOwes` of every step |
| `CapsAndCountsHold`, `WaiversAndLimits` | types, `CountIsLedger`, `CapHolds`, `SlotFollowsOrder`; `OverIssueIsBounded`, `WaiverHasItsSlot` |
| `ReviewIsSound` | `BadgeFollows`, `OneLivePerType`, `HeldIsOpen`, and `DecisionsStand` of every step |
| `SessionsAreSound` | `OneActiveDevice`, `ClaimLeavesAPhone`, `CachedYesIsBacked` |
| `GateAndFaceAgree` | `GateFollowsSelfie`, `NoFaceLeftBehind` |
| `AccessIsSound` | `EveryLockHasAKey`, `BlockedCanReachUs`, `MirrorsAgree`, `SwitchesMeanWhatTheySay`, `SuspensionIsWhole`, and `ReassignmentKeepsGrants` of every step |
| `AccountsAreWhole` | `EveryAccountHasALogin`, `EveryLoginHasAnAccount`, `RegisteredWhole`, `ReportedIsInvited`, and `AccountsStay` of every step |
| `MigrationsKeepMeaning` | `MigrationKeepsMeaning`, `SecondRunMatchesNothing`, `EvidenceStaysReachable`, `OnlyCurrentIsShown` |
| `PagesAreHonest` | `LateIsOnThePage`, `OldestAreShown`, `VariancesAreReal`, `NoWayAround`, `FilterNeverWidens`, `EveryTokenIsOnRecord`, `ExactIsFound`, `IdentifiersBeforeNames`, `CompleteUnlessSaid` |
| `LoginsAreSound` | `OneSessionPerChallenge`, `RevokedKeyOpensNothing` |
| `FeesAreSound` | `SnapshotsExplain`, `HistoryIsAChain`, and `SwitchKeepsTheRate`, `SwitchedOffStaysOff` of every step |
| `PoliciesAreSound` | `SectionsAreKept`, `NewestPolicyIsLive`, `OneFloor`, `TargetedMilestonesStay`, `SafetyBoundsGrant` |
| `CapacityHolds` | `NoOverbooking`, `AcceptedWithinCap`, `BookedThroughOpenGates`, `NoticeFits` |
| `PricesAreSound` | `QuotedIsPlaced`, `NothingIsFree`, `FeesWithinCeiling`, `HeavierNeverCheaper`, `OfferWithinGuardrails`, `TemplateStaysCoherent` |
| `ShownAndBookableAgree` | `ShownIsBookable`, `BookableIsShown`, `QuoteHoldsAtCreate`, `SettingsStrandNothing` |
| `BranchesAreSound` | `NamesDiffer`, `EveryBranchHasItsWallet` |
| `TillIsSound` | `HandedOverIsPaid`, `TakingsReconcile`, `StockReconciles`, `StockNeverNegative`, `LedgerExplainsStock`, `OneOrderPerKey`, `ArchivedItemHasNoProduct` |
| `RatingsAreSound` | `AggregateMatches` |
| `ChatIsSound` | `BadgeCoversUnseen`, and `SilentOnceOver` of every step |
| `MessagesAreSound` | `BadgeAgreesWithFeed`, `PushedOncePerEvent`, `PushedMaySee`, `DeliveredIsRecorded`, `ShownOnce`, `UnknownRolesReachNobody`, and `ReadStaysRead`, `LivingTokensStay` of every step |
| `TicketsAreSound` | `ClockStopsOnAnswer`, `TrailExplainsTicket`, and `NoSilentTakeover` of every step |
| `ShowingsAreSound` | `OneShowingPerWindow`, `OpeningsKeepTheFloor`, `ButtonsLeadSomewhere`, and `MostImportantFirst` of every step |

Those of the composed runs include their component's types. Where a part speaks
of a step, the whole is an action property, and the other parts are asked of the
state the step leads to; the guard (`kycVars' # kycVars` and the like) repeats the
subscript only to spare TLC the evaluation while another component moves.

**Wallets.** Amounts of 3 against an activation minimum of 5: the second top-up
reaches it or none does. Two intents are needed for two credits to conflict on
the wallet, two hooks for two deliveries of one callback, one failure for a
retried callback. Fairness: Xendit repeats its callback; a session that can
proceed does, strongly for the steps that a rival's lock disables again and
again, because `withTransaction` retries; nobody is obliged to pay.

**Orders.** Two callers and one retry are the least with which a copy is stale, moved,
or both. `order_calls` issues every mutation but the quality holds and support's
override, up to version 14, which is long enough for booking, both legs, a failed
attempt and its repetition, abandonment and reinstatement; it is symmetric in the two
callers. The stamp of a promotion, a ping, a rejected assignment, an aborted attempt
and a lost process draw on one bound, `MaxExtras`, of one: each of them is a single
late write, and the property says what one such write may do; the stamp comes before
version 5 (`MaxStamped`), by when the order may have been accepted, turned down,
cancelled or collected. `order_hold` begins at the provider's counter and adds holds,
notes and the override, up to version 9; two holds, so that an answer to the first can
meet the second. Fairness: the scheduler calls the sweep every few minutes, the event
loop runs what has begun, the response window passes. No caller is obliged to call.

**Accounts.** `accounts_erasure`: two sweeps are needed for one account to be
erased twice at once, three calls for a second deletion request after a
cancellation, one failure for an erasure that stops half way. `accounts_cache`:
one user is an administrator; every mutation, one fill of the cache in flight,
which is enough for it to be overtaken, and one process lost before it
invalidates. Fairness: what has begun is run; the job is scheduled nightly; Redis
lets the copy expire; the grace period passes.

**Settlement.** An estimate of 20, weighed at 10 or 30, extras of 5, ten per
cent: the fee goes up or down at the weigh-in, and a surcharge of 20 is charged
its own fee. `settlement_race` has two symmetric callers and one mishap (an
aborted attempt, a lost process or an override) up to version 6,
`settlement_life` one caller up to version 9, which reaches every end of the
order. Fairness as for orders, with the abandonment clock passing.

**Promotions.** A subject may use a promotion once, the cap is 1 or 3 and is 1 at
first: two requests race for the last slot and for the subject's only use, a cap
can be raised and the freed slots taken, and three rows let an order be placed,
released and its slot given to the next. Two orders, so that one order's release
meets the other's reservation. One failure, one change. Safety only: nothing
here is obliged to happen, a slot may stay reserved as long as its order is open.

**Composed runs.** Each visits between 0.6 and 1.1 million states, every
component's complete state space under its bounds. Safety only: no scheduler
drives these components, and no caller is obliged to call again, so whatever must
happen in the end is said as what holds when nothing is under way (a badge, a
trail, a wallet). The bounds, and why they are enough:

* *Two requests* of a component at a time, symmetric where they are alike: every
  property here is about one request's write coming between another's read and
  write. The documents they meet on are one or two (two documents, two phones, three
  selfies, two orders, one ticket, two branches).
* *Calls* are bounded, mostly between two and six, enough for the longest scenario a
  property speaks of: submit, claim, decide against submit again; open, take, take
  over, resolve; assign a courier, hand over, write once more. Lowering
  `MaxLegChanges` or `MaxKycCalls` by one lets a slip in the code escape, which is
  how the bounds were found.
* *One mishap*: one lost process or one failed step. Two of them add no new order
  of events to code that keeps no memory between requests. In some components a
  mishap and a call draw on one bound (`MaxChatSteps` and its like), so that a
  behaviour with a lost process is one call shorter.
* *Limits of queries* are one or a few where the code has ten, thirty, fifty or five
  hundred (`BvPerSource`, `BvMostWallets` of two branches, `SrPerType`,
  `SrPhoneUsers`): a result that just fits and one that does not. `MkLimit` is the
  code's thirty, since `MkAhead` only counts.
* *Time* passes in as many ticks as a component's windows need: days of two or three
  ticks, a floor of two, a retention beyond both, so that a window closes, a row
  expires and a clock overtakes a request at least once. In the feed three reports and
  two rows let an event with an id come a second time before and after its row is
  deleted.
* *Amounts and capacities* are the least that tell rules apart: stock of one for two
  orders of one, a cap of one or two against two orders, ratings of 1 and 4, a
  provider inside a small radius, just outside it but rounded into it, and beyond the
  default. A product is worth one or two units of its item, with one on the shelf.
  Commission and ceiling begin at one value and may change once. Baskets weigh 5,
  between two steps of a half, or nothing yet; offers have no least weight, a shop's
  template has none and a home washer's has one, so that the line that comes to
  nothing is reached.
* `AccessControl` uses the whole table of operations and all groups of permissions,
  for an account of each kind that can be locked out (staff, courier, washer,
  customer) beside one of the back office; the grants are over two branches.

Every property is also run against a slip: a definition of the module is
replaced by the `Mutant:` beside it, and TLC then finds the property violated.

## Proofs

`WalletLedgerProofs` (about `WalletLedger` for all sets of branches, intents,
orders, corrections and handlers): `TypeCorrect`, `BalanceCorrect`,
`CreditedOnce`, `CorrectionsAndActivation`, which make up `BooksHold`, and
`AccountImplemented`. The invariants
are not inductive alone: what a session has claimed or posted and not committed
lives in `pc`, `after` and the locks. The strengthening relates them: a handler
that holds the lock saw the balance as it is, so publishing `after` adds exactly
its row; a claimed intent is PENDING and locked by the one handler that may
credit it. The refinement is proved step by step: a commit maps to one action of
the account, every other step to a stutter.

`OrderLifecycleProofs` (for any callers, sweeps, couriers and bounds):
`TypeCorrect` and `Recorded`, which make up `HistoryKept`, `FreshSerialise`,
`ResolvedOnce`. First
`RequestLoads` reduces the 33 mutations to what they may load (`GoodEdit`,
`GoodPlan`). The inductive invariant `IInv` then speaks of copies
(`CopyIsHonest`): until a moved copy has gone over a newer document, a fresh copy
is behind the document or was loaded from it as it stands, and an answer it
carries is the first one; a moved copy carries none. A commit that goes over no
newer document raises the version, so every other fresh copy falls behind it.
The action properties follow step by step.
`CouriersKept` (the property `CouriersStay`) needs more of a copy that was made of
the version now stored (`Current`): the assignments it will write back are the
stored ones unless its transition is one that gives or takes the leg (`LegsFit`), and
the leg it sets out on has its courier (`TravelFits`). An earlier form compared
version numbers only, and the attempt to prove it showed that a moved copy can
carry the number of a newer document by coincidence; that is why the model keeps
`seen`.

`AccountsProofs` (for any users, requests, sweeps and guards): `TypeCorrect`,
`CompletedIsProof` (together `ErasureProved`), `ClosedOnce`, `StaleIsExplained`. That
a completed record is proof of a complete erasure needs `ErasedSoFar`: a sweep at step
*k* has cleaned the places before *k*, and since nothing refills a place this survives
other sweeps, cancellations and failures; the record is written in the last step.
Staleness is argued user by user: a step either leaves the user's document, copy and
window (`LeftAlone`), or it opens the window before it makes the copy stale.

The module goes on with the rest of an account's life (any requests, identities,
branches, documents, reviewers and kinds); these are components of `BackOffice`,
whose specification implies theirs (`BackOfficeRunsItsComponents`):

* `AccountsWhole` (`AccountsAreWhole`). `RgInv`: of the requests that have written for one
  identity in an open transaction there is one (`JoiningFits`), so the commit of
  another cannot go over it; an invitation has its identity to itself until it
  undoes the login (`InvitingFits`), so what it rolls back is what it made; an
  identity nobody works on has both halves or neither (`UidFits`). An identity that
  an undone login was cut from under (`rgCut`) is excused throughout.
* `AccessSound` (`AccessIsSound`). `AcInv`: of every group a holder has at a branch
  all the permissions or none, and so has what a slow update is about to store, unless
  an old list or a lost row is on record (`GrantsFit`); the two writes of a suspension
  agree unless one is in progress or was torn (`StatusFits`). `TableIsAsNamed` reads
  off the table which operations open a lock; that each of the gates has a key which
  no other gate is in front of follows for the whole table.
* `ReviewSound` (`ReviewIsSound`). `KycInv`: what a request will claim or decide was
  open when it read it, or the document is marked; a badge in hand that is not late
  is the one the documents call for (`ReviewFits`, with `DerivedStays`: a claim
  changes no badge); where a kind has two live documents, the newest submission has
  still to supersede the others (`NewestStays`).

`PromotionsProofs` (for any handlers, promotions, orders, caps and bounds, and
finitely many rows): `TypeCorrect`, `CountCorrect`, `CapsHold`, `SlotsFollow`
(together `CapsAndCounts`), `FinalStay`. The counter is argued with cardinalities:
`TakeCounts` adds one row to one promotion, `FreedRows` bounds what a release takes
off. That every slot follows its order needs to know what an acceptance holds in hand
(`RequestOK`, `OrderOK`): one acceptance at a time has written the order, and its
waiver is on the copy that it will save, or the order is stray already; so a held slot
is always within reach of the transition that will free it (`SlotOK`). `WaiversKept`
(`WaiversAndLimits`) needs two things more. The waiver an order names is the stored
one, or before the commit the one in its acceptance's hand (`Named`), and the slots
that branch holds for the order are exactly the one for it (`WaiverOK`). And slots and
requests already counted for are bounded together (`WithinLimit`): a request that
takes its slot leaves the second set as it enters the first, and the last one to be
counted found fewer slots than a subject may use.

`OrderSettlementProofs` (for any callers, sweeps and amounts): `BooksAgree`, that
collection rows and the fee ledger match the order. The invariant has four layers,
each resting on the one before. `ScriptsInv`: the writes of a transaction come in
the order its call issues them, and end in the move. `VersionsInv`: a copy that has
not moved is the stored document's version or older, so that the move of an older
one is refused; this is what makes every other handler harmless. `PaymentInv` and
`FeeInv`: for the one handler that could still commit, what the copy says of
payment and fee is the stored document's plus what this attempt has written so
far, through any number of aborted attempts that carried neither over.

`BackOfficeProofs` (for any requests, phones, credentials, challenges, selfies,
documents, runs, records and rows):

* `DevicesSound`. `DeviceInv`: two phones authorised at once are explained by an
  unblocking or by a claim in progress that still has to supersede one of them.
* `LoginsSound`. `BioInv`: a challenge is consumed by one of the logins that hold it
  (`SpentOnce`), and a login whose key was revoked is idle again or has yet to save a
  credential that is no longer there (`RevokedIsGone`).
* `SelfiesSound`. `SelfieInv`: every picture in the bucket is of the live selfie, is
  on record as left behind, or is one that a request in progress still has to
  delete (`HasToDelete`).
* `MeaningKept` (`MigrationsKeepMeaning`). `MgInv`: a run knows the document as it
  read it, and has before it all that is left to rewrite (`RunFits`), so that when
  it ends nothing matches; a document means what it meant or a live write crossed
  the rewrite (`KeptSoFar`, for each of the ten migrations). `EmInv`, for the move of
  the evidence: the runs that still hold an address bound how often its key is listed
  (`ListedOnce`, by cardinalities).
* `PagesSound` (`PagesAreHonest`). `BvInv`: of a source that was read, an item that
  has waited all along is on the page once it is late, or the source was cut
  (`LateFits`); what was cut has not waited longer than a shown one of its source that
  also stayed (`OldestFit`); of a branch that nothing moved at, the balance and the
  ledger that the two queries saw are the present ones (`VariancesFit`), if the wallet
  was among those the first one returned (`ReadAsFar`). `SrInv`: a searcher that
  answered holds a full page or all that matched when the search began, unless the
  number has more accounts than the query joins (`SearchFits`, `NotAllJoined`). The
  order of the answer is argued from the ranks: `PrecedesIsAnOrder`, an identified row
  comes before a named one, and what the limit cuts has that many rows before it among
  those kept (`CutKeepsTheFirst`, at a row that was cut with the fewest rows before
  it).
* `BackOfficeRunsItsComponents`, `BackOfficeSound`: each step of the composition is
  a step of one component or leaves it alone, so what is proved of a component
  holds of what TLC checks.

`StorefrontProofs` proves every property of the `storefront` run:

* `CapacityKept` (any days, orders, requests, hours and limits). `LocksFit`: a
  transaction that has raised a day's counter is stale as soon as another commits
  on it, so `BookingFits` and `AcceptFits`, what it counted on its snapshot, are
  true of the stored orders when it commits. Counting is by cardinalities of the
  finite set of orders.
* `BranchesSound` (any branches, names and requests). `NamesStillFree`: a name that
  was found free is free still, unless a crossing is on record; `BranchRequestFits`:
  the ids a request has opened are its own.
* `PoliciesSound` (any publishers, milestones and terms). `NewestIsAtHand`: the row
  with the highest version is the one in force, or the publisher that inserted it
  has still to say so; `FloorFits` and `RemovalFits`, what an editor read of the
  milestones while nobody else wrote; `PublisherFits`, that a publisher's terms hold
  every section of the row it read. The highest of a finite ranked set is argued by
  a least counterexample.
* `FeesSound` (any rules, publishers, rates and days). `OneRowAVersion`,
  `VersionsFollow` and `SuccessorIsNamed`: the rows of a rule are a chain, and each
  names its successor, or a publisher is about to write the name, or the mark was lost
  on the way and is on record; `FeeRowsKept`: no
  step rewrites the rate or the key of a row that exists, so a snapshot stays
  explained.
* `MarketAgrees` (any distances, radii, caps and page limits). Beside the types it
  needs that no settings are off before the calendar is opened (`DefaultsStand`), and
  arithmetic: `RoundedWithin`, that a distance within a radius of whole kilometres
  stays within it when the card rounds it to a tenth.
* `PricesSound` (any templates, offers, baskets, fees and percentages). `DocsInv`:
  what an editor is about to write fits the template it read; `ReadsFit` and
  `StillCurrent`: what quote and order have read is what is stored, while no price has
  moved; hence both compute alike. An edit stores what was checked, but for a capacity
  sent as null. The rest is arithmetic of the operators: `LineIsSound` (a line grows
  with its weight and is 0 only as `NothingIsFree` says), `ClampedFee`, `PartsGrow`.
  Proving it refuted an earlier `NothingIsFree`, which was true only because every
  template and offer of the instance had a least weight.
* `StorefrontRunsItsComponents`, `StorefrontSound`: as above.

`FrontOfficeProofs` proves every property of the `front_office` run. Two of its
components keep sums, and `SumFunctionOnSet` is a fold. Its value on an empty set
(`SumOfNone`) and with one more member (`SumWithOneMore`) are proved first: there is
a function with the fold's recursion on every finite set, since a smallest set without
one would have a member whose removal leaves a set with one; `SumIsInt`,
`SumOfTheSame` and the lemmas about one changed member follow in the same way.

* `TillSound` (any requests, keys, orders, quantities). `OrderFits`: an order whose
  writers all wrote what they had read has its money and its units right, but for a
  payment in progress; `PaymentFits`: that payment is the order's only one, and the
  takings lack what it has still to charge, through any add-ons and a void, or it will
  be refused and took nothing. `LedgerMoves` and the `Owed...` lemmas carry the shelf's
  ledger over the movement rows that are still to be written. `WorthIsNat`, `WorthOfMore`
  and `UnitsKept` say what a line is worth whatever the size of product and item, and that
  what was worked out before they changed is the orders on record in `posResized`.
* `RatingsSound` (any orders, scores, requests). `RatingInv`: what a request holds in
  hand is the review as it is, unless the aggregate is marked as muddled.
* `TicketsSound` (any agents, tickets, requests). `DeskInv`: a writer of a status or
  assignment knows the ticket it read, or an overlap is on record.
* `ChatSound` (any couriers, requests, messages). `ChatInv`: what is in a badge, on its
  way to it, or lost covers what the side was not shown. `OverIsSilent`: a thread is over by
  the stamp of its leg, its courier or its order, and no step begins a message on it.
* `MessagesSound` (any accounts, branches, rows, phones, tasks). `FeedInv` for the
  feed: the rows are stored in the order of their numbers, and two of one event that
  has an id are a retention apart (`RowsStayInOrder`), because only a deleted row
  frees it; a mark the TTL deletes is of a row that has expired (`FeedReaped`), and a
  row pushed is one a task stored itself; `BcInv` for the broadcasts: what a task has
  sent and not recorded is its own.
* `ShowingsSound` (any requests, campaigns, impressions and times). `RowFits`,
  `SeenIsKept`, `WindowIsOver`: while a window lasts the row that stands for it is not
  swept, so that the unique index refuses a second one; `LastIsKept`: nor is the last
  opening, while the floor counts from it; `AskingFits`, `InsertFits`, `EditFits`: what
  a request read still holds when it writes, or matters no more. Proving it showed that
  an earlier form of `MostImportantFirst` never spoke of a campaign that was passed
  over; it now asks of each of them that it was seen in its window.
* `FrontOfficeRunsItsComponents`, `FrontOfficeSound`: as above.

The assumptions are those the modules state for their constants: names are distinct,
amounts and bounds are natural numbers, the rows of a ledger finite, and the requests
in progress finite and at least one. `PriceNumbersFit` says what the API's input
classes admit (`@Min(0)` on weights and amounts, `@Min(1)` on the least quantity) and
that a template is coherent when it is created. `KycAssumption` says that there is a
required document type (`REQUIRED_KYC_DOCUMENT_TYPES`), `AcAssumption` that groups and
old lists are made of the permissions of the catalogue. `CmTimesAssumption` says that
an impression's row outlives the longest window by more than a request takes
(`PERIODIC_IMPRESSION_RETENTION_DAYS`), and `CmCampaignsAssumption` that campaigns
start out as the schema and `assertActionIsCoherent` admit them. `BvAssumption` says
that each query of the work queue asks for an item before it is overdue and for at
least one, and `SrAssumption` that a row has one of the types and strengths the search
knows. TLC evaluates every assumption on the runs.

Every safety invariant of the passing runs is a theorem. Only model-checked:

* liveness under fairness (`PaidIsCredited`, `HoldTimesOut`, `CopyCatchesUp`,
  `DueIsErased`, `UnsettledIsSwept`), which this prover cannot do, and the violation.

## Findings

One run is one TLC must refute: `settlement_discount`. The weigh-in prices an
order without the discount it was booked with; `PROJECT.json` quotes the lines.

The others were met while modelling; the modules contain the behaviour, and no
run of its own refutes the sentence quoted here.

Where the repository says otherwise:

* orders: `markLaundryReady`'s second transaction has no version check, because
  the document it saves was moved by the first one (`online-order.schema.ts:479`:
  "two concurrent actors can never both win"). `scheduleRedelivery` takes the
  courier off the leg while the order moves on to a status from which none can be
  named (`online-orders.service.ts:2631`: "any available courier").
* accounts: the first write of an erasure takes the account out of the query that
  would retry it (`account-deletion.service.ts:449`: "the next sweep retries it"),
  so a failure of any later write leaves it halfway (`DueIsErased` says so). A
  refused delete of a stored face is logged and the rows that name it are deleted
  (`account-deletion.service.ts:529`: "the stored objects go too, not just the
  pointers"), and the record, kept as "proof of what ran", does not mention it.
* booking policy: a reader that finds no live policy while a publisher is between
  its two writes seeds version 1 again with the defaults of the code, and that is
  then the policy in force; versions can repeat.
* orders: the stamp of a promotion saves the copy of `createOrder` with its status and
  version over whatever the order has become (`online-orders.service.ts:819`), so an
  order accepted, cancelled or collected meanwhile is pending again. A ping saves the
  whole assignment it loaded, without a version (`:1579`: "Location-only"), and may
  name a replaced courier again. The audit row of a rejected assignment is created
  outside any transaction, with the status and the next sequence number of an earlier
  read. `chooseReturnOption` edits an Object path without marking it (`:2461`), so the
  choice is not stored.
* migrations: `legacy-on-delivery` takes abandoned orders for settled ("Statuses past
  the point where anything could still be collected",
  `legacy-on-delivery.migration.ts:40`), while the transition table has support put
  them back so that "a customer who turns up later with cash can still be served"
  (`order-status.enum.ts:302`); such an order then owes money and is said to be paid
  at pickup.
* work queue, money: the wallets are the first 500 of `find()`, in no order, and
  `truncated` does not say so (`work-item.model.ts:115`: "True when a source hit its
  cap, so the page never implies completeness"). Once an order is swept its deadline
  is cleared, so that it ranks MEDIUM (`now-queue.service.ts:331`: "an expired
  deadline outranks one still running").
* discovery: a washer without a config is accepting on her card whatever the policy
  says (`discovery.service.ts:963`: "platform defaults, not paused"), and creation
  refuses her bookings while the policy has them off; `:955` says of the two "they
  can't drift apart again".
* washer templates: a capacity sent as null is checked as the stored one and stored as
  null (`washer-service-templates.service.ts:116`: a template per load without a
  capacity "must fail here, not price every washer's basket as a single load later").
* counter: what a cancellation returns is worked out from the product as it is then,
  not what "was deducted at order creation time" (`pos-orders.service.ts:936`), so
  stock appears or vanishes when a product or its item was measured otherwise in
  between.
* chat: a courier's thread ends for both sides (`chat.service.ts:163`: "for BOTH
  sides, not just the rider"), and the field that tells the app so is described as
  "never for the customer" (`chat.resolver.ts:150`); the code does the former.
* notifications: a push goes to the branch's owner without a look at what she holds,
  and the feed shows her a row only if she holds what it needs; only a merchant has
  the floor (`resolve-permission-names.ts:38`: "this is what keeps them working at
  all"), so a washer is pushed what she cannot open. An event is told once while its
  row is kept; a report after the TTL has deleted it, or of an event without an id, is
  stored and pushed again (`notification.schema.ts:153`: "can then be safely re-run
  over events it may have already processed").
* chat: `sendMessage` accepts the caller's branch and does not pass it on, so a
  member of staff can read a thread and cannot answer it (`chat.resolver.ts:30`:
  "Staff chat AS THE BRANCH").
* platform fee: the rule of an instant is the one that began last, not "the highest
  VERSION whose effective window contains `at`" (`platform-fee.service.ts:75`).
* staff: an invitation that fails deletes the login and leaves the document; the
  comment in `createAdminUser` describes this as the mistake it avoids.
* devices: unblocking leaves two active devices (`device.schema.ts:75`: "the one
  APPROVED device currently holding this staff account's session").
* biometric login: two logins that read one challenge before either deletes it both
  succeed (`biometric.service.ts:140`: "single use").
* consents: one that is named twice aborts the registration
  (`consents.service.ts:60`: "a harmless no-op").
* work queue: the ten oldest unanswered tickets are read, so a younger, overdue,
  urgent one can be missing (`now-queue.service.ts:160`: "Age alone would be the
  wrong sort"); a failed source is still named among those searched.
* directory: callers are told to treat an attempt that could not be recorded as a
  failure, but `AdminAuditService.record` never throws; accounts shown to support
  contain a wallet's balance, which the operational context keeps from it.

Causes the history variables name, each a race or a lost step the code does not
guard against:

* review: two reviewers who claim one case at once can each hold half of it; a
  decision saved over one made in between.
* counter: an order can be paid while it is cancelled; two add-ons each compute the
  total from the same read; the index behind `idempotencyKey` is not unique; a
  product can be restored under an archived item; two adjustments of one item each
  log what they read.
* tickets: the first response can be stamped by a requester's own note; RESOLVED to
  CLOSED is logged as reopened and clears the resolution; a status change goes over
  one made in between.
* ratings: editing a review that was taken down moves the aggregate; a retried
  attempt saves nothing and moves the aggregate again.
* capacity: the counters are not raised by the override of support, nor by the
  customer's answer to a proposal; the acceptance creates today's counter while it
  raises that of the scheduled day; the gates of provider and date are asked at
  different moments and need never be open together. Two default milestones by
  crossing edits.
* prices: quoting does not refuse express service of a washer and creation does; a
  shop's per-piece line without a count costs nothing.
* what is shown: distances are rounded before they are compared, so a card at 5.03
  km is shown inside 5 km and cannot be booked; favourites and the profile page show
  `isAcceptingBookings` without wallet and status; remaining places count orders by
  the day they were made, the cap by the day they are for; the quote looks at fewer
  switches than creation.
* notifications: one watermark for the account marks the rows of its other branch
  read; crossing mark-alls can move it back; a transition's notice is sent before
  its transaction has committed. Chat: a process lost between message and counter
  leaves the badge short.
* campaigns: two requests on both sides of a window's boundary both show one within
  the floor; an explicit null passes the check of an edit and is stored.
* access: an old document reassigned with branches alone loses its grants; the
  suspension of a washer is two writes; cancelling a deletion request lifts an
  administrator's deactivation; the last administrator may ask for deletion.
* registration: crossing calls of one identity answer with the raw duplicate-key
  error; a process lost between login and document leaves an address that every
  later invitation finds taken. Branches: crossing creations give equal names; a
  process lost before the wallets leaves a branch whose wallet only a top-up opens.
* migrations: what a run writes by `_id` goes over what the program wrote since its
  read; a rerun of the capacity migration erases limits set since; a run that
  crosses an erasure or a new submission puts old evidence back.
* orders: a rescheduled pickup has the same gap as the redelivery; a note loaded
  before a hold replaces the hold; the customer's `chooseReturnOption` leaves
  `abandoned_unsettled`; `respondToProviderChange` accepts an order whose provider
  proposed nothing; an attempt aborted after its save loses the edits of the call.
* accounts: cancellation and erasure each overwrite the other's update; the guard
  for the last administrator counts before it writes; an order is created between
  the list of blockers and the lock-out.
* settlement: a retried attempt adds its collection a second time; the price of a
  weigh-in is lost with the attempt that saved it; a paid order that was abandoned
  gets its fee back and, reinstated, is not charged again; the sweep abandons an
  order that was given a new window after the list was read.
* promotions: concurrent requests exceed the per-subject limit by their number
  (`OverIssueIsBounded`); a code for the first order is validated again after the
  order was saved, which then counts as an earlier one.

## Hazards beyond those listed

`PROJECT.json` lists forty hazards, each with the properties that would catch it. More
of the program's hazards, met by the same modules or left open (in parentheses the
parts of the properties that speak of them):

* `wallets/wallets.service.ts:318`, `:539`, `:336`, `:210`: an aborted attempt
  between the credit's three writes; a fee between the check of a correction and
  the correction; who stamps `activatedAt`; a callback before the invoice is
  stored. (`SucceededIffCreditedOnce`, `AdjustmentNeverOverdraws`,
  `ActivatedIffTopUpReachedMinimum`, `PaidIsCredited`)
* `online-orders/online-orders.service.ts:2089`, `:2304`, `:1511`: transitions that
  write back the couriers they loaded; notes over holds; a courier who stays on a
  leg through failed attempts. (`AssignmentMovesWithStatus`, `HoldResolvedOnce`,
  `TravellingLegHasCourier`)
* `online-orders/online-orders.service.ts:2056`, `:1981`,
  `abandonment-scheduler.service.ts:56`, `:47`: collections counted twice, fees
  after corrections, orders listed and then settled, orders that wait for ever.
  (`CollectedIsRecorded`, `FeeLedgerEquation`, `SweptOrderOwes`, `UnsettledIsSwept`)
* `promotions/promotions.service.ts:238`, `:409`, `online-orders.service.ts:808`:
  the per-subject limit, rows given back twice, a code reserved for an order
  that has ended. (`OverIssueIsBounded`, `FinalRowsStay`,
  `SlotFollowsOrder`, `WaiverHasItsSlot`)
* `account-deletion/account-deletion.service.ts:407`: a deletion status read and then
  overwritten. (`RecordsClosedOnce`)
* `auth/guards/gql-auth.guard.ts:118`: some way out of every lock.
  (`EveryLockHasAKey`, `BlockedCanReachUs`)
* `washer/washer.service.ts:231`: a suspension in two writes. (`SuspensionIsWhole`)
* `notifications/notifications.service.ts:187`: an event reported twice is pushed
  once, and to those who may see it. (`PushedOncePerEvent`, `PushedMaySee`)
* `search/search.service.ts:182`: limits that cut what a page does not say.
  (`CompleteUnlessSaid`, `ExactIsFound`)
* `directory/directory.resolver.ts:80`: a token without a record of it.
  (`EveryTokenIsOnRecord`)
* `migrations/cert-proofs-to-private.migration.ts:129`: evidence moved while it is
  replaced. (`EvidenceStaysReachable`, `OnlyCurrentIsShown`)
* `users/users.service.ts:593`, `:608`, `promotions/promotions.service.ts:231`,
  `account-deletion/account-deletion.service.ts:355`,
  `online-orders/online-orders.service.ts:2453`, `:1690`, `:3132`: in the models
  without a property, because the code does not exclude the outcome and no document
  says it should not happen; "Findings" names them.

## Not modelled

* *Record keeping by one owner* (`services/`, `tasks/`, `addresses/`, `favorites/`,
  `presence/`, profile and text edits everywhere): one write of one document by the
  account it belongs to. What such a call can break is in the modules that read the
  document.
* *Sums and lists* (`analytics/`, `platform-analytics/`, `order-dashboard/`,
  `costing/`, monitoring and export queries): no state, no decision.
* *Append-only logs* (`admin-audit/`, `activity-logs/`, audit rows of KYC): nothing
  reads them back; where a failed row matters, its caller is modelled.
* *I/O and wiring* (`firebase/`, `email/`, `storage/`, `media/`, `config/`,
  `common/`, `logger/`): external steps of the modules that call them.
* *Shapes* (inputs, GraphQL models, validation of single fields): their effect is the
  set of inputs the modules enumerate.
* Of modelled parts: photographs, held vouchers and previews,
  the weekly calendar of a provider, requested KYC documents, wording of messages.

## Plan

Done, with proofs: wallets, the life of an order, accounts, promotions,
the settlement with its books and the life of its order, all of the storefront, of the
front office and of the back office. What is left, most important first:

1. Abstract specifications: a stock account for counter and inventory, after the
   pattern of `PrepaidAccount`; a bounded counter for the capacity of a day.
2. Compositions that share state: capacity with an order's creation and acceptance,
   the settlement with the wallet's account, whose fee rows it stands for.

Violations are kept to one run so that every component fits; a run that refutes one
of the other findings can be had by dropping the history variable that excuses it.
