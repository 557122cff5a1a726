-------------------------- MODULE BackOfficeViews --------------------------
(* The pages the back office composes of other components' records: what
   needs someone now (now-queue.service), one subject's context
   (operational-context.service), the account directory and the credential
   it mints (directory.service).  A page reads its sources one by one
   while the records change, and a source may fail. *)
EXTENDS Integers, FiniteSets, AccessTable

CONSTANTS
  BvItems,        \* item -> its source: tickets, documents, orders
  BvLateAfter,    \* item -> ticks after which its source calls it HIGH
  BvShownAfter,   \* source -> ticks before which its query leaves an item out
  BvFirst,        \* sets of items that wait at first
  BvPerSource,    \* PER_SOURCE_LIMIT
  BvMostWallets,  \* wallets one query of walletVariances returns
  BvBranches,
  BvAccounts, BvRoleOf, BvPhoneOf,   \* accounts of the directory
  BvRoleFilters,  \* sets of role ids a caller filters by, unknown ones too
  BvLastTick, BvMostCalls, BvMostMoves   \* bounds

VARIABLES
  bvNow,
  bvSince,      \* item -> {the tick it began to wait, or its deadline was counted from} or {}
  bvSwept,      \* unsettled orders the sweep gave up: they have no deadline any more
  bvStored, bvLedger,   \* branch -> wallet balance, sum of its ledger
  bvTodo, bvAt, bvRole, \* the page being built: sources left, its `now`, the caller's role
  bvBalances,   \* the wallets it has read, {} before
  bvSums,       \* the ledger it has read, {} before
  bvPage, bvCount, bvReady, bvTruncated,  \* rows, rows of each source, answered, said to be cut
  bvStayed, bvMoved,    \* history: items waiting all along; branches with a movement since
  bvReads,      \* history: <<role, kind of record>> queried
  bvList,       \* the directory's last answer: {<<role ids asked, accounts>>}
  bvStep, bvTarget,     \* an impersonation in progress
  bvTokens, bvTrail, bvUnwritten,   \* credentials minted, attempts recorded, record failed
  bvCalls, bvMoves

bvVars == <<bvNow, bvSince, bvSwept, bvStored, bvLedger, bvTodo, bvAt, bvRole, bvBalances, bvSums, bvPage,
            bvCount, bvReady, bvTruncated, bvStayed, bvMoved, bvReads, bvList, bvStep, bvTarget, bvTokens,
            bvTrail, bvUnwritten, bvCalls, bvMoves>>
itemVars == <<bvSince, bvSwept>>
pageVars == <<bvTodo, bvAt, bvRole, bvBalances, bvSums, bvPage, bvCount, bvReady, bvTruncated, bvStayed, bvMoved>>
moneyVars == <<bvStored, bvLedger>>
tokenVars == <<bvStep, bvTarget, bvTokens, bvTrail, bvUnwritten>>

WorkSources == {"TICKET", "KYC", "STUCK", "UNSETTLED"}

\* Each query asks for what it may call late; a branch is no ticket, document or order.
ASSUME BvAssumption ==
  /\ IsFiniteSet(DOMAIN BvItems) /\ IsFiniteSet(BvBranches) /\ BvBranches \cap DOMAIN BvItems = {}
  /\ \A i \in DOMAIN BvItems :
       /\ BvItems[i] \in WorkSources
       /\ BvLateAfter[i] \in Int /\ BvShownAfter[BvItems[i]] \in Int
       /\ BvShownAfter[BvItems[i]] <= BvLateAfter[i]
  /\ BvPerSource \in Nat \ {0} /\ BvMostWallets \in Nat /\ BvLastTick \in Nat

\* TYPE_ROLES and MODULE_ROLES
TypeRoles(kind) == IF kind = "WALLET" THEN {"admin"} ELSE BackOffice

NothingAsked ==
  /\ bvTodo = {} /\ bvAt = 0 /\ bvRole = "none" /\ bvBalances = {} /\ bvSums = {} /\ bvPage = {}
  /\ bvCount = [s \in WorkSources \cup {"WALLET"} |-> 0] /\ bvReady = FALSE /\ bvTruncated = FALSE
  /\ bvStayed = {} /\ bvMoved = {}

BvInit ==
  /\ bvNow = 0 /\ bvSwept = {}
  /\ \E first \in BvFirst : bvSince = [i \in DOMAIN BvItems |-> IF i \in first THEN {0} ELSE {}]
  /\ bvStored = [b \in BvBranches |-> 0] /\ bvLedger = [b \in BvBranches |-> 0]
  /\ NothingAsked /\ bvReads = {} /\ bvList = {} /\ bvStep = "idle" /\ bvTarget = {}
  /\ bvTokens = {} /\ bvTrail = {} /\ bvUnwritten = {} /\ bvCalls = 0 /\ bvMoves = 0

BvCalled == bvCalls < BvMostCalls /\ bvCalls' = bvCalls + 1
BvMoved == bvMoves < BvMostMoves /\ bvMoves' = bvMoves + 1

-----------------------------------------------------------------------------
(* The records change *)

Enqueue(i) ==
  /\ bvSince[i] = {} /\ BvMoved /\ bvSince' = [bvSince EXCEPT ![i] = {bvNow}]
  /\ UNCHANGED <<bvNow, bvSwept, moneyVars, pageVars, bvReads, bvList, tokenVars, bvCalls>>

\* Answered, claimed, accepted or settled.
Dequeue(i) ==
  /\ bvSince[i] # {} /\ BvMoved /\ bvSince' = [bvSince EXCEPT ![i] = {}]
  /\ bvSwept' = bvSwept \ {i} /\ bvStayed' = bvStayed \ {i}
  /\ UNCHANGED <<bvNow, moneyVars, bvTodo, bvAt, bvRole, bvBalances, bvSums, bvPage, bvCount, bvReady, bvTruncated,
                 bvMoved, bvReads, bvList, tokenVars, bvCalls>>

\* moveOrder to ABANDONED_UNSETTLED clears abandonmentDeadlineAt.
SweepItem(i) ==
  /\ BvItems[i] = "UNSETTLED" /\ bvSince[i] # {} /\ i \notin bvSwept /\ BvMoved
  /\ bvSwept' = bvSwept \cup {i} /\ bvStayed' = bvStayed \ {i}
  /\ UNCHANGED <<bvNow, bvSince, moneyVars, bvTodo, bvAt, bvRole, bvBalances, bvSums, bvPage, bvCount, bvReady,
                 bvTruncated, bvMoved, bvReads, bvList, tokenVars, bvCalls>>

\* A ledgered movement, or one outside the ledgered paths.
MoveMoney(b, ledgered) ==
  /\ BvMoved
  /\ bvStored' = [bvStored EXCEPT ![b] = @ - 1]
  /\ bvLedger' = IF ledgered THEN [bvLedger EXCEPT ![b] = @ - 1] ELSE bvLedger
  /\ bvMoved' = bvMoved \cup {b}
  /\ UNCHANGED <<bvNow, itemVars, bvTodo, bvAt, bvRole, bvBalances, bvSums, bvPage, bvCount, bvReady, bvTruncated,
                 bvStayed, bvReads, bvList, tokenVars, bvCalls>>

BvTick ==
  /\ bvNow < BvLastTick /\ bvNow' = bvNow + 1
  /\ UNCHANGED <<itemVars, moneyVars, pageVars, bvReads, bvList, tokenVars, bvCalls, bvMoves>>

-----------------------------------------------------------------------------
(* The now page *)

BeginNow(role) ==
  /\ bvTodo = {} /\ ~bvReady /\ BvCalled
  /\ bvTodo' = {s \in WorkSources : role \in TypeRoles(s)}
               \cup {w \in {"BALANCES", "LEDGER"} : role \in TypeRoles("WALLET")}
  /\ bvAt' = bvNow /\ bvRole' = role
  /\ bvStayed' = {i \in DOMAIN BvItems : bvSince[i] # {}} /\ bvMoved' = {}
  /\ UNCHANGED <<bvNow, itemVars, moneyVars, bvBalances, bvSums, bvPage, bvCount, bvReady, bvTruncated, bvReads, bvList,
                 tokenVars, bvMoves>>

Waited(i) == CHOOSE w \in {bvAt - t : t \in bvSince[i]} : TRUE

\* sort({ createdAt: 1 }), and of unsettled orders sort({ abandonmentDeadlineAt: 1 }), where
\* those without one come first.
StandsBefore(i, j) ==
  IF BvItems[i] # "UNSETTLED" THEN Waited(i) >= Waited(j)
  ELSE i \in bvSwept \/ (j \notin bvSwept /\ Waited(i) - BvLateAfter[i] >= Waited(j) - BvLateAfter[j])

\* limit(PER_SOURCE_LIMIT)
FirstOf(items) ==
  {page \in SUBSET items :
     /\ Cardinality(page) = IF Cardinality(items) < BvPerSource THEN Cardinality(items) ELSE BvPerSource
     /\ \A i \in page, j \in items \ page : StandsBefore(i, j)}

\* overdueMinutes > 0, ageMinutes > 24 * 60, ageMinutes > 6 * 60, minutesLeft < 24 * 60
IsLate(i) == i \notin bvSwept /\ Waited(i) > BvLateAfter[i]

\* Mutant: a page that is just full counts as whole.
FullBeyond(count) == \E s \in DOMAIN count : count[s] > BvPerSource
\* groups.some((g) => g.length >= PER_SOURCE_LIMIT)
NowTruncated(count) == \E s \in DOMAIN count : count[s] >= BvPerSource

\* filter(variance !== 0)
Variances(balances, sums) == {b \in DOMAIN balances : balances[b] # sums[b]}

\* One source's query, with its read of what waits.
ReadSource(s) ==
  /\ ~bvReady /\ s \in bvTodo \cap WorkSources
  /\ \E page \in FirstOf({i \in DOMAIN BvItems : BvItems[i] = s /\ bvSince[i] # {}
                                               /\ Waited(i) >= BvShownAfter[s]}) :
       /\ bvPage' = bvPage \cup {[what |-> i, high |-> IsLate(i)] : i \in page}
       /\ bvCount' = [bvCount EXCEPT ![s] = Cardinality(page)]
  /\ bvTodo' = bvTodo \ {s} /\ bvReads' = bvReads \cup {<<bvRole, s>>} /\ bvReady' = (bvTodo' = {})
  /\ bvTruncated' = NowTruncated(bvCount')
  /\ UNCHANGED <<bvNow, itemVars, moneyVars, bvAt, bvRole, bvBalances, bvSums, bvStayed, bvMoved, bvList,
                 tokenVars, bvCalls, bvMoves>>

WithVariances(balances, sums) ==
  IF balances = {} \/ sums = {} THEN UNCHANGED <<bvPage, bvCount>>
  ELSE \E was \in balances, sum \in sums :
         \E page \in SUBSET Variances(was, sum) :
           /\ Cardinality(page) = IF Cardinality(Variances(was, sum)) < BvPerSource
                                  THEN Cardinality(Variances(was, sum)) ELSE BvPerSource
           /\ bvPage' = bvPage \cup {[what |-> b, high |-> TRUE] : b \in page}
           /\ bvCount' = [bvCount EXCEPT !["WALLET"] = Cardinality(page)]

\* find().limit(500), in no order.
WalletPages ==
  {read \in SUBSET BvBranches :
     Cardinality(read) = IF Cardinality(BvBranches) < BvMostWallets THEN Cardinality(BvBranches) ELSE BvMostWallets}

\* walletVariances: the wallets and the ledger are two queries, in either order.
ReadBalances ==
  /\ ~bvReady /\ "BALANCES" \in bvTodo
  /\ \E read \in WalletPages : bvBalances' = {[b \in read |-> bvStored[b]]}
  /\ WithVariances(bvBalances', bvSums)
  /\ bvTodo' = bvTodo \ {"BALANCES"} /\ bvReads' = bvReads \cup {<<bvRole, "WALLET">>}
  /\ bvReady' = (bvTodo' = {})
  /\ bvTruncated' = NowTruncated(bvCount')
  /\ UNCHANGED <<bvNow, itemVars, moneyVars, bvAt, bvRole, bvSums, bvStayed, bvMoved, bvList,
                 tokenVars, bvCalls, bvMoves>>

ReadLedger ==
  /\ ~bvReady /\ "LEDGER" \in bvTodo /\ bvSums' = {bvLedger} /\ WithVariances(bvBalances, {bvLedger})
  /\ bvTodo' = bvTodo \ {"LEDGER"} /\ bvReads' = bvReads \cup {<<bvRole, "WALLET">>}
  /\ bvReady' = (bvTodo' = {})
  /\ bvTruncated' = NowTruncated(bvCount')
  /\ UNCHANGED <<bvNow, itemVars, moneyVars, bvAt, bvRole, bvBalances, bvStayed, bvMoved, bvList,
                 tokenVars, bvCalls, bvMoves>>

\* settled: what has not been read throws, and the page is answered without it.
FailSources ==
  /\ ~bvReady /\ bvTodo # {} /\ bvReady' = TRUE
  /\ UNCHANGED <<bvNow, itemVars, moneyVars, bvTodo, bvAt, bvRole, bvBalances, bvSums, bvPage, bvCount,
                 bvTruncated, bvStayed, bvMoved, bvReads, bvList, tokenVars, bvCalls, bvMoves>>

CloseNow ==
  /\ bvReady
  /\ bvTodo' = {} /\ bvAt' = 0 /\ bvRole' = "none" /\ bvBalances' = {} /\ bvSums' = {} /\ bvPage' = {}
  /\ bvCount' = [s \in WorkSources \cup {"WALLET"} |-> 0] /\ bvReady' = FALSE /\ bvTruncated' = FALSE
  /\ bvStayed' = {} /\ bvMoved' = {}
  /\ UNCHANGED <<bvNow, itemVars, moneyVars, bvReads, bvList, tokenVars, bvCalls, bvMoves>>

-----------------------------------------------------------------------------
(* One subject *)

\* buildPerson and buildBranch: which modules are read for whom.
Applicable(subject) ==
  {"IDENTITY", "ORDERS"}
  \cup (IF subject = "BRANCH" THEN {"WALLET"}
        ELSE {"TICKETS"} \cup (IF BvRoleOf[subject] \in ProviderOwners THEN {"WALLET", "KYC", "BRANCHES"} ELSE {})
                         \cup (IF BvRoleOf[subject] = "merchant" THEN {"STAFF"} ELSE {}))

BuildContext(role, subject) ==
  /\ BvCalled
  /\ bvReads' = bvReads \cup {<<role, m>> : m \in {k \in Applicable(subject) : role \in TypeRoles(k)}}
  /\ UNCHANGED <<bvNow, itemVars, moneyVars, pageVars, bvList, tokenVars, bvMoves>>

-----------------------------------------------------------------------------
(* The directory *)

\* query.role = { $in: roles }, of a filter that was sent
RoleClause(roleIds) == {a \in BvAccounts : BvRoleOf[a] \in roleIds}

SharesPhone(a) == \E o \in BvAccounts \ {a} : BvPhoneOf[o] = BvPhoneOf[a]

ListAccounts(roleIds, sharedOnly) ==
  /\ BvCalled
  /\ LET found == IF roleIds = {} THEN BvAccounts ELSE RoleClause(roleIds) IN
     bvList' = {<<roleIds, sharedOnly, IF sharedOnly THEN {a \in found : SharesPhone(a)} ELSE found>>}
  /\ UNCHANGED <<bvNow, itemVars, moneyVars, pageVars, bvReads, tokenVars, bvMoves>>

\* impersonateUser: the record, then the credential.
ImpersonationSteps == [first |-> "record", next |-> [record |-> "mint", mint |-> "idle"]]

BeginImpersonation(target) ==
  /\ bvStep = "idle" /\ BvCalled
  /\ bvStep' = ImpersonationSteps.first /\ bvTarget' = {target}
  /\ UNCHANGED <<bvNow, itemVars, moneyVars, pageVars, bvReads, bvList, bvTokens, bvTrail, bvUnwritten, bvMoves>>

\* adminAudit.record never throws.
RecordAttempt(written) ==
  /\ bvStep = "record"
  /\ bvTrail' = IF written THEN bvTrail \cup bvTarget ELSE bvTrail
  /\ bvUnwritten' = IF written THEN bvUnwritten ELSE bvUnwritten \cup bvTarget
  /\ bvStep' = ImpersonationSteps.next["record"]
  /\ UNCHANGED <<bvNow, itemVars, moneyVars, pageVars, bvReads, bvList, bvTarget, bvTokens, bvCalls, bvMoves>>

\* impersonate: no back-office account; the credential is handed out.
Mint ==
  /\ bvStep = "mint"
  /\ bvTokens' = bvTokens \cup {t \in bvTarget : BvRoleOf[t] \notin BackOffice}
  /\ bvStep' = ImpersonationSteps.next["mint"]
  /\ UNCHANGED <<bvNow, itemVars, moneyVars, pageVars, bvReads, bvList, bvTarget, bvTrail, bvUnwritten, bvCalls, bvMoves>>

LoseImpersonation ==
  /\ bvStep # "idle" /\ bvStep' = "idle"
  /\ UNCHANGED <<bvNow, itemVars, moneyVars, pageVars, bvReads, bvList, bvTarget, bvTokens, bvTrail,
                 bvUnwritten, bvCalls, bvMoves>>

BvNext ==
  \/ \E i \in DOMAIN BvItems : Enqueue(i) \/ Dequeue(i) \/ SweepItem(i)
  \/ \E b \in BvBranches, ledgered \in BOOLEAN : MoveMoney(b, ledgered)
  \/ BvTick
  \/ \E role \in BackOffice : BeginNow(role) \/ \E s \in BvAccounts \cup {"BRANCH"} : BuildContext(role, s)
  \/ \E s \in WorkSources : ReadSource(s)
  \/ ReadBalances \/ ReadLedger \/ FailSources \/ CloseNow
  \/ \E roleIds \in BvRoleFilters \cup {{}}, shared \in BOOLEAN : ListAccounts(roleIds, shared)
  \/ \E target \in BvAccounts : BeginImpersonation(target)
  \/ \E written \in BOOLEAN : RecordAttempt(written)
  \/ Mint \/ LoseImpersonation

BvSpec == BvInit /\ [][BvNext]_bvVars

-----------------------------------------------------------------------------
BvTypeOK ==
  /\ bvNow \in 0..BvLastTick /\ \A i \in DOMAIN BvItems : bvSince[i] \subseteq 0..BvLastTick
  /\ bvSwept \subseteq DOMAIN BvItems
  /\ bvTodo \subseteq WorkSources \cup {"BALANCES", "LEDGER"} /\ bvRole \in BackOffice \cup {"none"}
  /\ bvStayed \subseteq DOMAIN BvItems /\ bvStep \in {"idle", "record", "mint"}
  /\ bvTokens \cup bvTrail \cup bvUnwritten \subseteq BvAccounts

\* Nothing late is off the page: what waited past its limit, or is within a day of its sweep,
\* when the page was asked for, and is neither dealt with nor swept before it is answered,
\* stands on it as HIGH, or the page says that it is cut or its source failed (tickets, kyc,
\* stuckOrders, unsettledOrders, truncated).  An order the sweep gave up is not late to it.
LateIsOnThePage ==
  bvReady /\ ~bvTruncated =>
    \A i \in bvStayed \ bvSwept :
      (BvItems[i] \notin bvTodo /\ \E t \in bvSince[i] : bvAt - t > BvLateAfter[i]) =>
        [what |-> i, high |-> TRUE] \in bvPage

\* When a source is cut, what it cuts has not waited longer than anything it shows, nor, of
\* unsettled orders, a nearer deadline than any shown that still has one; and none that the
\* sweep gave up is cut while one with a deadline is shown.
OldestAreShown ==
  bvReady =>
    \A r \in bvPage, j \in bvStayed :
      (/\ r.what \in bvStayed /\ BvItems[r.what] = BvItems[j] /\ BvItems[j] \notin bvTodo
       /\ ~\E q \in bvPage : q.what = j
       /\ \A t \in bvSince[j] : bvAt - t >= BvShownAfter[BvItems[j]])
        => \A s \in bvSince[r.what], t \in bvSince[j] :
             IF BvItems[j] # "UNSETTLED" THEN s <= t
             ELSE \/ r.what \in bvSwept
                  \/ j \notin bvSwept /\ s + BvLateAfter[r.what] <= t + BvLateAfter[j]

\* The page calls the books of a branch wrong only when they are, unless money of that branch
\* moved while it read the wallets and the ledger (walletVariances); and where they are wrong
\* it says so, or that it is cut, or it is one of more wallets than a query returns: of those
\* it says nothing.
VariancesAreReal ==
  (bvReady /\ bvBalances # {} /\ bvSums # {}) =>
    \A b \in BvBranches \ bvMoved :
      LET shown == [what |-> b, high |-> TRUE] \in bvPage
          unread == \E was \in bvBalances : b \notin DOMAIN was /\ Cardinality(DOMAIN was) >= BvMostWallets
      IN /\ shown => bvStored[b] # bvLedger[b]
         /\ (bvStored[b] # bvLedger[b] /\ ~bvTruncated /\ ~unread) => shown

\* The resolver that owns each kind of record these pages read.
OwnerOf == [TICKET |-> "supportTickets", KYC |-> "kycReviewQueue", STUCK |-> "adminOrders",
            UNSETTLED |-> "unsettledOrders", WALLET |-> "adminWallets", IDENTITY |-> "directoryUsers",
            ORDERS |-> "adminOrders", TICKETS |-> "supportTickets", BRANCHES |-> "bookingProviders",
            STAFF |-> "directoryUsers"]
\* Composing records behind one query is no way around a guard: whatever these pages have read
\* for a role, the resolver that owns it would have shown that role (TYPE_ROLES, MODULE_ROLES).
NoWayAround ==
  \A r \in bvReads : \E op \in Operations : op.name = OwnerOf[r[2]] /\ r[1] \in op.roles

\* A filter never widens: an answer holds only accounts of the roles asked for, none when no
\* such role exists, and with the shared-number filter only accounts another one shares with.
FilterNeverWidens ==
  \A answer \in bvList : \A a \in answer[3] :
    /\ answer[1] # {} => BvRoleOf[a] \in answer[1]
    /\ answer[2] => \E o \in BvAccounts \ {a} : BvPhoneOf[o] = BvPhoneOf[a]

\* No credential for another's account exists without a record of the attempt, wherever the
\* process stops, unless the record itself could not be written (impersonateUser).
EveryTokenIsOnRecord == bvTokens \subseteq bvTrail \cup bvUnwritten

-----------------------------------------------------------------------------
(* The back office's one search box (search.service, term.util): what was
   typed is classified once, four searchers read their collections, each
   on its own and each capped, and the rows are ranked together and cut.
   Rows are inserted while a search runs, and a searcher may fail. *)

CONSTANTS
  SrRows,        \* row -> [type, ids, name, at, of]: ids are the <<shape, value>> it is known by;
                 \* of, the accounts an order is between
  SrFirst,       \* sets of rows stored at first
  SrTerms,       \* term -> [ids, name]: what classifyTerm makes of it
  SrLimits,      \* limits a caller sends
  SrPerType,     \* PER_TYPE_LIMIT
  SrPhoneUsers,  \* accounts joined to the orders by a number
  SrMostInserts  \* bound

VARIABLES
  srStored,    \* rows in the database
  srpc, srTerm, srLimit, srFound,   \* the search: searcher -> rows
  srPending,   \* searchers that have not answered; a failed one never does
  srAnswer,    \* rows returned
  srTruncated,
  srBefore,    \* history: rows stored when the search began
  srInserts

srVars == <<srStored, srpc, srTerm, srLimit, srFound, srPending, srAnswer, srTruncated, srBefore, srInserts>>

Searchers == {"accounts", "branches", "orders", "tickets"}
\* TIE_BREAK; accounts are typed by the role of their owner (ROLE_TO_ENTITY).
TieBreak == [CUSTOMER |-> 0, PROVIDER |-> 1, BRANCH |-> 2, STAFF |-> 3, COURIER |-> 4,
             BACK_OFFICE |-> 5, ORDER |-> 6, TICKET |-> 7]
Owners == {"CUSTOMER", "PROVIDER", "STAFF", "COURIER", "BACK_OFFICE"}

\* An order keeps its number masked and has its accounts; 50 accounts are joined where a page
\* holds 5, and fewer than the 45 between them are opened during one search.
ASSUME SrAssumption ==
  /\ IsFiniteSet(DOMAIN SrRows) /\ SrFirst \subseteq SUBSET DOMAIN SrRows
  /\ \A rows \in SrFirst : \A r \in rows : SrRows[r].of \subseteq rows
  /\ SrPhoneUsers \in Nat /\ SrPerType + SrMostInserts <= SrPhoneUsers
  /\ \A r \in DOMAIN SrRows :
       /\ SrRows[r].type \in DOMAIN TieBreak /\ SrRows[r].at \in Int
       /\ SrRows[r].of \subseteq {a \in DOMAIN SrRows : SrRows[a].type \in Owners}
       /\ SrRows[r].type = "ORDER" => \A i \in SrRows[r].ids : i[1] # "phone"
       /\ \A n \in DOMAIN SrRows[r].name : SrRows[r].name[n] \in {"EXACT", "PREFIX", "FUZZY"}
  /\ \A term \in DOMAIN SrTerms : IsFiniteSet(SrTerms[term].ids)
  /\ SrLimits \subseteq Nat /\ SrPerType \in Nat /\ SrMostInserts \in Nat

SearcherOf(row) ==
  CASE SrRows[row].type = "BRANCH" -> "branches" [] SrRows[row].type = "ORDER" -> "orders"
    [] SrRows[row].type = "TICKET" -> "tickets"
    [] SrRows[row].type \notin {"BRANCH", "ORDER", "TICKET"} -> "accounts"

\* classifyTerm: the shapes a term may have at once; the others exclude each other.
Shapes == {"order", "ticket", "phone", "email", "object", "uid"}
TermIsClassified(term) ==
  /\ \A i \in SrTerms[term].ids : i[1] \in Shapes
  /\ Cardinality(SrTerms[term].ids) <= 1

SrInit ==
  /\ srStored \in SrFirst /\ srpc = "idle" /\ srTerm = {} /\ srLimit = 0
  /\ srFound = [s \in Searchers |-> {}] /\ srPending = {} /\ srAnswer = {} /\ srTruncated = FALSE
  /\ srBefore = {} /\ srInserts = 0

-----------------------------------------------------------------------------
(* One searcher *)

\* The shapes each searcher has a clause for.
ClausesOf == [accounts |-> {"email", "phone", "object", "uid"}, branches |-> {"object"},
              orders |-> {"order", "object", "uid", "phone"},
              tickets |-> {"ticket", "object", "uid", "email"}]

\* An order is known by the numbers of its accounts too.
KnownBy(row) ==
  SrRows[row].ids \cup {i \in UNION {SrRows[a].ids : a \in SrRows[row].of} : i[1] = "phone"}

Identified(row, term) == {i \in KnownBy(row) \cap SrTerms[term].ids :
                            i[1] \in ClausesOf[SearcherOf(row)]} # {}
\* strengthOfNameMatch of what is contained; "NONE" when the pattern does not match.
NameStrength(row, term) ==
  IF SrTerms[term].name \in DOMAIN SrRows[row].name THEN SrRows[row].name[SrTerms[term].name] ELSE "NONE"

HasClause(searcher, term) == \E i \in SrTerms[term].ids : i[1] \in ClausesOf[searcher]

\* $or of the clauses; a name is the fallback of a term without one.
RowMatches(row, term) ==
  IF HasClause(SearcherOf(row), term) THEN Identified(row, term) ELSE NameStrength(row, term) # "NONE"

\* searchOrders looks a number up among the accounts first, and joins as many as it takes.
ByPhone(term) == \E i \in SrTerms[term].ids : i[1] = "phone"
PhoneAccounts(term, rows) ==
  {a \in rows : SearcherOf(a) = "accounts" /\ SrTerms[term].ids \cap KnownBy(a) # {}}
JoinsOf(term, rows) ==
  LET users == PhoneAccounts(term, rows) IN
  {joined \in SUBSET users :
     Cardinality(joined) = IF Cardinality(users) < SrPhoneUsers THEN Cardinality(users) ELSE SrPhoneUsers}
Reached(row, term, joined) ==
  SearcherOf(row) = "orders" /\ ByPhone(term) => SrRows[row].of \cap joined # {}

\* find().limit(): orders and tickets newest first, the others in no order.
PagesOf(searcher, rows) ==
  {page \in SUBSET rows :
     /\ Cardinality(page) = IF Cardinality(rows) < SrPerType THEN Cardinality(rows) ELSE SrPerType
     /\ searcher \in {"orders", "tickets"} =>
          \A r \in page, q \in rows \ page : SrRows[r].at >= SrRows[q].at}

-----------------------------------------------------------------------------
(* The answer *)

\* RANK of the shape that matched.
ShapeRank == [order |-> 0, ticket |-> 1, phone |-> 2, email |-> 3, object |-> 4, uid |-> 4]
NameRank == [EXACT |-> 6, PREFIX |-> 50, FUZZY |-> 100, NONE |-> 100]

\* rankOf, of what matchOf decides from the row itself.
RankOfRow(row, term) ==
  IF Identified(row, term) THEN ShapeRank[(CHOOSE i \in SrTerms[term].ids : TRUE)[1]]
  ELSE NameRank[NameStrength(row, term)]

Precedes(r, q, term) ==
  LET a == RankOfRow(r, term)
      b == RankOfRow(q, term)
      s == TieBreak[SrRows[r].type]
      t == TieBreak[SrRows[q].type]
  IN a < b \/ (a = b /\ (s < t \/ (s = t /\ SrRows[r].at < SrRows[q].at)))

\* sort and slice(0, limit); at stands for the order of the titles too.
Sliced(rows, term, limit) == {r \in rows : Cardinality({q \in rows : Precedes(q, r, term)}) < limit}

Truncated(found) == \E s \in Searchers : Cardinality(found[s]) >= SrPerType

-----------------------------------------------------------------------------
(* A search *)

BeginSearch(term, limit) ==
  /\ srpc = "idle" /\ TermIsClassified(term)
  /\ srpc' = "searching" /\ srTerm' = {term} /\ srLimit' = limit
  /\ srFound' = [s \in Searchers |-> {}] /\ srPending' = Searchers
  /\ srBefore' = srStored /\ srAnswer' = {} /\ srTruncated' = FALSE
  /\ UNCHANGED <<srStored, srInserts>>

Finish(found, left) ==
  IF left # {} THEN UNCHANGED <<srpc, srAnswer, srTruncated>>
  ELSE /\ srpc' = "answered" /\ srTruncated' = Truncated(found)
       /\ srAnswer' = UNION {Sliced(UNION {found[s] : s \in Searchers}, term, srLimit) : term \in srTerm}

\* One of the queries of Promise.all.
RunSearcher(searcher) ==
  /\ srpc = "searching" /\ searcher \in srPending
  /\ \E term \in srTerm :
       \E joined \in JoinsOf(term, srStored) :
         \E page \in PagesOf(searcher, {r \in srStored : /\ SearcherOf(r) = searcher /\ RowMatches(r, term)
                                                          /\ Reached(r, term, joined)}) :
           srFound' = [srFound EXCEPT ![searcher] = page]
  /\ srPending' = srPending \ {searcher}
  /\ Finish(srFound', srPending')
  /\ UNCHANGED <<srStored, srTerm, srLimit, srBefore, srInserts>>

\* What has not answered throws: settled turns each failure into no rows.
FailTheRest ==
  /\ srpc = "searching" /\ srPending # {}
  /\ Finish(srFound, {})
  /\ UNCHANGED <<srStored, srTerm, srLimit, srFound, srPending, srBefore, srInserts>>

CloseSearch ==
  /\ srpc = "answered" /\ srpc' = "idle" /\ srTerm' = {} /\ srLimit' = 0
  /\ srFound' = [s \in Searchers |-> {}] /\ srPending' = {} /\ srAnswer' = {} /\ srTruncated' = FALSE
  /\ srBefore' = {}
  /\ UNCHANGED <<srStored, srInserts>>

\* Any operation that stores a row.
InsertRow(row) ==
  /\ row \notin srStored /\ SrRows[row].of \subseteq srStored /\ srInserts < SrMostInserts
  /\ srStored' = srStored \cup {row} /\ srInserts' = srInserts + 1
  /\ UNCHANGED <<srpc, srTerm, srLimit, srFound, srPending, srAnswer, srTruncated, srBefore>>

SrNext ==
  \/ \E term \in DOMAIN SrTerms, limit \in SrLimits : BeginSearch(term, limit)
  \/ \E s \in Searchers : RunSearcher(s)
  \/ FailTheRest
  \/ CloseSearch
  \/ \E row \in DOMAIN SrRows : InsertRow(row)

SrSpec == SrInit /\ [][SrNext]_srVars

-----------------------------------------------------------------------------
SrTypeOK ==
  /\ srStored \subseteq DOMAIN SrRows /\ srBefore \subseteq srStored /\ srAnswer \subseteq srStored
  /\ srpc \in {"idle", "searching", "answered"} /\ srPending \subseteq Searchers
  /\ srInserts \in 0..SrMostInserts

Answering(term) == srpc = "answered" /\ term \in srTerm
Carries(row, term) == KnownBy(row) \cap SrTerms[term].ids # {}

\* What carries the pasted identifier is found, however many rows merely resemble it: a row
\* that was there when the search began and whose searcher knows the identifier is left out
\* only when a page of others carries it too, the caller's own limit is filled by such rows,
\* or, of orders, more accounts have the number than are joined (searchAccounts,
\* searchOrders: a name search is the fallback, not an addition).
ExactIsFound ==
  \A term \in srTerm : Answering(term) =>
    \A r \in srBefore \ srAnswer :
      (Identified(r, term) /\ SearcherOf(r) \notin srPending) =>
        \/ Cardinality({q \in srStored : SearcherOf(q) = SearcherOf(r) /\ Carries(q, term)}) > SrPerType
        \/ Cardinality({q \in srAnswer : Carries(q, term)}) >= srLimit
        \/ /\ SearcherOf(r) = "orders" /\ ByPhone(term)
           /\ Cardinality(PhoneAccounts(term, srStored)) > SrPhoneUsers

\* No row that matched by its name alone takes the place of one that matched by identifier,
\* whichever collections the two come from (rankOf and the cut by the caller's limit).
IdentifiersBeforeNames ==
  \A term \in srTerm : Answering(term) =>
    \A s \in Searchers : \A r \in srFound[s] :
      Identified(r, term) /\ r \notin srAnswer => \A q \in srAnswer : Identified(q, term)

\* With the default limit, an answer that does not say "truncated" holds every row that
\* was there when the search began, unless a searcher failed (search: truncated): where more
\* accounts have a number than are joined to the orders, the accounts fill their own page.
CompleteUnlessSaid ==
  \A term \in srTerm : (Answering(term) /\ ~srTruncated /\ srPending = {} /\ srLimit >= 4 * SrPerType) =>
    \A r \in srBefore : (Identified(r, term) \/ (NameStrength(r, term) # "NONE" /\ ~HasClause(SearcherOf(r), term)))
                          => r \in srAnswer

=============================================================================
