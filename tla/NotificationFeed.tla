-------------------------- MODULE NotificationFeed --------------------------
(* The notification feed.  A direct row is addressed to one account and
   carries its own read mark; a branch row is shared by everyone on the
   branch who holds a permission, and its read marks are rows of another
   collection.  "Mark all read" is one watermark per account, and deletes
   the marks the watermark supersedes.

   A row is stored first and pushed to the phones afterwards, by a task
   nobody waits for.  The sender may report the same event again: an index
   refuses a second row of an event that has an id, as long as the first
   row is there; the database deletes rows and marks that have expired.
   A push passes over who acted, and may be left out altogether; here each
   row is pushed to everyone it is for. *)
EXTENDS Integers, FiniteSets

CONSTANTS
  Owner, Staffers, Customers,
  FeedBranches,
  Grants,              \* what each member of staff is granted on each branch
  NeededGrants,        \* a permission, or AnyGrant
  AnyGrant,
  Addressed,           \* the branches or customers events are addressed to
  FeedEvents, NoEvent, \* the ids of events, and that of an event sent without one
  FeedTasks, NoTarget,
  MaxRows, MaxFeedTime, MaxFeedCalls, Retention   \* bounds; the days a row is kept

ASSUME FeedAssumption ==
  /\ MaxFeedTime \in Nat \ {0}
  /\ Addressed \subseteq {Owner} \cup Staffers \cup Customers \cup FeedBranches
  /\ NoTarget \notin {Owner} \cup Staffers \cup Customers
  /\ Retention \in Nat \ {0} /\ NoEvent \notin FeedEvents

VARIABLES
  feedNow,
  rows,                \* the collection of notifications
  reads,               \* read marks of branch rows: account -> row -> time, or 0
  cursor,              \* readAllBefore of each account, or 0
  standing,            \* the branch the approved device of a member of staff stands at
  ownerHolds,          \* what the owner holds: a merchant the floor, a washer what she is granted
  pushed,              \* pushes sent: <<account, event>>, a bag as a function
  fdPc, fdRow, fdUser, fdSince,   \* a task: step, row or event, account, its time
  feedCalls,
  crossedMarks         \* history: accounts whose watermark was moved back

feedPeople == <<standing, ownerHolds>>
feedRows == <<feedNow, rows, reads, cursor, feedPeople>>
feedTask == <<fdPc, fdRow, fdUser, fdSince, feedCalls>>
feedVars == <<feedRows, pushed, feedTask, crossedMarks>>

FeedAccounts == {Owner} \cup Staffers \cup Customers
RowIds == 1..MaxRows
NoRow ==
  [to |-> NoTarget, needs |-> AnyGrant, event |-> NoEvent, at |-> 0,
   read |-> FALSE, sent |-> FALSE, gone |-> FALSE]

FeedInit ==
  /\ feedNow = 1 /\ rows = [r \in RowIds |-> NoRow]
  /\ reads = [a \in FeedAccounts |-> [r \in RowIds |-> 0]] /\ cursor = [a \in FeedAccounts |-> 0]
  /\ standing \in [Staffers -> FeedBranches] /\ ownerHolds \in SUBSET (NeededGrants \ {AnyGrant})
  /\ pushed = [a \in FeedAccounts |-> [r \in RowIds |-> 0]]
  /\ fdPc = [h \in FeedTasks |-> "idle"] /\ fdRow = [h \in FeedTasks |-> 0]
  /\ fdUser = [h \in FeedTasks |-> NoTarget] /\ fdSince = [h \in FeedTasks |-> 0]
  /\ feedCalls = 0 /\ crossedMarks = {}

-----------------------------------------------------------------------------
(* scopeFor: the owner has every branch, and the permissions of her role or
   account; staff have the branch their device stands at and what they are
   granted there. *)
ScopeBranches(a) == IF a = Owner THEN FeedBranches ELSE IF a \in Staffers THEN {standing[a]} ELSE {}
Granted(a, b) == IF a = Owner THEN ownerHolds ELSE IF a \in Staffers THEN Grants[a][b] ELSE {}
Holds(a, b, needs) == needs = AnyGrant \/ needs \in Granted(a, b)

Direct(r) == rows[r].to \in FeedAccounts
Stored(r) == rows[r].at > 0 /\ ~rows[r].gone
Expired(r) == rows[r].at > 0 /\ rows[r].at + Retention <= feedNow
Fresh(r) == Stored(r) /\ ~Expired(r)

(* visibilityFilter. *)
Visible(a, r) ==
  /\ Fresh(r)
  /\ \/ rows[r].to = a
     \/ rows[r].to \in ScopeBranches(a) /\ Holds(a, rows[r].to, rows[r].needs)

(* resolveReadState, which the feed shows. *)
ShownRead(a, r) ==
  \/ rows[r].at <= cursor[a]
  \/ IF Direct(r) THEN rows[r].read ELSE reads[a][r] > 0

(* myUnreadNotificationCount: the rows the badge counts. *)
CountedUnread(a, r) ==
  /\ Direct(r) => ~rows[r].read
  /\ rows[r].at > cursor[a]
  /\ reads[a][r] = 0

(* branchPushRecipients: the owner of the branch, whatever she holds. *)
Recipients(r) ==
  IF Direct(r) THEN {rows[r].to}
  ELSE {Owner} \cup {s \in Staffers : rows[r].to \in DOMAIN Grants[s] /\ Holds(s, rows[r].to, rows[r].needs)}

-----------------------------------------------------------------------------
FeedGoto(h, at) == fdPc' = [fdPc EXCEPT ![h] = at]
FeedBegin(h, at) ==
  /\ fdPc[h] = "idle" /\ FeedGoto(h, at)
  /\ feedCalls < MaxFeedCalls /\ feedCalls' = feedCalls + 1
FeedEnd(h) ==
  /\ FeedGoto(h, "idle") /\ fdRow' = [fdRow EXCEPT ![h] = 0]
  /\ fdUser' = [fdUser EXCEPT ![h] = NoTarget] /\ fdSince' = [fdSince EXCEPT ![h] = 0]
FeedDone(h) == FeedEnd(h) /\ UNCHANGED feedCalls

(* notify begins for an event; the same event may be reported more than once,
   and some senders give none an id. *)
Report(h, e) ==
  /\ FeedBegin(h, "persist") /\ fdRow' = [fdRow EXCEPT ![h] = e]
  /\ UNCHANGED <<feedRows, pushed, fdUser, fdSince, crossedMarks>>

(* The partial unique index on sourceEventId. *)
Reported(e, r) == e # NoEvent /\ Stored(r) /\ rows[r].event = e

(* The row is stored under a fresh id, and its push begins. *)
StoreRow(h) ==
  \E r \in RowIds, to \in Addressed, needs \in NeededGrants :
    /\ rows[r] = NoRow /\ \A q \in RowIds : q < r => rows[q] # NoRow
    /\ rows' = [rows EXCEPT ![r] =
                  [NoRow EXCEPT !.to = to, !.needs = needs, !.event = fdRow[h], !.at = feedNow]]
    /\ FeedGoto(h, "push") /\ fdRow' = [fdRow EXCEPT ![h] = r]
    /\ UNCHANGED <<fdUser, fdSince, feedCalls>>

(* Mutant: an event reported before is pushed again. *)
PersistAndGoOn(h) ==
  /\ fdPc[h] = "persist"
  /\ \/ \E r \in RowIds :
          /\ Reported(fdRow[h], r) /\ FeedGoto(h, "push") /\ fdRow' = [fdRow EXCEPT ![h] = r]
          /\ UNCHANGED <<rows, fdUser, fdSince, feedCalls>>
     \/ (\A r \in RowIds : ~Reported(fdRow[h], r)) /\ StoreRow(h)
  /\ UNCHANGED <<feedNow, reads, cursor, feedPeople, pushed, crossedMarks>>

(* persist: a second row of the same event is refused by the index, and
   nothing is pushed for it. *)
Persist(h) ==
  /\ fdPc[h] = "persist"
  /\ \/ (\E r \in RowIds : Reported(fdRow[h], r)) /\ FeedDone(h) /\ UNCHANGED rows
     \/ (\A r \in RowIds : ~Reported(fdRow[h], r)) /\ StoreRow(h)
  /\ UNCHANGED <<feedNow, reads, cursor, feedPeople, pushed, crossedMarks>>

(* sendToUser, for every recipient. *)
Push(h) ==
  /\ fdPc[h] = "push" /\ FeedGoto(h, "mark")
  /\ pushed' = [a \in FeedAccounts |-> IF a \in Recipients(fdRow[h])
                                    THEN [pushed[a] EXCEPT ![fdRow[h]] = @ + 1] ELSE pushed[a]]
  /\ UNCHANGED <<feedRows, fdRow, fdUser, fdSince, crossedMarks, feedCalls>>

MarkPushed(h) ==
  /\ fdPc[h] = "mark" /\ FeedDone(h)
  /\ rows' = IF Stored(fdRow[h]) THEN [rows EXCEPT ![fdRow[h]].sent = TRUE] ELSE rows
  /\ UNCHANGED <<feedNow, reads, cursor, feedPeople, pushed, crossedMarks>>

(* markNotificationRead: the row is looked up under the visibility filter. *)
BeginMarkRead(h, a, r) ==
  /\ Visible(a, r) /\ ~ShownRead(a, r)
  /\ FeedBegin(h, "read") /\ fdRow' = [fdRow EXCEPT ![h] = r] /\ fdUser' = [fdUser EXCEPT ![h] = a]
  /\ UNCHANGED <<feedRows, pushed, fdSince, crossedMarks>>

MarkRead(h) ==
  /\ fdPc[h] = "read" /\ FeedDone(h)
  /\ IF Direct(fdRow[h])
     THEN /\ rows' = IF Stored(fdRow[h]) THEN [rows EXCEPT ![fdRow[h]].read = TRUE] ELSE rows
          /\ UNCHANGED reads
     ELSE /\ UNCHANGED rows
          /\ reads' = [reads EXCEPT ![fdUser[h]][fdRow[h]] = IF @ = 0 THEN feedNow ELSE @]
  /\ UNCHANGED <<feedNow, cursor, feedPeople, pushed, crossedMarks>>

(* markAllNotificationsRead: the time is taken, the watermark written, then
   direct rows are marked and branch marks deleted.  The two last are parallel
   writes of two collections, and no row is concerned by both. *)
BeginMarkAll(h, a) ==
  /\ FeedBegin(h, "cursor")
  /\ fdUser' = [fdUser EXCEPT ![h] = a] /\ fdSince' = [fdSince EXCEPT ![h] = feedNow]
  /\ UNCHANGED <<feedRows, pushed, fdRow, crossedMarks>>

MoveCursor(h) ==
  /\ fdPc[h] = "cursor" /\ FeedGoto(h, "sweep")
  /\ cursor' = [cursor EXCEPT ![fdUser[h]] = fdSince[h]]
  /\ crossedMarks' = crossedMarks \cup (IF cursor[fdUser[h]] > fdSince[h] THEN {fdUser[h]} ELSE {})
  /\ UNCHANGED <<feedNow, rows, reads, feedPeople, pushed, fdRow, fdUser, fdSince, feedCalls>>

SweepMarks(h) ==
  /\ fdPc[h] = "sweep" /\ FeedDone(h)
  /\ rows' = [r \in RowIds |-> IF Stored(r) /\ rows[r].to = fdUser[h] /\ rows[r].at <= fdSince[h]
                               THEN [rows[r] EXCEPT !.read = TRUE] ELSE rows[r]]
  /\ reads' = [reads EXCEPT ![fdUser[h]] =
       [r \in RowIds |-> IF @[r] <= fdSince[h] THEN 0 ELSE @[r]]]
  /\ UNCHANGED <<feedNow, cursor, feedPeople, pushed, crossedMarks>>

(* The server process is lost, with the task; that takes the room of a call. *)
LoseFeedTask(h) ==
  /\ fdPc[h] # "idle" /\ FeedEnd(h)
  /\ feedCalls < MaxFeedCalls /\ feedCalls' = feedCalls + 1
  /\ UNCHANGED <<feedRows, pushed, crossedMarks>>

(* The TTL indexes: the database deletes a row, or a mark, once it has expired. *)
ReapRow(r) ==
  /\ Stored(r) /\ Expired(r) /\ rows' = [rows EXCEPT ![r].gone = TRUE]
  /\ UNCHANGED <<feedNow, reads, cursor, feedPeople, pushed, feedTask, crossedMarks>>

ReapMark(a, r) ==
  /\ reads[a][r] > 0 /\ Expired(r) /\ reads' = [reads EXCEPT ![a][r] = 0]
  /\ UNCHANGED <<feedNow, rows, cursor, feedPeople, pushed, feedTask, crossedMarks>>

FeedTick ==
  /\ feedNow < MaxFeedTime /\ feedNow' = feedNow + 1
  /\ UNCHANGED <<rows, reads, cursor, feedPeople, pushed, feedTask, crossedMarks>>

FeedNext ==
  \/ FeedTick
  \/ \E h \in FeedTasks :
       \/ Persist(h) \/ Push(h) \/ MarkPushed(h) \/ MarkRead(h) \/ MoveCursor(h) \/ SweepMarks(h)
       \/ LoseFeedTask(h)
       \/ \E a \in FeedAccounts : BeginMarkAll(h, a)
       \/ \E e \in FeedEvents \cup {NoEvent} : Report(h, e)
       \/ \E a \in FeedAccounts, r \in RowIds : BeginMarkRead(h, a, r)
  \/ \E r \in RowIds : ReapRow(r) \/ \E a \in FeedAccounts : ReapMark(a, r)

FeedSpec == FeedInit /\ [][FeedNext]_feedVars

-----------------------------------------------------------------------------
FeedTypeOK ==
  /\ feedNow \in 1..MaxFeedTime /\ cursor \in [FeedAccounts -> 0..MaxFeedTime]
  /\ \A r \in RowIds : rows[r].to \in FeedAccounts \cup FeedBranches \cup {NoTarget}
  /\ \A a \in FeedAccounts, r \in RowIds : reads[a][r] \in 0..MaxFeedTime /\ pushed[a][r] \in Nat

(* The badge counts exactly the rows the feed shows as unread: the one is an
   aggregation in the database, the other is put together in memory from three
   collections. *)
BadgeAgreesWithFeed ==
  \A a \in FeedAccounts, r \in RowIds : Visible(a, r) => (CountedUnread(a, r) <=> ~ShownRead(a, r))

(* What an account has read stays read as long as its feed shows the row,
   though "mark all" and the database delete the marks of single rows; only
   two "mark all" of one account that cross take marks away. *)
ReadStaysRead ==
  \A a \in FeedAccounts, r \in RowIds :
    Stored(r) /\ ShownRead(a, r) /\ Fresh(r)' /\ a \notin crossedMarks' => ShownRead(a, r)'

(* A row is pushed to nobody's phone twice; an event that has an id reaches
   nobody's phone again before the days a row is kept are over, however often
   it is reported.  Later it does, for the row the index knew it by is gone. *)
PushedOncePerEvent ==
  \A a \in FeedAccounts, r \in RowIds :
    /\ pushed[a][r] <= 1
    /\ \A q \in RowIds : pushed[a][r] > 0 /\ pushed[a][q] > 0 /\ q < r
         /\ rows[q].event = rows[r].event /\ rows[r].event # NoEvent
           => rows[q].at + Retention <= rows[r].at

(* Who is pushed a row sees it in her feed when she works on that branch, but
   for an owner who does not hold what the row needs: hers is pushed and never
   shown, which is a washer's case, for only a merchant has the floor. *)
PushedMaySee ==
  \A a \in FeedAccounts, r \in RowIds :
    pushed[a][r] > 0 /\ Fresh(r) /\ (a \in Staffers => rows[r].to = standing[a])
      => Visible(a, r) \/ (a = Owner /\ rows[r].to \in FeedBranches /\ rows[r].needs \notin ownerHolds)

-----------------------------------------------------------------------------
(* A message from the platform to every phone of the accounts of some
   roles.  The audience, the phones, the record, the sending in chunks and
   the removal of dead tokens are separate steps; what has reached a lock
   screen cannot be recalled. *)

CONSTANTS
  BcAccounts, BcRoles,  \* accounts; roles that exist
  RoleOf,               \* account -> role
  AudienceChoices,      \* what an administrator may pick; a role id may not exist
  Phones, DeadPhones,   \* device tokens; tokens the messaging service reports dead
  ChunkSize,            \* FCM_MULTICAST_LIMIT
  BcIds

ASSUME BcAssumption == IsFiniteSet(Phones) /\ RoleOf \in [BcAccounts -> BcRoles]

VARIABLES
  active, tokensOf,     \* accounts: active, and their device tokens
  bcStatus, bcRecord,   \* a broadcast: status, and the record of it
  bcPc, bcAsked, bcUids, bcQueue, bcDead,   \* its request
  delivered             \* phone -> broadcasts it showed, as counts

bcAccountsVars == <<active, tokensOf>>
bcRequest == <<bcPc, bcAsked, bcUids, bcQueue, bcDead>>
bcVars == <<bcAccountsVars, bcStatus, bcRecord, bcRequest, delivered>>

NoRecord == [roles |-> {}, inactive |-> FALSE, audience |-> 0, tokens |-> 0, dead |-> 0]
NoQuestion == [roles |-> {}, inactive |-> FALSE]

BcInit ==
  /\ active \in [BcAccounts -> BOOLEAN] /\ tokensOf \in [BcAccounts -> SUBSET Phones]
  /\ bcStatus = [b \in BcIds |-> "none"] /\ bcRecord = [b \in BcIds |-> NoRecord]
  /\ bcPc = [b \in BcIds |-> "idle"] /\ bcAsked = [b \in BcIds |-> NoQuestion]
  /\ bcUids = [b \in BcIds |-> {}] /\ bcQueue = [b \in BcIds |-> {}] /\ bcDead = [b \in BcIds |-> {}]
  /\ delivered = [f \in Phones |-> [b \in BcIds |-> 0]]

-----------------------------------------------------------------------------

(* audienceUids: unknown roles are nobody. *)
AudienceUids(roles, inactive) == {a \in BcAccounts : RoleOf[a] \in roles /\ (inactive \/ active[a])}

(* tokensFor: each token once. *)
TokensFor(uids) == UNION {tokensOf[a] : a \in uids}

BcGoto(b, at) == bcPc' = [bcPc EXCEPT ![b] = at]

BcAsk(b, roles, inactive) ==
  /\ bcPc[b] = "idle" /\ bcStatus[b] = "none" /\ roles # {}
  /\ \A c \in BcIds : c < b => bcPc[c] # "idle" \/ bcStatus[c] # "none"
  /\ BcGoto(b, "tokens") /\ bcAsked' = [bcAsked EXCEPT ![b] = [roles |-> roles, inactive |-> inactive]]
  /\ bcUids' = [bcUids EXCEPT ![b] = AudienceUids(roles, inactive)]
  /\ UNCHANGED <<bcAccountsVars, bcStatus, bcRecord, bcQueue, bcDead, delivered>>

BcTokens(b) ==
  /\ bcPc[b] = "tokens" /\ BcGoto(b, "record")
  /\ bcQueue' = [bcQueue EXCEPT ![b] = TokensFor(bcUids[b])]
  /\ UNCHANGED <<bcAccountsVars, bcStatus, bcRecord, bcAsked, bcUids, bcDead, delivered>>

BcForget(b) ==
  /\ BcGoto(b, "end") /\ bcAsked' = [bcAsked EXCEPT ![b] = NoQuestion]
  /\ bcUids' = [bcUids EXCEPT ![b] = {}] /\ bcQueue' = [bcQueue EXCEPT ![b] = {}]
  /\ bcDead' = [bcDead EXCEPT ![b] = {}]

RecordOf(b) ==
  [roles |-> bcAsked[b].roles, inactive |-> bcAsked[b].inactive,
   audience |-> Cardinality(bcUids[b]), tokens |-> Cardinality(bcQueue[b]), dead |-> 0]

(* The record is written before anything is sent; with no token, that is all. *)
BcRecord(b) ==
  /\ bcPc[b] = "record"
  /\ bcRecord' = [bcRecord EXCEPT ![b] = RecordOf(b)]
  /\ IF bcQueue[b] = {}
     THEN bcStatus' = [bcStatus EXCEPT ![b] = "NO_RECIPIENTS"] /\ BcForget(b)
     ELSE /\ bcStatus' = [bcStatus EXCEPT ![b] = "SENDING"] /\ BcGoto(b, "send")
          /\ UNCHANGED <<bcAsked, bcUids, bcQueue, bcDead>>
  /\ UNCHANGED <<bcAccountsVars, delivered>>

(* sendToTokens: one call for each chunk. *)
BcSendChunk(b) ==
  /\ bcPc[b] = "send" /\ bcQueue[b] # {}
  /\ \E chunk \in SUBSET bcQueue[b] :
       /\ Cardinality(chunk) = IF Cardinality(bcQueue[b]) > ChunkSize THEN ChunkSize ELSE Cardinality(bcQueue[b])
       /\ delivered' = [f \in Phones |-> IF f \in chunk \ DeadPhones
                                         THEN [delivered[f] EXCEPT ![b] = @ + 1] ELSE delivered[f]]
       /\ bcQueue' = [bcQueue EXCEPT ![b] = @ \ chunk]
       /\ bcDead' = [bcDead EXCEPT ![b] = @ \cup (chunk \cap DeadPhones)]
  /\ UNCHANGED <<bcAccountsVars, bcStatus, bcRecord, bcPc, bcAsked, bcUids>>

(* The messaging service refuses a chunk: nobody of it is reached, none is dead. *)
BcChunkFails(b) ==
  /\ bcPc[b] = "send" /\ bcQueue[b] # {}
  /\ \E chunk \in SUBSET bcQueue[b] :
       /\ Cardinality(chunk) = IF Cardinality(bcQueue[b]) > ChunkSize THEN ChunkSize ELSE Cardinality(bcQueue[b])
       /\ bcQueue' = [bcQueue EXCEPT ![b] = @ \ chunk]
  /\ UNCHANGED <<bcAccountsVars, bcStatus, bcRecord, bcPc, bcAsked, bcUids, bcDead, delivered>>

(* pruneDeadTokens: from whichever account holds them. *)
PruneDead(b) ==
  /\ bcPc[b] = "send" /\ bcQueue[b] = {} /\ BcGoto(b, "close")
  /\ tokensOf' = [a \in BcAccounts |-> tokensOf[a] \ bcDead[b]]
  /\ UNCHANGED <<active, bcStatus, bcRecord, bcAsked, bcUids, bcQueue, bcDead, delivered>>

BcClose(b) ==
  /\ bcPc[b] = "close"
  /\ bcStatus' = [bcStatus EXCEPT ![b] = "SENT"]
  /\ bcRecord' = [bcRecord EXCEPT ![b].dead = Cardinality(bcDead[b])]
  /\ BcForget(b) /\ UNCHANGED <<bcAccountsVars, delivered>>

(* The pruning fails. *)
BcFail(b) ==
  /\ bcPc[b] = "send" /\ bcQueue[b] = {} /\ bcDead[b] # {}
  /\ bcStatus' = [bcStatus EXCEPT ![b] = "FAILED"] /\ BcForget(b)
  /\ UNCHANGED <<bcAccountsVars, bcRecord, delivered>>

(* The server process is lost, with the request. *)
LoseBroadcast(b) ==
  /\ bcPc[b] \notin {"idle", "end"} /\ BcForget(b)
  /\ UNCHANGED <<bcAccountsVars, bcStatus, bcRecord, delivered>>

(* Sign-outs between the steps, as far as a broadcast reads them. *)
SignOut(a, f) ==
  /\ f \in tokensOf[a] /\ tokensOf' = [tokensOf EXCEPT ![a] = @ \ {f}]
  /\ UNCHANGED <<active, bcStatus, bcRecord, bcRequest, delivered>>

BcNext ==
  \/ \E b \in BcIds :
       \/ \E roles \in AudienceChoices, inactive \in BOOLEAN : BcAsk(b, roles, inactive)
       \/ BcTokens(b) \/ BcRecord(b) \/ BcSendChunk(b) \/ BcChunkFails(b) \/ PruneDead(b) \/ BcClose(b) \/ BcFail(b)
       \/ LoseBroadcast(b)
  \/ \E a \in BcAccounts, f \in Phones : SignOut(a, f)

BcSpec == BcInit /\ [][BcNext]_bcVars

-----------------------------------------------------------------------------
BcTypeOK ==
  /\ tokensOf \in [BcAccounts -> SUBSET Phones]
  /\ \A b \in BcIds : bcStatus[b] \in {"none", "SENDING", "SENT", "FAILED", "NO_RECIPIENTS"}
  /\ delivered \in [Phones -> [BcIds -> Nat]]

(* What reached a phone is on record with the roles it was meant for, and what
   was sent but never closed is still there as SENDING. *)
DeliveredIsRecorded ==
  \A f \in Phones, b \in BcIds : delivered[f][b] > 0 => bcStatus[b] # "none" /\ bcRecord[b].tokens > 0

(* No phone shows a broadcast twice, though two accounts may share it and the
   tokens are sent in chunks. *)
ShownOnce == \A f \in Phones, b \in BcIds : delivered[f][b] <= 1

(* A broadcast to roles none of which exists reaches nobody. *)
UnknownRolesReachNobody ==
  \A b \in BcIds : bcRecord[b].roles \cap BcRoles = {} => \A f \in Phones : delivered[f][b] = 0

(* A token leaves an account because its phone is dead or signed out, one
   token at a time for a living phone. *)
LivingTokensStay ==
  Cardinality({x \in BcAccounts \X (Phones \ DeadPhones) :
                 x[2] \in tokensOf[x[1]] /\ x[2] \notin tokensOf'[x[1]]}) <= 1

=============================================================================
