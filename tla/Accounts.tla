------------------------------ MODULE Accounts ------------------------------
(* User accounts: UsersService, AccountDeletionService with its nightly
   sweep, and the copy of the user document that GqlAuthGuard decides on.

   Every operation reads the user, checks what it read, writes without a
   filter and then drops the cached copy; other requests, sweeps of other
   processes and the guard's own fill of the cache come between.  Erasing
   an account is ten writes in ten places and no transaction; two of them
   may be refused and are passed over. *)
EXTENDS Naturals, Sequences, FiniteSets

CONSTANTS
  Users, Admins,  \* accounts; those of the back office
  Requests,       \* mutations in progress at the same time
  Sweeps,         \* processes that run the nightly job
  Guards,         \* guards that may be filling the cache
  Issued,         \* the mutations that are issued
  MaxCalls,       \* bound: mutations begun
  MaxFailures,    \* bound: failed steps and lost processes
  None            \* no user, no cached copy

ASSUME AdminsAreUsers == Admins \subseteq Users /\ IsFiniteSet(Admins)
ASSUME NoneIsNobody == None \notin Users
ASSUME DisjointProcesses == Requests \cap Sweeps = {}
ASSUME BoundsAreNaturals == MaxCalls \in Nat /\ MaxFailures \in Nat

VARIABLES
  active, account,  \* isActive, accountStatus
  due,              \* the deletion's grace period: none, waiting or over
  ended,            \* sessionsValidAfter is later than the token in use
  busy,             \* the user has an order that can still move
  records,          \* account_deletion_records of the user, oldest first
  kept,             \* places that still hold what the person had left there
  orphaned,         \* history: storage refused to delete a face
  halfway,          \* history: a sweep gave the account up after its first write
  copy,             \* the cached user document the guard reads
  missed,           \* history: the copy outlived its invalidation
  pc, op, target,   \* each request: where it is, what it does, to whom
  work,             \* each sweep: users it found and has not begun
  at, step,         \* the user it is erasing and the next step of that
  told,             \* firebaseIdentityDeleted, which it will put in the record
  fill,             \* each guard: the copy it has read and not cached yet
  calls, failures   \* used up, against the bounds

userVars == <<active, account, due, ended, busy>>
erasureVars == <<records, kept, orphaned, halfway>>
cacheVars == <<copy, missed>>
requestVars == <<pc, op, target>>
sweepVars == <<work, at, step, told>>
vars == <<userVars, erasureVars, cacheVars, requestVars, sweepVars, fill, calls, failures>>

(* The steps of eraseAccount; the last one closes the records.
   eraseForUser is two of them: the stored faces, then the rows naming them. *)
Step == <<"user", "cache", "faces", "selfies", "devices", "identity", "profile",
          "logs", "orders", "bookings", "record">>
Last == Len(Step)
Stores == {Step[k] : k \in 1 .. Last} \ {"cache", "record"}

(* The steps whose refusal is caught on the spot, logged and passed over. *)
PassedOver == {"faces", "identity"}

AccountStatus == {"active", "deletion_pending", "deleted"}
(* completed: with firebaseIdentityDeleted; reported: completed without it. *)
RecordStatus == {"open", "cancelled", "completed", "reported"}
Mutation == {"deactivateUser", "reactivateUser", "revokeSessions",
             "requestDeletion", "cancelDeletion", "createOrder"}
Copy == [active : BOOLEAN, account : AccountStatus, ended : BOOLEAN]

Current(u) == [active |-> active[u], account |-> account[u], ended |-> ended[u]]

(* What the guard decides on, and whether it lets an ordinary call through. *)
Seen(u) == IF copy[u] = None THEN Current(u) ELSE copy[u]
Admits(c) == c.active /\ ~c.ended

-----------------------------------------------------------------------------
(* findOneByIdWithRoleCached: a miss reads the document, and the copy is
   stored one await later. *)
GuardMiss(g, u) ==
  /\ fill[g] = None /\ copy[u] = None
  /\ fill' = [fill EXCEPT ![g] = [user |-> u, read |-> Current(u)]]
  /\ UNCHANGED <<userVars, erasureVars, cacheVars, requestVars, sweepVars, calls, failures>>

GuardFill(g) ==
  /\ fill[g] # None
  /\ LET u == fill[g].user IN
       /\ copy' = [copy EXCEPT ![u] = fill[g].read]
       /\ missed' = [missed EXCEPT ![u] = fill[g].read # Current(u)]
  /\ fill' = [fill EXCEPT ![g] = None]
  /\ UNCHANGED <<userVars, erasureVars, requestVars, sweepVars, calls, failures>>

(* Mutant: the copy is stored without a time to live. *)
NeverExpires(u) == copy[u] # copy[u] /\ UNCHANGED vars

(* Redis drops the copy after five minutes. *)
CopyExpires(u) ==
  /\ copy[u] # None
  /\ copy' = [copy EXCEPT ![u] = None]
  /\ missed' = [missed EXCEPT ![u] = FALSE]
  /\ UNCHANGED <<userVars, erasureVars, requestVars, sweepVars, fill, calls, failures>>

Invalidate(u) ==
  /\ copy' = [copy EXCEPT ![u] = None]
  /\ missed' = [missed EXCEPT ![u] = FALSE]

-----------------------------------------------------------------------------
(* The checks of each mutation, on what it reads when it begins. *)
ActiveAdmins == {a \in Admins : active[a]}

Allowed(name, u) ==
  \/ /\ name = "deactivateUser"
     /\ active[u]
     /\ \E actor \in Admins \ {u} : Admits(Seen(actor))
     /\ u \in Admins => Cardinality(ActiveAdmins) > 1
  \/ name = "reactivateUser" /\ ~active[u]
  \/ name = "revokeSessions"
  \/ /\ name = "requestDeletion"
     /\ Admits(Seen(u))
     /\ account[u] = "active" /\ ~busy[u]
  \/ name = "cancelDeletion" /\ account[u] = "deletion_pending"
  \/ name = "createOrder" /\ Admits(Seen(u))

Begin(p, name, u) ==
  /\ pc[p] = "idle"
  /\ calls < MaxCalls /\ calls' = calls + 1
  /\ Allowed(name, u)
  /\ pc' = [pc EXCEPT ![p] = "checked"]
  /\ op' = [op EXCEPT ![p] = name]
  /\ target' = [target EXCEPT ![p] = u]
  /\ UNCHANGED <<userVars, erasureVars, cacheVars, sweepVars, fill, failures>>

(* The write of each mutation: findByIdAndUpdate by _id, whatever the
   document has become since it was read. *)
WriteUser(name, u) ==
  \/ /\ name \in {"deactivateUser", "reactivateUser"}
     /\ active' = [active EXCEPT ![u] = (name = "reactivateUser")]
     /\ UNCHANGED <<account, due, ended, busy>>
  \/ /\ name = "revokeSessions"
     /\ ended' = [ended EXCEPT ![u] = TRUE]
     /\ UNCHANGED <<active, account, due, busy>>
  \/ /\ name = "requestDeletion"
     /\ active' = [active EXCEPT ![u] = FALSE]
     /\ account' = [account EXCEPT ![u] = "deletion_pending"]
     /\ due' = [due EXCEPT ![u] = "waiting"]
     /\ UNCHANGED <<ended, busy>>
  \/ /\ name = "cancelDeletion"
     /\ active' = [active EXCEPT ![u] = TRUE]
     /\ account' = [account EXCEPT ![u] = "active"]
     /\ due' = [due EXCEPT ![u] = "none"]
     /\ UNCHANGED <<ended, busy>>
  \/ /\ name = "createOrder"
     /\ busy' = [busy EXCEPT ![u] = TRUE]
     /\ UNCHANGED <<active, account, due, ended>>

Write(p) ==
  /\ pc[p] = "checked"
  /\ WriteUser(op[p], target[p])
  /\ pc' = [pc EXCEPT ![p] = IF op[p] = "createOrder" THEN "idle" ELSE "written"]
  /\ UNCHANGED <<erasureVars, cacheVars, op, target, sweepVars, fill, calls, failures>>

(* Mutant: the cached copy is left to expire. *)
ForgetsCopy(p) ==
  /\ pc[p] = "written"
  /\ UNCHANGED cacheVars
  /\ pc' = [pc EXCEPT ![p] = IF op[p] \in {"requestDeletion", "cancelDeletion"}
                             THEN "logging" ELSE "idle"]
  /\ UNCHANGED <<userVars, erasureVars, op, target, sweepVars, fill, calls, failures>>

(* invalidateUserCache. *)
DropCopy(p) ==
  /\ pc[p] = "written"
  /\ Invalidate(target[p])
  /\ pc' = [pc EXCEPT ![p] = IF op[p] \in {"requestDeletion", "cancelDeletion"}
                             THEN "logging" ELSE "idle"]
  /\ UNCHANGED <<userVars, erasureVars, op, target, sweepVars, fill, calls, failures>>

(* Mutant: the filter on completedAt and cancelledAt is left out. *)
CloseAll(u, how) ==
  [records EXCEPT ![u] = [i \in DOMAIN records[u] |-> how]]

(* updateMany over the records that are neither completed nor cancelled. *)
Close(u, how) ==
  [records EXCEPT ![u] =
     [i \in DOMAIN records[u] |->
        IF records[u][i] = "open" THEN how ELSE records[u][i]]]

LogRecord(p) ==
  /\ pc[p] = "logging"
  /\ records' = IF op[p] = "requestDeletion"
                THEN [records EXCEPT ![target[p]] = Append(@, "open")]
                ELSE Close(target[p], "cancelled")
  /\ pc' = [pc EXCEPT ![p] = "idle"]
  /\ UNCHANGED <<userVars, kept, orphaned, halfway, cacheVars, op, target, sweepVars, fill,
                 calls, failures>>

(* The process of a request dies, or its next call to a store fails. *)
RequestLost(p) ==
  /\ pc[p] # "idle" /\ failures < MaxFailures
  /\ failures' = failures + 1
  /\ pc' = [pc EXCEPT ![p] = "idle"]
  /\ missed' = [missed EXCEPT ![target[p]] = @ \/ pc[p] = "written"]
  /\ UNCHANGED <<userVars, erasureVars, copy, op, target, sweepVars, fill, calls>>

(* The order ends; the grace period ends. *)
OrderEnds(u) ==
  /\ busy[u]
  /\ busy' = [busy EXCEPT ![u] = FALSE]
  /\ UNCHANGED <<active, account, due, ended, erasureVars, cacheVars, requestVars,
                 sweepVars, fill, calls, failures>>

GracePasses(u) ==
  /\ due[u] = "waiting"
  /\ due' = [due EXCEPT ![u] = "over"]
  /\ UNCHANGED <<active, account, ended, busy, erasureVars, cacheVars, requestVars,
                 sweepVars, fill, calls, failures>>

-----------------------------------------------------------------------------
(* Mutant: the schedule is compared the wrong way round. *)
DueAhead == {u \in Users : account[u] = "deletion_pending" /\ due[u] = "waiting"}

(* processScheduledDeletions: one query, then one account after the other. *)
Due == {u \in Users : account[u] = "deletion_pending" /\ due[u] = "over"}

Select(s) ==
  /\ work[s] = {} /\ at[s] = None /\ Due # {}
  /\ work' = [work EXCEPT ![s] = Due]
  /\ UNCHANGED <<userVars, erasureVars, cacheVars, requestVars, at, step, told, fill,
                 calls, failures>>

StartErasing(s, u) ==
  /\ at[s] = None /\ u \in work[s]
  /\ work' = [work EXCEPT ![s] = @ \ {u}]
  /\ at' = [at EXCEPT ![s] = u]
  /\ step' = [step EXCEPT ![s] = 1]
  /\ UNCHANGED <<userVars, erasureVars, cacheVars, requestVars, told, fill, calls, failures>>

GoOn(s) ==
  IF step[s] = Last
  THEN at' = [at EXCEPT ![s] = None] /\ step' = [step EXCEPT ![s] = 1]
  ELSE step' = [step EXCEPT ![s] = @ + 1] /\ UNCHANGED at

(* What a step leaves clean.  Only a row says which faces are stored: once
   another sweep has deleted the rows there is nothing left to delete. *)
Cleaned(u, k) ==
  IF Step[k] = "faces" /\ "selfies" \notin kept[u] THEN {} ELSE {Step[k]}

(* One write of eraseAccount. *)
Erase(s) ==
  /\ at[s] # None
  /\ GoOn(s)
  /\ kept' = [kept EXCEPT ![at[s]] = @ \ Cleaned(at[s], step[s])]
  /\ told' = [told EXCEPT ![s] = IF Step[step[s]] = "identity" THEN TRUE
                                ELSE IF step[s] = Last THEN FALSE ELSE @]
  /\ IF step[s] = 1
     THEN /\ account' = [account EXCEPT ![at[s]] = "deleted"]
          /\ active' = [active EXCEPT ![at[s]] = FALSE]
     ELSE UNCHANGED <<account, active>>
  /\ IF step[s] = 2 THEN Invalidate(at[s]) ELSE UNCHANGED cacheVars
  /\ records' = IF step[s] = Last
                THEN Close(at[s], IF told[s] THEN "completed" ELSE "reported")
                ELSE records
  /\ UNCHANGED <<due, ended, busy, orphaned, halfway, requestVars, work, fill, calls, failures>>

(* Storage or the identity provider refuses: logged and passed over.  Only
   the latter is noted in the record. *)
Refused(s) ==
  /\ Step[step[s]] \in PassedOver
  /\ GoOn(s)
  /\ IF Step[step[s]] = "faces" THEN orphaned' = [orphaned EXCEPT ![at[s]] = TRUE]
                                ELSE UNCHANGED orphaned
  /\ UNCHANGED <<halfway, missed, work, told>>

GiveUp(s) ==
  /\ at' = [at EXCEPT ![s] = None]
  /\ step' = [step EXCEPT ![s] = 1]
  /\ halfway' = [halfway EXCEPT ![at[s]] = @ \/ step[s] > 1]
  /\ missed' = [missed EXCEPT ![at[s]] = @ \/ Step[step[s]] = "cache"]
  /\ told' = [told EXCEPT ![s] = FALSE]
  /\ UNCHANGED orphaned

(* Mutant: any failed write is logged and passed over like those two. *)
PassOver(s) ==
  /\ at[s] # None /\ failures < MaxFailures
  /\ failures' = failures + 1
  /\ GoOn(s)
  /\ UNCHANGED <<userVars, erasureVars, cacheVars, requestVars, work, told, fill, calls>>

(* A write fails: it is passed over, or the error is caught in the loop and
   the sweep takes the next account. *)
EraseFails(s) ==
  /\ at[s] # None /\ failures < MaxFailures
  /\ failures' = failures + 1
  /\ \/ Refused(s)
     \/ /\ Step[step[s]] \notin PassedOver
        /\ GiveUp(s) /\ UNCHANGED work
  /\ UNCHANGED <<userVars, records, kept, copy, requestVars, fill, calls>>

(* The process of a sweep dies within an erasure. *)
SweepLost(s) ==
  /\ at[s] # None /\ failures < MaxFailures
  /\ failures' = failures + 1
  /\ GiveUp(s)
  /\ work' = [work EXCEPT ![s] = {}]
  /\ UNCHANGED <<userVars, records, kept, copy, requestVars, fill, calls>>

-----------------------------------------------------------------------------
Init ==
  /\ active = [u \in Users |-> TRUE]
  /\ account = [u \in Users |-> "active"]
  /\ due = [u \in Users |-> "none"]
  /\ ended = [u \in Users |-> FALSE]
  /\ busy = [u \in Users |-> FALSE]
  /\ records = [u \in Users |-> <<>>]
  /\ kept = [u \in Users |-> Stores]
  /\ orphaned = [u \in Users |-> FALSE]
  /\ halfway = [u \in Users |-> FALSE]
  /\ copy = [u \in Users |-> None]
  /\ missed = [u \in Users |-> FALSE]
  /\ pc = [p \in Requests |-> "idle"]
  /\ op = [p \in Requests |-> "revokeSessions"]
  /\ target \in [Requests -> Users]
  /\ work = [s \in Sweeps |-> {}]
  /\ at = [s \in Sweeps |-> None]
  /\ step = [s \in Sweeps |-> 1]
  /\ told = [s \in Sweeps |-> FALSE]
  /\ fill = [g \in Guards |-> None]
  /\ calls = 0 /\ failures = 0

RunRequest(p) == Write(p) \/ DropCopy(p) \/ LogRecord(p)

RunSweep(s) == Select(s) \/ Erase(s) \/ \E u \in Users : StartErasing(s, u)

Next ==
  \/ \E p \in Requests :
       \/ \E name \in Issued, u \in Users : Begin(p, name, u)
       \/ RunRequest(p) \/ RequestLost(p)
  \/ \E s \in Sweeps : RunSweep(s) \/ EraseFails(s) \/ SweepLost(s)
  \/ \E g \in Guards : GuardFill(g) \/ \E u \in Users : GuardMiss(g, u)
  \/ \E u \in Users : CopyExpires(u) \/ OrderEnds(u) \/ GracePasses(u)

Spec == Init /\ [][Next]_vars

(* What has begun is run, the job runs every night, time passes, Redis
   drops what is old.  Nobody has to call, and no order has to end. *)
FairSpec ==
  /\ Spec
  /\ \A p \in Requests : WF_vars(RunRequest(p))
  /\ \A s \in Sweeps : WF_vars(RunSweep(s))
  /\ \A g \in Guards : WF_vars(GuardFill(g))
  /\ \A u \in Users : WF_vars(CopyExpires(u)) /\ WF_vars(GracePasses(u))

-----------------------------------------------------------------------------
(* Types: a cached copy is a copy of a document, an erasure in progress has
   a user and a step. *)
TypeOK ==
  /\ active \in [Users -> BOOLEAN] /\ account \in [Users -> AccountStatus]
  /\ due \in [Users -> {"none", "waiting", "over"}]
  /\ ended \in [Users -> BOOLEAN] /\ busy \in [Users -> BOOLEAN]
  /\ records \in [Users -> Seq(RecordStatus)]
  /\ kept \in [Users -> SUBSET Stores]
  /\ orphaned \in [Users -> BOOLEAN] /\ halfway \in [Users -> BOOLEAN]
  /\ copy \in [Users -> Copy \cup {None}] /\ missed \in [Users -> BOOLEAN]
  /\ pc \in [Requests -> {"idle", "checked", "written", "logging"}]
  /\ op \in [Requests -> Mutation] /\ target \in [Requests -> Users]
  /\ work \in [Sweeps -> SUBSET Users] /\ at \in [Sweeps -> Users \cup {None}]
  /\ step \in [Sweeps -> 1 .. Last] /\ told \in [Sweeps -> BOOLEAN]
  /\ fill \in [Guards -> [user : Users, read : Copy] \cup {None}]
  /\ calls \in Nat /\ failures \in Nat

Unseen(u) == IF orphaned[u] THEN {"faces"} ELSE {}

(* What a closed record proves, whichever of several sweeps got there and
   however often one failed or died: every place that eraseAccount names is
   clean but the identity when the record itself says so, and, which the
   record does not say, the stored faces when storage refused one of them. *)
CompletedMeansErased ==
  \A u \in Users : \A i \in DOMAIN records[u] :
    /\ records[u][i] = "completed" => kept[u] \subseteq Unseen(u)
    /\ records[u][i] = "reported" => kept[u] \subseteq {"identity"} \cup Unseen(u)

(* Whatever fails or runs twice, documents keep their shape and a closed
   record proves what it can.  eraseAccount, eraseForUser. *)
ErasureIsProof == TypeOK /\ CompletedMeansErased

(* The audit trail is only added to: a closed record keeps its outcome,
   although cancellation and erasure of one account may run at once. *)
RecordsClosedOnce ==
  [][\A u \in Users : \A i \in DOMAIN records[u] :
       /\ i \in DOMAIN records'[u]
       /\ records[u][i] # "open" => records'[u][i] = records[u][i]]_vars

(* The guard decides on a stale document only between a write and the
   invalidation that follows it, or when that invalidation was lost or was
   overtaken by a fill that had read before it. *)
StaleOnlyInWindow ==
  \A u \in Users :
    copy[u] # None /\ copy[u] # Current(u)
      => \/ missed[u]
         \/ \E p \in Requests : pc[p] = "written" /\ target[p] = u
         \/ \E s \in Sweeps : at[s] = u /\ Step[step[s]] = "cache"

(* The guard ends up deciding on the document as it is. *)
CopyCatchesUp == \A u \in Users : <>[](copy[u] \in {None, Current(u)})

(* A deletion that is due is cancelled or carried out to its last step, but
   for what was refused; a failure of the very first write is made good by a
   later sweep.  A later failure is not: the status is then deleted, no sweep
   finds the account again, and it is left halfway.  processScheduledDeletions. *)
DueIsErased ==
  \A u \in Users :
    (account[u] = "deletion_pending" /\ due[u] = "over")
      ~> \/ account[u] = "active"
         \/ kept[u] \subseteq {"identity"} \cup Unseen(u)
         \/ halfway[u]
====
