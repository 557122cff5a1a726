--------------------------- MODULE AccountsProofs ---------------------------
(* What TLAPS proves of accounts, for every set of users, requests, sweeps
   and guards.  Of their erasure (Accounts): types, the proof a completed
   record is, closed records, and where the cached user can be stale.  Of
   the rest of their life: how one comes to be (Registration), what it is
   let into (AccessControl) and how a provider's is verified (KycReview). *)
EXTENDS Accounts, Registration, AccessControl, KycReview,
  SequenceTheorems, FiniteSetTheorems, WellFoundedInduction, TLAPS

USE DEF userVars, erasureVars, cacheVars, requestVars, sweepVars

LEMMA Steps ==
  /\ Last = 11
  /\ Step[1] = "user" /\ Step[2] = "cache" /\ Step[3] = "faces" /\ Step[4] = "selfies"
  /\ Step[5] = "devices" /\ Step[6] = "identity" /\ Step[7] = "profile"
  /\ Step[8] = "logs" /\ Step[9] = "orders" /\ Step[10] = "bookings"
  /\ Step[11] = "record"
  BY DEF Step, Last

LEMMA CloseIs ==
  ASSUME TypeOK, NEW u \in Users, NEW how \in RecordStatus
  PROVE  /\ Close(u, how) \in [Users -> Seq(RecordStatus)]
         /\ \A v \in Users : DOMAIN Close(u, how)[v] = DOMAIN records[v]
         /\ \A v \in Users : \A i \in DOMAIN records[v] :
              Close(u, how)[v][i] = IF v = u /\ records[v][i] = "open"
                                    THEN how ELSE records[v][i]
 <1> DEFINE closed == [i \in DOMAIN records[u] |->
                         IF records[u][i] = "open" THEN how ELSE records[u][i]]
 <1>1. records \in [Users -> Seq(RecordStatus)] BY DEF TypeOK
 <1>2. records[u] \in Seq(RecordStatus) BY <1>1
 <1>3. DOMAIN records[u] = 1 .. Len(records[u]) /\ Len(records[u]) \in Nat BY <1>2
 <1>4. \A i \in 1 .. Len(records[u]) : records[u][i] \in RecordStatus BY <1>2
 <1>5. closed \in Seq(RecordStatus)
  <2>1. closed \in [1 .. Len(records[u]) -> RecordStatus] BY <1>3, <1>4
  <2> QED BY <1>3, <2>1, SeqDef
 <1>6. Close(u, how) = [records EXCEPT ![u] = closed] BY DEF Close
 <1> QED BY <1>1, <1>5, <1>6

-----------------------------------------------------------------------------
LEMMA TypeInit == Init => TypeOK
  BY Steps DEF Init, TypeOK, AccountStatus, Mutation

LEMMA CurrentIsCopy == ASSUME TypeOK, NEW u \in Users PROVE Current(u) \in Copy
  BY DEF TypeOK, Current, Copy

LEMMA RequestKeepsTypes ==
  ASSUME TypeOK, NEW p \in Requests,
         \/ \E name \in Issued, u \in Users : Begin(p, name, u)
         \/ RunRequest(p) \/ RequestLost(p)
  PROVE  TypeOK'
 <1>1. ASSUME NEW name \in Issued, NEW u \in Users, Begin(p, name, u) PROVE TypeOK'
  <2>1. name \in Mutation BY <1>1 DEF Begin, Allowed, Mutation
  <2> QED BY <1>1, <2>1 DEF Begin, TypeOK
 <1>2. CASE Write(p)
  <2>1. target[p] \in Users BY DEF TypeOK
  <2> DEFINE b == op[p] = "reactivateUser"
  <2>2. b \in BOOLEAN OBVIOUS
  <2>3. active' \in [Users -> BOOLEAN]
   <3> HIDE DEF b
   <3>1. \/ active' = active
         \/ \E x \in BOOLEAN : active' = [active EXCEPT ![target[p]] = x]
     BY <1>2, <2>2 DEF Write, WriteUser, b
   <3> QED BY <3>1, <2>1 DEF TypeOK
  <2>4. account' \in [Users -> AccountStatus]
    BY <1>2, <2>1 DEF Write, WriteUser, TypeOK, AccountStatus
  <2>5. due' \in [Users -> {"none", "waiting", "over"}] BY <1>2, <2>1 DEF Write, WriteUser, TypeOK
  <2>6. ended' \in [Users -> BOOLEAN] /\ busy' \in [Users -> BOOLEAN]
    BY <1>2, <2>1 DEF Write, WriteUser, TypeOK
  <2> QED BY <1>2, <2>3, <2>4, <2>5, <2>6 DEF Write, TypeOK
 <1>3. CASE DropCopy(p) BY <1>3 DEF DropCopy, Invalidate, TypeOK
 <1>4. CASE LogRecord(p)
  <2>1. target[p] \in Users BY DEF TypeOK
  <2>2. Close(target[p], "cancelled") \in [Users -> Seq(RecordStatus)]
    BY <2>1, CloseIs DEF RecordStatus
  <2>3. records' \in [Users -> Seq(RecordStatus)]
    BY <1>4, <2>1, <2>2 DEF LogRecord, TypeOK, RecordStatus
  <2> QED BY <1>4, <2>3 DEF LogRecord, TypeOK
 <1>5. CASE RequestLost(p)
  <2>1. missed' \in [Users -> BOOLEAN] BY <1>5 DEF RequestLost, TypeOK
  <2> QED BY <1>5, <2>1 DEF RequestLost, TypeOK
 <1> QED BY <1>1, <1>2, <1>3, <1>4, <1>5 DEF RunRequest

LEMMA SweepKeepsTypes ==
  ASSUME TypeOK, NEW s \in Sweeps, RunSweep(s) \/ EraseFails(s) \/ SweepLost(s)
  PROVE  TypeOK'
 <1>0. /\ step \in [Sweeps -> 1 .. 11] /\ Last = 11
       /\ at \in [Sweeps -> Users \cup {None}] /\ told \in [Sweeps -> BOOLEAN]
   BY Steps DEF TypeOK
 <1>1. CASE Select(s) BY <1>1 DEF Select, Due, TypeOK
 <1>2. ASSUME NEW u \in Users, StartErasing(s, u) PROVE TypeOK'
   BY <1>0, <1>2, Steps DEF StartErasing, TypeOK
 <1>3. GoOn(s) => at' \in [Sweeps -> Users \cup {None}] /\ step' \in [Sweeps -> 1 .. Last]
  <2> SUFFICES ASSUME GoOn(s)
               PROVE  at' \in [Sweeps -> Users \cup {None}] /\ step' \in [Sweeps -> 1 .. 11]
    BY <1>0
  <2>1. CASE step[s] = 11 BY <1>0, <2>1 DEF GoOn
  <2>2. CASE step[s] # 11
   <3>1. step[s] + 1 \in 1 .. 11 BY <1>0, <2>2
   <3> QED BY <1>0, <2>2, <3>1 DEF GoOn
  <2> QED BY <2>1, <2>2
 <1>4. CASE Erase(s)
  <2>1. at[s] \in Users BY <1>4 DEF Erase, TypeOK
  <2>2. \A how \in {"completed", "reported"} : Close(at[s], how) \in [Users -> Seq(RecordStatus)]
    BY <2>1, CloseIs DEF RecordStatus
  <2>3. records' \in [Users -> Seq(RecordStatus)] BY <1>4, <2>2 DEF Erase, TypeOK
  <2>4. account' \in [Users -> AccountStatus] /\ active' \in [Users -> BOOLEAN]
    BY <1>4, <2>1 DEF Erase, TypeOK, AccountStatus
  <2>5. copy' \in [Users -> Copy \cup {None}] /\ missed' \in [Users -> BOOLEAN]
    BY <1>4, <2>1 DEF Erase, Invalidate, TypeOK
  <2>6. kept' \in [Users -> SUBSET Stores] BY <1>4, <2>1 DEF Erase, TypeOK
  <2>7. told' \in [Sweeps -> BOOLEAN] BY <1>0, <1>4 DEF Erase
  <2> QED BY <1>3, <1>4, <2>3, <2>4, <2>5, <2>6, <2>7 DEF Erase, TypeOK
 <1>5. ASSUME GiveUp(s), at[s] # None
       PROVE  /\ at' \in [Sweeps -> Users \cup {None}] /\ step' \in [Sweeps -> 1 .. Last]
              /\ halfway' \in [Users -> BOOLEAN] /\ missed' \in [Users -> BOOLEAN]
              /\ orphaned' \in [Users -> BOOLEAN] /\ told' \in [Sweeps -> BOOLEAN]
  <2>1. at' \in [Sweeps -> Users \cup {None}] /\ step' \in [Sweeps -> 1 .. Last]
    BY <1>0, <1>5 DEF GiveUp
  <2>2. halfway' \in [Users -> BOOLEAN] BY <1>0, <1>5 DEF GiveUp, TypeOK
  <2>3. missed' \in [Users -> BOOLEAN] BY <1>0, <1>5 DEF GiveUp, TypeOK
  <2>4. orphaned' \in [Users -> BOOLEAN] BY <1>5 DEF GiveUp, TypeOK
  <2>5. told' \in [Sweeps -> BOOLEAN] BY <1>0, <1>5 DEF GiveUp
  <2> QED BY <2>1, <2>2, <2>3, <2>4, <2>5
 <1>6. CASE EraseFails(s)
  <2>1. CASE Refused(s)
   <3>1. orphaned' \in [Users -> BOOLEAN] BY <2>1 DEF Refused, TypeOK
   <3> QED BY <1>3, <1>6, <2>1, <3>1 DEF EraseFails, Refused, TypeOK
  <2>2. CASE GiveUp(s) /\ UNCHANGED work BY <1>5, <1>6, <2>2 DEF EraseFails, TypeOK
  <2> QED BY <1>6, <2>1, <2>2 DEF EraseFails
 <1>7. CASE SweepLost(s)
  <2>1. work' \in [Sweeps -> SUBSET Users] BY <1>7 DEF SweepLost, TypeOK
  <2> QED BY <1>5, <1>7, <2>1 DEF SweepLost, TypeOK
 <1> QED BY <1>1, <1>2, <1>4, <1>6, <1>7 DEF RunSweep

LEMMA TypeNext == TypeOK /\ [Next]_vars => TypeOK'
 <1> SUFFICES ASSUME TypeOK, [Next]_vars PROVE TypeOK' OBVIOUS
 <1>1. ASSUME NEW g \in Guards, GuardFill(g) PROVE TypeOK'
  <2>1. fill[g] \in [user : Users, read : Copy] BY <1>1 DEF GuardFill, TypeOK
  <2>2. copy' \in [Users -> Copy \cup {None}] /\ missed' \in [Users -> BOOLEAN]
    BY <1>1, <2>1 DEF GuardFill, TypeOK
  <2> QED BY <1>1, <2>2 DEF GuardFill, TypeOK
 <1>2. ASSUME NEW g \in Guards, NEW u \in Users, GuardMiss(g, u) PROVE TypeOK'
   BY <1>2, CurrentIsCopy DEF GuardMiss, TypeOK
 <1>3. ASSUME NEW u \in Users, CopyExpires(u) PROVE TypeOK' BY <1>3 DEF CopyExpires, TypeOK
 <1>4. ASSUME NEW u \in Users, OrderEnds(u) PROVE TypeOK' BY <1>4 DEF OrderEnds, TypeOK
 <1>5. ASSUME NEW u \in Users, GracePasses(u) PROVE TypeOK' BY <1>5 DEF GracePasses, TypeOK
 <1>6. CASE UNCHANGED vars BY <1>6 DEF vars, TypeOK
 <1> QED BY <1>1, <1>2, <1>3, <1>4, <1>5, <1>6, RequestKeepsTypes, SweepKeepsTypes DEF Next

(* Documents, copies and erasures in progress keep their shape. *)
THEOREM TypeCorrect == Spec => []TypeOK
  BY TypeInit, TypeNext, PTL DEF Spec

-----------------------------------------------------------------------------
(* A record stays closed: LogRecord and the last step of an erasure are the
   only writers, and both leave what is not open. *)
RecordsKept(u) ==
  \A i \in DOMAIN records[u] :
    /\ i \in DOMAIN records'[u]
    /\ records[u][i] # "open" => records'[u][i] = records[u][i]

LEMMA ClosingKeeps ==
  ASSUME TypeOK, NEW u \in Users, NEW how \in RecordStatus,
         records' = Close(u, how)
  PROVE  \A v \in Users : RecordsKept(v)
  BY CloseIs DEF RecordsKept

LEMMA AppendingKeeps ==
  ASSUME TypeOK, NEW u \in Users,
         records' = [records EXCEPT ![u] = Append(@, "open")]
  PROVE  \A v \in Users : RecordsKept(v)
 <1> SUFFICES ASSUME NEW v \in Users, NEW i \in DOMAIN records[v]
              PROVE  i \in DOMAIN records'[v] /\ records'[v][i] = records[v][i]
   BY DEF RecordsKept
 <1>1. records[v] \in Seq(RecordStatus) BY DEF TypeOK
 <1>2. CASE v = u
  <2>1. records'[v] = Append(records[v], "open") BY <1>2 DEF TypeOK
  <2> QED BY <1>1, <2>1 DEF RecordStatus
 <1>3. CASE v # u BY <1>3 DEF TypeOK
 <1> QED BY <1>2, <1>3

LEMMA NextKeepsRecords ==
  TypeOK /\ [Next]_vars => \A u \in Users : RecordsKept(u)
 <1> SUFFICES ASSUME TypeOK, [Next]_vars PROVE \A u \in Users : RecordsKept(u) OBVIOUS
 <1>1. ASSUME records' = records PROVE \A u \in Users : RecordsKept(u) BY <1>1 DEF RecordsKept
 <1>2. ASSUME NEW p \in Requests, LogRecord(p) PROVE \A u \in Users : RecordsKept(u)
  <2>1. target[p] \in Users BY DEF TypeOK
  <2>2. CASE op[p] = "requestDeletion" BY <1>2, <2>1, <2>2, AppendingKeeps DEF LogRecord
  <2>3. CASE op[p] # "requestDeletion" BY <1>2, <2>1, <2>3, ClosingKeeps DEF LogRecord, RecordStatus
  <2> QED BY <2>2, <2>3
 <1>3. ASSUME NEW s \in Sweeps, Erase(s) PROVE \A u \in Users : RecordsKept(u)
  <2>1. at[s] \in Users BY <1>3 DEF Erase, TypeOK
  <2>2. CASE step[s] = Last
   <3>1. \E how \in {"completed", "reported"} : records' = Close(at[s], how) BY <1>3, <2>2 DEF Erase
   <3> QED BY <2>1, <3>1, ClosingKeeps DEF RecordStatus
  <2>3. CASE step[s] # Last BY <1>1, <1>3, <2>3 DEF Erase
  <2> QED BY <2>2, <2>3
 <1>4. CASE UNCHANGED vars BY <1>1, <1>4 DEF vars
 <1>5. ASSUME NEW p \in Requests,
              (\E name \in Issued, u \in Users : Begin(p, name, u))
              \/ Write(p) \/ DropCopy(p) \/ RequestLost(p)
       PROVE  records' = records
   BY <1>5 DEF Begin, Write, DropCopy, RequestLost
 <1>6. ASSUME NEW s \in Sweeps,
              \/ Select(s) \/ EraseFails(s) \/ SweepLost(s)
              \/ \E u \in Users : StartErasing(s, u)
       PROVE  records' = records
   BY <1>6 DEF Select, EraseFails, SweepLost, StartErasing
 <1>7. ASSUME NEW g \in Guards, GuardFill(g) \/ \E u \in Users : GuardMiss(g, u)
       PROVE  records' = records
   BY <1>7 DEF GuardFill, GuardMiss
 <1>8. ASSUME NEW u \in Users, CopyExpires(u) \/ OrderEnds(u) \/ GracePasses(u)
       PROVE  records' = records
   BY <1>8 DEF CopyExpires, OrderEnds, GracePasses
 <1> QED BY <1>1, <1>2, <1>3, <1>4, <1>5, <1>6, <1>7, <1>8 DEF Next, RunRequest, RunSweep

(* Whatever requests and sweeps run at once, no outcome is overwritten. *)
THEOREM ClosedOnce == Spec => RecordsClosedOnce
  BY TypeCorrect, NextKeepsRecords, PTL DEF Spec, RecordsClosedOnce, RecordsKept

-----------------------------------------------------------------------------
(* What a sweep leaves behind it at a place: nothing, a refused face, or the
   identity that it will say it could not delete. *)
StepDone(s, k) ==
  \/ Step[k] \notin kept[at[s]]
  \/ k = 3 /\ orphaned[at[s]]
  \/ k = 6 /\ ~told[s]

(* A sweep at a step has done the steps before it, and nothing undoes them:
   kept only shrinks.  The rows that name the faces go after the faces, so
   that a second sweep that finds no row misses nothing but a refused face. *)
RowsNameFaces ==
  \A u \in Users :
    "selfies" \notin kept[u] => "faces" \notin kept[u] \/ orphaned[u]

StepsDone ==
  \A s \in Sweeps : at[s] # None => \A k \in 1 .. step[s] - 1 : StepDone(s, k)

NotedLater == \A s \in Sweeps : told[s] => at[s] # None /\ step[s] > 6

ErasedSoFar == RowsNameFaces /\ StepsDone /\ NotedLater

LEMMA StoresAre == \A x \in Stores : \E k \in 1 .. 10 : x = Step[k]
  BY Steps DEF Stores

LEMMA InitErased == Init => ErasedSoFar /\ CompletedMeansErased
 <1> SUFFICES ASSUME Init PROVE ErasedSoFar /\ CompletedMeansErased OBVIOUS
 <1>1. "selfies" \in Stores BY Steps DEF Stores
 <1> QED BY <1>1 DEF Init, ErasedSoFar, RowsNameFaces, StepsDone, NotedLater, CompletedMeansErased

(* What the induction has to know of a step that is not an erasing one. *)
LEMMA NothingErased ==
  ASSUME TypeOK, ErasedSoFar, CompletedMeansErased,
         kept' = kept, at' = at, step' = step, told' = told, orphaned' = orphaned,
         \A u \in Users : \A i \in DOMAIN records'[u] :
           records'[u][i] \in {"completed", "reported"}
             => \E j \in DOMAIN records[u] : records[u][j] = records'[u][i]
  PROVE  ErasedSoFar' /\ CompletedMeansErased'
 <1>1. ErasedSoFar' BY DEF ErasedSoFar, RowsNameFaces, StepsDone, NotedLater, StepDone
 <1>2. CompletedMeansErased'
  <2> SUFFICES ASSUME NEW u \in Users, NEW i \in DOMAIN records'[u]
               PROVE  /\ records'[u][i] = "completed" => kept[u] \subseteq Unseen(u)
                      /\ records'[u][i] = "reported"
                           => kept[u] \subseteq {"identity"} \cup Unseen(u)
    BY DEF CompletedMeansErased, Unseen
  <2> QED BY DEF CompletedMeansErased
 <1> QED BY <1>1, <1>2

LEMMA LogCompletesNothing ==
  ASSUME TypeOK, NEW p \in Requests, LogRecord(p), NEW u \in Users,
         NEW i \in DOMAIN records'[u], records'[u][i] \in {"completed", "reported"}
  PROVE  \E j \in DOMAIN records[u] : records[u][j] = records'[u][i]
 <1>1. target[p] \in Users /\ records[u] \in Seq(RecordStatus) BY DEF TypeOK
 <1>2. CASE op[p] # "requestDeletion"
  <2>1. records' = Close(target[p], "cancelled") BY <1>2 DEF LogRecord
  <2>2. "cancelled" \in RecordStatus BY DEF RecordStatus
  <2>3. /\ DOMAIN records'[u] = DOMAIN records[u]
        /\ \A j \in DOMAIN records[u] :
             records'[u][j] = IF u = target[p] /\ records[u][j] = "open"
                              THEN "cancelled" ELSE records[u][j]
    BY <1>1, <2>1, <2>2, CloseIs
  <2>4. i \in DOMAIN records[u] /\ records[u][i] = records'[u][i] BY <2>3
  <2> QED BY <2>4
 <1>3. CASE op[p] = "requestDeletion" /\ u = target[p]
  <2>1. records'[u] = Append(records[u], "open") BY <1>3 DEF LogRecord, TypeOK
  <2>2. i \in DOMAIN records[u] /\ records[u][i] = records'[u][i] BY <1>1, <2>1
  <2> QED BY <2>2
 <1>4. CASE op[p] = "requestDeletion" /\ u # target[p] BY <1>4 DEF LogRecord, TypeOK
 <1> QED BY <1>2, <1>3, <1>4

(* The last step is taken by a sweep that has done the ten before it. *)
LEMMA LastFindsClean ==
  ASSUME TypeOK, ErasedSoFar, NEW s \in Sweeps, at[s] # None, step[s] = 11
  PROVE  kept[at[s]] \subseteq (IF told[s] THEN {} ELSE {"identity"}) \cup Unseen(at[s])
 <1>1. at[s] \in Users /\ kept[at[s]] \subseteq Stores BY NoneIsNobody DEF TypeOK
 <1>2. \A k \in 1 .. 10 : StepDone(s, k) BY DEF ErasedSoFar, StepsDone
 <1> SUFFICES ASSUME NEW x \in kept[at[s]]
              PROVE  x \in (IF told[s] THEN {} ELSE {"identity"}) \cup Unseen(at[s])
   OBVIOUS
 <1>3. PICK k \in 1 .. 10 : x = Step[k] BY <1>1, StoresAre
 <1>4. \/ k = 3 /\ orphaned[at[s]]
       \/ k = 6 /\ ~told[s]
   BY <1>2, <1>3 DEF StepDone
 <1> QED BY <1>3, <1>4, Steps DEF Unseen

LEMMA EraseKeepsErased ==
  ASSUME TypeOK, ErasedSoFar, CompletedMeansErased, NEW s \in Sweeps, Erase(s)
  PROVE  ErasedSoFar' /\ CompletedMeansErased'
 <1>1. /\ at[s] \in Users /\ at[s] # None /\ Last = 11
       /\ step \in [Sweeps -> 1 .. 11] /\ at \in [Sweeps -> Users \cup {None}]
       /\ kept \in [Users -> SUBSET Stores] /\ told \in [Sweeps -> BOOLEAN]
   BY Steps DEF Erase, TypeOK
 <1>2. /\ kept' = [kept EXCEPT ![at[s]] = @ \ Cleaned(at[s], step[s])]
       /\ GoOn(s) /\ orphaned' = orphaned
       /\ \A t \in Sweeps \ {s} : told'[t] = told[t]
       /\ told'[s] = IF step[s] = 6 THEN TRUE ELSE IF step[s] = 11 THEN FALSE ELSE told[s]
  <2>1. Step[step[s]] = "identity" <=> step[s] = 6 BY <1>1, Steps
  <2> QED BY <1>1, <2>1 DEF Erase
 <1>3. \A u \in Users : kept'[u] \subseteq kept[u] BY <1>1, <1>2
 <1>4. StepDone(s, step[s]) \/ Step[step[s]] \notin kept'[at[s]]
  <2>1. CASE Step[step[s]] = "faces" /\ "selfies" \notin kept[at[s]]
   <3>1. step[s] = 3 BY <1>1, <2>1, Steps
   <3> QED BY <1>1, <2>1, <3>1 DEF ErasedSoFar, RowsNameFaces, StepDone
  <2>2. CASE ~(Step[step[s]] = "faces" /\ "selfies" \notin kept[at[s]])
   <3>1. Cleaned(at[s], step[s]) = {Step[step[s]]} BY <2>2 DEF Cleaned
   <3> QED BY <1>1, <1>2, <3>1
  <2> QED BY <2>1, <2>2
 <1>5. RowsNameFaces'
  <2> SUFFICES ASSUME NEW u \in Users, "selfies" \notin kept'[u]
               PROVE  "faces" \notin kept'[u] \/ orphaned[u]
    BY <1>2 DEF RowsNameFaces
  <2>1. CASE "selfies" \notin kept[u] BY <1>3, <2>1 DEF ErasedSoFar, RowsNameFaces
  <2>2. CASE "selfies" \in kept[u]
   <3>1. u = at[s] /\ "selfies" \in Cleaned(u, step[s]) BY <1>1, <1>2, <2>2
   <3>2. step[s] = 4 BY <1>1, <3>1, Steps DEF Cleaned
   <3>3. 3 \in 1 .. step[s] - 1 BY <3>2
   <3>4. StepDone(s, 3) BY <1>1, <3>3 DEF ErasedSoFar, StepsDone
   <3> QED BY <1>3, <3>1, <3>4, Steps DEF StepDone
  <2> QED BY <2>1, <2>2
 <1>6. StepsDone'
  <2> SUFFICES ASSUME NEW t \in Sweeps, at'[t] # None, NEW k \in 1 .. step'[t] - 1
               PROVE  StepDone(t, k)'
    BY DEF StepsDone
  <2>1. at'[t] = at[t] /\ at[t] \in Users BY <1>1, <1>2, NoneIsNobody DEF GoOn
  <2>2. t = s => step[s] # 11 BY <1>1, <1>2 DEF GoOn
  <2>3. t # s => told'[t] = told[t] BY <1>2
  <2>4. CASE k \in 1 .. step[t] - 1
   <3>1. StepDone(t, k) BY <2>1, <2>4 DEF ErasedSoFar, StepsDone, StepDone
   <3>2. CASE Step[k] \notin kept[at[t]] BY <1>3, <2>1, <3>2 DEF StepDone
   <3>3. CASE k = 3 /\ orphaned[at[t]] BY <1>2, <2>1, <3>3 DEF StepDone
   <3>4. CASE k = 6 /\ ~told[t]
    <4>1. t = s => step[s] # 6 BY <1>1, <2>4, <3>4
    <4>2. ~told'[t] BY <1>2, <2>2, <2>3, <3>4, <4>1
    <4> QED BY <3>4, <4>2 DEF StepDone
   <3> QED BY <3>1, <3>2, <3>3, <3>4 DEF StepDone
  <2>5. CASE k \notin 1 .. step[t] - 1
   <3>1. t = s /\ k = step[s] BY <1>1, <1>2, <2>5 DEF GoOn
   <3>2. CASE Step[k] \notin kept'[at[s]] BY <2>1, <3>1, <3>2 DEF StepDone
   <3>3. CASE k = 3 /\ orphaned[at[s]] BY <1>2, <2>1, <3>1, <3>3 DEF StepDone
   <3>4. CASE k = 6
    <4>1. Step[k] # "faces" BY <3>4, Steps
    <4>2. Cleaned(at[s], step[s]) = {Step[k]} BY <3>1, <4>1 DEF Cleaned
    <4>3. Step[k] \notin kept'[at[s]] BY <1>1, <1>2, <4>2
    <4> QED BY <3>2, <4>3
   <3>5. Step[k] \notin kept[at[s]] => Step[k] \notin kept'[at[s]] BY <1>1, <1>3
   <3>6. \/ Step[k] \notin kept'[at[s]] \/ k = 6
         \/ k = 3 /\ orphaned[at[s]]
     BY <1>4, <3>1, <3>5 DEF StepDone
   <3> QED BY <3>2, <3>3, <3>4, <3>6
  <2> QED BY <2>4, <2>5
 <1>8. NotedLater'
  <2> SUFFICES ASSUME NEW t \in Sweeps, told'[t] PROVE at'[t] # None /\ step'[t] > 6
    BY DEF NotedLater
  <2>1. CASE t # s
   <3>1. told[t] /\ at'[t] = at[t] /\ step'[t] = step[t] BY <1>1, <1>2, <2>1 DEF GoOn
   <3> QED BY <3>1 DEF ErasedSoFar, NotedLater
  <2>2. CASE t = s
   <3>0. told'[s] BY <2>2
   <3>1. step[s] # 11 /\ (step[s] # 6 => told[s])
    <4>1. CASE step[s] = 6 BY <4>1
    <4>2. CASE step[s] # 6 /\ step[s] = 11 BY <1>2, <3>0, <4>2
    <4>3. CASE step[s] # 6 /\ step[s] # 11 BY <1>2, <3>0, <4>3
    <4> QED BY <4>1, <4>2, <4>3
   <3>2. step[s] >= 6 BY <1>1, <3>1 DEF ErasedSoFar, NotedLater
   <3>3. at'[s] = at[s] /\ step'[s] = step[s] + 1 BY <1>1, <1>2, <3>1 DEF GoOn
   <3> QED BY <1>1, <2>2, <3>2, <3>3
  <2> QED BY <2>1, <2>2
 <1>7. CompletedMeansErased'
  <2> SUFFICES ASSUME NEW u \in Users, NEW i \in DOMAIN records'[u]
               PROVE  /\ records'[u][i] = "completed" => kept'[u] \subseteq Unseen(u)
                      /\ records'[u][i] = "reported"
                           => kept'[u] \subseteq {"identity"} \cup Unseen(u)
    BY <1>2 DEF CompletedMeansErased, Unseen
  <2>1. CASE \E j \in DOMAIN records[u] : records[u][j] = records'[u][i]
    BY <1>3, <2>1 DEF CompletedMeansErased
  <2>2. CASE \A j \in DOMAIN records[u] : records[u][j] # records'[u][i]
   <3> DEFINE how == IF told[s] THEN "completed" ELSE "reported"
   <3>1. how \in RecordStatus BY DEF RecordStatus
   <3>2. records' = IF step[s] = 11 THEN Close(at[s], how) ELSE records BY <1>1 DEF Erase
   <3>3. how = "completed" <=> told[s] OBVIOUS
   <3>4. how = "completed" \/ how = "reported" OBVIOUS
   <3> HIDE DEF how
   <3>5. step[s] = 11 /\ u = at[s] /\ records'[u][i] = how BY <1>1, <2>2, <3>1, <3>2, CloseIs
   <3>6. kept[u] \subseteq (IF told[s] THEN {} ELSE {"identity"}) \cup Unseen(u)
     BY <1>1, <3>5, LastFindsClean
   <3> QED BY <1>3, <3>3, <3>4, <3>5, <3>6
  <2> QED BY <2>1, <2>2
 <1> QED BY <1>5, <1>6, <1>7, <1>8 DEF ErasedSoFar

(* Giving an account up, or starting with one, leaves what is done. *)
LEMMA BeginningKeepsErased ==
  ASSUME TypeOK, ErasedSoFar, CompletedMeansErased, NEW s \in Sweeps,
         NEW u \in Users \cup {None},
         at' = [at EXCEPT ![s] = u], step' = [step EXCEPT ![s] = 1],
         ~told'[s], \A t \in Sweeps \ {s} : told'[t] = told[t],
         UNCHANGED <<kept, records, orphaned>>
  PROVE  ErasedSoFar' /\ CompletedMeansErased'
 <1>1. step \in [Sweeps -> 1 .. 11] /\ at \in [Sweeps -> Users \cup {None}] BY Steps DEF TypeOK
 <1>2. RowsNameFaces' BY DEF ErasedSoFar, RowsNameFaces
 <1>3. StepsDone' BY <1>1 DEF ErasedSoFar, StepsDone, StepDone
 <1>4. CompletedMeansErased' BY DEF CompletedMeansErased, Unseen
 <1>5. NotedLater' BY <1>1 DEF ErasedSoFar, NotedLater
 <1> QED BY <1>2, <1>3, <1>4, <1>5 DEF ErasedSoFar

LEMMA RefusedKeepsErased ==
  ASSUME TypeOK, ErasedSoFar, CompletedMeansErased, NEW s \in Sweeps, at[s] # None,
         Refused(s), UNCHANGED <<kept, records>>
  PROVE  ErasedSoFar' /\ CompletedMeansErased'
 <1>1. /\ at[s] \in Users /\ Last = 11
       /\ step \in [Sweeps -> 1 .. 11] /\ at \in [Sweeps -> Users \cup {None}]
       /\ orphaned \in [Users -> BOOLEAN]
   BY Steps DEF TypeOK
 <1>2. /\ step[s] = 3 \/ step[s] = 6
       /\ GoOn(s) /\ told' = told
       /\ step[s] = 3 => orphaned' = [orphaned EXCEPT ![at[s]] = TRUE]
       /\ step[s] = 6 => orphaned' = orphaned
   BY <1>1, Steps DEF Refused, PassedOver
 <1>3. \A u \in Users : orphaned[u] => orphaned'[u] BY <1>1, <1>2
 <1>4. RowsNameFaces' BY <1>3 DEF ErasedSoFar, RowsNameFaces
 <1>5. StepsDone'
  <2> SUFFICES ASSUME NEW t \in Sweeps, at'[t] # None, NEW k \in 1 .. step'[t] - 1
               PROVE  StepDone(t, k)'
    BY DEF StepsDone
  <2>1. at'[t] = at[t] /\ at[t] \in Users BY <1>1, <1>2, NoneIsNobody DEF GoOn
  <2>2. CASE k \in 1 .. step[t] - 1
   <3>1. StepDone(t, k) BY <2>1, <2>2 DEF ErasedSoFar, StepsDone
   <3> QED BY <1>2, <1>3, <2>1, <3>1 DEF StepDone
  <2>3. CASE k \notin 1 .. step[t] - 1
   <3>1. t = s /\ k = step[s] BY <1>1, <1>2, <2>3 DEF GoOn
   <3>2. CASE step[s] = 3 BY <1>1, <1>2, <2>1, <3>1, <3>2 DEF StepDone
   <3>3. CASE step[s] = 6
    <4>1. ~told[s] BY <3>3 DEF ErasedSoFar, NotedLater
    <4> QED BY <1>2, <3>1, <3>3, <4>1 DEF StepDone
   <3> QED BY <1>2, <3>2, <3>3
  <2> QED BY <2>2, <2>3
 <1>6. CompletedMeansErased'
  <2>1. \A u \in Users : Unseen(u) \subseteq Unseen(u)' BY <1>3 DEF Unseen
  <2> QED BY <2>1 DEF CompletedMeansErased
 <1>7. NotedLater'
  <2> SUFFICES ASSUME NEW t \in Sweeps, told[t] PROVE at'[t] # None /\ step'[t] > 6
    BY <1>2 DEF NotedLater
  <2>1. at[t] # None /\ step[t] > 6 BY DEF ErasedSoFar, NotedLater
  <2>2. t # s BY <1>2, <2>1
  <2> QED BY <1>1, <1>2, <2>1, <2>2 DEF GoOn
 <1> QED BY <1>4, <1>5, <1>6, <1>7 DEF ErasedSoFar

LEMMA NextKeepsErased ==
  TypeOK /\ ErasedSoFar /\ CompletedMeansErased /\ [Next]_vars
    => ErasedSoFar' /\ CompletedMeansErased'
 <1> SUFFICES ASSUME TypeOK, ErasedSoFar, CompletedMeansErased, [Next]_vars
              PROVE  ErasedSoFar' /\ CompletedMeansErased'
   OBVIOUS
 <1> DEFINE same == <<kept, at, step, told, orphaned, records>>
 <1>1. ASSUME UNCHANGED same PROVE ErasedSoFar' /\ CompletedMeansErased' BY <1>1, NothingErased
 <1>2. ASSUME NEW p \in Requests, LogRecord(p)
       PROVE  ErasedSoFar' /\ CompletedMeansErased'
   BY <1>2, NothingErased, LogCompletesNothing DEF LogRecord
 <1>3. ASSUME NEW s \in Sweeps, Erase(s)
       PROVE  ErasedSoFar' /\ CompletedMeansErased'
   BY <1>3, EraseKeepsErased
 <1>4. ASSUME NEW s \in Sweeps, EraseFails(s) \/ SweepLost(s)
       PROVE  ErasedSoFar' /\ CompletedMeansErased'
  <2>1. /\ kept' = kept /\ records' = records /\ at[s] # None
        /\ Refused(s) \/ GiveUp(s)
    BY <1>4 DEF EraseFails, SweepLost
  <2>2. CASE GiveUp(s)
   <3>1. told \in [Sweeps -> BOOLEAN] BY DEF TypeOK
   <3>2. ~told'[s] /\ \A t \in Sweeps \ {s} : told'[t] = told[t] BY <2>2, <3>1 DEF GiveUp
   <3> QED BY <2>1, <2>2, <3>2, BeginningKeepsErased DEF GiveUp
  <2> QED BY <2>1, <2>2, RefusedKeepsErased
 <1>5. ASSUME NEW s \in Sweeps, NEW u \in Users, StartErasing(s, u)
       PROVE  ErasedSoFar' /\ CompletedMeansErased'
  <2>1. ~told[s] BY <1>5 DEF StartErasing, ErasedSoFar, NotedLater
  <2> QED BY <1>5, <2>1, BeginningKeepsErased DEF StartErasing
 <1>6. CASE UNCHANGED vars BY <1>1, <1>6 DEF vars
 <1>7. ASSUME NEW p \in Requests,
              (\E name \in Issued, u \in Users : Begin(p, name, u))
              \/ Write(p) \/ DropCopy(p) \/ RequestLost(p)
       PROVE  UNCHANGED same
   BY <1>7 DEF Begin, Write, DropCopy, RequestLost
 <1>8. ASSUME NEW s \in Sweeps, Select(s) PROVE UNCHANGED same BY <1>8 DEF Select
 <1>9. ASSUME NEW g \in Guards, GuardFill(g) \/ \E u \in Users : GuardMiss(g, u)
       PROVE  UNCHANGED same
   BY <1>9 DEF GuardFill, GuardMiss
 <1>10. ASSUME NEW u \in Users, CopyExpires(u) \/ OrderEnds(u) \/ GracePasses(u)
       PROVE  UNCHANGED same
   BY <1>10 DEF CopyExpires, OrderEnds, GracePasses
 <1> HIDE DEF same
 <1> QED
   BY <1>1, <1>2, <1>3, <1>4, <1>5, <1>6, <1>7, <1>8, <1>9, <1>10
   DEF Next, RunRequest, RunSweep

(* With any number of sweeps and any failures and losses between the writes,
   a record is closed last, by a sweep that did every step: it is proof of
   all of them but a refused identity, which it reports, and a refused face,
   which it does not. *)
THEOREM CompletedIsProof == Spec => []CompletedMeansErased
 <1>1. Spec => [](ErasedSoFar /\ CompletedMeansErased)
   BY TypeCorrect, InitErased, NextKeepsErased, PTL DEF Spec
 <1> QED BY <1>1, PTL

(* Shapes are kept, and a closed record proves what it can, whatever fails. *)
THEOREM ErasureProved == Spec => []ErasureIsProof
 <1>1. TypeOK /\ CompletedMeansErased => ErasureIsProof BY DEF ErasureIsProof
 <1> QED BY <1>1, TypeCorrect, CompletedIsProof, PTL

-----------------------------------------------------------------------------
(* StaleOnlyInWindow for one user, so that a step can be argued user by
   user. *)
Window(u) ==
  \/ missed[u]
  \/ \E p \in Requests : pc[p] = "written" /\ target[p] = u
  \/ \E s \in Sweeps : at[s] = u /\ Step[step[s]] = "cache"

StaleOnly(u) == copy[u] # None /\ copy[u] # Current(u) => Window(u)

LEMMA StaleIs == StaleOnlyInWindow <=> \A u \in Users : StaleOnly(u)
  BY DEF StaleOnlyInWindow, StaleOnly, Window

(* A user whose document, copy and window a step leaves. *)
LEMMA LeftAlone ==
  ASSUME NEW u \in Users, StaleOnly(u),
         active'[u] = active[u], account'[u] = account[u], ended'[u] = ended[u],
         copy'[u] = copy[u], missed[u] => missed'[u],
         \A p \in Requests : pc[p] = "written" /\ target[p] = u
                             => pc'[p] = "written" /\ target'[p] = u,
         \A s \in Sweeps : at[s] = u /\ Step[step[s]] = "cache"
                           => at'[s] = u /\ Step[step'[s]] = "cache"
  PROVE  StaleOnly(u)'
  BY DEF StaleOnly, Window, Current

LEMMA RequestKeepsFresh ==
  ASSUME TypeOK, StaleOnlyInWindow, NEW p \in Requests,
         \/ \E name \in Issued, u \in Users : Begin(p, name, u)
         \/ RunRequest(p) \/ RequestLost(p),
         NEW u \in Users
  PROVE  StaleOnly(u)'
 <1>0. /\ StaleOnly(u)
       /\ pc \in [Requests -> {"idle", "checked", "written", "logging"}]
       /\ target \in [Requests -> Users] /\ op \in [Requests -> Mutation]
       /\ copy \in [Users -> Copy \cup {None}] /\ missed \in [Users -> BOOLEAN]
   BY StaleIs DEF TypeOK
 <1>1. ASSUME NEW name \in Issued, NEW v \in Users, Begin(p, name, v) PROVE StaleOnly(u)'
   BY <1>0, <1>1, LeftAlone DEF Begin
 <1>2. CASE Write(p)
  <2>1. /\ pc[p] = "checked" /\ copy' = copy /\ missed' = missed /\ target' = target
        /\ at' = at /\ step' = step
        /\ \A q \in Requests \ {p} : pc'[q] = pc[q]
    BY <1>0, <1>2 DEF Write
  <2>2. CASE target[p] = u /\ op[p] # "createOrder"
   <3>1. pc'[p] = "written" BY <1>0, <1>2, <2>2 DEF Write
   <3> QED BY <2>1, <2>2, <3>1 DEF StaleOnly, Window
  <2>3. CASE target[p] # u \/ op[p] = "createOrder"
   <3>1. active'[u] = active[u] /\ account'[u] = account[u] /\ ended'[u] = ended[u]
     BY <1>2, <2>3 DEF Write, WriteUser, TypeOK
   <3> QED BY <1>0, <2>1, <3>1, LeftAlone
  <2> QED BY <2>2, <2>3
 <1>3. CASE DropCopy(p)
  <2>1. CASE target[p] = u BY <1>0, <1>3, <2>1 DEF DropCopy, Invalidate, StaleOnly
  <2>2. CASE target[p] # u BY <1>0, <1>3, <2>2, LeftAlone DEF DropCopy, Invalidate
  <2> QED BY <2>1, <2>2
 <1>4. CASE LogRecord(p) BY <1>0, <1>4, LeftAlone DEF LogRecord
 <1>5. CASE RequestLost(p)
  <2>1. /\ UNCHANGED <<userVars, copy, target, sweepVars>>
        /\ \A q \in Requests \ {p} : pc'[q] = pc[q]
        /\ missed[u] => missed'[u]
    BY <1>0, <1>5 DEF RequestLost
  <2>2. CASE target[p] = u /\ pc[p] = "written"
   <3>1. missed'[u] BY <1>0, <1>5, <2>2 DEF RequestLost
   <3> QED BY <3>1 DEF StaleOnly, Window
  <2>3. CASE target[p] # u \/ pc[p] # "written" BY <1>0, <2>1, <2>3, LeftAlone
  <2> QED BY <2>2, <2>3
 <1> QED BY <1>1, <1>2, <1>3, <1>4, <1>5 DEF RunRequest

LEMMA SweepKeepsFresh ==
  ASSUME TypeOK, StaleOnlyInWindow, NEW s \in Sweeps, RunSweep(s) \/ EraseFails(s) \/ SweepLost(s),
         NEW u \in Users
  PROVE  StaleOnly(u)'
 <1>0. /\ StaleOnly(u) /\ Last = 11
       /\ at \in [Sweeps -> Users \cup {None}] /\ step \in [Sweeps -> 1 .. 11]
       /\ copy \in [Users -> Copy \cup {None}] /\ missed \in [Users -> BOOLEAN]
       /\ active \in [Users -> BOOLEAN] /\ account \in [Users -> AccountStatus]
   BY StaleIs, Steps DEF TypeOK
 <1>1. CASE Select(s) BY <1>0, <1>1, LeftAlone DEF Select
 <1>2. ASSUME NEW v \in Users, StartErasing(s, v) PROVE StaleOnly(u)'
  <2>1. at[s] # u BY <1>2, NoneIsNobody DEF StartErasing
  <2> QED BY <1>0, <1>2, <2>1, LeftAlone DEF StartErasing
 <1>3. CASE Erase(s)
  <2>0. /\ UNCHANGED <<ended, requestVars>> /\ GoOn(s)
        /\ \A t \in Sweeps \ {s} : at'[t] = at[t] /\ step'[t] = step[t]
    BY <1>0, <1>3 DEF Erase, GoOn
  <2>1. CASE at[s] # u BY <1>0, <1>3, <2>0, <2>1, LeftAlone DEF Erase, Invalidate
  <2>2. CASE at[s] = u /\ step[s] = 1
   <3>1. at'[s] = u /\ step'[s] = 2 BY <1>0, <2>0, <2>2 DEF GoOn
   <3> QED BY <3>1, Steps DEF StaleOnly, Window
  <2>3. CASE at[s] = u /\ step[s] = 2 BY <1>0, <1>3, <2>3 DEF Erase, Invalidate, StaleOnly
  <2>4. CASE at[s] = u /\ step[s] \in 3 .. 11
   <3>1. Step[step[s]] # "cache" BY <2>4, Steps
   <3> QED BY <1>0, <1>3, <2>0, <2>4, <3>1, LeftAlone DEF Erase
  <2> QED BY <1>0, <2>1, <2>2, <2>3, <2>4
 <1>4. CASE EraseFails(s) \/ SweepLost(s)
  <2>0. /\ UNCHANGED <<userVars, copy, requestVars>>
        /\ (Refused(s) \/ GiveUp(s)) /\ at[s] \in Users
    BY <1>0, <1>4 DEF EraseFails, SweepLost
  <2>1. /\ \A t \in Sweeps \ {s} : at'[t] = at[t] /\ step'[t] = step[t]
        /\ missed[u] => missed'[u]
    BY <1>0, <2>0 DEF Refused, GiveUp, GoOn
  <2>2. CASE at[s] = u /\ Step[step[s]] = "cache"
   <3>1. GiveUp(s) BY <2>0, <2>2 DEF Refused, PassedOver
   <3>2. missed'[u] BY <1>0, <2>2, <3>1 DEF GiveUp
   <3> QED BY <3>2 DEF StaleOnly, Window
  <2>3. CASE at[s] # u \/ Step[step[s]] # "cache" BY <1>0, <2>0, <2>1, <2>3, LeftAlone
  <2> QED BY <2>2, <2>3
 <1> QED BY <1>1, <1>2, <1>3, <1>4 DEF RunSweep

LEMMA GuardKeepsFresh ==
  ASSUME TypeOK, StaleOnlyInWindow, NEW u \in Users,
         \/ \E g \in Guards : GuardFill(g) \/ \E v \in Users : GuardMiss(g, v)
         \/ \E v \in Users : CopyExpires(v) \/ OrderEnds(v) \/ GracePasses(v)
  PROVE  StaleOnly(u)'
 <1>0. /\ StaleOnly(u)
       /\ copy \in [Users -> Copy \cup {None}] /\ missed \in [Users -> BOOLEAN]
   BY StaleIs DEF TypeOK
 <1>1. ASSUME NEW g \in Guards, GuardFill(g) PROVE StaleOnly(u)'
  <2>1. UNCHANGED <<userVars, requestVars, sweepVars>> BY <1>1 DEF GuardFill
  <2>2. CASE fill[g].user = u
   <3>1. copy'[u] = fill[g].read /\ missed'[u] = (fill[g].read # Current(u))
     BY <1>0, <1>1, <2>2 DEF GuardFill
   <3>2. Current(u)' = Current(u) BY <2>1 DEF Current
   <3>3. CASE fill[g].read = Current(u) BY <3>1, <3>2, <3>3 DEF StaleOnly
   <3>4. CASE fill[g].read # Current(u)
    <4>1. missed'[u] BY <3>1, <3>4
    <4> QED BY <4>1 DEF StaleOnly, Window
   <3> QED BY <3>3, <3>4
  <2>3. CASE fill[g].user # u BY <1>0, <1>1, <2>1, <2>3, LeftAlone DEF GuardFill
  <2> QED BY <2>2, <2>3
 <1>2. ASSUME NEW g \in Guards, NEW v \in Users, GuardMiss(g, v) PROVE StaleOnly(u)'
   BY <1>0, <1>2, LeftAlone DEF GuardMiss
 <1>3. ASSUME NEW v \in Users, CopyExpires(v) PROVE StaleOnly(u)'
  <2>1. CASE v = u BY <1>0, <1>3, <2>1 DEF CopyExpires, StaleOnly
  <2>2. CASE v # u BY <1>0, <1>3, <2>2, LeftAlone DEF CopyExpires
  <2> QED BY <2>1, <2>2
 <1>4. ASSUME NEW v \in Users, OrderEnds(v) \/ GracePasses(v) PROVE StaleOnly(u)'
   BY <1>0, <1>4, LeftAlone DEF OrderEnds, GracePasses
 <1> QED BY <1>1, <1>2, <1>3, <1>4

(* A stale copy is one that a write has not invalidated yet, or whose
   invalidation was lost or overtaken: for any number of requests, sweeps
   and guards. *)
THEOREM StaleIsExplained == Spec => []StaleOnlyInWindow
 <1>1. Init => StaleOnlyInWindow BY DEF Init, StaleOnlyInWindow
 <1>2. TypeOK /\ StaleOnlyInWindow /\ [Next]_vars => StaleOnlyInWindow'
  <2> SUFFICES ASSUME TypeOK, StaleOnlyInWindow, [Next]_vars, NEW u \in Users
               PROVE  StaleOnly(u)'
    BY StaleIs DEF StaleOnlyInWindow, StaleOnly, Window
  <2>1. CASE UNCHANGED vars BY <2>1, StaleIs, LeftAlone DEF vars
  <2>2. CASE Next BY <2>2, RequestKeepsFresh, SweepKeepsFresh, GuardKeepsFresh DEF Next
  <2> QED BY <2>1, <2>2
 <1> QED BY <1>1, <1>2, TypeCorrect, PTL DEF Spec

-----------------------------------------------------------------------------
(* How an account comes to be. *)
Joining == {"email", "user", "consents", "shop", "commit"}
Inviting == {"save", "invite", "undo", "unlog"}

(* What an open registration has written, to be committed with the rest. *)
StagedSoFar(h) ==
  IF rgpc[h] \in {"email", "user"} THEN {}
  ELSE IF rgpc[h] = "consents" THEN {"user"}
  ELSE IF rgpc[h] = "shop" \/ rgrole[h] # "washer" THEN {"user", "consents"}
  ELSE RgParts \cup {"user"}

(* Who registers has a login, or lost it on record; of those who have written
   for one identity, which has no account yet, there is one. *)
JoiningFits(h, u) ==
  /\ rgrole[h] \in {"customer", "washer"}
  /\ rgLogin[u] # NoEmail \/ u \in rgCut
  /\ u \in rgSelf \cup rgCut
  /\ rgstaged[h] = StagedSoFar(h)
  /\ rgpc[h] = "shop" => rgrole[h] = "washer"
  /\ rgstaged[h] # {} =>
       /\ rgUser[u] = NoEmail
       /\ \A g \in RgRequests : g # h /\ rguid[g] = {u} => rgstaged[g] = {}

(* An invitation has its identity to itself until it undoes the login, unless
   the identity is marked; and it stands where its step says. *)
InvitingFits(h, u) ==
  /\ rgrole[h] \in {"staff", "admin"} /\ rgstaged[h] = {}
  /\ u \notin rgSelf /\ (u \in rgInvited => u \in rgCut)
  /\ \A g \in RgRequests : g # h /\ rguid[g] = {u} => rgpc[h] = "unlog" /\ u \in rgCut
  /\ rgpc[h] # "unlog" => rgLogin[u] # NoEmail
  /\ rgpc[h] = "save" => rgUser[u] = NoEmail /\ u \notin rgCut
  /\ rgpc[h] = "invite" => rgUser[u] # NoEmail /\ rgKind[u] = rgrole[h]
  /\ rgpc[h] = "undo" => rgrole[h] = "admin" /\ (rgKind[u] = "admin" \/ (rgKind[u] = "none" /\ u \notin rgCut))
  /\ rgpc[h] = "unlog" /\ u \notin rgCut => rgKind[u] \in {"none", "staff"}

RgAsked(h) ==
  IF rgpc[h] = "idle" THEN rguid[h] = {} /\ rgstaged[h] = {}
  ELSE \E u \in RgUids :
         /\ rguid[h] = {u} /\ rgmail[h] \in RgEmails
         /\ rgpc[h] \in Joining => JoiningFits(h, u)
         /\ rgpc[h] \in Inviting => InvitingFits(h, u)

(* An identity at rest. *)
UidFits(u) ==
  /\ rgUser[u] = NoEmail <=> rgKind[u] = "none"
  /\ rgUser[u] # NoEmail /\ ~Working(u) => rgLogin[u] # NoEmail \/ u \in rgCut
  /\ rgLogin[u] # NoEmail /\ ~Working(u) /\ u \notin rgSelf \cup rgCut => rgUser[u] # NoEmail
  /\ rgKind[u] = "washer" => rgParts[u] = RgParts
  /\ rgKind[u] = "customer" => rgParts[u] = {"consents"}
  /\ rgKind[u] \notin {"washer", "customer"} => rgParts[u] = {}

RgInv ==
  /\ RgTypeOK
  /\ \A h \in RgRequests : RgAsked(h)
  /\ \A u \in RgUids : UidFits(u)
  /\ ReportedIsInvited

LEMMA RgInvInit == RgInit => RgInv
 <1> SUFFICES ASSUME RgInit PROVE RgInv OBVIOUS
 <1>1. RgTypeOK
  <2>1. rgtwice \in [RgRequests -> BOOLEAN] BY DEF RgInit
  <2>2. /\ rgLogin \in [RgUids -> RgEmails \cup {NoEmail}] /\ rgUser \in [RgUids -> RgEmails \cup {NoEmail}]
        /\ rgKind \in [RgUids -> RgKinds] /\ rgParts \in [RgUids -> SUBSET RgParts]
        /\ rguid \in [RgRequests -> SUBSET RgUids] /\ rgmail \in [RgRequests -> RgEmails \cup {NoEmail}]
        /\ rgrole \in [RgRequests -> RgKinds] /\ rgstaged \in [RgRequests -> SUBSET (RgParts \cup {"user"})]
    BY DEF RgInit, RgKinds
  <2>3. rgCalls \in 0..RgMostCalls /\ rgMishaps \in 0..RgMostMishaps BY RgAssumption DEF RgInit
  <2> QED BY <2>1, <2>2, <2>3 DEF RgInit, RgTypeOK
 <1>2. \A h \in RgRequests : RgAsked(h) BY DEF RgInit, RgAsked
 <1>3. (\A u \in RgUids : UidFits(u)) /\ ReportedIsInvited BY DEF RgInit, UidFits, ReportedIsInvited
 <1> QED BY <1>1, <1>2, <1>3 DEF RgInv

(* Steps of a request. *)
RgRests(g) ==
  /\ rgpc'[g] = rgpc[g] /\ rguid'[g] = rguid[g] /\ rgmail'[g] = rgmail[g]
  /\ rgrole'[g] = rgrole[g] /\ rgstaged'[g] = rgstaged[g]

RgRequestTyped ==
  /\ rgpc \in [RgRequests -> Joining \cup Inviting \cup {"idle"}]
  /\ rguid \in [RgRequests -> SUBSET RgUids]
  /\ rgmail \in [RgRequests -> RgEmails \cup {NoEmail}]
  /\ rgrole \in [RgRequests -> RgKinds]
  /\ rgtwice \in [RgRequests -> BOOLEAN]
  /\ rgstaged \in [RgRequests -> SUBSET (RgParts \cup {"user"})]

LEMMA RgTypes ==
  RgTypeOK <=>
    /\ RgRequestTyped
    /\ rgLogin \in [RgUids -> RgEmails \cup {NoEmail}]
    /\ rgUser \in [RgUids -> RgEmails \cup {NoEmail}]
    /\ rgKind \in [RgUids -> RgKinds]
    /\ rgParts \in [RgUids -> SUBSET RgParts]
    /\ rgCalls \in 0..RgMostCalls /\ rgMishaps \in 0..RgMostMishaps
    /\ rgSelf \subseteq RgUids /\ rgInvited \subseteq RgUids
    /\ rgReported \subseteq RgUids /\ rgCut \subseteq RgUids
 <1>1. {"idle", "email", "user", "consents", "shop", "commit", "save", "invite", "undo", "unlog"}
         = Joining \cup Inviting \cup {"idle"}
   BY DEF Joining, Inviting
 <1> QED BY <1>1 DEF RgTypeOK, RgRequestTyped

LEMMA RgTypesThen ==
  ASSUME RgRequestTyped',
         rgLogin' \in [RgUids -> RgEmails \cup {NoEmail}],
         rgUser' \in [RgUids -> RgEmails \cup {NoEmail}],
         rgKind' \in [RgUids -> RgKinds],
         rgParts' \in [RgUids -> SUBSET RgParts],
         rgCalls' \in 0..RgMostCalls, rgMishaps' \in 0..RgMostMishaps,
         rgSelf' \subseteq RgUids, rgInvited' \subseteq RgUids,
         rgReported' \subseteq RgUids, rgCut' \subseteq RgUids
  PROVE  RgTypeOK'
 <1>1. {"idle", "email", "user", "consents", "shop", "commit", "save", "invite", "undo", "unlog"}
         = Joining \cup Inviting \cup {"idle"}
   BY DEF Joining, Inviting
 <1> QED BY <1>1 DEF RgTypeOK, RgRequestTyped

LEMMA RgEnds ==
  ASSUME RgRequestTyped, NEW h \in RgRequests, RgDone(h)
  PROVE  /\ rgpc'[h] = "idle" /\ rguid'[h] = {} /\ rgstaged'[h] = {}
         /\ \A g \in RgRequests \ {h} : RgRests(g)
         /\ RgRequestTyped' /\ RgAsked(h)'
 <1>1. /\ rgpc'[h] = "idle" /\ rguid'[h] = {} /\ rgstaged'[h] = {}
       /\ \A g \in RgRequests \ {h} : RgRests(g)
   BY DEF RgRequestTyped, RgDone, RgRests
 <1>2. rgtwice' \in [RgRequests -> BOOLEAN] BY DEF RgRequestTyped, RgDone
 <1>3. rgrole' \in [RgRequests -> RgKinds] BY DEF RgRequestTyped, RgDone, RgKinds
 <1>4. /\ rgpc' \in [RgRequests -> Joining \cup Inviting \cup {"idle"}]
       /\ rguid' \in [RgRequests -> SUBSET RgUids] /\ rgmail' \in [RgRequests -> RgEmails \cup {NoEmail}]
       /\ rgstaged' \in [RgRequests -> SUBSET (RgParts \cup {"user"})]
   BY DEF RgRequestTyped, RgDone
 <1> QED BY <1>1, <1>2, <1>3, <1>4 DEF RgRequestTyped, RgAsked

LEMMA RgGoesOn ==
  ASSUME RgRequestTyped, NEW h \in RgRequests, NEW spot \in Joining \cup Inviting, RgGoto(h, spot),
         NEW staged \in SUBSET (RgParts \cup {"user"}),
         (rgstaged' = rgstaged /\ staged = rgstaged[h]) \/ rgstaged' = [rgstaged EXCEPT ![h] = staged]
  PROVE  /\ rgpc'[h] = spot /\ rguid'[h] = rguid[h] /\ rgmail'[h] = rgmail[h] /\ rgrole'[h] = rgrole[h]
         /\ rgstaged'[h] = staged
         /\ \A g \in RgRequests \ {h} : RgRests(g)
         /\ RgRequestTyped'
 <1>1. /\ rgpc'[h] = spot /\ rguid'[h] = rguid[h] /\ rgmail'[h] = rgmail[h] /\ rgrole'[h] = rgrole[h]
       /\ rgstaged'[h] = staged
       /\ \A g \in RgRequests \ {h} : RgRests(g)
   BY DEF RgRequestTyped, RgGoto, RgRests
 <1>2. rgtwice' \in [RgRequests -> BOOLEAN] BY DEF RgRequestTyped, RgGoto
 <1>3. /\ rgpc' \in [RgRequests -> Joining \cup Inviting \cup {"idle"}]
       /\ rguid' \in [RgRequests -> SUBSET RgUids] /\ rgmail' \in [RgRequests -> RgEmails \cup {NoEmail}]
       /\ rgrole' \in [RgRequests -> RgKinds]
       /\ rgstaged' \in [RgRequests -> SUBSET (RgParts \cup {"user"})]
   BY DEF RgRequestTyped, RgGoto
 <1> QED BY <1>1, <1>2, <1>3 DEF RgRequestTyped

LEMMA RgStarts ==
  ASSUME RgRequestTyped, NEW h \in RgRequests, NEW spot \in Joining \cup Inviting, NEW u \in RgUids,
         NEW e \in RgEmails, NEW role \in RgKinds, NEW twice \in BOOLEAN,
         RgBegin(h, spot, u, e, role, twice), rgstaged' = rgstaged
  PROVE  /\ rgpc[h] = "idle" /\ rgpc'[h] = spot /\ rguid'[h] = {u} /\ rgmail'[h] = e /\ rgrole'[h] = role
         /\ rgstaged'[h] = rgstaged[h]
         /\ \A g \in RgRequests \ {h} : RgRests(g)
         /\ RgRequestTyped'
 <1>1. /\ rgpc[h] = "idle" /\ rgpc'[h] = spot /\ rguid'[h] = {u} /\ rgmail'[h] = e /\ rgrole'[h] = role
       /\ rgstaged'[h] = rgstaged[h]
       /\ \A g \in RgRequests \ {h} : RgRests(g)
   BY DEF RgRequestTyped, RgBegin, RgRests
 <1>2. rgtwice' \in [RgRequests -> BOOLEAN] BY DEF RgRequestTyped, RgBegin
 <1>3. /\ rgpc' \in [RgRequests -> Joining \cup Inviting \cup {"idle"}]
       /\ rguid' \in [RgRequests -> SUBSET RgUids] /\ rgmail' \in [RgRequests -> RgEmails \cup {NoEmail}]
       /\ rgrole' \in [RgRequests -> RgKinds]
       /\ rgstaged' \in [RgRequests -> SUBSET (RgParts \cup {"user"})]
   BY DEF RgRequestTyped, RgBegin
 <1> QED BY <1>1, <1>2, <1>3 DEF RgRequestTyped

(* What a step leaves alone. *)
UidRests(u) ==
  /\ rgLogin'[u] = rgLogin[u] /\ rgUser'[u] = rgUser[u] /\ rgKind'[u] = rgKind[u] /\ rgParts'[u] = rgParts[u]
  /\ u \in rgCut' <=> u \in rgCut
  /\ u \in rgSelf' <=> u \in rgSelf
  /\ u \in rgInvited' <=> u \in rgInvited

(* A request whose identity a step has left alone. *)
LEMMA OtherAsked ==
  ASSUME RgInv, NEW h \in RgRequests, \A k \in RgRequests \ {h} : RgRests(k),
         NEW g \in RgRequests \ {h}, \A u \in rguid[g] : UidRests(u),
         \A u \in rguid[g] : rguid'[h] = {u} =>
           rguid[h] = {u} /\ (rgstaged[h] = {} => rgstaged'[h] = {})
  PROVE  RgAsked(g)'
 <1>0. RgAsked(g) /\ RgRests(g) BY DEF RgInv
 <1>1. CASE rgpc[g] = "idle" BY <1>0, <1>1 DEF RgAsked, RgRests
 <1>2. CASE rgpc[g] # "idle"
  <2>1. PICK u \in RgUids :
          /\ rguid[g] = {u} /\ rgmail[g] \in RgEmails
          /\ rgpc[g] \in Joining => JoiningFits(g, u)
          /\ rgpc[g] \in Inviting => InvitingFits(g, u)
    BY <1>0, <1>2 DEF RgAsked
  <2>2. UidRests(u) BY <2>1
  <2>3. \A k \in RgRequests : k # g /\ rguid'[k] = {u} =>
          rguid[k] = {u} /\ (rgstaged[k] = {} => rgstaged'[k] = {})
   <3> SUFFICES ASSUME NEW k \in RgRequests, k # g, rguid'[k] = {u}
                PROVE  rguid[k] = {u} /\ (rgstaged[k] = {} => rgstaged'[k] = {})
     OBVIOUS
   <3>1. CASE k = h BY <3>1, <2>1
   <3>2. CASE k # h
    <4>1. RgRests(k) BY <3>2
    <4> QED BY <4>1 DEF RgRests
   <3> QED BY <3>1, <3>2
  <2>4. StagedSoFar(g)' = StagedSoFar(g) BY <1>0 DEF StagedSoFar, RgRests
  <2>5. rgpc[g] \in Joining => JoiningFits(g, u)' BY <2>1, <2>2, <2>3, <2>4, <1>0 DEF JoiningFits, RgRests, UidRests
  <2>6. rgpc[g] \in Inviting => InvitingFits(g, u)' BY <2>1, <2>2, <2>3, <1>0 DEF InvitingFits, RgRests, UidRests
  <2> QED BY <1>0, <1>2, <2>1, <2>5, <2>6 DEF RgAsked, RgRests
 <1> QED BY <1>1, <1>2

LEMMA UidStands ==
  ASSUME NEW u, UidFits(u), UidRests(u), Working(u) => Working(u)'
  PROVE  UidFits(u)'
  BY DEF UidFits, UidRests

(* A step of one request on one identity: what is to be shown of both. *)
LEMMA OneIdentityMoves ==
  ASSUME RgInv, NEW h \in RgRequests, NEW u, \A k \in RgRequests \ {h} : RgRests(k),
         rguid[h] \subseteq {u}, rguid'[h] \subseteq {u}, \A v \in RgUids : v # u => UidRests(v),
         RgTypeOK', RgAsked(h)', UidFits(u)', ReportedIsInvited',
         \A g \in RgRequests \ {h} : rguid[g] = {u} => RgAsked(g)'
  PROVE  RgInv'
 <1>1. \A g \in RgRequests : RgAsked(g)'
  <2> SUFFICES ASSUME NEW g \in RgRequests, g # h, rguid[g] # {u} PROVE RgAsked(g)' OBVIOUS
  <2>1. \A v \in rguid[g] : v # u /\ v \in RgUids BY DEF RgInv, RgAsked
  <2> QED BY <2>1, OtherAsked
 <1>2. \A v \in RgUids : UidFits(v)'
  <2> SUFFICES ASSUME NEW v \in RgUids, v # u PROVE UidFits(v)' OBVIOUS
  <2>1. UidFits(v) /\ UidRests(v) BY DEF RgInv
  <2>2. Working(v) => Working(v)'
   <3> SUFFICES ASSUME NEW k \in RgRequests, v \in rguid[k] PROVE Working(v)' BY DEF Working
   <3>1. k # h OBVIOUS
   <3>2. RgRests(k) BY <3>1
   <3> QED BY <3>2 DEF RgRests, Working
  <2> QED BY <2>1, <2>2, UidStands
 <1> QED BY <1>1, <1>2 DEF RgInv

(* What a request in progress has in hand. *)
LEMMA IdentityInHand ==
  ASSUME RgInv, NEW h \in RgRequests, rgpc[h] # "idle"
  PROVE  \E u \in RgUids :
           /\ rguid[h] = {u} /\ rgmail[h] \in RgEmails /\ UidFits(u)
           /\ rgpc[h] \in Joining => JoiningFits(h, u)
           /\ rgpc[h] \in Inviting => InvitingFits(h, u)
           /\ rgUser[u] # NoEmail <=> rgKind[u] # "none"
           /\ rgLogin[u] \in RgEmails \cup {NoEmail} /\ rgKind[u] \in RgKinds
 <1>1. PICK u \in RgUids :
          /\ rguid[h] = {u} /\ rgmail[h] \in RgEmails
          /\ rgpc[h] \in Joining => JoiningFits(h, u)
          /\ rgpc[h] \in Inviting => InvitingFits(h, u)
   BY DEF RgInv, RgAsked
 <1>2. UidFits(u) BY DEF RgInv
 <1>3. rgLogin[u] \in RgEmails \cup {NoEmail} /\ rgKind[u] \in RgKinds BY DEF RgInv, RgTypeOK
 <1>4. rgUser[u] # NoEmail <=> rgKind[u] # "none" BY <1>2 DEF UidFits
 <1> QED BY <1>1, <1>2, <1>3, <1>4

(* A request that ends and has written nothing. *)
LEMMA GivesUp ==
  ASSUME RgInv, NEW h \in RgRequests, rgpc[h] \in Joining, RgDone(h),
         UNCHANGED <<rgLogin, rgUser, rgKind, rgParts, rgSelf, rgInvited, rgReported, rgCut>>,
         rgCalls' \in 0..RgMostCalls, rgMishaps' \in 0..RgMostMishaps
  PROVE  RgInv'
 <1>0. rgpc[h] # "idle" /\ RgRequestTyped BY RgTypes DEF Joining, RgInv
 <1>1. PICK u \in RgUids :
          /\ rguid[h] = {u} /\ rgmail[h] \in RgEmails /\ UidFits(u)
          /\ rgpc[h] \in Joining => JoiningFits(h, u)
          /\ rgUser[u] # NoEmail <=> rgKind[u] # "none"
   BY <1>0, IdentityInHand
 <1>2. /\ rgpc'[h] = "idle" /\ rguid'[h] = {} /\ rgstaged'[h] = {}
       /\ \A g \in RgRequests \ {h} : RgRests(g)
       /\ RgRequestTyped' /\ RgAsked(h)'
   BY <1>0, RgEnds
 <1>3. RgTypeOK' BY <1>2, RgTypesThen DEF RgInv, RgTypeOK
 <1>4. \A v : UidRests(v) BY DEF UidRests
 <1>5. UidFits(u)' BY <1>1 DEF UidFits, JoiningFits
 <1>6. ReportedIsInvited' BY DEF RgInv, ReportedIsInvited
 <1>7. \A g \in RgRequests \ {h} : RgAsked(g)' BY <1>2, <1>4, OtherAsked
 <1> QED BY <1>1, <1>2, <1>3, <1>4, <1>5, <1>6, <1>7, OneIdentityMoves

(* register. *)
LEMMA BeginRegisterKept ==
  ASSUME RgInv, NEW h \in RgRequests, NEW u \in RgUids, NEW role \in {"customer", "washer"}, NEW twice \in BOOLEAN,
         BeginRegister(h, u, role, twice)
  PROVE  RgInv'
 <1>d. /\ rgLogin[u] # NoEmail /\ rgUser[u] = NoEmail /\ u \in rgSelf \cup rgInvited \cup rgCut
       /\ RgBegin(h, "email", u, rgLogin[u], role, twice) /\ rgstaged' = rgstaged
       /\ rgCalls < RgMostCalls /\ rgCalls' = rgCalls + 1
       /\ UNCHANGED <<rgLogin, rgUser, rgKind, rgParts, rgMishaps, rgSelf, rgInvited, rgReported, rgCut>>
   BY DEF BeginRegister, RgBegin, rgStored, rgHistory
 <1>t. RgTypeOK /\ RgRequestTyped BY RgTypes DEF RgInv
 <1>e. rgLogin[u] \in RgEmails /\ role \in RgKinds BY <1>d, <1>t DEF RgTypeOK, RgKinds
 <1>1. /\ rgpc[h] = "idle" /\ rgpc'[h] = "email" /\ rguid'[h] = {u} /\ rgmail'[h] = rgLogin[u] /\ rgrole'[h] = role
       /\ rgstaged'[h] = rgstaged[h]
       /\ \A g \in RgRequests \ {h} : RgRests(g)
       /\ RgRequestTyped'
  <2>1. "email" \in Joining \cup Inviting BY DEF Joining
  <2> QED BY <2>1, <1>d, <1>e, <1>t, RgStarts
 <1>2. rguid[h] = {} /\ rgstaged[h] = {} BY <1>1 DEF RgInv, RgAsked
 <1>3. RgTypeOK'
  <2>1. rgCalls' \in 0..RgMostCalls BY <1>d, <1>t, RgAssumption DEF RgTypeOK
  <2> QED BY <2>1, <1>1, <1>d, <1>t, RgTypesThen DEF RgTypeOK
 <1>4. \A v : UidRests(v) BY <1>d DEF UidRests
 <1>5. UidFits(u) BY DEF RgInv
 <1>6. UidFits(u)'
  <2>1. Working(u)' BY <1>1 DEF Working
  <2> QED BY <2>1, <1>5, <1>4, UidStands
 <1>7. ReportedIsInvited' BY <1>d DEF RgInv, ReportedIsInvited
 (* Whoever else works on the identity registers it too, or is undoing its login. *)
 <1>8. ASSUME NEW g \in RgRequests \ {h}, rguid[g] = {u}
       PROVE  /\ RgAsked(g)' /\ (rgpc[g] \in Inviting => rgpc[g] = "unlog" /\ u \in rgCut)
              /\ u \in rgSelf \cup rgCut
  <2>1. RgAsked(g) /\ RgRests(g) /\ rgpc[g] # "idle" BY <1>1, <1>8 DEF RgInv, RgAsked
  <2>2. /\ rgmail[g] \in RgEmails /\ rgpc[g] \in Joining \cup Inviting
        /\ rgpc[g] \in Joining => JoiningFits(g, u)
        /\ rgpc[g] \in Inviting => InvitingFits(g, u)
    BY <2>1, <1>8, <1>t DEF RgAsked, RgRequestTyped
  <2>3. rgpc[g] \in Inviting => rgpc[g] = "unlog" /\ u \in rgCut
   <3> SUFFICES ASSUME rgpc[g] \in Inviting PROVE rgpc[g] = "unlog" /\ u \in rgCut OBVIOUS
   <3>1. InvitingFits(g, u) /\ u \in rgCut BY <2>2, <1>d DEF InvitingFits
   <3>2. rgKind[u] = "none" BY <1>d, <1>5 DEF UidFits
   <3> QED BY <3>1, <3>2, <1>d DEF InvitingFits, Inviting
  <2>4. u \in rgSelf \cup rgCut BY <2>2, <2>3 DEF JoiningFits
  <2>5. RgAsked(g)'
   <3>1. rgpc[g] \in Joining => JoiningFits(g, u)'
    <4>1. StagedSoFar(g)' = StagedSoFar(g) BY <2>1 DEF StagedSoFar, RgRests
    <4>2. \A k \in RgRequests : k # g /\ rguid'[k] = {u} => rgstaged'[k] = {} \/ (rguid[k] = {u} /\ rgstaged'[k] = rgstaged[k])
      BY <1>1, <1>2 DEF RgRests
    <4> QED BY <4>1, <4>2, <2>1, <2>2, <1>d DEF JoiningFits, RgRests
   <3>2. rgpc[g] \in Inviting => InvitingFits(g, u)' BY <2>1, <2>2, <2>3, <1>d DEF InvitingFits, RgRests
   <3> QED BY <2>1, <2>2, <1>8, <3>1, <3>2 DEF RgAsked, RgRests
  <2> QED BY <2>3, <2>4, <2>5
 <1>9. u \in rgSelf \cup rgCut
  <2>1. CASE Working(u)
   <3>1. PICK g \in RgRequests : u \in rguid[g] BY <2>1 DEF Working
   <3>2. g # h /\ rguid[g] = {u} BY <3>1, <1>2 DEF RgInv, RgAsked
   <3> QED BY <3>2, <1>8
  <2>2. CASE ~Working(u) BY <2>2, <1>d, <1>5 DEF UidFits
  <2> QED BY <2>1, <2>2
 <1>10. RgAsked(h)'
  <2>1. JoiningFits(h, u)' BY <1>1, <1>2, <1>9, <1>d DEF JoiningFits, StagedSoFar
  <2> QED BY <2>1, <1>1, <1>e DEF RgAsked, Inviting
 <1> QED BY <1>1, <1>2, <1>3, <1>4, <1>6, <1>7, <1>8, <1>10, OneIdentityMoves

(* A registration that goes on, with what it has written so far. *)
LEMMA JoiningGoesOn ==
  ASSUME RgInv, NEW h \in RgRequests, rgpc[h] \in {"email", "consents", "shop"}, NEW spot \in {"user", "shop", "commit"},
         RgGoto(h, spot),
         UNCHANGED <<rgLogin, rgUser, rgKind, rgParts, rgCalls, rgMishaps, rgSelf, rgInvited, rgReported, rgCut>>,
         NEW staged \in SUBSET (RgParts \cup {"user"}),
         (rgstaged' = rgstaged /\ staged = rgstaged[h]) \/ rgstaged' = [rgstaged EXCEPT ![h] = staged],
         rgstaged[h] = {} => staged = {},
         spot = "shop" => rgrole[h] = "washer", staged = StagedSoFar(h)'
  PROVE  RgInv'
 <1>0. rgpc[h] \in Joining /\ rgpc[h] # "idle" /\ spot \in Joining BY DEF Joining
 <1>t. RgTypeOK /\ RgRequestTyped BY RgTypes DEF RgInv
 <1>1. PICK u \in RgUids :
          /\ rguid[h] = {u} /\ rgmail[h] \in RgEmails /\ UidFits(u)
          /\ rgpc[h] \in Joining => JoiningFits(h, u)
   BY <1>0, IdentityInHand
 <1>2. /\ rgpc'[h] = spot /\ rguid'[h] = rguid[h] /\ rgmail'[h] = rgmail[h] /\ rgrole'[h] = rgrole[h]
       /\ rgstaged'[h] = staged
       /\ \A g \in RgRequests \ {h} : RgRests(g)
       /\ RgRequestTyped'
   BY <1>0, <1>t, RgGoesOn
 <1>3. RgTypeOK' BY <1>2, <1>t, RgTypesThen DEF RgTypeOK
 <1>4. \A v : UidRests(v) BY DEF UidRests
 <1>5. UidFits(u)'
  <2>1. Working(u)' BY <1>1, <1>2 DEF Working
  <2> QED BY <2>1, <1>1, <1>4, UidStands
 <1>6. ReportedIsInvited' BY DEF RgInv, ReportedIsInvited
 <1>7. \A g \in RgRequests \ {h} : RgAsked(g)' BY <1>1, <1>2, <1>4, OtherAsked
 <1>8. RgAsked(h)'
  <2>1. \A g \in RgRequests \ {h} : rguid'[g] = {u} /\ rgstaged[h] # {} => rgstaged'[g] = {}
    BY <1>0, <1>1, <1>2 DEF JoiningFits, RgRests
  <2>2. JoiningFits(h, u)' BY <1>0, <1>1, <1>2, <2>1 DEF JoiningFits
  <2> QED BY <2>2, <1>0, <1>1, <1>2 DEF RgAsked, Inviting, Joining
 <1> QED BY <1>1, <1>2, <1>3, <1>4, <1>5, <1>6, <1>7, <1>8, OneIdentityMoves

LEMMA RegisterStepsKept ==
  ASSUME RgInv, NEW h \in RgRequests, CheckEmail(h) \/ StageConsents(h) \/ StageShop(h)
  PROVE  RgInv'
 <1>t. RgTypeOK /\ RgRequestTyped BY RgTypes DEF RgInv
 <1>p. rgpc[h] \in {"email", "consents", "shop"} /\ rgpc[h] \in Joining /\ rgpc[h] # "idle"
   BY DEF CheckEmail, StageConsents, StageShop, Joining
 <1>u. UNCHANGED <<rgLogin, rgUser, rgKind, rgParts, rgCalls, rgMishaps, rgSelf, rgInvited, rgReported, rgCut>>
   BY DEF CheckEmail, StageConsents, StageShop, rgStored, rgBounds, rgHistory
 <1>b. rgCalls' \in 0..RgMostCalls /\ rgMishaps' \in 0..RgMostMishaps BY <1>u, <1>t DEF RgTypeOK
 <1>1. PICK u \in RgUids : JoiningFits(h, u) BY <1>p, IdentityInHand
 <1>s. /\ rgstaged[h] = StagedSoFar(h) /\ rgrole[h] \in {"customer", "washer"}
       /\ rgpc[h] = "shop" => rgrole[h] = "washer"
   BY <1>1 DEF JoiningFits
 <1>2. CASE RgDone(h) BY <1>2, <1>p, <1>u, <1>b, GivesUp
 <1>3. CASE ~RgDone(h)
  <2>1. CASE rgpc[h] = "email"
   <3>1. RgGoto(h, "user") /\ rgstaged' = rgstaged
     BY <2>1, <1>3 DEF CheckEmail, StageConsents, StageShop
   <3>2. rgstaged[h] = {} /\ StagedSoFar(h)' = {}
     BY <2>1, <3>1, <1>s, <1>t DEF StagedSoFar, RgGoto, RgRequestTyped
   <3> QED BY <3>1, <3>2, <1>p, <1>u, JoiningGoesOn
  <2>2. CASE rgpc[h] = "consents"
   <3>1. RgGoto(h, IF rgrole[h] = "washer" THEN "shop" ELSE "commit")
         /\ rgstaged' = [rgstaged EXCEPT ![h] = @ \cup {"consents"}]
     BY <2>2, <1>3 DEF CheckEmail, StageConsents, StageShop
   <3>2. PICK spot \in {"shop", "commit"} : spot = IF rgrole[h] = "washer" THEN "shop" ELSE "commit" OBVIOUS
   <3>3. rgstaged[h] = {"user"} BY <2>2, <1>s DEF StagedSoFar
   <3>4. rgpc'[h] = spot /\ rgrole'[h] = rgrole[h] BY <3>1, <3>2, <1>t DEF RgGoto, RgRequestTyped
   <3>5. StagedSoFar(h)' = {"user", "consents"} BY <3>2, <3>4, <1>s DEF StagedSoFar
   <3>6. {"user", "consents"} \in SUBSET (RgParts \cup {"user"}) BY DEF RgParts
   <3>7. rgstaged' = [rgstaged EXCEPT ![h] = {"user", "consents"}] BY <3>1, <3>3, <1>t DEF RgRequestTyped
   <3> QED BY <3>1, <3>2, <3>3, <3>5, <3>6, <3>7, <1>p, <1>u, JoiningGoesOn
  <2>3. CASE rgpc[h] = "shop"
   <3>1. RgGoto(h, "commit") /\ rgstaged' = [rgstaged EXCEPT ![h] = @ \cup {"branch", "profile", "wallet"}]
     BY <2>3, <1>3 DEF CheckEmail, StageConsents, StageShop
   <3>3. rgstaged[h] = {"user", "consents"} BY <2>3, <1>s DEF StagedSoFar
   <3>4. rgpc'[h] = "commit" /\ rgrole'[h] = "washer" BY <2>3, <3>1, <1>s, <1>t DEF RgGoto, RgRequestTyped
   <3>5. StagedSoFar(h)' = RgParts \cup {"user"} BY <3>4 DEF StagedSoFar
   <3>6. {"user", "consents"} \cup {"branch", "profile", "wallet"} = RgParts \cup {"user"} BY DEF RgParts
   <3>7. rgstaged' = [rgstaged EXCEPT ![h] = RgParts \cup {"user"}] BY <3>1, <3>3, <3>6, <1>t DEF RgRequestTyped
   <3> QED BY <3>1, <3>3, <3>5, <3>7, <1>p, <1>u, JoiningGoesOn
  <2> QED BY <2>1, <2>2, <2>3, <1>p
 <1> QED BY <1>2, <1>3

(* The document is written first, by one request at a time. *)
LEMMA StageUserKept ==
  ASSUME RgInv, NEW h \in RgRequests, StageUser(h)
  PROVE  RgInv'
 <1>t. RgTypeOK /\ RgRequestTyped BY RgTypes DEF RgInv
 <1>p. rgpc[h] = "user" /\ rgpc[h] \in Joining /\ rgpc[h] # "idle" BY DEF StageUser, Joining
 <1>u. UNCHANGED <<rgLogin, rgUser, rgKind, rgParts, rgCalls, rgMishaps, rgSelf, rgInvited, rgReported, rgCut>>
   BY DEF StageUser, rgStored, rgBounds, rgHistory
 <1>b. rgCalls' \in 0..RgMostCalls /\ rgMishaps' \in 0..RgMostMishaps BY <1>u, <1>t DEF RgTypeOK
 <1>1. PICK u \in RgUids :
          /\ rguid[h] = {u} /\ rgmail[h] \in RgEmails /\ UidFits(u)
          /\ rgpc[h] \in Joining => JoiningFits(h, u)
   BY <1>p, IdentityInHand
 <1>2. CASE RgDone(h) BY <1>2, <1>p, <1>u, <1>b, GivesUp
 <1>3. CASE ~RgDone(h)
  <2>1. /\ rgstaged' = [rgstaged EXCEPT ![h] = {"user"}] /\ RgGoto(h, "consents")
        /\ rgUser[u] = NoEmail
        /\ \A g \in RgRequests \ {h} : rguid[g] = {u} => rgstaged[g] = {}
    BY <1>1, <1>3 DEF StageUser
  <2>2. /\ rgpc'[h] = "consents" /\ rguid'[h] = rguid[h] /\ rgmail'[h] = rgmail[h] /\ rgrole'[h] = rgrole[h]
        /\ rgstaged'[h] = {"user"}
        /\ \A g \in RgRequests \ {h} : RgRests(g)
        /\ RgRequestTyped'
   <3>1. "consents" \in Joining \cup Inviting /\ {"user"} \in SUBSET (RgParts \cup {"user"}) BY DEF Joining
   <3> QED BY <3>1, <2>1, <1>t, RgGoesOn
  <2>3. RgTypeOK' BY <2>2, <1>u, <1>t, RgTypesThen DEF RgTypeOK
  <2>4. \A v : UidRests(v) BY <1>u DEF UidRests
  <2>5. UidFits(u)'
   <3>1. Working(u)' BY <1>1, <2>2 DEF Working
   <3> QED BY <3>1, <1>1, <2>4, UidStands
  <2>6. ReportedIsInvited' BY <1>u DEF RgInv, ReportedIsInvited
  <2>7. ASSUME NEW g \in RgRequests \ {h}, rguid[g] = {u} PROVE RgAsked(g)'
   <3>1. RgAsked(g) /\ RgRests(g) /\ rgpc[g] # "idle" BY <2>2, <2>7 DEF RgInv, RgAsked
   <3>2. /\ rgmail[g] \in RgEmails /\ rgpc[g] \in Joining \cup Inviting
         /\ rgpc[g] \in Joining => JoiningFits(g, u)
         /\ rgpc[g] \in Inviting => InvitingFits(g, u)
     BY <3>1, <2>7, <1>t DEF RgAsked, RgRequestTyped
   <3>3. rgpc[g] \in Joining => JoiningFits(g, u)'
    <4>1. StagedSoFar(g)' = StagedSoFar(g) BY <3>1 DEF StagedSoFar, RgRests
    <4>2. rgstaged'[g] = {} BY <2>1, <2>7, <3>1 DEF RgRests
    <4> QED BY <4>1, <4>2, <3>1, <3>2, <1>u DEF JoiningFits, RgRests
   <3>4. rgpc[g] \in Inviting => InvitingFits(g, u)'
    <4>1. \A k \in RgRequests : rguid'[k] = rguid[k] BY <2>2 DEF RgRests
    <4> QED BY <4>1, <3>1, <3>2, <1>u DEF InvitingFits, RgRests
   <3> QED BY <3>1, <3>2, <2>7, <3>3, <3>4 DEF RgAsked, RgRests
  <2>8. RgAsked(h)'
   <3>1. StagedSoFar(h)' = {"user"} BY <2>2 DEF StagedSoFar
   <3>2. \A g \in RgRequests : g # h /\ rguid'[g] = {u} => rgstaged'[g] = {} BY <2>1, <2>2 DEF RgRests
   <3>3. JoiningFits(h, u)' BY <3>1, <3>2, <2>1, <2>2, <1>p, <1>1, <1>u DEF JoiningFits
   <3> QED BY <3>3, <2>2, <1>1 DEF RgAsked, Inviting
  <2> QED BY <1>1, <2>2, <2>3, <2>4, <2>5, <2>6, <2>7, <2>8, OneIdentityMoves
 <1> QED BY <1>2, <1>3

(* The commit: whoever else registers the identity has written nothing. *)
LEMMA CommitKept ==
  ASSUME RgInv, NEW h \in RgRequests, CommitRegistration(h)
  PROVE  RgInv' /\ \E u \in RgUids : rgUser[u] = NoEmail /\ \A v \in RgUids : v # u => rgUser'[v] = rgUser[v]
 <1>t. RgTypeOK /\ RgRequestTyped BY RgTypes DEF RgInv
 <1>p. rgpc[h] = "commit" /\ rgpc[h] \in Joining /\ rgpc[h] # "idle" /\ RgDone(h) BY DEF CommitRegistration, Joining
 <1>u. UNCHANGED <<rgLogin, rgCalls, rgMishaps, rgSelf, rgInvited, rgReported, rgCut>>
   BY DEF CommitRegistration, rgBounds, rgHistory
 <1>1. PICK u \in RgUids :
          /\ rguid[h] = {u} /\ rgmail[h] \in RgEmails /\ UidFits(u)
          /\ rgpc[h] \in Joining => JoiningFits(h, u)
   BY <1>p, IdentityInHand
 <1>2. /\ rgUser' = [rgUser EXCEPT ![u] = rgmail[h]]
       /\ rgKind' = [rgKind EXCEPT ![u] = rgrole[h]]
       /\ rgParts' = [rgParts EXCEPT ![u] = @ \cup (rgstaged[h] \ {"user"})]
   BY <1>1 DEF CommitRegistration
 <1>3. /\ rgpc'[h] = "idle" /\ rguid'[h] = {} /\ rgstaged'[h] = {}
       /\ \A g \in RgRequests \ {h} : RgRests(g)
       /\ RgRequestTyped' /\ RgAsked(h)'
   BY <1>p, <1>t, RgEnds
 <1>4. JoiningFits(h, u) BY <1>1, <1>p
 <1>5. /\ rgstaged[h] = IF rgrole[h] = "washer" THEN RgParts \cup {"user"} ELSE {"user", "consents"}
       /\ rgUser[u] = NoEmail /\ rgrole[h] \in {"customer", "washer"}
       /\ \A g \in RgRequests : g # h /\ rguid[g] = {u} => rgstaged[g] = {}
   BY <1>4, <1>p DEF JoiningFits, StagedSoFar
 <1>6. rgKind[u] = "none" /\ rgParts[u] = {} BY <1>1, <1>5 DEF UidFits
 <1>7. rgstaged[h] \ {"user"} = IF rgrole[h] = "washer" THEN RgParts ELSE {"consents"}
   BY <1>5 DEF RgParts
 <1>8. /\ rgUser'[u] = rgmail[h] /\ rgKind'[u] = rgrole[h]
       /\ rgParts'[u] = IF rgrole[h] = "washer" THEN RgParts ELSE {"consents"}
   BY <1>2, <1>6, <1>7, <1>t DEF RgTypeOK
 <1>9. RgTypeOK'
  <2>1. rgUser' \in [RgUids -> RgEmails \cup {NoEmail}] BY <1>1, <1>2, <1>t DEF RgTypeOK
  <2>2. rgKind' \in [RgUids -> RgKinds] BY <1>2, <1>5, <1>t DEF RgTypeOK, RgKinds
  <2>3. rgParts' \in [RgUids -> SUBSET RgParts]
   <3>1. rgstaged[h] \ {"user"} \in SUBSET RgParts BY <1>7 DEF RgParts
   <3> QED BY <3>1, <1>2, <1>t DEF RgTypeOK
  <2> QED BY <2>1, <2>2, <2>3, <1>3, <1>u, <1>t, RgTypesThen DEF RgTypeOK
 <1>10. \A v \in RgUids : v # u => UidRests(v) /\ rgUser'[v] = rgUser[v] BY <1>2, <1>u, <1>t DEF UidRests, RgTypeOK
 <1>11. UidFits(u)'
  <2>1. rgLogin[u] # NoEmail \/ u \in rgCut BY <1>4 DEF JoiningFits
  <2>2. rgUser'[u] # NoEmail BY <1>8, <1>1, RgAssumption
  <2> QED BY <2>1, <2>2, <1>8, <1>5, <1>u DEF UidFits
 <1>12. ReportedIsInvited' BY <1>u DEF RgInv, ReportedIsInvited
 <1>13. ASSUME NEW g \in RgRequests \ {h}, rguid[g] = {u} PROVE RgAsked(g)'
  <2>1. RgAsked(g) /\ RgRests(g) /\ rgpc[g] # "idle" BY <1>3, <1>13 DEF RgInv, RgAsked
  <2>2. /\ rgmail[g] \in RgEmails /\ rgpc[g] \in Joining \cup Inviting
        /\ rgpc[g] \in Joining => JoiningFits(g, u)
        /\ rgpc[g] \in Inviting => InvitingFits(g, u)
    BY <2>1, <1>13, <1>t DEF RgAsked, RgRequestTyped
  <2>3. rgpc[g] \in Joining => JoiningFits(g, u)'
   <3>1. StagedSoFar(g)' = StagedSoFar(g) BY <2>1 DEF StagedSoFar, RgRests
   <3>2. rgstaged'[g] = {} BY <1>5, <1>13, <2>1 DEF RgRests
   <3> QED BY <3>1, <3>2, <2>1, <2>2, <1>u DEF JoiningFits, RgRests
  <2>4. rgpc[g] \in Inviting => InvitingFits(g, u)'
   <3> SUFFICES ASSUME rgpc[g] \in Inviting PROVE InvitingFits(g, u)' OBVIOUS
   <3>1. InvitingFits(g, u) /\ rgpc[g] = "unlog" /\ u \in rgCut BY <2>2, <1>1 DEF InvitingFits
   <3>2. \A k \in RgRequests : k # g /\ rguid'[k] = {u} => rguid[k] = {u} BY <1>3 DEF RgRests
   <3> QED BY <3>1, <3>2, <2>1, <1>u DEF InvitingFits, RgRests
  <2> QED BY <2>1, <2>2, <1>13, <2>3, <2>4 DEF RgAsked, RgRests
 <1>14. RgInv' BY <1>1, <1>3, <1>9, <1>10, <1>11, <1>12, <1>13, OneIdentityMoves
 <1> QED BY <1>14, <1>5, <1>10

(* Until it undoes its login, an invitation is alone with its identity. *)
LEMMA AloneUntilUndone ==
  ASSUME RgInv, NEW h \in RgRequests, rgpc[h] \in {"save", "invite", "undo"}
  PROVE  \E u \in RgUids :
           /\ rguid[h] = {u} /\ rgmail[h] \in RgEmails /\ UidFits(u) /\ InvitingFits(h, u)
           /\ \A g \in RgRequests \ {h} : rguid[g] # {u}
 <1>1. rgpc[h] # "idle" /\ rgpc[h] \in Inviting BY DEF Inviting
 <1>2. PICK u \in RgUids :
          /\ rguid[h] = {u} /\ rgmail[h] \in RgEmails /\ UidFits(u)
          /\ rgpc[h] \in Inviting => InvitingFits(h, u)
   BY <1>1, IdentityInHand
 <1>3. \A g \in RgRequests \ {h} : rguid[g] # {u} BY <1>1, <1>2 DEF InvitingFits
 <1> QED BY <1>1, <1>2, <1>3

(* It goes on. *)
LEMMA InvitingGoesOn ==
  ASSUME RgInv, NEW h \in RgRequests, NEW u \in RgUids, rguid[h] = {u}, rgmail[h] \in RgEmails,
         \A g \in RgRequests \ {h} : rguid[g] # {u},
         NEW spot \in {"invite", "undo", "unlog"}, RgGoto(h, spot), rgstaged' = rgstaged,
         RgRequestTyped' => RgTypeOK', \A v \in RgUids : v # u => UidRests(v),
         rgpc'[h] = spot /\ rgrole'[h] = rgrole[h] /\ rgstaged'[h] = rgstaged[h]
           /\ (\A g \in RgRequests \ {h} : rguid'[g] # {u}) => InvitingFits(h, u)',
         Working(u)' => UidFits(u)', ReportedIsInvited'
  PROVE  RgInv'
 <1>1. RgRequestTyped BY RgTypes DEF RgInv
 <1>2. /\ rgpc'[h] = spot /\ rguid'[h] = rguid[h] /\ rgmail'[h] = rgmail[h] /\ rgrole'[h] = rgrole[h]
       /\ rgstaged'[h] = rgstaged[h]
       /\ \A g \in RgRequests \ {h} : RgRests(g)
       /\ RgRequestTyped'
  <2>1. spot \in Joining \cup Inviting /\ rgstaged[h] \in SUBSET (RgParts \cup {"user"})
    BY <1>1 DEF Inviting, RgRequestTyped
  <2> QED BY <2>1, <1>1, RgGoesOn
 <1>3. Working(u)' BY <1>2 DEF Working
 <1>4. InvitingFits(h, u)' BY <1>2 DEF RgRests
 <1>5. RgAsked(h)' BY <1>2, <1>4 DEF RgAsked, Joining
 <1> QED BY <1>2, <1>3, <1>5, OneIdentityMoves

(* It ends. *)
LEMMA InvitingEnds ==
  ASSUME RgInv, NEW h \in RgRequests, NEW u \in RgUids, rguid[h] = {u}, RgDone(h),
         RgRequestTyped' => RgTypeOK', \A v \in RgUids : v # u => UidRests(v),
         UidFits(u)', ReportedIsInvited',
         \A g \in RgRequests \ {h} : rguid[g] = {u} /\ rguid'[h] = {} /\ RgRests(g) => RgAsked(g)'
  PROVE  RgInv'
 <1>1. RgRequestTyped BY RgTypes DEF RgInv
 <1>2. /\ rgpc'[h] = "idle" /\ rguid'[h] = {} /\ rgstaged'[h] = {}
       /\ \A g \in RgRequests \ {h} : RgRests(g)
       /\ RgRequestTyped' /\ RgAsked(h)'
   BY <1>1, RgEnds
 <1> QED BY <1>2, OneIdentityMoves

LEMMA SaveInvitedKept ==
  ASSUME RgInv, NEW h \in RgRequests, SaveInvited(h)
  PROVE  RgInv' /\ \E u \in RgUids : rgUser[u] = NoEmail /\ \A v \in RgUids : v # u => rgUser'[v] = rgUser[v]
 <1>t. RgTypeOK BY DEF RgInv
 <1>u. /\ rgpc[h] = "save"
       /\ UNCHANGED <<rgLogin, rgParts, rgstaged, rgCalls, rgMishaps, rgSelf, rgInvited, rgReported, rgCut>>
   BY DEF SaveInvited, rgBounds, rgHistory
 <1>1. PICK u \in RgUids :
          /\ rguid[h] = {u} /\ rgmail[h] \in RgEmails /\ UidFits(u) /\ InvitingFits(h, u)
          /\ \A g \in RgRequests \ {h} : rguid[g] # {u}
   BY <1>u, AloneUntilUndone
 <1>2. /\ rgrole[h] \in {"staff", "admin"} /\ rgstaged[h] = {} /\ u \notin rgSelf /\ u \notin rgCut /\ u \notin rgInvited
       /\ rgLogin[u] # NoEmail /\ rgUser[u] = NoEmail /\ rgKind[u] = "none" /\ rgParts[u] = {}
   BY <1>1, <1>u DEF InvitingFits, UidFits
 <1>3. ReportedIsInvited' BY <1>u DEF RgInv, ReportedIsInvited
 <1>4. CASE EmailTaken(rgmail[h])
  <2>1. PICK spot \in {"undo", "unlog"} : spot = IF rgrole[h] = "admin" THEN "undo" ELSE "unlog" OBVIOUS
  <2>2. RgGoto(h, spot) /\ rgUser' = rgUser /\ rgKind' = rgKind BY <2>1, <1>4 DEF SaveInvited
  <2>3. RgRequestTyped' => RgTypeOK' BY <2>2, <1>u, <1>t, RgTypesThen DEF RgTypeOK
  <2>4. \A v : UidRests(v) /\ rgUser'[v] = rgUser[v] BY <2>2, <1>u DEF UidRests
  <2>5. Working(u)' => UidFits(u)' BY <2>4, <1>1, UidStands
  <2>6. ASSUME rgpc'[h] = spot, rgrole'[h] = rgrole[h], rgstaged'[h] = rgstaged[h],
               \A g \in RgRequests \ {h} : rguid'[g] # {u}
        PROVE  InvitingFits(h, u)'
    BY <2>6, <2>1, <2>2, <1>2, <1>u DEF InvitingFits
  <2> QED BY <2>2, <2>3, <2>4, <2>5, <2>6, <1>1, <1>2, <1>3, <1>u, InvitingGoesOn
 <1>5. CASE ~EmailTaken(rgmail[h])
  <2>1. /\ RgGoto(h, "invite")
        /\ rgUser' = [rgUser EXCEPT ![u] = rgmail[h]] /\ rgKind' = [rgKind EXCEPT ![u] = rgrole[h]]
    BY <1>1, <1>5 DEF SaveInvited
  <2>2. rgUser'[u] # NoEmail /\ rgKind'[u] = rgrole[h] BY <2>1, <1>1, <1>t, RgAssumption DEF RgTypeOK
  <2>3. RgRequestTyped' => RgTypeOK'
   <3>1. rgUser' \in [RgUids -> RgEmails \cup {NoEmail}] BY <2>1, <1>1, <1>t DEF RgTypeOK
   <3>2. rgKind' \in [RgUids -> RgKinds] BY <2>1, <1>2, <1>t DEF RgTypeOK, RgKinds
   <3> QED BY <3>1, <3>2, <1>u, <1>t, RgTypesThen DEF RgTypeOK
  <2>4. \A v \in RgUids : v # u => UidRests(v) /\ rgUser'[v] = rgUser[v] BY <2>1, <1>u, <1>t DEF UidRests, RgTypeOK
  <2>5. Working(u)' => UidFits(u)' BY <2>2, <1>2, <1>u DEF UidFits
  <2>6. ASSUME rgpc'[h] = "invite", rgrole'[h] = rgrole[h], rgstaged'[h] = rgstaged[h],
               \A g \in RgRequests \ {h} : rguid'[g] # {u}
        PROVE  InvitingFits(h, u)'
    BY <2>6, <2>2, <1>2, <1>u DEF InvitingFits
  <2>7. RgInv' BY <2>1, <2>3, <2>4, <2>5, <2>6, <1>1, <1>3, <1>u, InvitingGoesOn
  <2> QED BY <2>7, <2>4, <1>2
 <1> QED BY <1>4, <1>5

LEMMA InviteKept ==
  ASSUME RgInv, NEW h \in RgRequests, NEW ok \in BOOLEAN, NEW linked \in BOOLEAN,
         InviteAdmin(h, ok) \/ InviteStaff(h, linked, ok)
  PROVE  RgInv'
 <1>t. RgTypeOK BY DEF RgInv
 <1>u. /\ rgpc[h] = "invite"
       /\ UNCHANGED <<rgLogin, rgUser, rgKind, rgParts, rgCalls, rgMishaps, rgSelf, rgCut>>
   BY DEF InviteAdmin, InviteStaff, rgStored, rgBounds
 <1>1. PICK u \in RgUids :
          /\ rguid[h] = {u} /\ rgmail[h] \in RgEmails /\ UidFits(u) /\ InvitingFits(h, u)
          /\ \A g \in RgRequests \ {h} : rguid[g] # {u}
   BY <1>u, AloneUntilUndone
 <1>2. /\ rgrole[h] \in {"staff", "admin"} /\ rgstaged[h] = {} /\ u \notin rgSelf /\ (u \in rgInvited => u \in rgCut)
       /\ rgLogin[u] # NoEmail /\ rgUser[u] # NoEmail /\ rgKind[u] = rgrole[h]
   BY <1>1, <1>u DEF InvitingFits
 <1>3. CASE RgDone(h)
  <2>0. rgrole[h] = "admin" \/ rgrole[h] = "staff" BY <1>2
  <2>1. /\ rgInvited' = rgInvited \/ rgInvited' = rgInvited \cup {u}
        /\ rgReported' = rgReported \/ (rgReported' = rgReported \cup {u} /\ rgInvited' = rgInvited \cup {u})
   <3>1. ~RgGoto(h, "undo") /\ ~RgGoto(h, "unlog")
    <4>1. rgpc'[h] = "idle" BY <1>3, <1>t DEF RgDone, RgTypeOK
    <4> QED BY <4>1, <1>t DEF RgGoto, RgTypeOK
   <3>2. CASE InviteAdmin(h, ok) BY <3>1, <3>2, <1>1 DEF InviteAdmin
   <3>3. CASE InviteStaff(h, linked, ok) BY <3>1, <3>3, <1>1 DEF InviteStaff
   <3> QED BY <3>2, <3>3
  <2>2. ReportedIsInvited' BY <2>1 DEF RgInv, ReportedIsInvited
  <2>3. RgRequestTyped' => RgTypeOK' BY <2>1, <1>u, <1>t, RgTypesThen DEF RgTypeOK
  <2>4. \A v \in RgUids : v # u => UidRests(v) BY <2>1, <1>u DEF UidRests
  <2>5. UidFits(u)' BY <1>1, <1>2, <1>u DEF UidFits
  <2> QED BY <1>3, <2>2, <2>3, <2>4, <2>5, <1>1, InvitingEnds
 <1>4. CASE ~RgDone(h)
  <2>1. PICK spot \in {"undo", "unlog"} : spot = IF rgrole[h] = "admin" THEN "undo" ELSE "unlog" OBVIOUS
  <2>2. RgGoto(h, spot) /\ rgstaged' = rgstaged /\ rgInvited' = rgInvited /\ rgReported' = rgReported
    BY <2>1, <1>4 DEF InviteAdmin, InviteStaff
  <2>3. ReportedIsInvited' BY <2>2 DEF RgInv, ReportedIsInvited
  <2>4. RgRequestTyped' => RgTypeOK' BY <2>2, <1>u, <1>t, RgTypesThen DEF RgTypeOK
  <2>5. \A v : UidRests(v) BY <2>2, <1>u DEF UidRests
  <2>6. Working(u)' => UidFits(u)' BY <2>5, <1>1, UidStands
  <2>7. ASSUME rgpc'[h] = spot, rgrole'[h] = rgrole[h], rgstaged'[h] = rgstaged[h],
               \A g \in RgRequests \ {h} : rguid'[g] # {u}
        PROVE  InvitingFits(h, u)'
    BY <2>7, <2>1, <2>2, <1>2, <1>u DEF InvitingFits
  <2> QED BY <2>2, <2>3, <2>4, <2>5, <2>6, <2>7, <1>1, InvitingGoesOn
 <1> QED BY <1>3, <1>4

LEMMA UndoAccountKept ==
  ASSUME RgInv, NEW h \in RgRequests, NEW works \in BOOLEAN, UndoAccount(h, works)
  PROVE  RgInv' /\ rgpc[h] = "undo" /\ \E u \in RgUids : u \in rguid[h] /\ \A v \in RgUids : v # u => rgUser'[v] = rgUser[v]
 <1>t. RgTypeOK BY DEF RgInv
 <1>u. /\ rgpc[h] = "undo" /\ RgGoto(h, "unlog")
       /\ UNCHANGED <<rgLogin, rgParts, rgstaged, rgCalls, rgMishaps, rgSelf, rgInvited, rgReported>>
   BY DEF UndoAccount, rgBounds
 <1>1. PICK u \in RgUids :
          /\ rguid[h] = {u} /\ rgmail[h] \in RgEmails /\ UidFits(u) /\ InvitingFits(h, u)
          /\ \A g \in RgRequests \ {h} : rguid[g] # {u}
   BY <1>u, AloneUntilUndone
 <1>2. /\ rgrole[h] \in {"staff", "admin"} /\ rgstaged[h] = {} /\ u \notin rgSelf /\ (u \in rgInvited => u \in rgCut)
       /\ rgKind[u] \in {"admin", "none"} /\ rgParts[u] = {}
   BY <1>1, <1>u DEF InvitingFits, UidFits
 <1>3. ReportedIsInvited' BY <1>u DEF RgInv, ReportedIsInvited
 <1>4. CASE works
  <2>1. /\ rgUser' = [rgUser EXCEPT ![u] = NoEmail] /\ rgKind' = [rgKind EXCEPT ![u] = "none"]
        /\ rgCut' = rgCut
    BY <1>1, <1>4 DEF UndoAccount
  <2>2. rgUser'[u] = NoEmail /\ rgKind'[u] = "none" BY <2>1, <1>t DEF RgTypeOK
  <2>3. RgRequestTyped' => RgTypeOK'
   <3>1. rgUser' \in [RgUids -> RgEmails \cup {NoEmail}] BY <2>1, <1>t DEF RgTypeOK
   <3>2. rgKind' \in [RgUids -> RgKinds] BY <2>1, <1>t DEF RgTypeOK, RgKinds
   <3> QED BY <3>1, <3>2, <2>1, <1>u, <1>t, RgTypesThen DEF RgTypeOK
  <2>4. \A v \in RgUids : v # u => UidRests(v) /\ rgUser'[v] = rgUser[v] BY <2>1, <1>u, <1>t DEF UidRests, RgTypeOK
  <2>5. Working(u)' => UidFits(u)' BY <2>2, <1>2, <1>u DEF UidFits
  <2>6. ASSUME rgpc'[h] = "unlog", rgrole'[h] = rgrole[h], rgstaged'[h] = rgstaged[h],
               \A g \in RgRequests \ {h} : rguid'[g] # {u}
        PROVE  InvitingFits(h, u)'
    BY <2>6, <2>1, <2>2, <1>2, <1>u DEF InvitingFits
  <2>7. RgInv' BY <2>3, <2>4, <2>5, <2>6, <1>1, <1>3, <1>u, InvitingGoesOn
  <2> QED BY <2>7, <2>4, <1>1, <1>u
 <1>5. CASE ~works
  <2>1. rgUser' = rgUser /\ rgKind' = rgKind /\ rgCut' = rgCut \cup {u} BY <1>1, <1>5 DEF UndoAccount
  <2>2. RgRequestTyped' => RgTypeOK' BY <2>1, <1>u, <1>t, RgTypesThen DEF RgTypeOK
  <2>3. \A v \in RgUids : v # u => UidRests(v) /\ rgUser'[v] = rgUser[v] BY <2>1, <1>u DEF UidRests
  <2>4. Working(u)' => UidFits(u)' BY <2>1, <1>1, <1>u DEF UidFits
  <2>5. ASSUME rgpc'[h] = "unlog", rgrole'[h] = rgrole[h], rgstaged'[h] = rgstaged[h],
               \A g \in RgRequests \ {h} : rguid'[g] # {u}
        PROVE  InvitingFits(h, u)'
    BY <2>5, <2>1, <1>2, <1>u DEF InvitingFits
  <2>6. RgInv' BY <2>2, <2>3, <2>4, <2>5, <1>1, <1>3, <1>u, InvitingGoesOn
  <2> QED BY <2>6, <2>3, <1>1, <1>u
 <1> QED BY <1>4, <1>5

(* The undo's end frees the address; whoever else is at work on the identity
   has it marked. *)
LEMMA UndoLoginKept ==
  ASSUME RgInv, NEW h \in RgRequests, NEW works \in BOOLEAN, UndoLogin(h, works)
  PROVE  RgInv'
 <1>t. RgTypeOK BY DEF RgInv
 <1>u. /\ rgpc[h] = "unlog" /\ rgpc[h] \in Inviting /\ rgpc[h] # "idle" /\ RgDone(h)
       /\ UNCHANGED <<rgUser, rgKind, rgParts, rgCalls, rgMishaps, rgSelf, rgInvited, rgReported>>
   BY DEF UndoLogin, rgBounds, Inviting
 <1>1. PICK u \in RgUids :
          /\ rguid[h] = {u} /\ rgmail[h] \in RgEmails /\ UidFits(u)
          /\ rgpc[h] \in Inviting => InvitingFits(h, u)
          /\ rgUser[u] # NoEmail <=> rgKind[u] # "none"
   BY <1>u, IdentityInHand
 <1>2. /\ u \notin rgSelf /\ (u \notin rgCut => rgKind[u] \in {"none", "staff"})
       /\ \A g \in RgRequests : g # h /\ rguid[g] = {u} => u \in rgCut
   BY <1>1, <1>u DEF InvitingFits
 <1>3. \/ /\ rgLogin' = [rgLogin EXCEPT ![u] = NoEmail]
          /\ rgCut' = IF rgKind[u] = "staff" THEN rgCut \cup {u} ELSE rgCut
       \/ rgLogin' = rgLogin /\ rgCut' = rgCut \cup {u}
   BY <1>1 DEF UndoLogin
 <1>4. /\ rgLogin' \in [RgUids -> RgEmails \cup {NoEmail}] /\ rgCut' \subseteq RgUids
       /\ \A v \in RgUids : v # u => UidRests(v)
       /\ u \in rgCut => u \in rgCut'
       /\ rgLogin'[u] = NoEmail \/ u \in rgCut'
       /\ rgKind[u] = "staff" => u \in rgCut'
  <2>1. rgLogin \in [RgUids -> RgEmails \cup {NoEmail}] /\ rgCut \subseteq RgUids BY <1>t DEF RgTypeOK
  <2>2. CASE rgLogin' = rgLogin /\ rgCut' = rgCut \cup {u} BY <2>1, <2>2, <1>u DEF UidRests
  <2>3. CASE /\ rgLogin' = [rgLogin EXCEPT ![u] = NoEmail]
             /\ rgCut' = IF rgKind[u] = "staff" THEN rgCut \cup {u} ELSE rgCut
    BY <2>1, <2>3, <1>u DEF UidRests
  <2> QED BY <2>2, <2>3, <1>3
 <1>5. RgRequestTyped' => RgTypeOK' BY <1>4, <1>u, <1>t, RgTypesThen DEF RgTypeOK
 <1>6. UidFits(u)' BY <1>1, <1>2, <1>4, <1>u DEF UidFits
 <1>7. ReportedIsInvited' BY <1>u DEF RgInv, ReportedIsInvited
 <1>8. ASSUME NEW g \in RgRequests \ {h}, rguid[g] = {u}, rguid'[h] = {}, RgRests(g),
              \A k \in RgRequests \ {h} : RgRests(k)
       PROVE  RgAsked(g)'
  <2>1. u \in rgCut /\ u \in rgCut' BY <1>2, <1>4, <1>8
  <2>2. RgAsked(g) /\ rgpc[g] # "idle" BY <1>8 DEF RgInv, RgAsked
  <2>3. /\ rgmail[g] \in RgEmails
        /\ rgpc[g] \in Joining => JoiningFits(g, u)
        /\ rgpc[g] \in Inviting => InvitingFits(g, u)
    BY <2>2, <1>8 DEF RgAsked
  <2>4. \A k \in RgRequests : k # g /\ rguid'[k] = {u} => rguid[k] = {u} /\ rgstaged'[k] = rgstaged[k]
    BY <1>8 DEF RgRests
  <2>5. rgpc[g] \in Joining => JoiningFits(g, u)'
   <3>1. StagedSoFar(g)' = StagedSoFar(g) BY <1>8 DEF StagedSoFar, RgRests
   <3> QED BY <3>1, <2>1, <2>3, <2>4, <1>8, <1>u DEF JoiningFits, RgRests
  <2>6. rgpc[g] \in Inviting => InvitingFits(g, u)'
   <3> SUFFICES ASSUME rgpc[g] \in Inviting PROVE InvitingFits(g, u)' OBVIOUS
   <3>1. InvitingFits(g, u) /\ rgpc[g] = "unlog" BY <2>3, <1>1 DEF InvitingFits
   <3> QED BY <3>1, <2>1, <2>4, <1>8, <1>u DEF InvitingFits, RgRests
  <2> QED BY <2>2, <2>3, <2>5, <2>6, <1>8 DEF RgAsked, RgRests
 <1>9. \A k \in RgRequests \ {h} : RgRests(k)
  <2>1. RgRequestTyped BY RgTypes, <1>t
  <2> QED BY <2>1, <1>u, RgEnds
 <1> QED BY <1>1, <1>4, <1>5, <1>6, <1>7, <1>8, <1>9, <1>u, InvitingEnds

(* What happens to an identity while no request takes a step. *)
LEMMA NoRequestMoves ==
  ASSUME RgInv, NEW u \in RgUids, UNCHANGED rgRequest, \A v \in RgUids : v # u => UidRests(v),
         RgTypeOK', UidFits(u)', ReportedIsInvited',
         \A g \in RgRequests : rguid[g] = {u} => RgAsked(g)'
  PROVE  RgInv'
 <1>1. \A k \in RgRequests : RgRests(k) BY DEF rgRequest, RgRests
 <1>2. \A g \in RgRequests : RgAsked(g)'
  <2> SUFFICES ASSUME NEW g \in RgRequests, rguid[g] # {u} PROVE RgAsked(g)' OBVIOUS
  <2>1. RgAsked(g) /\ RgRests(g) BY <1>1 DEF RgInv
  <2>2. CASE rgpc[g] = "idle" BY <2>1, <2>2 DEF RgAsked, RgRests
  <2>3. CASE rgpc[g] # "idle"
   <3>1. PICK v \in RgUids :
           /\ rguid[g] = {v} /\ rgmail[g] \in RgEmails
           /\ rgpc[g] \in Joining => JoiningFits(g, v)
           /\ rgpc[g] \in Inviting => InvitingFits(g, v)
     BY <2>1, <2>3 DEF RgAsked
   <3>2. UidRests(v) BY <3>1
   <3>3. StagedSoFar(g)' = StagedSoFar(g) BY <2>1 DEF StagedSoFar, RgRests
   <3>4. rgpc[g] \in Joining => JoiningFits(g, v)' BY <3>1, <3>2, <3>3, <1>1 DEF JoiningFits, RgRests, UidRests
   <3>5. rgpc[g] \in Inviting => InvitingFits(g, v)' BY <3>1, <3>2, <1>1 DEF InvitingFits, RgRests, UidRests
   <3> QED BY <2>1, <2>3, <3>1, <3>4, <3>5 DEF RgAsked, RgRests
  <2> QED BY <2>2, <2>3
 <1>3. \A v \in RgUids : UidFits(v)'
  <2> SUFFICES ASSUME NEW v \in RgUids, v # u PROVE UidFits(v)' OBVIOUS
  <2>1. UidFits(v) /\ UidRests(v) BY DEF RgInv
  <2>2. Working(v) => Working(v)' BY DEF rgRequest, Working
  <2> QED BY <2>1, <2>2, UidStands
 <1> QED BY <1>2, <1>3 DEF RgInv

LEMMA SignUpKept ==
  ASSUME RgInv, NEW u \in RgUids, NEW e \in RgEmails, SignUp(u, e)
  PROVE  RgInv'
 <1>t. RgTypeOK BY DEF RgInv
 <1>u. /\ FreshUid(u) /\ UNCHANGED rgRequest
       /\ UNCHANGED <<rgpc, rguid, rgmail, rgrole, rgtwice, rgstaged>>
       /\ rgLogin' = [rgLogin EXCEPT ![u] = e] /\ rgSelf' = rgSelf \cup {u}
       /\ UNCHANGED <<rgUser, rgKind, rgParts, rgCalls, rgMishaps, rgInvited, rgReported, rgCut>>
   BY DEF SignUp, rgRequest, rgBounds
 <1>1. RgTypeOK'
  <2>1. rgLogin' \in [RgUids -> RgEmails \cup {NoEmail}] BY <1>u, <1>t DEF RgTypeOK
  <2>2. RgRequestTyped' BY <1>u, <1>t, RgTypes DEF RgRequestTyped
  <2> QED BY <2>1, <2>2, <1>u, <1>t, RgTypesThen DEF RgTypeOK
 <1>2. \A v \in RgUids : v # u => UidRests(v) BY <1>u, <1>t DEF UidRests, RgTypeOK
 <1>3. UidFits(u)'
  <2>1. UidFits(u) /\ rgUser[u] = NoEmail BY <1>u DEF RgInv, FreshUid
  <2> QED BY <2>1, <1>u DEF UidFits
 <1>4. \A g \in RgRequests : rguid[g] # {u} BY <1>u DEF FreshUid, Working
 <1>5. ReportedIsInvited' BY <1>u DEF RgInv, ReportedIsInvited
 <1> QED BY <1>1, <1>2, <1>3, <1>4, <1>5, <1>u, NoRequestMoves

LEMMA BeginInviteKept ==
  ASSUME RgInv, NEW h \in RgRequests, NEW u \in RgUids, NEW e \in RgEmails, NEW role \in {"staff", "admin"},
         BeginInvite(h, u, e, role)
  PROVE  RgInv'
 <1>t. RgTypeOK /\ RgRequestTyped BY RgTypes DEF RgInv
 <1>u. /\ FreshUid(u) /\ RgBegin(h, "save", u, e, role, FALSE) /\ rgCalls < RgMostCalls /\ rgCalls' = rgCalls + 1
       /\ rgLogin' = [rgLogin EXCEPT ![u] = e] /\ rgstaged' = rgstaged
       /\ UNCHANGED <<rgUser, rgKind, rgParts, rgMishaps, rgSelf, rgInvited, rgReported, rgCut>>
   BY DEF BeginInvite, RgBegin, rgHistory
 <1>1. /\ rgpc[h] = "idle" /\ rgpc'[h] = "save" /\ rguid'[h] = {u} /\ rgmail'[h] = e /\ rgrole'[h] = role
       /\ rgstaged'[h] = rgstaged[h]
       /\ \A g \in RgRequests \ {h} : RgRests(g)
       /\ RgRequestTyped'
  <2>1. "save" \in Joining \cup Inviting /\ role \in RgKinds /\ FALSE \in BOOLEAN BY DEF Inviting, RgKinds
  <2> QED BY <2>1, <1>u, <1>t, RgStarts
 <1>2. rguid[h] = {} /\ rgstaged[h] = {} BY <1>1 DEF RgInv, RgAsked
 <1>3. RgTypeOK'
  <2>1. rgLogin' \in [RgUids -> RgEmails \cup {NoEmail}] BY <1>u, <1>t DEF RgTypeOK
  <2>2. rgCalls' \in 0..RgMostCalls BY <1>u, <1>t, RgAssumption DEF RgTypeOK
  <2> QED BY <2>1, <2>2, <1>1, <1>u, <1>t, RgTypesThen DEF RgTypeOK
 <1>4. \A v \in RgUids : v # u => UidRests(v) BY <1>u, <1>t DEF UidRests, RgTypeOK
 <1>5. /\ rgUser[u] = NoEmail /\ u \notin rgSelf /\ u \notin rgCut /\ u \notin rgInvited
       /\ \A g \in RgRequests : rguid[g] # {u}
   BY <1>u DEF FreshUid, Working
 <1>6. rgLogin'[u] # NoEmail BY <1>u, <1>t, RgAssumption DEF RgTypeOK
 <1>7. UidFits(u)'
  <2>1. UidFits(u) /\ Working(u)' BY <1>1 DEF RgInv, Working
  <2> QED BY <2>1, <1>u DEF UidFits
 <1>8. ReportedIsInvited' BY <1>u DEF RgInv, ReportedIsInvited
 <1>9. RgAsked(h)'
  <2>1. \A g \in RgRequests : g # h => rguid'[g] # {u} BY <1>1, <1>5 DEF RgRests
  <2>2. InvitingFits(h, u)' BY <2>1, <1>1, <1>2, <1>5, <1>6, <1>u DEF InvitingFits
  <2> QED BY <2>2, <1>1 DEF RgAsked, Joining
 <1> QED BY <1>1, <1>2, <1>3, <1>4, <1>5, <1>7, <1>8, <1>9, OneIdentityMoves

LEMMA OutsideStepsKept ==
  ASSUME RgInv, NEW u \in RgUids, LoginVanishes(u) \/ ResendAdminInvite(u)
  PROVE  RgInv'
 <1>t. RgTypeOK BY DEF RgInv
 <1>u. /\ UNCHANGED rgRequest /\ UNCHANGED <<rgpc, rguid, rgmail, rgrole, rgtwice, rgstaged>>
       /\ UNCHANGED <<rgUser, rgKind, rgParts, rgCalls, rgSelf, rgReported>>
   BY DEF LoginVanishes, ResendAdminInvite, rgRequest, rgStored, rgBounds
 <1>r. RgRequestTyped' BY <1>u, <1>t, RgTypes DEF RgRequestTyped
 <1>f. UidFits(u) BY DEF RgInv
 <1>a. ASSUME NEW g \in RgRequests, rguid[g] = {u},
              rgpc[g] \in Joining /\ JoiningFits(g, u) => JoiningFits(g, u)',
              rgpc[g] \in Inviting /\ InvitingFits(g, u) => InvitingFits(g, u)'
       PROVE  RgAsked(g)'
  <2>1. RgAsked(g) /\ rgpc[g] # "idle" BY <1>a DEF RgInv, RgAsked
  <2> QED BY <2>1, <1>a, <1>u DEF RgAsked
 <1>s. \A g \in RgRequests : StagedSoFar(g)' = StagedSoFar(g) BY <1>u DEF StagedSoFar
 <1>1. CASE LoginVanishes(u)
  <2>1. /\ u \in rgSelf /\ rgMishaps < RgMostMishaps /\ rgMishaps' = rgMishaps + 1
        /\ rgLogin' = [rgLogin EXCEPT ![u] = NoEmail] /\ rgCut' = rgCut \cup {u} /\ rgInvited' = rgInvited
    BY <1>1 DEF LoginVanishes
  <2>2. RgTypeOK'
   <3>1. rgLogin' \in [RgUids -> RgEmails \cup {NoEmail}] BY <2>1, <1>t DEF RgTypeOK
   <3>2. rgMishaps' \in 0..RgMostMishaps BY <2>1, <1>t, RgAssumption DEF RgTypeOK
   <3> QED BY <3>1, <3>2, <2>1, <1>r, <1>u, <1>t, RgTypesThen DEF RgTypeOK
  <2>3. \A v \in RgUids : v # u => UidRests(v) BY <2>1, <1>u, <1>t DEF UidRests, RgTypeOK
  <2>4. UidFits(u)' BY <2>1, <1>f, <1>u DEF UidFits
  <2>5. ReportedIsInvited' BY <2>1, <1>u DEF RgInv, ReportedIsInvited
  <2>6. ASSUME NEW g \in RgRequests, rguid[g] = {u} PROVE RgAsked(g)'
   <3>1. JoiningFits(g, u) => JoiningFits(g, u)' BY <2>1, <1>u, <1>s DEF JoiningFits
   <3>2. ~InvitingFits(g, u) BY <2>1 DEF InvitingFits
   <3> QED BY <3>1, <3>2, <2>6, <1>a
  <2> QED BY <2>2, <2>3, <2>4, <2>5, <2>6, <1>u, NoRequestMoves
 <1>2. CASE ResendAdminInvite(u)
  <2>1. /\ rgKind[u] = "admin" /\ rgInvited' = rgInvited \cup {u} /\ rgLogin' = rgLogin /\ rgMishaps' = rgMishaps
        /\ rgCut' = IF Working(u) THEN rgCut \cup {u} ELSE rgCut
    BY <1>2 DEF ResendAdminInvite, rgStored, rgBounds
  <2>2. RgTypeOK' BY <2>1, <1>r, <1>u, <1>t, RgTypesThen DEF RgTypeOK
  <2>3. \A v \in RgUids : v # u => UidRests(v) BY <2>1, <1>u DEF UidRests
  <2>4. UidFits(u)'
   <3>1. Working(u)' <=> Working(u) BY <1>u DEF Working
   <3> QED BY <3>1, <2>1, <1>f, <1>u DEF UidFits
  <2>5. ReportedIsInvited' BY <2>1, <1>u DEF RgInv, ReportedIsInvited
  <2>6. ASSUME NEW g \in RgRequests, rguid[g] = {u} PROVE RgAsked(g)'
   <3>1. Working(u) BY <2>6 DEF Working
   <3>2. u \in rgCut' /\ rgUser[u] # NoEmail BY <3>1, <2>1, <1>f DEF UidFits
   <3>3. JoiningFits(g, u) => JoiningFits(g, u)' BY <3>2, <2>1, <1>u, <1>s DEF JoiningFits
   <3>4. InvitingFits(g, u) => InvitingFits(g, u)' BY <3>2, <2>1, <1>u DEF InvitingFits
   <3> QED BY <3>3, <3>4, <2>6, <1>a
  <2> QED BY <2>2, <2>3, <2>4, <2>5, <2>6, <1>u, NoRequestMoves
 <1> QED BY <1>1, <1>2

LEMMA RegistrationLostKept ==
  ASSUME RgInv, NEW h \in RgRequests, RegistrationLost(h)
  PROVE  RgInv'
 <1>t. RgTypeOK BY DEF RgInv
 <1>u. /\ rgpc[h] # "idle" /\ RgDone(h) /\ rgMishaps < RgMostMishaps /\ rgMishaps' = rgMishaps + 1
       /\ rgCut' = IF rgrole[h] \in {"staff", "admin"} THEN rgCut \cup rguid[h] ELSE rgCut
       /\ UNCHANGED <<rgLogin, rgUser, rgKind, rgParts, rgCalls, rgSelf, rgInvited, rgReported>>
   BY DEF RegistrationLost, rgStored
 <1>b. rgCalls' \in 0..RgMostCalls /\ rgMishaps' \in 0..RgMostMishaps BY <1>u, <1>t, RgAssumption DEF RgTypeOK
 <1>1. PICK u \in RgUids :
          /\ rguid[h] = {u} /\ rgmail[h] \in RgEmails /\ UidFits(u)
          /\ rgpc[h] \in Joining => JoiningFits(h, u)
          /\ rgpc[h] \in Inviting => InvitingFits(h, u)
   BY <1>u, IdentityInHand
 <1>2. CASE rgpc[h] \in Joining
  <2>1. rgCut' = rgCut BY <1>1, <1>2, <1>u DEF JoiningFits
  <2> QED BY <2>1, <1>2, <1>u, <1>b, GivesUp
 <1>3. CASE rgpc[h] \in Inviting
  <2>1. /\ rgCut' = rgCut \cup {u}
        /\ \A g \in RgRequests \ {h} : rguid[g] = {u} => u \in rgCut
    BY <1>1, <1>3, <1>u DEF InvitingFits
  <2>2. RgRequestTyped' => RgTypeOK' BY <2>1, <1>b, <1>u, <1>t, RgTypesThen DEF RgTypeOK
  <2>3. \A v \in RgUids : v # u => UidRests(v) BY <2>1, <1>u DEF UidRests
  <2>4. UidFits(u)' BY <2>1, <1>1, <1>u DEF UidFits
  <2>5. ReportedIsInvited' BY <1>u DEF RgInv, ReportedIsInvited
  <2>6. \A k \in RgRequests \ {h} : RgRests(k)
   <3>1. RgRequestTyped BY RgTypes, <1>t
   <3> QED BY <3>1, <1>u, RgEnds
  <2>7. ASSUME NEW g \in RgRequests \ {h}, rguid[g] = {u}, rguid'[h] = {} PROVE RgAsked(g)'
   <3>1. UidRests(u) BY <2>1, <2>7, <1>u DEF UidRests
   <3> QED BY <3>1, <2>6, <2>7, OtherAsked
  <2> QED BY <2>2, <2>3, <2>4, <2>5, <2>7, <1>1, <1>u, InvitingEnds
 <1> QED BY <1>2, <1>3, <1>u, <1>t, RgTypes DEF RgRequestTyped

(* Every step keeps it. *)
LEMMA RgInvNext == RgInv /\ [RgNext]_rgVars => RgInv'
 <1> SUFFICES ASSUME RgInv, [RgNext]_rgVars PROVE RgInv' OBVIOUS
 <1>1. CASE UNCHANGED rgVars
  <2>1. /\ UNCHANGED <<rgLogin, rgUser, rgKind, rgParts, rgpc, rguid, rgmail, rgrole, rgtwice, rgstaged>>
        /\ UNCHANGED <<rgCalls, rgMishaps, rgSelf, rgInvited, rgReported, rgCut>>
    BY <1>1 DEF rgVars, rgStored, rgRequest, rgBounds, rgHistory
  <2>2. RgTypeOK' BY <2>1, RgTypesThen, RgTypes DEF RgInv, RgRequestTyped
  <2>3. ASSUME NEW h \in RgRequests PROVE RgAsked(h)'
   <3>1. RgAsked(h) BY DEF RgInv
   <3>2. StagedSoFar(h)' = StagedSoFar(h) BY <2>1 DEF StagedSoFar
   <3>3. \A u \in RgUids : JoiningFits(h, u)' <=> JoiningFits(h, u) BY <2>1, <3>2 DEF JoiningFits
   <3>4. \A u \in RgUids : InvitingFits(h, u)' <=> InvitingFits(h, u) BY <2>1 DEF InvitingFits
   <3> QED BY <3>1, <3>3, <3>4, <2>1 DEF RgAsked
  <2>4. (\A u \in RgUids : UidFits(u)') /\ ReportedIsInvited'
    BY <2>1 DEF RgInv, UidFits, Working, ReportedIsInvited
  <2> QED BY <2>2, <2>3, <2>4 DEF RgInv
 <1>2. CASE RgNext
  <2>1. ASSUME NEW u \in RgUids, LoginVanishes(u) \/ ResendAdminInvite(u) PROVE RgInv'
    BY <2>1, OutsideStepsKept
  <2>2. ASSUME NEW u \in RgUids, NEW e \in RgEmails, SignUp(u, e) PROVE RgInv' BY <2>2, SignUpKept
  <2>3. ASSUME NEW u \in RgUids, NEW e \in RgEmails, NEW h \in RgRequests, NEW role \in {"staff", "admin"},
               BeginInvite(h, u, e, role)
        PROVE  RgInv'
    BY <2>3, BeginInviteKept
  <2>4. ASSUME NEW h \in RgRequests, NEW u \in RgUids, NEW role \in {"customer", "washer"}, NEW twice \in BOOLEAN,
               BeginRegister(h, u, role, twice)
        PROVE  RgInv'
    BY <2>4, BeginRegisterKept
  <2>5. ASSUME NEW h \in RgRequests,
               \/ CheckEmail(h) \/ StageUser(h) \/ StageConsents(h) \/ StageShop(h)
               \/ CommitRegistration(h) \/ SaveInvited(h) \/ RegistrationLost(h)
        PROVE  RgInv'
    BY <2>5, RegisterStepsKept, StageUserKept, CommitKept, SaveInvitedKept, RegistrationLostKept
  <2>6. ASSUME NEW h \in RgRequests, NEW ok \in BOOLEAN, InviteAdmin(h, ok) \/ UndoAccount(h, ok) \/ UndoLogin(h, ok)
        PROVE  RgInv'
    BY <2>6, InviteKept, UndoAccountKept, UndoLoginKept
  <2>7. ASSUME NEW h \in RgRequests, NEW linked \in BOOLEAN, NEW sent \in BOOLEAN, InviteStaff(h, linked, sent)
        PROVE  RgInv'
    BY <2>7, InviteKept
  <2> QED BY <1>2, <2>1, <2>2, <2>3, <2>4, <2>5, <2>6, <2>7 DEF RgNext
 <1> QED BY <1>1, <1>2

(* Who still works on an account works towards it: an account goes by the
   undo alone. *)
LEMMA OnlyTheUndoTakes == RgInv /\ [RgNext]_rgVars => AccountsStay
 <1> SUFFICES ASSUME RgInv, [RgNext]_rgVars, NEW u \in RgUids, rgUser[u] # NoEmail, rgUser'[u] # rgUser[u]
              PROVE  \E h \in RgRequests : u \in rguid[h] /\ rgpc[h] = "undo"
   BY DEF AccountsStay
 <1>1. rgUser' # rgUser OBVIOUS
 <1>2. \/ \E h \in RgRequests : CommitRegistration(h) \/ SaveInvited(h)
       \/ \E h \in RgRequests, works \in BOOLEAN : UndoAccount(h, works)
   BY <1>1 DEF RgNext, LoginVanishes, ResendAdminInvite, SignUp, BeginInvite, BeginRegister, CheckEmail,
        StageUser, StageConsents, StageShop, InviteAdmin, UndoLogin, InviteStaff, RegistrationLost,
        rgVars, rgStored
 <1>3. ~ \E h \in RgRequests : CommitRegistration(h) \/ SaveInvited(h)
  <2> SUFFICES ASSUME NEW h \in RgRequests, CommitRegistration(h) \/ SaveInvited(h) PROVE FALSE OBVIOUS
  <2>1. PICK v \in RgUids : rgUser[v] = NoEmail /\ \A w \in RgUids : w # v => rgUser'[w] = rgUser[w]
    BY CommitKept, SaveInvitedKept
  <2> QED BY <2>1
 <1>4. PICK h \in RgRequests, works \in BOOLEAN : UndoAccount(h, works) BY <1>2, <1>3
 <1>5. /\ rgpc[h] = "undo"
       /\ \E v \in RgUids : v \in rguid[h] /\ \A w \in RgUids : w # v => rgUser'[w] = rgUser[w]
   BY <1>4, UndoAccountKept
 <1> QED BY <1>5

LEMMA RgInvSaysWhole ==
  RgInv => RgTypeOK /\ EveryAccountHasALogin /\ EveryLoginHasAnAccount /\ RegisteredWhole /\ ReportedIsInvited
 <1> SUFFICES ASSUME RgInv PROVE EveryAccountHasALogin /\ EveryLoginHasAnAccount /\ RegisteredWhole BY DEF RgInv
 <1>1. \A u \in RgUids : UidFits(u) BY DEF RgInv
 <1>2. RegisteredWhole
  <2> SUFFICES ASSUME NEW u \in RgUids
               PROVE  rgParts[u] = CASE rgKind[u] = "washer" -> RgParts
                                     [] rgKind[u] = "customer" -> {"consents"}
                                     [] OTHER -> {}
    BY DEF RegisteredWhole
  <2> QED BY <1>1 DEF UidFits
 <1> QED BY <1>1, <1>2 DEF UidFits, EveryAccountHasALogin, EveryLoginHasAnAccount

(* Registering, inviting and undoing leave no half behind, whatever fails or
   is lost on the way, for any number of requests, identities and addresses;
   and no roll-back takes an account that its invitation did not make. *)
THEOREM AccountsWhole == RgSpec => AccountsAreWhole
 <1>1. RgInit => RgInv BY RgInvInit
 <1>2. RgInv /\ [RgNext]_rgVars => RgInv' BY RgInvNext
 <1>3. RgInv /\ [RgNext]_rgVars =>
         [rgVars' # rgVars =>
            /\ (RgTypeOK /\ EveryAccountHasALogin /\ EveryLoginHasAnAccount /\ RegisteredWhole
                 /\ ReportedIsInvited)'
            /\ AccountsStay]_rgVars
  <2> SUFFICES ASSUME RgInv, [RgNext]_rgVars
               PROVE  /\ (RgTypeOK /\ EveryAccountHasALogin /\ EveryLoginHasAnAccount /\ RegisteredWhole
                            /\ ReportedIsInvited)'
                      /\ AccountsStay
    OBVIOUS
  <2>1. RgInv' /\ AccountsStay BY RgInvNext, OnlyTheUndoTakes
  <2>2. (RgInv => RgTypeOK /\ EveryAccountHasALogin /\ EveryLoginHasAnAccount /\ RegisteredWhole /\ ReportedIsInvited)'
    BY RgInvSaysWhole, PTL
  <2> QED BY <2>1, <2>2
 <1> QED BY <1>1, <1>2, <1>3, PTL DEF RgSpec, AccountsAreWhole

-----------------------------------------------------------------------------
(* Who is let in.  The operations that open a lock, as the table has them:
   each of its parts holds no other of that name. *)
AsNamed(o) ==
  /\ o.name = "cancelAccountDeletion" =>
       o = [name |-> o.name, roles |-> AllRoles, needs |-> {}, public |-> FALSE,
            allows |-> {"AllowDeletionPending", "AllowUnverifiedCourier"}]
  /\ o.name = "registerDevice" =>
       o = [name |-> o.name, roles |-> ShopFloor, needs |-> {}, allows |-> {"AllowUnregisteredDevice"},
      public |-> FALSE]
  /\ o.name = "submitCourierSelfie" =>
       o = [name |-> o.name, roles |-> {"courier"}, needs |-> {}, allows |-> {"AllowUnverifiedCourier"},
      public |-> FALSE]
  /\ o.name \in {"reactivateUser", "reactivateWasher", "updateMaintenanceConfig"} => "admin" \in o.roles

LEMMA TableIsAsNamed == \A o \in Operations : AsNamed(o)
 <1>1. \A o \in AccountDeletionOps : AsNamed(o)
   BY DEF AccountDeletionOps, Ops, Gated, Open, Public, Entry, AsNamed, AnyRole, BackOffice, ShopFloor
 <1>2. \A o \in ActivityLogsOps : AsNamed(o)
   BY DEF ActivityLogsOps, Ops, Gated, Open, Public, Entry, AsNamed, AnyRole, BackOffice, ShopFloor
 <1>3. \A o \in AddressesOps : AsNamed(o)
   BY DEF AddressesOps, Ops, Gated, Open, Public, Entry, AsNamed, AnyRole, BackOffice, ShopFloor
 <1>4. \A o \in AdminAuditOps : AsNamed(o)
   BY DEF AdminAuditOps, Ops, Gated, Open, Public, Entry, AsNamed, AnyRole, BackOffice, ShopFloor
 <1>5. \A o \in AnalyticsOps : AsNamed(o)
   BY DEF AnalyticsOps, Ops, Gated, Open, Public, Entry, AsNamed, AnyRole, BackOffice, ShopFloor
 <1>6. \A o \in AppOps : AsNamed(o)
   BY DEF AppOps, Ops, Gated, Open, Public, Entry, AsNamed, AnyRole, BackOffice, ShopFloor
 <1>7. \A o \in BiometricOps : AsNamed(o)
   BY DEF BiometricOps, Ops, Gated, Open, Public, Entry, AsNamed, AnyRole, BackOffice, ShopFloor
 <1>8. \A o \in BookingAvailabilityOps1 : AsNamed(o)
   BY DEF BookingAvailabilityOps1, Ops, Gated, Open, Public, Entry, AsNamed, AnyRole, BackOffice, ShopFloor
 <1>9. \A o \in BookingAvailabilityOps2 : AsNamed(o)
   BY DEF BookingAvailabilityOps2, Ops, Gated, Open, Public, Entry, AsNamed, AnyRole, BackOffice, ShopFloor
 <1>10. \A o \in BookingPolicyOps1 : AsNamed(o)
   BY DEF BookingPolicyOps1, Ops, Gated, Open, Public, Entry, AsNamed, AnyRole, BackOffice, ShopFloor
 <1>11. \A o \in BookingPolicyOps2 : AsNamed(o)
   BY DEF BookingPolicyOps2, Ops, Gated, Open, Public, Entry, AsNamed, AnyRole, BackOffice, ShopFloor
 <1>12. \A o \in BranchesOps : AsNamed(o)
   BY DEF BranchesOps, Ops, Gated, Open, Public, Entry, AsNamed, AnyRole, BackOffice, ShopFloor
 <1>13. \A o \in CampaignsAdminOps : AsNamed(o)
   BY DEF CampaignsAdminOps, Ops, Gated, Open, Public, Entry, AsNamed, AnyRole, BackOffice, ShopFloor
 <1>14. \A o \in CampaignsDeliveryOps : AsNamed(o)
   BY DEF CampaignsDeliveryOps, Ops, Gated, Open, Public, Entry, AsNamed, AnyRole, BackOffice, ShopFloor
 <1>15. \A o \in ChatOps : AsNamed(o)
   BY DEF ChatOps, Ops, Gated, Open, Public, Entry, AsNamed, AnyRole, BackOffice, ShopFloor
 <1>16. \A o \in ConsentsOps : AsNamed(o)
   BY DEF ConsentsOps, Ops, Gated, Open, Public, Entry, AsNamed, AnyRole, BackOffice, ShopFloor
 <1>17. \A o \in CostingOps : AsNamed(o)
   BY DEF CostingOps, Ops, Gated, Open, Public, Entry, AsNamed, AnyRole, BackOffice, ShopFloor
 <1>18. \A o \in CourierVerificationOps : AsNamed(o)
   BY DEF CourierVerificationOps, Ops, Gated, Open, Public, Entry, AsNamed, AnyRole, BackOffice, ShopFloor
 <1>19. \A o \in DevicesOps : AsNamed(o)
   BY DEF DevicesOps, Ops, Gated, Open, Public, Entry, AsNamed, AnyRole, BackOffice, ShopFloor
 <1>20. \A o \in DirectoryOps : AsNamed(o)
   BY DEF DirectoryOps, Ops, Gated, Open, Public, Entry, AsNamed, AnyRole, BackOffice, ShopFloor
 <1>21. \A o \in DiscoveryOps : AsNamed(o)
   BY DEF DiscoveryOps, Ops, Gated, Open, Public, Entry, AsNamed, AnyRole, BackOffice, ShopFloor
 <1>22. \A o \in FavoritesOps : AsNamed(o)
   BY DEF FavoritesOps, Ops, Gated, Open, Public, Entry, AsNamed, AnyRole, BackOffice, ShopFloor
 <1>23. \A o \in InventoryOps1 : AsNamed(o)
   BY DEF InventoryOps1, Ops, Gated, Open, Public, Entry, AsNamed, AnyRole, BackOffice, ShopFloor
 <1>24. \A o \in InventoryOps2 : AsNamed(o)
   BY DEF InventoryOps2, Ops, Gated, Open, Public, Entry, AsNamed, AnyRole, BackOffice, ShopFloor
 <1>25. \A o \in KycOps1 : AsNamed(o)
   BY DEF KycOps1, Ops, Gated, Open, Public, Entry, AsNamed, AnyRole, BackOffice, ShopFloor
 <1>26. \A o \in KycOps2 : AsNamed(o)
   BY DEF KycOps2, Ops, Gated, Open, Public, Entry, AsNamed, AnyRole, BackOffice, ShopFloor
 <1>27. \A o \in MaintenanceOps : AsNamed(o)
   BY DEF MaintenanceOps, Ops, Gated, Open, Public, Entry, AsNamed, AnyRole, BackOffice, ShopFloor
 <1>28. \A o \in PublicMaintenanceOps : AsNamed(o)
   BY DEF PublicMaintenanceOps, Ops, Gated, Open, Public, Entry, AsNamed, AnyRole, BackOffice, ShopFloor
 <1>29. \A o \in MediaOps : AsNamed(o)
   BY DEF MediaOps, Ops, Gated, Open, Public, Entry, AsNamed, AnyRole, BackOffice, ShopFloor
 <1>30. \A o \in BroadcastsOps : AsNamed(o)
   BY DEF BroadcastsOps, Ops, Gated, Open, Public, Entry, AsNamed, AnyRole, BackOffice, ShopFloor
 <1>31. \A o \in NotificationsFeedOps : AsNamed(o)
   BY DEF NotificationsFeedOps, Ops, Gated, Open, Public, Entry, AsNamed, AnyRole, BackOffice, ShopFloor
 <1>32. \A o \in NotificationsOps : AsNamed(o)
   BY DEF NotificationsOps, Ops, Gated, Open, Public, Entry, AsNamed, AnyRole, BackOffice, ShopFloor
 <1>33. \A o \in NowQueueOps : AsNamed(o)
   BY DEF NowQueueOps, Ops, Gated, Open, Public, Entry, AsNamed, AnyRole, BackOffice, ShopFloor
 <1>34. \A o \in OnlineOrdersOps1 : AsNamed(o)
   BY DEF OnlineOrdersOps1, Ops, Gated, Open, Public, Entry, AsNamed, AnyRole, BackOffice, ShopFloor
 <1>35. \A o \in OnlineOrdersOps2 : AsNamed(o)
   BY DEF OnlineOrdersOps2, Ops, Gated, Open, Public, Entry, AsNamed, AnyRole, BackOffice, ShopFloor
 <1>36. \A o \in OnlineOrdersOps3 : AsNamed(o)
   BY DEF OnlineOrdersOps3, Ops, Gated, Open, Public, Entry, AsNamed, AnyRole, BackOffice, ShopFloor
 <1>37. \A o \in OnlineOrdersOps4 : AsNamed(o)
   BY DEF OnlineOrdersOps4, Ops, Gated, Open, Public, Entry, AsNamed, AnyRole, BackOffice, ShopFloor
 <1>38. \A o \in OperationalContextOps : AsNamed(o)
   BY DEF OperationalContextOps, Ops, Gated, Open, Public, Entry, AsNamed, AnyRole, BackOffice, ShopFloor
 <1>39. \A o \in OrderDashboardOps : AsNamed(o)
   BY DEF OrderDashboardOps, Ops, Gated, Open, Public, Entry, AsNamed, AnyRole, BackOffice, ShopFloor
 <1>40. \A o \in PermissionsOps : AsNamed(o)
   BY DEF PermissionsOps, Ops, Gated, Open, Public, Entry, AsNamed, AnyRole, BackOffice, ShopFloor
 <1>41. \A o \in PlatformAnalyticsOps : AsNamed(o)
   BY DEF PlatformAnalyticsOps, Ops, Gated, Open, Public, Entry, AsNamed, AnyRole, BackOffice, ShopFloor
 <1>42. \A o \in PlatformFeeOps1 : AsNamed(o)
   BY DEF PlatformFeeOps1, Ops, Gated, Open, Public, Entry, AsNamed, AnyRole, BackOffice, ShopFloor
 <1>43. \A o \in PlatformFeeOps2 : AsNamed(o)
   BY DEF PlatformFeeOps2, Ops, Gated, Open, Public, Entry, AsNamed, AnyRole, BackOffice, ShopFloor
 <1>44. \A o \in PosOrdersOps1 : AsNamed(o)
   BY DEF PosOrdersOps1, Ops, Gated, Open, Public, Entry, AsNamed, AnyRole, BackOffice, ShopFloor
 <1>45. \A o \in PosOrdersOps2 : AsNamed(o)
   BY DEF PosOrdersOps2, Ops, Gated, Open, Public, Entry, AsNamed, AnyRole, BackOffice, ShopFloor
 <1>46. \A o \in PresenceOps : AsNamed(o)
   BY DEF PresenceOps, Ops, Gated, Open, Public, Entry, AsNamed, AnyRole, BackOffice, ShopFloor
 <1>47. \A o \in ProductsOps : AsNamed(o)
   BY DEF ProductsOps, Ops, Gated, Open, Public, Entry, AsNamed, AnyRole, BackOffice, ShopFloor
 <1>48. \A o \in PromotionsOps : AsNamed(o)
   BY DEF PromotionsOps, Ops, Gated, Open, Public, Entry, AsNamed, AnyRole, BackOffice, ShopFloor
 <1>49. \A o \in UserVouchersOps : AsNamed(o)
   BY DEF UserVouchersOps, Ops, Gated, Open, Public, Entry, AsNamed, AnyRole, BackOffice, ShopFloor
 <1>50. \A o \in RatingsOps : AsNamed(o)
   BY DEF RatingsOps, Ops, Gated, Open, Public, Entry, AsNamed, AnyRole, BackOffice, ShopFloor
 <1>51. \A o \in RolesOps : AsNamed(o)
   BY DEF RolesOps, Ops, Gated, Open, Public, Entry, AsNamed, AnyRole, BackOffice, ShopFloor
 <1>52. \A o \in SearchOps : AsNamed(o)
   BY DEF SearchOps, Ops, Gated, Open, Public, Entry, AsNamed, AnyRole, BackOffice, ShopFloor
 <1>53. \A o \in ServicesOps : AsNamed(o)
   BY DEF ServicesOps, Ops, Gated, Open, Public, Entry, AsNamed, AnyRole, BackOffice, ShopFloor
 <1>54. \A o \in SiteContentOps1 : AsNamed(o)
   BY DEF SiteContentOps1, Ops, Gated, Open, Public, Entry, AsNamed, AnyRole, BackOffice, ShopFloor
 <1>55. \A o \in SiteContentOps2 : AsNamed(o)
   BY DEF SiteContentOps2, Ops, Gated, Open, Public, Entry, AsNamed, AnyRole, BackOffice, ShopFloor
 <1>56. \A o \in StaffOps : AsNamed(o)
   BY DEF StaffOps, Ops, Gated, Open, Public, Entry, AsNamed, AnyRole, BackOffice, ShopFloor
 <1>57. \A o \in MySupportTicketsOps : AsNamed(o)
   BY DEF MySupportTicketsOps, Ops, Gated, Open, Public, Entry, AsNamed, AnyRole, BackOffice, ShopFloor
 <1>58. \A o \in SupportTicketsOps : AsNamed(o)
   BY DEF SupportTicketsOps, Ops, Gated, Open, Public, Entry, AsNamed, AnyRole, BackOffice, ShopFloor
 <1>59. \A o \in TasksOps : AsNamed(o)
   BY DEF TasksOps, Ops, Gated, Open, Public, Entry, AsNamed, AnyRole, BackOffice, ShopFloor
 <1>60. \A o \in UsersOps1 : AsNamed(o)
   BY DEF UsersOps1, Ops, Gated, Open, Public, Entry, AsNamed, AnyRole, BackOffice, ShopFloor
 <1>61. \A o \in UsersOps2 : AsNamed(o)
   BY DEF UsersOps2, Ops, Gated, Open, Public, Entry, AsNamed, AnyRole, BackOffice, ShopFloor
 <1>62. \A o \in WalletsAdminOps : AsNamed(o)
   BY DEF WalletsAdminOps, Ops, Gated, Open, Public, Entry, AsNamed, AnyRole, BackOffice, ShopFloor
 <1>63. \A o \in WalletsOps : AsNamed(o)
   BY DEF WalletsOps, Ops, Gated, Open, Public, Entry, AsNamed, AnyRole, BackOffice, ShopFloor
 <1>64. \A o \in WasherServiceOfferingsOps : AsNamed(o)
   BY DEF WasherServiceOfferingsOps, Ops, Gated, Open, Public, Entry, AsNamed, AnyRole, BackOffice, ShopFloor
 <1>65. \A o \in WasherServiceProductsOps : AsNamed(o)
   BY DEF WasherServiceProductsOps, Ops, Gated, Open, Public, Entry, AsNamed, AnyRole, BackOffice, ShopFloor
 <1>66. \A o \in WasherServiceTemplatesOps : AsNamed(o)
   BY DEF WasherServiceTemplatesOps, Ops, Gated, Open, Public, Entry, AsNamed, AnyRole, BackOffice, ShopFloor
 <1>67. \A o \in WasherAdminOps : AsNamed(o)
   BY DEF WasherAdminOps, Ops, Gated, Open, Public, Entry, AsNamed, AnyRole, BackOffice, ShopFloor
 <1>68. \A o \in WasherCertificationOps : AsNamed(o)
   BY DEF WasherCertificationOps, Ops, Gated, Open, Public, Entry, AsNamed, AnyRole, BackOffice, ShopFloor
 <1>69. \A o \in WasherOps : AsNamed(o)
   BY DEF WasherOps, Ops, Gated, Open, Public, Entry, AsNamed, AnyRole, BackOffice, ShopFloor
 <1> QED BY <1>1, <1>2, <1>3, <1>4, <1>5, <1>6, <1>7, <1>8, <1>9, <1>10, <1>11, <1>12, <1>13, <1>14, <1>15, <1>16,
   <1>17, <1>18, <1>19, <1>20, <1>21, <1>22, <1>23, <1>24, <1>25, <1>26, <1>27, <1>28, <1>29, <1>30, <1>31,
   <1>32, <1>33, <1>34, <1>35, <1>36, <1>37, <1>38, <1>39, <1>40, <1>41, <1>42, <1>43, <1>44, <1>45, <1>46,
   <1>47, <1>48, <1>49, <1>50, <1>51, <1>52, <1>53, <1>54, <1>55, <1>56, <1>57, <1>58, <1>59, <1>60, <1>61,
   <1>62, <1>63, <1>64, <1>65, <1>66, <1>67, <1>68, <1>69 DEF Operations

LEMMA KeysAreThere ==
  ASSUME NEW n \in {"cancelAccountDeletion", "registerDevice", "submitCourierSelfie", "reactivateUser",
                    "reactivateWasher", "updateMaintenanceConfig"}
  PROVE  Operation[n].name = n /\ AsNamed(Operation[n])
 <1>1. \E o \in Operations : o.name = n
  <2>1. CASE n = "cancelAccountDeletion"
   <3>1. PICK o : o = [name |-> n, roles |-> AnyRole, needs |-> {},
                      allows |-> {"AllowDeletionPending", "AllowUnverifiedCourier"}, public |-> FALSE] OBVIOUS
   <3>2. o \in Open(AnyRole, {"AllowDeletionPending", "AllowUnverifiedCourier"}, {"cancelAccountDeletion"})
     BY <2>1, <3>1 DEF Open, Entry
   <3>3. o \in AccountDeletionOps BY <3>2, Zenon DEF AccountDeletionOps
   <3>4. o.name = n BY <3>1
   <3> QED BY <3>3, <3>4, Zenon DEF Operations
  <2>2. CASE n = "registerDevice"
   <3>1. PICK o : o = [name |-> n, roles |-> ShopFloor, needs |-> {},
                      allows |-> {"AllowUnregisteredDevice"}, public |-> FALSE] OBVIOUS
   <3>2. o \in Open(ShopFloor, {"AllowUnregisteredDevice"}, {"registerDevice", "getMyDevice", "myBranchOptions",
                      "myOwner", "claimDevice", "remindDeviceApproval"})
     BY <2>2, <3>1 DEF Open, Entry
   <3>3. o \in DevicesOps BY <3>2, Zenon DEF DevicesOps
   <3>4. o.name = n BY <3>1
   <3> QED BY <3>3, <3>4, Zenon DEF Operations
  <2>3. CASE n = "submitCourierSelfie"
   <3>1. PICK o : o = [name |-> n, roles |-> {"courier"}, needs |-> {},
                      allows |-> {"AllowUnverifiedCourier"}, public |-> FALSE] OBVIOUS
   <3>2. o \in Open({"courier"}, {"AllowUnverifiedCourier"}, {"submitCourierSelfie", "myCourierSelfie"})
     BY <2>3, <3>1 DEF Open, Entry
   <3>3. o \in CourierVerificationOps BY <3>2, Zenon DEF CourierVerificationOps
   <3>4. o.name = n BY <3>1
   <3> QED BY <3>3, <3>4, Zenon DEF Operations
  <2>4. CASE n = "reactivateUser"
   <3>1. PICK o : o = [name |-> n, roles |-> {"admin"}, needs |-> {},
                      allows |-> {}, public |-> FALSE] OBVIOUS
   <3>2. o \in Ops({"admin"}, {"deactivateUser", "reactivateUser"}) BY <2>4, <3>1 DEF Ops, Entry
   <3>3. o \in UsersOps2 BY <3>2, Zenon DEF UsersOps2
   <3>4. o.name = n BY <3>1
   <3> QED BY <3>3, <3>4, Zenon DEF Operations
  <2>5. CASE n = "reactivateWasher"
   <3>1. PICK o : o = [name |-> n, roles |-> {"admin"}, needs |-> {},
                      allows |-> {}, public |-> FALSE] OBVIOUS
   <3>2. o \in Ops({"admin"}, {"setWasherDailyOrderCap", "suspendWasher", "reactivateWasher"})
     BY <2>5, <3>1 DEF Ops, Entry
   <3>3. o \in WasherAdminOps BY <3>2, Zenon DEF WasherAdminOps
   <3>4. o.name = n BY <3>1
   <3> QED BY <3>3, <3>4, Zenon DEF Operations
  <2>6. CASE n = "updateMaintenanceConfig"
   <3>1. PICK o : o = [name |-> n, roles |-> {"admin"}, needs |-> {},
                      allows |-> {}, public |-> FALSE] OBVIOUS
   <3>2. o \in Ops({"admin"}, {"updateMaintenanceConfig"}) BY <2>6, <3>1 DEF Ops, Entry
   <3>3. o \in MaintenanceOps BY <3>2, Zenon DEF MaintenanceOps
   <3>4. o.name = n BY <3>1
   <3> QED BY <3>3, <3>4, Zenon DEF Operations
  <2> QED BY <2>1, <2>2, <2>3, <2>4, <2>5, <2>6
 <1>2. Operation[n] = CHOOSE o \in Operations : o.name = n BY <1>1 DEF Operation
 <1>3. Operation[n] \in Operations /\ Operation[n].name = n BY <1>1, <1>2
 <1> QED BY <1>3, TableIsAsNamed

(* Grants, and a request between its two writes. *)
NamesAt(row, rows) == {n \in PERMISSION_CATALOGUE : <<n, IF n = AcFragile THEN row ELSE 1>> \in rows}

GrantsTyped(e) ==
  /\ DOMAIN e \subseteq AcBranches
  /\ \A b \in DOMAIN e : e[b] \subseteq PERMISSION_CATALOGUE \X (1..AcMostRows)

(* Of every group all is held or nothing. *)
Whole(row, e) ==
  \A b \in DOMAIN e : \A g \in PermissionGroups :
    PERMISSION_GROUP_MEMBERS[g] \cap NamesAt(row, e[b]) # {} => PERMISSION_GROUP_MEMBERS[g] \subseteq NamesAt(row, e[b])

Overlaps(e, f) == \A b \in DOMAIN e \cap DOMAIN f : f[b] = e[b]

GrantsFit ==
  /\ ~acPartial => acRow # 0 /\ Whole(acRow, acAccess)
  /\ acSlow.kind = "update" =>
       /\ GrantsTyped(acSlow.entries)
       /\ ~acPartial => Whole(acRow, acSlow.entries)
       /\ acSlow.shape = "branches" /\ acCrossed = {} => Overlaps(acAccess, acSlow.entries)

StatusFits ==
  /\ acSlow = NoRequest \/ acSlow.kind \in {"status", "update"}
  /\ acSlow.kind = "status" => acSlow.suspend \in BOOLEAN /\ (acTorn \/ acSlow.suspend = acSuspended)
  /\ acSlow.kind # "status" => acTorn \/ acLocked = acSuspended

AcTyped ==
  /\ acRole \in AllRoles
  /\ acSelfie \in {"NONE", "ACTIVE", "REVOKED"}
  /\ acActive \in BOOLEAN /\ acLeaving \in BOOLEAN /\ acLocked \in BOOLEAN
  /\ acSuspended \in BOOLEAN /\ acPartial \in BOOLEAN /\ acTorn \in BOOLEAN
  /\ acDevice \in AcBranches \cup {"none"}
  /\ GrantsTyped(acAccess)
  /\ acRow \in 0..AcMostRows /\ acMade \in 1..AcMostRows
  /\ acConfig \in Configs /\ acWindow \in BOOLEAN
  /\ acCalls \in 0..AcMostCalls

AcInv ==
  /\ AcTyped /\ GrantsFit /\ StatusFits
  /\ ReachableWhileBlocked(acConfig) /\ MirrorsAgree

LEMMA GroupsApart ==
  \A g \in PermissionGroups : \A h \in PermissionGroups :
    PERMISSION_GROUP_MEMBERS[g] \cap PERMISSION_GROUP_MEMBERS[h] # {} => g = h
 <1> SUFFICES ASSUME NEW g \in PermissionGroups, NEW h \in PermissionGroups, NEW n,
                     n \in PERMISSION_GROUP_MEMBERS[g], n \in PERMISSION_GROUP_MEMBERS[h]
              PROVE  g = h
   OBVIOUS
 <1>1. g \in {"ORDERS", "INVENTORY", "SERVICES", "OTHERS"} /\ h \in {"ORDERS", "INVENTORY", "SERVICES", "OTHERS"}
   BY DEF PermissionGroups, PERMISSION_GROUP_MEMBERS
 <1> QED BY <1>1 DEF PERMISSION_GROUP_MEMBERS

LEMMA RowsFit ==
  ASSUME NEW names \in SUBSET PERMISSION_CATALOGUE, acRow \in 0..AcMostRows
  PROVE  /\ RowsOf(names) \subseteq PERMISSION_CATALOGUE \X (1..AcMostRows)
         /\ acRow # 0 => NamesAt(acRow, RowsOf(names)) = names
 <1>1. 1 \in 1..AcMostRows BY AcAssumption
 <1>2. \A n \in names : RowGeneration(n) # 0 => RowGeneration(n) \in 1..AcMostRows
   BY <1>1 DEF RowGeneration
 <1>3. RowsOf(names) \subseteq PERMISSION_CATALOGUE \X (1..AcMostRows) BY <1>2 DEF RowsOf
 <1>4. ASSUME acRow # 0 PROVE NamesAt(acRow, RowsOf(names)) = names
  <2>1. \A n : RowGeneration(n) # 0 BY <1>4 DEF RowGeneration
  <2>2. \A n, k : <<n, k>> \in RowsOf(names) <=> n \in names /\ k = RowGeneration(n) BY <2>1 DEF RowsOf
  <2>3. \A n \in PERMISSION_CATALOGUE : n \in NamesAt(acRow, RowsOf(names)) <=> n \in names
    BY <2>2 DEF NamesAt, RowGeneration
  <2>4. NamesAt(acRow, RowsOf(names)) \subseteq PERMISSION_CATALOGUE BY DEF NamesAt
  <2> QED BY <2>3, <2>4
 <1> QED BY <1>3, <1>4

(* What an update resolves to. *)
LEMMA ResolvedFits ==
  ASSUME NEW i \in ByGroups \cup ByList \cup ByBranches, acRow \in 0..AcMostRows, GrantsTyped(acAccess)
  PROVE  /\ GrantsTyped(ResolveGrantEntries(i))
         /\ ~LeavesPartOfAGroup(i) /\ Whole(acRow, acAccess) => Whole(acRow, ResolveGrantEntries(i))
         /\ i.shape = "branches" => Overlaps(acAccess, ResolveGrantEntries(i))
         /\ LeavesPartOfAGroup(i) \in BOOLEAN
 <1>b. LeavesPartOfAGroup(i) \in BOOLEAN BY DEF LeavesPartOfAGroup
 <1>1. CASE i \in ByGroups
  <2>1. PICK B \in SUBSET AcBranches : i.shape = "groups" /\ i.form \in [B -> AcGroupForms] BY <1>1 DEF ByGroups
  <2>2. ResolveGrantEntries(i) = [b \in B |-> RowsOf(ExpandGroups(i.form[b]))]
    BY <2>1 DEF ResolveGrantEntries, EntriesFromGroups
  <2>3. \A b \in B : i.form[b] \subseteq PermissionGroups BY <2>1, AcAssumption
  <2>4. ASSUME NEW b \in B PROVE ExpandGroups(i.form[b]) \in SUBSET PERMISSION_CATALOGUE
    BY <2>3 DEF ExpandGroups, PERMISSION_CATALOGUE
  <2>5. GrantsTyped(ResolveGrantEntries(i)) BY <2>2, <2>4, RowsFit DEF GrantsTyped
  <2>6. ASSUME ~LeavesPartOfAGroup(i), NEW b \in B, NEW g \in PermissionGroups,
               PERMISSION_GROUP_MEMBERS[g] \cap NamesAt(acRow, ResolveGrantEntries(i)[b]) # {}
        PROVE  PERMISSION_GROUP_MEMBERS[g] \subseteq NamesAt(acRow, ResolveGrantEntries(i)[b])
   <3>1. acRow # 0 BY <2>1, <2>6 DEF LeavesPartOfAGroup
   <3>2. ResolveGrantEntries(i)[b] = RowsOf(ExpandGroups(i.form[b])) BY <2>2
   <3>3. NamesAt(acRow, ResolveGrantEntries(i)[b]) = ExpandGroups(i.form[b]) BY <3>1, <3>2, <2>4, RowsFit
   <3>4. g \in i.form[b]
    <4>1. PICK h \in i.form[b] : PERMISSION_GROUP_MEMBERS[g] \cap PERMISSION_GROUP_MEMBERS[h] # {}
      BY <3>3, <2>6 DEF ExpandGroups
    <4>2. h \in PermissionGroups BY <2>3
    <4> QED BY <4>1, <4>2, GroupsApart
   <3> QED BY <3>3, <3>4 DEF ExpandGroups
  <2>7. DOMAIN ResolveGrantEntries(i) = B BY <2>2
  <2> QED BY <1>b, <2>1, <2>5, <2>6, <2>7 DEF Whole
 <1>2. CASE i \in ByList
  <2>1. i.shape = "list" /\ i.names \in AcOldLists BY <1>2 DEF ByList
  <2>2. ResolveGrantEntries(i) = [b \in DOMAIN acAccess |-> RowsOf(i.names)] BY <2>1 DEF ResolveGrantEntries
  <2>3. i.names \in SUBSET PERMISSION_CATALOGUE BY <2>1, AcAssumption
  <2>4. GrantsTyped(ResolveGrantEntries(i)) BY <2>2, <2>3, RowsFit DEF GrantsTyped
  <2>5. LeavesPartOfAGroup(i) BY <2>1 DEF LeavesPartOfAGroup
  <2> QED BY <1>b, <2>1, <2>4, <2>5
 <1>3. CASE i \in ByBranches
  <2>1. i.shape = "branches" /\ i.branches \subseteq AcBranches BY <1>3 DEF ByBranches
  <2>2. ResolveGrantEntries(i) = [b \in i.branches |-> IF b \in DOMAIN acAccess THEN acAccess[b] ELSE {}]
    BY <2>1 DEF ResolveGrantEntries, Surviving
  <2>3. GrantsTyped(ResolveGrantEntries(i)) BY <2>1, <2>2 DEF GrantsTyped
  <2>4. NamesAt(acRow, {}) = {} BY DEF NamesAt
  <2>5. Whole(acRow, acAccess) => Whole(acRow, ResolveGrantEntries(i)) BY <2>2, <2>4 DEF Whole
  <2>6. Overlaps(acAccess, ResolveGrantEntries(i)) BY <2>2 DEF Overlaps
  <2> QED BY <1>b, <2>3, <2>5, <2>6
 <1> QED BY <1>1, <1>2, <1>3

LEMMA AcInvInit == AcInit => AcInv
 <1> SUFFICES ASSUME AcInit PROVE AcInv OBVIOUS
 <1>1. DOMAIN acAccess = {}
  <2>1. acAccess = <<>> BY DEF AcInit
  <2> QED BY <2>1
 <1>2. GrantsTyped(acAccess) BY <1>1 DEF GrantsTyped
 <1>3. acRow = 1 /\ acMade = 1 /\ acCalls = 0 /\ acPartial = FALSE /\ acTorn = FALSE /\ acSlow = NoRequest
   BY DEF AcInit
 <1>4. acConfig \in Configs /\ acConfig = NoBlock BY DEF AcInit, Configs, NoBlock, Modes
 <1>5. AcTyped
  <2>1. acRole \in AllRoles /\ acSelfie \in {"NONE", "ACTIVE", "REVOKED"} /\ acDevice \in AcBranches \cup {"none"}
    BY AcAssumption DEF AcInit
  <2>2. /\ acActive \in BOOLEAN /\ acLeaving \in BOOLEAN /\ acLocked \in BOOLEAN /\ acSuspended \in BOOLEAN
        /\ acPartial \in BOOLEAN /\ acTorn \in BOOLEAN /\ acWindow \in BOOLEAN
    BY DEF AcInit
  <2>3. acRow \in 0..AcMostRows /\ acMade \in 1..AcMostRows /\ acCalls \in 0..AcMostCalls BY <1>3, AcAssumption
  <2> QED BY <1>2, <1>4, <2>1, <2>2, <2>3 DEF AcTyped
 <1>6. GrantsFit
  <2>1. Whole(acRow, acAccess) BY <1>1 DEF Whole
  <2>2. acSlow.kind # "update" BY <1>3 DEF NoRequest
  <2> QED BY <1>3, <2>1, <2>2 DEF GrantsFit
 <1>7. StatusFits
  <2>1. acSlow.kind # "status" BY <1>3 DEF NoRequest
  <2>2. acLocked = acSuspended BY DEF AcInit
  <2> QED BY <1>3, <2>1, <2>2 DEF StatusFits
 <1>8. ReachableWhileBlocked(acConfig) BY <1>4 DEF ReachableWhileBlocked, Blocking, NoBlock
 <1>9. MirrorsAgree
  <2>1. acMirror = <<{}, {}>> BY DEF AcInit
  <2>2. {acAccess[b] : b \in DOMAIN acAccess} = {} BY <1>1
  <2> QED BY <1>1, <2>1, <2>2 DEF MirrorsAgree
 <1> QED BY <1>5, <1>6, <1>7, <1>8, <1>9 DEF AcInv

(* The steps that leave grants, requests and the suspension alone. *)
AcPlain ==
  \/ RequestDeletion \/ CancelDeletion \/ (\E on \in BOOLEAN : SetActive(on))
  \/ UpdateMaintenance \/ WindowPasses \/ SubmitSelfie \/ RevokeSelfie
  \/ (\E b \in AcBranches : ApproveDevice(b)) \/ BlockDevice

LEMMA AcPlainLeaves ==
  AcPlain => UNCHANGED <<acAccess, acMirror, acRow, acMade, acSlow, acPartial, acCrossed, acTorn, acLocked,
                         acSuspended, acRole>>
  BY DEF AcPlain, RequestDeletion, CancelDeletion, SetActive, UpdateMaintenance, WindowPasses, SubmitSelfie,
       RevokeSelfie, ApproveDevice, BlockDevice

LEMMA AnswerCounts == ASSUME acCalls \in 0..AcMostCalls, Answer PROVE acCalls' \in 0..AcMostCalls
  BY AcAssumption DEF Answer

LEMMA AcPlainKept == ASSUME AcInv, AcPlain PROVE AcInv'
 <1>t. AcTyped /\ acCalls \in 0..AcMostCalls BY DEF AcInv, AcTyped
 <1>l. UNCHANGED <<acAccess, acMirror, acRow, acMade, acSlow, acPartial, acCrossed, acTorn, acLocked,
                   acSuspended, acRole>>
   BY AcPlainLeaves
 <1>1. acCalls' \in 0..AcMostCalls
   BY <1>t, AnswerCounts DEF AcPlain, RequestDeletion, CancelDeletion, SetActive, UpdateMaintenance,
        WindowPasses, SubmitSelfie, RevokeSelfie, ApproveDevice, BlockDevice
 <1>2. acSelfie' \in {"NONE", "ACTIVE", "REVOKED"} /\ acDevice' \in AcBranches \cup {"none"}
   BY <1>t DEF AcTyped, AcPlain, RequestDeletion, CancelDeletion, SetActive, UpdateMaintenance,
        WindowPasses, SubmitSelfie, RevokeSelfie, ApproveDevice, BlockDevice
 <1>3. acActive' \in BOOLEAN /\ acLeaving' \in BOOLEAN
   BY <1>t DEF AcTyped, AcPlain, RequestDeletion, CancelDeletion, SetActive, UpdateMaintenance,
        WindowPasses, SubmitSelfie, RevokeSelfie, ApproveDevice, BlockDevice
 <1>4. acWindow' \in BOOLEAN
   BY <1>t DEF AcTyped, AcPlain, RequestDeletion, CancelDeletion, SetActive, UpdateMaintenance,
        WindowPasses, SubmitSelfie, RevokeSelfie, ApproveDevice, BlockDevice
 <1>5. acConfig' \in Configs /\ ReachableWhileBlocked(acConfig')
  <2>1. CASE UpdateMaintenance
   <3>1. PICK c \in Configs : ReachableWhileBlocked(c) /\ acConfig' = c BY <2>1 DEF UpdateMaintenance
   <3> QED BY <3>1
  <2>2. CASE ~UpdateMaintenance
   <3>1. acConfig' = acConfig
     BY <2>2 DEF AcPlain, RequestDeletion, CancelDeletion, SetActive, WindowPasses, SubmitSelfie,
          RevokeSelfie, ApproveDevice, BlockDevice
   <3>2. ReachableWhileBlocked(acConfig) /\ acConfig \in Configs BY DEF AcInv, AcTyped
   <3> QED BY <3>1, <3>2
  <2> QED BY <2>1, <2>2
 <1>6. AcTyped'
  <2>1. GrantsTyped(acAccess)' BY <1>t, <1>l DEF AcTyped, GrantsTyped
  <2>2. /\ acLocked' \in BOOLEAN /\ acSuspended' \in BOOLEAN /\ acPartial' \in BOOLEAN /\ acTorn' \in BOOLEAN
        /\ acRole' \in AllRoles /\ acRow' \in 0..AcMostRows /\ acMade' \in 1..AcMostRows
    BY <1>t, <1>l DEF AcTyped
  <2> QED BY <1>1, <1>2, <1>3, <1>4, <1>5, <2>1, <2>2 DEF AcTyped
 <1>7. GrantsFit'
  <2>1. GrantsFit BY DEF AcInv
  <2> QED BY <1>l, <2>1 DEF GrantsFit, Whole, GrantsTyped, Overlaps, NamesAt
 <1>8. StatusFits'
  <2>1. StatusFits BY DEF AcInv
  <2> QED BY <1>l, <2>1 DEF StatusFits
 <1>9. MirrorsAgree'
  <2>1. MirrorsAgree BY DEF AcInv
  <2> QED BY <1>l, <2>1 DEF MirrorsAgree
 <1>10. ReachableWhileBlocked(acConfig)' BY <1>5 DEF ReachableWhileBlocked, Blocking
 <1> QED BY <1>6, <1>7, <1>8, <1>9, <1>10 DEF AcInv

(* The steps of a change of a washer's status. *)
LEMMA StatusStepsKept ==
  ASSUME AcInv, (\E suspend \in BOOLEAN : BeginStatus(suspend) \/ WholeStatus(suspend)) \/ SetWasherStatus \/ AcLose
  PROVE  AcInv'
 <1>t. AcTyped /\ acCalls \in 0..AcMostCalls BY DEF AcInv, AcTyped
 <1>l. UNCHANGED <<acRole, acActive, acLeaving, acSelfie, acDevice, acAccess, acMirror, acRow, acMade, acConfig,
                   acWindow, acPartial>>
   BY DEF BeginStatus, WholeStatus, SetWasherStatus, AcLose
 <1>1. acCalls' \in 0..AcMostCalls
   BY <1>t, AnswerCounts DEF BeginStatus, WholeStatus, SetWasherStatus, AcLose
 <1>s. StatusFits BY DEF AcInv
 <1>2. acLocked' \in BOOLEAN /\ acSuspended' \in BOOLEAN /\ acTorn' \in BOOLEAN
  <2>1. CASE \E suspend \in BOOLEAN : BeginStatus(suspend) \/ WholeStatus(suspend)
    BY <2>1, <1>t DEF AcTyped, BeginStatus, WholeStatus
  <2>2. CASE SetWasherStatus
   <3>1. acSlow.suspend \in BOOLEAN BY <2>2, <1>s DEF StatusFits, SetWasherStatus
   <3> QED BY <2>2, <3>1, <1>t DEF AcTyped, SetWasherStatus
  <2>3. CASE AcLose
   <3>1. acTorn' \in BOOLEAN BY <2>3, Zenon DEF AcLose
   <3> QED BY <2>3, <3>1, <1>t DEF AcTyped, AcLose
  <2> QED BY <2>1, <2>2, <2>3
 <1>3. AcTyped'
  <2>1. GrantsTyped(acAccess)' BY <1>t, <1>l DEF AcTyped, GrantsTyped
  <2>2. /\ acActive' \in BOOLEAN /\ acLeaving' \in BOOLEAN /\ acPartial' \in BOOLEAN /\ acWindow' \in BOOLEAN
        /\ acRole' \in AllRoles /\ acRow' \in 0..AcMostRows /\ acMade' \in 1..AcMostRows
        /\ acSelfie' \in {"NONE", "ACTIVE", "REVOKED"} /\ acDevice' \in AcBranches \cup {"none"}
        /\ acConfig' \in Configs
    BY <1>t, <1>l DEF AcTyped
  <2> QED BY <1>1, <1>2, <2>1, <2>2 DEF AcTyped
 <1>4. acSlow'.kind # "update" \/ (acSlow' = acSlow /\ acCrossed' = acCrossed)
   BY DEF BeginStatus, WholeStatus, SetWasherStatus, AcLose, NoRequest
 <1>5. GrantsFit'
  <2>1. GrantsFit BY DEF AcInv
  <2> QED BY <1>l, <1>4, <2>1 DEF GrantsFit, Whole, GrantsTyped, Overlaps, NamesAt
 <1>6. StatusFits'
  <2>1. ASSUME NEW s \in BOOLEAN, BeginStatus(s) PROVE StatusFits'
   <3>1. acSlow' = [kind |-> "status", suspend |-> s] /\ acSuspended' = s BY <2>1 DEF BeginStatus
   <3> QED BY <3>1 DEF StatusFits
  <2>2. ASSUME NEW s \in BOOLEAN, WholeStatus(s) PROVE StatusFits'
   <3>1. acSlow' = acSlow /\ acSlow.kind = "status" /\ acTorn' BY <2>2 DEF WholeStatus
   <3> QED BY <3>1, <1>s DEF StatusFits
  <2>3. CASE SetWasherStatus
   <3>1. acSlow.suspend \in BOOLEAN /\ (acTorn \/ acSlow.suspend = acSuspended)
     BY <2>3, <1>s DEF StatusFits, SetWasherStatus
   <3>2. acSlow' = NoRequest /\ acTorn' = acTorn /\ acLocked' = acSlow.suspend /\ acSuspended' = acSuspended
     BY <2>3 DEF SetWasherStatus
   <3>3. acTorn' \/ acLocked' = acSuspended' BY <3>1, <3>2
   <3>4. acSlow'.kind # "status" BY <3>2 DEF NoRequest
   <3> QED BY <3>2, <3>3, <3>4 DEF StatusFits
  <2>4. CASE AcLose
   <3>1. acSlow' = NoRequest /\ acTorn' = (acTorn \/ acSlow.kind = "status") /\ acLocked' = acLocked
         /\ acSuspended' = acSuspended
     BY <2>4 DEF AcLose
   <3>2. acSlow.kind # "status" => acTorn \/ acLocked = acSuspended BY <1>s DEF StatusFits
   <3>3. acTorn' \/ acLocked' = acSuspended' BY <3>1, <3>2
   <3>4. acSlow'.kind # "status" BY <3>1 DEF NoRequest
   <3> QED BY <3>1, <3>3, <3>4 DEF StatusFits
  <2> QED BY <2>1, <2>2, <2>3, <2>4
 <1>7. MirrorsAgree'
  <2>1. MirrorsAgree BY DEF AcInv
  <2> QED BY <1>l, <2>1 DEF MirrorsAgree
 <1>8. ReachableWhileBlocked(acConfig)'
  <2>1. ReachableWhileBlocked(acConfig) BY DEF AcInv
  <2> QED BY <1>l, <2>1 DEF ReachableWhileBlocked, Blocking
 <1> QED BY <1>3, <1>5, <1>6, <1>7, <1>8 DEF AcInv

(* The steps that touch grants, and the rows behind them. *)
AcGrantSteps ==
  \/ \E i \in ByGroups \cup ByList \cup ByBranches : BeginUpdate(i) \/ WholeUpdate(i)
  \/ FinishUpdate \/ LoseRow \/ SeedRows

LEMMA MirrorsFollow == ASSUME NEW e, StoreGrants(e) PROVE MirrorsAgree'
  BY DEF StoreGrants, MirrorsAgree

LEMMA GrantStepsFit == ASSUME AcInv, AcGrantSteps PROVE GrantsFit' /\ GrantsTyped(acAccess)' /\ acPartial' \in BOOLEAN
 <1>t. /\ GrantsTyped(acAccess) /\ acRow \in 0..AcMostRows /\ GrantsFit /\ acPartial \in BOOLEAN
       /\ acSlow = NoRequest \/ acSlow.kind \in {"status", "update"}
   BY DEF AcInv, AcTyped, StatusFits
 <1>1. ASSUME NEW i \in ByGroups \cup ByList \cup ByBranches, BeginUpdate(i)
       PROVE  GrantsFit' /\ GrantsTyped(acAccess)' /\ acPartial' \in BOOLEAN
  <2>1. /\ acSlow' = [kind |-> "update", shape |-> i.shape, entries |-> ResolveGrantEntries(i)]
        /\ acAccess' = acAccess /\ acRow' = acRow
    BY <1>1 DEF BeginUpdate
  <2>2. acPartial' = (acPartial \/ LeavesPartOfAGroup(i)) BY <1>1 DEF BeginUpdate
  <2>3. LeavesPartOfAGroup(i) \in BOOLEAN BY <1>t, ResolvedFits
  <2>4. acPartial' \in BOOLEAN BY <2>2, Zenon
  <2>5. GrantsTyped(acAccess)' BY <2>1, <1>t DEF GrantsTyped
  <2>6. GrantsTyped(acSlow'.entries) BY <2>1, <1>t, ResolvedFits
  <2>7. ASSUME ~acPartial' PROVE acRow' # 0 /\ Whole(acRow', acAccess') /\ Whole(acRow', acSlow'.entries)
   <3>1. ~acPartial /\ ~LeavesPartOfAGroup(i) BY <2>7, <2>2
   <3>2. acRow # 0 /\ Whole(acRow, acAccess) BY <3>1, <1>t DEF GrantsFit
   <3>3. Whole(acRow, ResolveGrantEntries(i)) BY <3>1, <3>2, <1>t, ResolvedFits
   <3> QED BY <2>1, <3>2, <3>3
  <2>8. acSlow'.shape = "branches" => Overlaps(acAccess', acSlow'.entries) BY <2>1, <1>t, ResolvedFits
  <2> QED BY <2>4, <2>5, <2>6, <2>7, <2>8 DEF GrantsFit, GrantsTyped, Whole, Overlaps, NamesAt
 <1>2. ASSUME NEW i \in ByGroups \cup ByList \cup ByBranches, WholeUpdate(i)
       PROVE  GrantsFit' /\ GrantsTyped(acAccess)' /\ acPartial' \in BOOLEAN
  <2>1. acAccess' = ResolveGrantEntries(i) /\ acSlow' = acSlow /\ acRow' = acRow /\ acSlow.kind = "update"
        /\ acCrossed' = acCrossed \cup AcBranches
    BY <1>2 DEF WholeUpdate, StoreGrants
  <2>2. acPartial' = (acPartial \/ LeavesPartOfAGroup(i)) BY <1>2 DEF WholeUpdate
  <2>3. LeavesPartOfAGroup(i) \in BOOLEAN BY <1>t, ResolvedFits
  <2>4. acPartial' \in BOOLEAN BY <2>2, Zenon
  <2>5. GrantsTyped(acAccess') BY <2>1, <1>t, ResolvedFits
  <2>6. GrantsTyped(acSlow'.entries) BY <2>1, <1>t DEF GrantsFit
  <2>7. ASSUME ~acPartial' PROVE acRow' # 0 /\ Whole(acRow', acAccess') /\ Whole(acRow', acSlow'.entries)
   <3>1. ~acPartial /\ ~LeavesPartOfAGroup(i) BY <2>7, <2>2
   <3>2. acRow # 0 /\ Whole(acRow, acAccess) /\ Whole(acRow, acSlow.entries) BY <3>1, <2>1, <1>t DEF GrantsFit
   <3>3. Whole(acRow, ResolveGrantEntries(i)) BY <3>1, <3>2, <1>t, ResolvedFits
   <3> QED BY <2>1, <3>2, <3>3
  <2>8. acCrossed' = {} => Overlaps(acAccess', acSlow'.entries)
   <3>1. acCrossed' = {} => AcBranches = {} BY <2>1
   <3>2. DOMAIN acAccess' \subseteq AcBranches BY <2>5 DEF GrantsTyped
   <3> QED BY <3>1, <3>2 DEF Overlaps
  <2> QED BY <2>4, <2>5, <2>6, <2>7, <2>8 DEF GrantsFit, GrantsTyped, Whole, Overlaps, NamesAt
 <1>3. CASE FinishUpdate
  <2>1. acAccess' = acSlow.entries /\ acSlow' = NoRequest /\ acRow' = acRow /\ acPartial' = acPartial
        /\ acSlow.kind = "update"
    BY <1>3 DEF FinishUpdate, StoreGrants
  <2>2. GrantsTyped(acSlow.entries) /\ (~acPartial => acRow # 0 /\ Whole(acRow, acSlow.entries))
    BY <1>t, <2>1 DEF GrantsFit
  <2>3. acSlow'.kind # "update" BY <2>1 DEF NoRequest
  <2>4. GrantsTyped(acAccess') /\ (~acPartial' => acRow' # 0 /\ Whole(acRow', acAccess')) BY <2>1, <2>2
  <2> QED BY <1>t, <2>1, <2>3, <2>4 DEF GrantsFit, GrantsTyped, Whole, NamesAt
 <1>4. CASE LoseRow \/ SeedRows
  <2>1. acAccess' = acAccess /\ acSlow' = acSlow /\ acCrossed' = acCrossed BY <1>4 DEF LoseRow, SeedRows
  <2>2. acPartial' = TRUE
   <3>1. acRow = 0 => acPartial = TRUE BY <1>t DEF GrantsFit
   <3> QED BY <1>4, <3>1 DEF LoseRow, SeedRows
  <2> QED BY <1>t, <2>1, <2>2 DEF GrantsFit, GrantsTyped, Overlaps
 <1> QED BY <1>1, <1>2, <1>3, <1>4 DEF AcGrantSteps

LEMMA GrantStepsKept == ASSUME AcInv, AcGrantSteps PROVE AcInv'
 <1>t. AcTyped /\ acCalls \in 0..AcMostCalls BY DEF AcInv, AcTyped
 <1>l. UNCHANGED <<acRole, acActive, acLeaving, acSelfie, acLocked, acSuspended, acDevice, acConfig, acWindow, acTorn>>
   BY DEF AcGrantSteps, BeginUpdate, WholeUpdate, FinishUpdate, LoseRow, SeedRows
 <1>1. acCalls' \in 0..AcMostCalls
   BY <1>t, AnswerCounts DEF AcGrantSteps, BeginUpdate, WholeUpdate, FinishUpdate, LoseRow, SeedRows
 <1>2. acRow' \in 0..AcMostRows /\ acMade' \in 1..AcMostRows
   BY <1>t, AcAssumption DEF AcTyped, AcGrantSteps, BeginUpdate, WholeUpdate, FinishUpdate, LoseRow, SeedRows
 <1>3. AcTyped'
  <2>2. /\ acActive' \in BOOLEAN /\ acLeaving' \in BOOLEAN /\ acWindow' \in BOOLEAN
        /\ acLocked' \in BOOLEAN /\ acSuspended' \in BOOLEAN /\ acTorn' \in BOOLEAN
        /\ acRole' \in AllRoles
        /\ acSelfie' \in {"NONE", "ACTIVE", "REVOKED"} /\ acDevice' \in AcBranches \cup {"none"}
        /\ acConfig' \in Configs
    BY <1>t, <1>l DEF AcTyped
  <2> QED BY <1>1, <1>2, <2>2, GrantStepsFit DEF AcTyped
 <1>4. StatusFits'
  <2>1. StatusFits BY DEF AcInv
  <2>2. \/ acSlow' = acSlow
        \/ acSlow.kind # "status" /\ (acSlow' = NoRequest \/ acSlow'.kind = "update")
    BY DEF AcGrantSteps, BeginUpdate, WholeUpdate, FinishUpdate, LoseRow, SeedRows, NoRequest
  <2> QED BY <1>l, <2>1, <2>2 DEF StatusFits, NoRequest
 <1>5. MirrorsAgree'
  <2>1. MirrorsAgree BY DEF AcInv
  <2>2. (acAccess' = acAccess /\ acMirror' = acMirror) \/ \E e : StoreGrants(e)
    BY DEF AcGrantSteps, BeginUpdate, WholeUpdate, FinishUpdate, LoseRow, SeedRows
  <2>3. (acAccess' = acAccess /\ acMirror' = acMirror) => MirrorsAgree' BY <2>1 DEF MirrorsAgree
  <2> QED BY <2>2, <2>3, MirrorsFollow
 <1>6. ReachableWhileBlocked(acConfig)'
  <2>1. ReachableWhileBlocked(acConfig) BY DEF AcInv
  <2> QED BY <1>l, <2>1 DEF ReachableWhileBlocked, Blocking
 <1> QED BY <1>3, <1>4, <1>5, <1>6, GrantStepsFit DEF AcInv

LEMMA AcInvNext == AcInv /\ [AcNext]_acVars => AcInv'
 <1> SUFFICES ASSUME AcInv, [AcNext]_acVars PROVE AcInv' OBVIOUS
 <1>1. CASE UNCHANGED acVars
  <2>l. UNCHANGED <<acRole, acActive, acLeaving, acSelfie, acLocked, acSuspended, acDevice, acAccess, acMirror,
                    acRow, acMade, acConfig, acWindow, acSlow, acCalls, acPartial, acCrossed, acTorn>>
    BY <1>1 DEF acVars
  <2>1. AcTyped' BY <2>l DEF AcInv, AcTyped, GrantsTyped
  <2>2. GrantsFit' BY <2>l DEF AcInv, GrantsFit, GrantsTyped, Whole, NamesAt, Overlaps
  <2>3. StatusFits' /\ MirrorsAgree' BY <2>l DEF AcInv, StatusFits, MirrorsAgree
  <2>4. ReachableWhileBlocked(acConfig)' BY <2>l DEF AcInv, ReachableWhileBlocked, Blocking
  <2> QED BY <2>1, <2>2, <2>3, <2>4 DEF AcInv
 <1>2. CASE AcNext
  <2>1. \/ AcPlain \/ AcGrantSteps
        \/ (\E suspend \in BOOLEAN : BeginStatus(suspend) \/ WholeStatus(suspend)) \/ SetWasherStatus \/ AcLose
    BY <1>2 DEF AcNext, AcPlain, AcGrantSteps
  <2> QED BY <2>1, AcPlainKept, StatusStepsKept, GrantStepsKept
 <1> QED BY <1>1, <1>2

(* The operations with which a lock is opened, seen by the account and by the
   back office. *)
LEMMA BossReopens ==
  ASSUME NEW n \in {"reactivateUser", "reactivateWasher", "updateMaintenanceConfig"}
  PROVE  BossMay(n)
 <1>1. "admin" \in Operation[n].roles BY KeysAreThere DEF AsNamed
 <1> QED BY <1>1 DEF BossMay, BlockedFor, BackOffice

LEMMA OwnKeys ==
  ASSUME AcTyped
  PROVE  /\ ~acActive /\ acLeaving => Admitted(Operation["cancelAccountDeletion"])
         /\ acActive /\ ~BlockedFor(acRole) /\ acRole = "staff" => Admitted(Operation["registerDevice"])
         /\ acActive /\ ~BlockedFor(acRole) /\ acRole = "courier" => Admitted(Operation["submitCourierSelfie"])
 <1>1. ASSUME ~acActive, acLeaving PROVE Admitted(Operation["cancelAccountDeletion"])
  <2> DEFINE o == Operation["cancelAccountDeletion"]
  <2>1. o.roles = AllRoles /\ o.needs = {} /\ "AllowDeletionPending" \in o.allows BY KeysAreThere DEF AsNamed
  <2> HIDE DEF o
  <2>2. SignInRefusals(o) = {} BY <1>1, <2>1 DEF SignInRefusals
  <2>3. RolePasses(o) /\ PermissionsPass(o) BY <2>1 DEF RolePasses, PermissionsPass, AcTyped
  <2> QED BY <2>2, <2>3 DEF Admitted, o
 <1>2. ASSUME acActive, ~BlockedFor(acRole), acRole = "staff" PROVE Admitted(Operation["registerDevice"])
  <2> DEFINE o == Operation["registerDevice"]
  <2>1. o.roles = ShopFloor /\ o.needs = {} /\ o.allows = {"AllowUnregisteredDevice"} BY KeysAreThere DEF AsNamed
  <2> HIDE DEF o
  <2>2. GatesShut \subseteq {"device"} BY <1>2 DEF GatesShut, Gates
  <2>3. SignInRefusals(o) = {}
   <3>1. {r \in DOMAIN Gates : r \in GatesShut /\ Gates[r] \notin o.allows} = {} BY <2>1, <2>2 DEF Gates
   <3> QED BY <1>2, <3>1 DEF SignInRefusals
  <2>4. RolePasses(o) /\ PermissionsPass(o) BY <1>2, <2>1 DEF RolePasses, PermissionsPass, ShopFloor
  <2> QED BY <2>3, <2>4 DEF Admitted, o
 <1>3. ASSUME acActive, ~BlockedFor(acRole), acRole = "courier" PROVE Admitted(Operation["submitCourierSelfie"])
  <2> DEFINE o == Operation["submitCourierSelfie"]
  <2>1. o.roles = {"courier"} /\ o.needs = {} /\ o.allows = {"AllowUnverifiedCourier"} BY KeysAreThere DEF AsNamed
  <2> HIDE DEF o
  <2>2. GatesShut \subseteq {"selfie"} BY <1>3 DEF GatesShut, Gates
  <2>3. SignInRefusals(o) = {}
   <3>1. {r \in DOMAIN Gates : r \in GatesShut /\ Gates[r] \notin o.allows} = {} BY <2>1, <2>2 DEF Gates
   <3> QED BY <1>3, <3>1 DEF SignInRefusals
  <2>4. RolePasses(o) /\ PermissionsPass(o) BY <1>3, <2>1 DEF RolePasses, PermissionsPass
  <2> QED BY <2>3, <2>4 DEF Admitted, o
 <1> QED BY <1>1, <1>2, <1>3

LEMMA AcInvSaysKey == AcInv => EveryLockHasAKey
 <1> SUFFICES ASSUME AcInv, SignInRefusals(Ordinary) # {} PROVE \E r \in SignInRefusals(Ordinary) : HasKey(r)
   BY DEF EveryLockHasAKey
 <1>t. AcTyped /\ StatusFits BY DEF AcInv
 <1>1. CASE ~acActive /\ acLeaving
  <2>1. SignInRefusals(Ordinary) = {"leaving"} BY <1>1 DEF SignInRefusals, Ordinary
  <2>2. HasKey("leaving") BY <1>t, <1>1, OwnKeys DEF HasKey
  <2> QED BY <2>1, <2>2
 <1>2. CASE ~acActive /\ ~acLeaving
  <2>1. SignInRefusals(Ordinary) = {"deactivated"} BY <1>2 DEF SignInRefusals, Ordinary
  <2>2. HasKey("deactivated") BY BossReopens DEF HasKey
  <2> QED BY <2>1, <2>2
 <1>3. CASE acActive
  <2>1. SignInRefusals(Ordinary) = GatesShut
   <3>1. SignInRefusals(Ordinary) = {r \in DOMAIN Gates : r \in GatesShut /\ Gates[r] \notin {}}
     BY <1>3 DEF SignInRefusals, Ordinary
   <3> QED BY <3>1 DEF GatesShut
  <2>2. CASE "maintenance" \in GatesShut
   <3>1. HasKey("maintenance") BY BossReopens DEF HasKey
   <3> QED BY <2>1, <2>2, <3>1
  <2>3. CASE "suspended" \in GatesShut
   <3>1. acLocked BY <2>3 DEF GatesShut
   <3>2. acSuspended \/ acTorn \/ acSlow # NoRequest
    <4>1. CASE acSlow.kind = "status" BY <4>1 DEF NoRequest
    <4>2. CASE acSlow.kind # "status" BY <1>t, <3>1, <4>2 DEF StatusFits
    <4> QED BY <4>1, <4>2
   <3>3. HasKey("suspended") BY <3>2, BossReopens DEF HasKey
   <3> QED BY <2>1, <2>3, <3>3
  <2>4. CASE "device" \in GatesShut /\ "maintenance" \notin GatesShut
   <3>1. acRole = "staff" /\ ~BlockedFor(acRole) BY <2>4 DEF GatesShut, Gates
   <3>2. HasKey("device") BY <1>t, <1>3, <3>1, OwnKeys DEF HasKey
   <3> QED BY <2>1, <2>4, <3>2
  <2>5. CASE "selfie" \in GatesShut /\ "maintenance" \notin GatesShut
   <3>1. acRole = "courier" /\ ~BlockedFor(acRole) BY <2>5 DEF GatesShut, Gates
   <3>2. HasKey("selfie") BY <1>t, <1>3, <3>1, OwnKeys DEF HasKey
   <3> QED BY <2>1, <2>5, <3>2
  <2>6. GatesShut \subseteq {"device", "selfie", "suspended", "maintenance"} BY DEF GatesShut, Gates
  <2> QED BY <2>1, <2>2, <2>3, <2>4, <2>5, <2>6
 <1> QED BY <1>1, <1>2, <1>3

LEMMA AcInvSaysContact == AcInv => BlockedCanReachUs
 <1> SUFFICES ASSUME AcInv, NEW role \in AllRoles, BlockedFor(role) PROVE acConfig.contact BY DEF BlockedCanReachUs
 <1>1. acConfig.global \/ InForce(acConfig.customer) \/ InForce(acConfig.partner) BY DEF BlockedFor
 <1>2. Blocking(acConfig) BY <1>1 DEF InForce, Blocking
 <1> QED BY <1>2 DEF AcInv, ReachableWhileBlocked

LEMMA AcInvSaysSwitches == AcInv => SwitchesMeanWhatTheySay
 <1> SUFFICES ASSUME AcInv, acRole = "staff", acDevice \in DOMAIN acAccess,
                     NEW g \in PermissionGroups, NEW n \in PERMISSION_GROUP_MEMBERS[g]
              PROVE  /\ PermissionsPass([Ordinary EXCEPT !.needs = {n}]) => g \in GroupsShown(acDevice)
                     /\ g \in GroupsShown(acDevice) => PermissionsPass([Ordinary EXCEPT !.needs = {n}]) \/ acPartial
   BY DEF SwitchesMeanWhatTheySay
 <1> DEFINE o == [Ordinary EXCEPT !.needs = {n}]
 <1>1. o.needs = {n} /\ o.allows = {} BY DEF Ordinary
 <1> HIDE DEF o
 <1>2. acDevice # "none" BY AcAssumption DEF AcInv, AcTyped, GrantsTyped
 <1>3. PermissionsPass(o) <=> n \in NamesOf(acAccess[acDevice])
   BY <1>1, <1>2 DEF PermissionsPass, HoldsOnBranch
 <1>4. g \in GroupsShown(acDevice) <=> PERMISSION_GROUP_MEMBERS[g] \cap NamesOf(acAccess[acDevice]) # {}
   BY DEF GroupsShown, GroupsFromNames
 <1>5. ASSUME ~acPartial, PERMISSION_GROUP_MEMBERS[g] \cap NamesOf(acAccess[acDevice]) # {}
       PROVE  n \in NamesOf(acAccess[acDevice])
  <2>1. Whole(acRow, acAccess) BY <1>5 DEF AcInv, GrantsFit
  <2>2. NamesOf(acAccess[acDevice]) = NamesAt(acRow, acAccess[acDevice]) BY DEF NamesOf, NamesAt, RowGeneration
  <2> QED BY <2>1, <2>2, <1>5 DEF Whole
 <1>6. (PermissionsPass(o) => g \in GroupsShown(acDevice)) /\ (g \in GroupsShown(acDevice) => PermissionsPass(o) \/ acPartial)
   BY <1>3, <1>4, <1>5
 <1> QED BY <1>6 DEF o

LEMMA AcInvSays ==
  AcInv => AcTypeOK /\ EveryLockHasAKey /\ BlockedCanReachUs /\ MirrorsAgree /\ SwitchesMeanWhatTheySay /\ SuspensionIsWhole
 <1> SUFFICES ASSUME AcInv PROVE AcTypeOK /\ MirrorsAgree /\ SuspensionIsWhole
   BY AcInvSaysKey, AcInvSaysContact, AcInvSaysSwitches
 <1>1. AcTypeOK
  <2>1. AcTyped BY DEF AcInv
  <2>2. {acActive, acLeaving, acLocked, acSuspended, acPartial, acTorn} \subseteq BOOLEAN BY <2>1, Zenon DEF AcTyped
  <2>3. /\ acRole \in AllRoles /\ acSelfie \in {"NONE", "ACTIVE", "REVOKED"} /\ acDevice \in AcBranches \cup {"none"}
        /\ acRow \in 0..AcMostRows /\ acMade \in 1..AcMostRows /\ acConfig \in Configs /\ acWindow \in BOOLEAN
        /\ acCalls \in 0..AcMostCalls
    BY <2>1 DEF AcTyped
  <2>4. DOMAIN acAccess \subseteq AcBranches /\ \A b \in DOMAIN acAccess : acAccess[b] \subseteq PERMISSION_CATALOGUE \X (1..AcMostRows)
    BY <2>1 DEF AcTyped, GrantsTyped
  <2> QED BY <2>2, <2>3, <2>4, Zenon DEF AcTypeOK
 <1>2. MirrorsAgree BY DEF AcInv
 <1>3. SuspensionIsWhole
  <2> SUFFICES ASSUME acSlow = NoRequest, ~acTorn PROVE acLocked <=> acSuspended BY DEF SuspensionIsWhole
  <2>1. acSlow.kind # "status" BY DEF NoRequest
  <2>2. acLocked = acSuspended BY <2>1 DEF AcInv, StatusFits
  <2> QED BY <2>2
 <1> QED BY <1>1, <1>2, <1>3

(* Only the write of the request itself ends it with other grants stored. *)
LEMMA ReassignmentKeeps == AcInv /\ [AcNext]_acVars => ReassignmentKeepsGrants
 <1> SUFFICES ASSUME AcInv, [AcNext]_acVars, acSlow.kind = "update", acSlow' = NoRequest, acAccess' # acAccess,
                     acSlow.shape = "branches", acCrossed = {}
              PROVE  \A b \in DOMAIN acAccess \cap DOMAIN acAccess' : acAccess'[b] = acAccess[b]
   BY DEF ReassignmentKeepsGrants
 <1>1. acSlow # NoRequest BY DEF NoRequest
 <1>2. FinishUpdate
  <2>1. AcNext BY DEF acVars
  <2>2. ~AcPlain BY AcPlainLeaves
  <2>3. ~ \E suspend \in BOOLEAN : BeginStatus(suspend) \/ WholeStatus(suspend) BY DEF BeginStatus, WholeStatus
  <2>4. ~SetWasherStatus /\ ~AcLose /\ ~LoseRow /\ ~SeedRows BY DEF SetWasherStatus, AcLose, LoseRow, SeedRows
  <2>5. ~ \E i \in ByGroups \cup ByList \cup ByBranches : BeginUpdate(i) \/ WholeUpdate(i)
    BY <1>1 DEF BeginUpdate, WholeUpdate
  <2> QED BY <2>1, <2>2, <2>3, <2>4, <2>5 DEF AcNext, AcPlain
 <1>3. acAccess' = acSlow.entries BY <1>2 DEF FinishUpdate, StoreGrants
 <1>4. Overlaps(acAccess, acSlow.entries) BY DEF AcInv, GrantsFit
 <1> QED BY <1>3, <1>4 DEF Overlaps

(* Whatever is blocked, suspended, reassigned or crossed, on any number of
   branches and with any number of calls, each lock on an account has a key
   that is not behind another, and grants mean what the owner is shown. *)
THEOREM AccessSound == AcSpec => AccessIsSound
 <1>1. AcInit => AcInv BY AcInvInit
 <1>2. AcInv /\ [AcNext]_acVars => AcInv' BY AcInvNext
 <1>3. AcInv /\ [AcNext]_acVars =>
         [acVars' # acVars =>
            /\ (AcTypeOK /\ EveryLockHasAKey /\ BlockedCanReachUs /\ MirrorsAgree
                 /\ SwitchesMeanWhatTheySay /\ SuspensionIsWhole)'
            /\ ReassignmentKeepsGrants]_acVars
  <2> SUFFICES ASSUME AcInv, [AcNext]_acVars
               PROVE  /\ (AcTypeOK /\ EveryLockHasAKey /\ BlockedCanReachUs /\ MirrorsAgree
                            /\ SwitchesMeanWhatTheySay /\ SuspensionIsWhole)'
                      /\ ReassignmentKeepsGrants
    OBVIOUS
  <2>1. AcInv' /\ ReassignmentKeepsGrants BY AcInvNext, ReassignmentKeeps
  <2>2. (AcInv => AcTypeOK /\ EveryLockHasAKey /\ BlockedCanReachUs /\ MirrorsAgree
                    /\ SwitchesMeanWhatTheySay /\ SuspensionIsWhole)'
    BY AcInvSays, PTL
  <2> QED BY <2>1, <2>2
 <1> QED BY <1>1, <1>2, <1>3, PTL DEF AcSpec, AccessIsSound

-----------------------------------------------------------------------------
(* The verification of a provider. *)
ReviewSteps == {"idle", "create", "supersede", "claim", "decide", "derive", "badge"}
InHand == KycTypes \cup Decided \cup REVIEWABLE \cup VerificationStatus \cup {"none"}

AtMostOne(S) == \A x, y \in S : x = y

KycTyped ==
  /\ docState \in [Documents -> KycStatus]
  /\ docType \in [Documents -> KycTypes \cup {"none"}]
  /\ \A d \in Documents : docState[d] = "none" <=> docType[d] = "none"
  /\ singleSided \in [Documents -> BOOLEAN] /\ docExpired \in [Documents -> BOOLEAN]
  /\ docHolder \in [Documents -> Reviewers \cup {NoReviewer}]
  /\ badge \in VerificationStatus /\ astray \in BOOLEAN
  /\ kpc \in [KycRequests -> ReviewSteps]
  /\ kset \in [KycRequests -> SUBSET Documents]
  /\ kseen = [h \in KycRequests |-> kseen[h]]
  /\ kwho \in [KycRequests -> Reviewers \cup {NoReviewer}]
  /\ kverdict \in [KycRequests -> InHand]
  /\ klate \subseteq {h \in KycRequests : kpc[h] = "badge"}
  /\ raced \subseteq Documents

(* A request knows the documents it read: what it will claim or decide was
   open, unless the document is marked.  A badge that is not late is the one
   the documents call for still. *)
ReviewFits(h) ==
  /\ DOMAIN kseen[h] = kset[h]
  /\ \A d \in kset[h] : docState[d] # "none"
  /\ kpc[h] \in {"create", "supersede"} => kverdict[h] \in KycTypes
  /\ kpc[h] = "claim" =>
       /\ \/ kwho[h] \in Reviewers /\ kverdict[h] = "UNDER_REVIEW"
          \/ kwho[h] = NoReviewer /\ kverdict[h] = "SUBMITTED"
       /\ \A d \in kset[h] \ raced : kseen[h][d][1] \in REVIEWABLE
  /\ kpc[h] = "decide" =>
       kverdict[h] \in Decided /\ \A d \in kset[h] : kseen[h][d][1] \in REVIEWABLE
  /\ kpc[h] = "badge" => kverdict[h] \in VerificationStatus /\ (h \notin klate => kverdict[h] = Derived)

NewIsUntouched == \A d \in Documents : docState[d] = "none" => docHolder[d] = NoReviewer /\ d \notin raced

(* Where two documents of a type are live, the submission of the newest has
   still to supersede all the others, or one of the type is marked. *)
NewestStays(t) ==
  \/ \E d \in raced : docType[d] = t
  \/ AtMostOne(LiveOf(t))
  \/ \E h \in KycRequests : kpc[h] = "supersede" /\ kverdict[h] = t /\ AtMostOne(LiveOf(t) \ kset[h])

KycInv ==
  /\ KycTyped
  /\ \A h \in KycRequests : ReviewFits(h)
  /\ NewIsUntouched
  /\ \A t \in KycTypes : NewestStays(t)
  /\ BadgeFollows /\ HeldIsOpen

LEMMA NewestIsOne == ASSUME NEW S \in SUBSET Documents, S # {} PROVE Newest(S) \in S
 <1>1. S \subseteq 1..MaxDocuments /\ MaxDocuments \in Nat BY KycAssumption DEF Documents
 <1> DEFINE G == {MaxDocuments - d : d \in S}
 <1>2. G \in SUBSET Nat /\ G # {}
  <2>1. \A d \in S : MaxDocuments - d \in Nat BY <1>1
  <2> QED BY <2>1
 <1>3. \E g \in G : \A u \in G : ~(<<u, g>> \in OpToRel(<, Nat))
  <2> HIDE DEF G
  <2> QED BY <1>2, WFMin, NatLessThanWellFounded
 <1>4. PICK d \in S : \A u \in G : ~(u < MaxDocuments - d)
  <2>1. PICK g \in G : \A u \in G : ~(<<u, g>> \in OpToRel(<, Nat)) BY <1>3
  <2>2. \A u \in G : ~(u < g) BY <1>2, <2>1 DEF OpToRel
  <2> QED BY <2>2
 <1>5. \A e \in S : e <= d
  <2> SUFFICES ASSUME NEW e \in S PROVE e <= d OBVIOUS
  <2>1. ~(MaxDocuments - e < MaxDocuments - d) BY <1>4
  <2> QED BY <1>1, <2>1
 <1> HIDE DEF G
 <1> QED BY <1>5 DEF Newest

(* The badge that the documents call for does not tell open ones apart. *)
OpenOrSame == \A d \in Documents : docState'[d] = docState[d] \/ (docState[d] \in REVIEWABLE /\ docState'[d] \in REVIEWABLE)

LEMMA DerivedStays ==
  ASSUME OpenOrSame, docType' = docType, singleSided' = singleSided, docExpired' = docExpired
  PROVE  /\ Derived' = Derived
         /\ \A t : LiveOf(t)' = LiveOf(t)
 <1>1. \A d \in Documents : Live(d)' <=> Live(d) BY DEF OpenOrSame, Live, REVIEWABLE
 <1>2. \A t : LiveOf(t)' = LiveOf(t) BY <1>1 DEF LiveOf
 <1>3. \A d \in Documents : Satisfied(d)' <=> Satisfied(d) BY DEF OpenOrSame, Satisfied, REVIEWABLE
 <1>4. \A d \in Documents : docState'[d] = "REJECTED" <=> docState[d] = "REJECTED" BY DEF OpenOrSame, REVIEWABLE
 <1>5. ClaimsSingleSided' <=> ClaimsSingleSided
  <2> DEFINE fronts == {d \in Documents : Live(d) /\ docType[d] \in FrontTypes}
  <2>1. fronts' = fronts BY <1>1
  <2>2. ClaimsSingleSided <=> fronts # {} /\ singleSided[Newest(fronts)] BY DEF ClaimsSingleSided
  <2>3. ClaimsSingleSided' <=> fronts' # {} /\ singleSided'[Newest(fronts')] BY DEF ClaimsSingleSided
  <2> HIDE DEF fronts
  <2> QED BY <2>1, <2>2, <2>3
 <1>6. Required' = Required BY <1>5 DEF Required
 <1>7. \A t : LiveOf(t) # {} => Newest(LiveOf(t)) \in Documents
  <2> SUFFICES ASSUME NEW t, LiveOf(t) # {} PROVE Newest(LiveOf(t)) \in Documents OBVIOUS
  <2>1. LiveOf(t) \in SUBSET Documents BY DEF LiveOf
  <2> QED BY <2>1, NewestIsOne
 <1> DEFINE rejects == \E t \in Required : LiveOf(t) # {} /\ docState[Newest(LiveOf(t))] = "REJECTED"
            inHand == \A t \in Required : LiveOf(t) # {}
            passes == \A t \in Required : Satisfied(Newest(LiveOf(t)))
 <1>8. rejects' <=> rejects BY <1>2, <1>4, <1>6, <1>7
 <1>9. inHand' <=> inHand BY <1>2, <1>6
 <1>10. inHand => (passes' <=> passes)
  <2> SUFFICES ASSUME inHand PROVE passes' <=> passes OBVIOUS
  <2>1. \A t \in Required : Newest(LiveOf(t)) \in Documents BY <1>7
  <2>2. \A t \in Required : Satisfied(Newest(LiveOf(t)))' <=> Satisfied(Newest(LiveOf(t)))
   <3> SUFFICES ASSUME NEW t \in Required
                PROVE  Satisfied(Newest(LiveOf(t)))' <=> Satisfied(Newest(LiveOf(t)))
     OBVIOUS
   <3>1. Newest(LiveOf(t))' = Newest(LiveOf(t)) BY <1>2
   <3>2. PICK x \in Documents : x = Newest(LiveOf(t)) BY <2>1
   <3>3. Satisfied(Newest(LiveOf(t))) <=> Satisfied(x) BY <3>2
   <3>4. Satisfied(Newest(LiveOf(t)))' <=> docState'[Newest(LiveOf(t))'] = "APPROVED" /\ ~docExpired'[Newest(LiveOf(t))']
     BY DEF Satisfied
   <3>5. Satisfied(x) <=> docState[x] = "APPROVED" /\ ~docExpired[x] BY DEF Satisfied
   <3>6. docState'[x] = "APPROVED" <=> docState[x] = "APPROVED" BY DEF OpenOrSame, REVIEWABLE
   <3> QED BY <3>1, <3>2, <3>3, <3>4, <3>5, <3>6
  <2> QED BY <2>2, <1>6
 <1>11. Derived = IF rejects THEN "REJECTED" ELSE IF inHand /\ passes THEN "APPROVED"
                  ELSE IF inHand THEN "IN_REVIEW" ELSE "PENDING"
   BY DEF Derived
 <1>12. Derived' = IF rejects' THEN "REJECTED" ELSE IF inHand' /\ passes' THEN "APPROVED"
                   ELSE IF inHand' THEN "IN_REVIEW" ELSE "PENDING"
   BY DEF Derived
 <1>13. Derived' = Derived
  <2> HIDE DEF rejects, inHand, passes
  <2> QED BY <1>8, <1>9, <1>10, <1>11, <1>12
 <1> QED BY <1>2, <1>13

LEMMA DerivedIsStatus == Derived \in VerificationStatus
  BY DEF Derived, VerificationStatus

LEMMA KycInvInit == KycInit => KycInv
 <1> SUFFICES ASSUME KycInit PROVE KycInv OBVIOUS
 <1>1. KycTyped
  <2>1. /\ docState \in [Documents -> KycStatus] /\ docType \in [Documents -> KycTypes \cup {"none"}]
        /\ \A d \in Documents : docState[d] = "none" /\ docType[d] = "none"
        /\ docHolder \in [Documents -> Reviewers \cup {NoReviewer}]
    BY DEF KycInit, KycStatus
  <2>2. /\ singleSided \in [Documents -> BOOLEAN] /\ docExpired \in [Documents -> BOOLEAN] /\ astray \in BOOLEAN
    BY DEF KycInit
  <2>3. /\ kpc \in [KycRequests -> ReviewSteps] /\ kset \in [KycRequests -> SUBSET Documents]
        /\ kwho \in [KycRequests -> Reviewers \cup {NoReviewer}] /\ kverdict \in [KycRequests -> InHand]
        /\ klate = {} /\ raced = {} /\ badge \in VerificationStatus
    BY DEF KycInit, ReviewSteps, InHand, VerificationStatus
  <2>4. kseen = [h \in KycRequests |-> kseen[h]] BY DEF KycInit
  <2> QED BY <2>1, <2>2, <2>3, <2>4 DEF KycTyped
 <1>2. \A d \in Documents : ~Live(d) BY DEF KycInit, Live
 <1>3. \A t : LiveOf(t) = {} BY <1>2 DEF LiveOf
 <1>4. ASSUME NEW h \in KycRequests PROVE ReviewFits(h)
  <2>1. kpc[h] = "idle" /\ kset[h] = {} /\ kseen[h] = Snapshot({}) BY DEF KycInit
  <2>2. DOMAIN kseen[h] = {} BY <2>1 DEF Snapshot
  <2> QED BY <2>1, <2>2 DEF ReviewFits
 <1>5. NewIsUntouched BY DEF KycInit, NewIsUntouched
 <1>6. \A t \in KycTypes : NewestStays(t) BY <1>3 DEF NewestStays, AtMostOne
 <1>7. HeldIsOpen BY DEF KycInit, HeldIsOpen
 <1>8. badge = Derived
  <2>1. ~ClaimsSingleSided BY <1>2 DEF ClaimsSingleSided
  <2>2. Required # {} BY <2>1, KycAssumption DEF Required
  <2>3. Derived = "PENDING" BY <1>3, <2>2 DEF Derived
  <2> QED BY <2>3 DEF KycInit
 <1> QED BY <1>1, <1>4, <1>5, <1>6, <1>7, <1>8 DEF KycInv, BadgeFollows

(* What a step leaves of the other requests, and what it needs to. *)
KycRests(g) ==
  /\ kpc'[g] = kpc[g] /\ kset'[g] = kset[g] /\ kseen'[g] = kseen[g]
  /\ kwho'[g] = kwho[g] /\ kverdict'[g] = kverdict[g]

LEMMA RestsFit ==
  ASSUME NEW g \in KycRequests, ReviewFits(g), KycRests(g), kset[g] \subseteq Documents, raced \subseteq raced',
         \A d \in Documents : docState'[d] = "none" => docState[d] = "none",
         kpc[g] = "badge" => g \in klate' \/ (g \notin klate /\ Derived' = Derived)
  PROVE  ReviewFits(g)'
 <1>1. DOMAIN kseen'[g] = kset'[g] /\ \A d \in kset'[g] : docState'[d] # "none" BY DEF ReviewFits, KycRests
 <1>2. kpc'[g] \in {"create", "supersede"} => kverdict'[g] \in KycTypes BY DEF ReviewFits, KycRests
 <1>3. kpc'[g] = "claim" =>
         /\ \/ kwho'[g] \in Reviewers /\ kverdict'[g] = "UNDER_REVIEW"
            \/ kwho'[g] = NoReviewer /\ kverdict'[g] = "SUBMITTED"
         /\ \A d \in kset'[g] \ raced' : kseen'[g][d][1] \in REVIEWABLE
   BY DEF ReviewFits, KycRests
 <1>4. kpc'[g] = "decide" => kverdict'[g] \in Decided /\ \A d \in kset'[g] : kseen'[g][d][1] \in REVIEWABLE
   BY DEF ReviewFits, KycRests
 <1>5. kpc'[g] = "badge" => kverdict'[g] \in VerificationStatus /\ (g \notin klate' => kverdict'[g] = Derived')
   BY DEF ReviewFits, KycRests
 <1> QED BY <1>1, <1>2, <1>3, <1>4, <1>5 DEF ReviewFits

(* Forgetting what a request held. *)
RequestsTyped ==
  /\ kpc \in [KycRequests -> ReviewSteps] /\ kset \in [KycRequests -> SUBSET Documents]
  /\ kseen = [h \in KycRequests |-> kseen[h]]
  /\ kwho \in [KycRequests -> Reviewers \cup {NoReviewer}] /\ kverdict \in [KycRequests -> InHand]

LEMMA Forgotten ==
  ASSUME KycTyped, NEW h \in KycRequests, NEW spot \in {"idle", "derive"}, Forget(h, spot)
  PROVE  /\ RequestsTyped' /\ ReviewFits(h)' /\ kpc'[h] = spot
         /\ \A g \in KycRequests \ {h} : KycRests(g)
 <1>1. RequestsTyped BY DEF KycTyped, RequestsTyped
 <1>2. /\ kpc' \in [KycRequests -> ReviewSteps] /\ kset' \in [KycRequests -> SUBSET Documents]
       /\ kwho' \in [KycRequests -> Reviewers \cup {NoReviewer}] /\ kverdict' \in [KycRequests -> InHand]
   BY <1>1 DEF Forget, RequestsTyped, ReviewSteps, InHand
 <1>3. kseen' = [g \in KycRequests |-> kseen'[g]] BY <1>1 DEF Forget, RequestsTyped
 <1>4. kpc'[h] = spot /\ kset'[h] = {} /\ kseen'[h] = Snapshot({}) BY <1>1 DEF Forget, RequestsTyped
 <1>5. \A g \in KycRequests \ {h} : KycRests(g) BY <1>1 DEF Forget, RequestsTyped, KycRests
 <1>6. DOMAIN kseen'[h] = {} BY <1>4 DEF Snapshot
 <1>7. ReviewFits(h)' BY <1>4, <1>6 DEF ReviewFits
 <1> QED BY <1>2, <1>3, <1>4, <1>5, <1>7 DEF RequestsTyped

(* A step that leaves the documents, or moves open ones only, leaves the
   types as they were. *)
LEMMA TypesStay ==
  ASSUME NEW t \in KycTypes, NewestStays(t), raced \subseteq raced', \A d \in raced : docType'[d] = docType[d],
         (\E d \in raced' : docType'[d] = t) \/ LiveOf(t)' \subseteq LiveOf(t),
         \A h \in KycRequests : kpc[h] = "supersede" /\ kverdict[h] = t =>
           \/ kpc'[h] = "supersede" /\ kverdict'[h] = t /\ kset'[h] = kset[h]
           \/ \E d \in raced' : docType'[d] = t
           \/ AtMostOne(LiveOf(t) \ kset[h]) => AtMostOne(LiveOf(t)')
  PROVE  NewestStays(t)'
 <1> SUFFICES ASSUME ~ \E d \in raced' : docType'[d] = t PROVE NewestStays(t)' BY DEF NewestStays
 <1>0. ~ \E d \in raced : docType[d] = t OBVIOUS
 <1>1. LiveOf(t)' \subseteq LiveOf(t) OBVIOUS
 <1>2. CASE AtMostOne(LiveOf(t))
  <2>1. AtMostOne(LiveOf(t))' BY <1>1, <1>2 DEF AtMostOne
  <2> QED BY <2>1, Zenon DEF NewestStays
 <1>3. CASE ~AtMostOne(LiveOf(t))
  <2>1. PICK h \in KycRequests : kpc[h] = "supersede" /\ kverdict[h] = t /\ AtMostOne(LiveOf(t) \ kset[h])
    BY <1>0, <1>3 DEF NewestStays
  <2>2. CASE kpc'[h] = "supersede" /\ kverdict'[h] = t /\ kset'[h] = kset[h]
   <3>1. \A x, y \in LiveOf(t)' \ kset'[h] : x = y BY <1>1, <2>1, <2>2 DEF AtMostOne
   <3>2. AtMostOne(LiveOf(t) \ kset[h])' BY <3>1 DEF AtMostOne
   <3> QED BY <2>2, <3>2, Zenon DEF NewestStays
  <2>3. CASE AtMostOne(LiveOf(t)')
   <3>1. AtMostOne(LiveOf(t))' BY <2>3 DEF AtMostOne
   <3> QED BY <3>1, Zenon DEF NewestStays
  <2> QED BY <2>1, <2>2, <2>3
 <1> QED BY <1>2, <1>3

(* A new request. *)
NewFits(spot, who, S, verdict) ==
  /\ S \in SUBSET Documents /\ \A d \in S : docState[d] # "none"
  /\ \/ spot = "create" /\ verdict \in KycTypes /\ who = NoReviewer
     \/ /\ spot = "claim"
        /\ (who \in Reviewers /\ verdict = "UNDER_REVIEW") \/ (who = NoReviewer /\ verdict = "SUBMITTED")
        /\ \A d \in S \ raced : docState[d] \in REVIEWABLE
     \/ spot = "decide" /\ verdict \in Decided /\ who = NoReviewer /\ \A d \in S : docState[d] \in REVIEWABLE

LEMMA LoadKept ==
  ASSUME KycInv, NEW h \in KycRequests, NEW spot, NEW who, NEW S, NEW verdict,
         NewFits(spot, who, S, verdict), Load(h, spot, who, S, verdict)
  PROVE  KycInv'
 <1>t. KycTyped BY DEF KycInv
 <1>0. kpc[h] = "idle" /\ UNCHANGED <<docState, docType, singleSided, docHolder, docExpired, badge, klate, raced, astray>>
   BY DEF Load, documents, kycHistory
 <1>1. /\ kpc' \in [KycRequests -> ReviewSteps] /\ kset' \in [KycRequests -> SUBSET Documents]
       /\ kwho' \in [KycRequests -> Reviewers \cup {NoReviewer}] /\ kverdict' \in [KycRequests -> InHand]
  <2>1. spot \in ReviewSteps /\ S \in SUBSET Documents /\ who \in Reviewers \cup {NoReviewer} /\ verdict \in InHand
    BY DEF NewFits, ReviewSteps, InHand, REVIEWABLE
  <2> QED BY <1>t, <2>1 DEF Load, KycTyped
 <1>2. kseen' = [g \in KycRequests |-> kseen'[g]] BY <1>t DEF Load, KycTyped
 <1>3. /\ kpc'[h] = spot /\ kset'[h] = S /\ kseen'[h] = Snapshot(S) /\ kwho'[h] = who /\ kverdict'[h] = verdict
       /\ \A g \in KycRequests \ {h} : KycRests(g)
   BY <1>t DEF Load, KycTyped, KycRests
 <1>4. klate' \subseteq {g \in KycRequests : kpc'[g] = "badge"}
  <2>1. \A g \in klate : g # h /\ g \in KycRequests /\ kpc[g] = "badge" BY <1>t, <1>0 DEF KycTyped
  <2> QED BY <1>0, <1>3, <2>1 DEF KycRests
 <1>5. KycTyped' BY <1>t, <1>0, <1>1, <1>2, <1>4 DEF KycTyped
 <1>6. Derived' = Derived /\ \A t : LiveOf(t)' = LiveOf(t) BY <1>0, DerivedStays DEF OpenOrSame
 <1>7. ReviewFits(h)'
  <2>1. DOMAIN kseen'[h] = kset'[h] /\ \A d \in S : kseen'[h][d][1] = docState[d] BY <1>3 DEF Snapshot
  <2>2. spot \in {"create", "claim", "decide"} BY DEF NewFits
  <2>3. \A d \in kset'[h] : docState'[d] # "none" BY <1>0, <1>3 DEF NewFits
  <2>4. kpc'[h] = "create" => kverdict'[h] \in KycTypes BY <1>3 DEF NewFits
  <2>5. kpc'[h] = "claim" =>
        /\ \/ kwho'[h] \in Reviewers /\ kverdict'[h] = "UNDER_REVIEW"
           \/ kwho'[h] = NoReviewer /\ kverdict'[h] = "SUBMITTED"
        /\ \A d \in kset'[h] \ raced' : kseen'[h][d][1] \in REVIEWABLE
    BY <1>0, <1>3, <2>1 DEF NewFits
  <2>6. kpc'[h] = "decide" => kverdict'[h] \in Decided /\ \A d \in kset'[h] : kseen'[h][d][1] \in REVIEWABLE
    BY <1>3, <2>1 DEF NewFits
  <2> QED BY <1>3, <2>1, <2>2, <2>3, <2>4, <2>5, <2>6 DEF ReviewFits
 <1>8. ASSUME NEW g \in KycRequests PROVE ReviewFits(g)'
  <2>1. CASE g = h BY <1>7, <2>1
  <2>2. CASE g # h
   <3>1. ReviewFits(g) /\ KycRests(g) /\ kset[g] \subseteq Documents BY <1>3, <2>2, <1>t DEF KycInv, KycTyped
   <3> QED BY <3>1, <1>0, <1>6, RestsFit
  <2> QED BY <2>1, <2>2
 <1>9. NewIsUntouched' BY <1>0 DEF KycInv, NewIsUntouched
 <1>10. \A t \in KycTypes : NewestStays(t)'
  <2>1. \A g \in KycRequests : kpc[g] = "supersede" => kpc'[g] = "supersede" /\ kverdict'[g] = kverdict[g] /\ kset'[g] = kset[g]
    BY <1>0, <1>3 DEF KycRests
  <2>2. \A t \in KycTypes : NewestStays(t) BY DEF KycInv
  <2>3. ASSUME NEW t \in KycTypes PROVE NewestStays(t)' BY <1>t, <1>0, <1>6, <2>1, <2>2, TypesStay
  <2> QED BY <2>3
 <1>11. BadgeFollows'
  <2>1. \A g \in KycRequests : Owing(g)' <=> Owing(g)
   <3>1. spot \in {"create", "claim", "decide"} BY DEF NewFits
   <3> QED BY <1>0, <1>3, <3>1 DEF Owing, KycRests
  <2> QED BY <1>0, <1>6, <2>1 DEF KycInv, BadgeFollows
 <1>12. HeldIsOpen' BY <1>0 DEF KycInv, HeldIsOpen
 <1> QED BY <1>5, <1>8, <1>9, <1>10, <1>11, <1>12 DEF KycInv

LEMMA NewRequestsKept ==
  ASSUME KycInv, NEW h \in KycRequests,
         \/ \E t \in KycTypes : SubmitDocument(h, t)
         \/ \E r \in Reviewers : ClaimCase(h, r) \/ ReleaseCase(h, r)
         \/ \E r \in Reviewers, d \in Documents : ClaimDocument(h, r, d)
         \/ \E d \in Documents : ApproveDocument(h, d) \/ RejectDocument(h, d)
  PROVE  KycInv'
 <1>1. ASSUME NEW t \in KycTypes, SubmitDocument(h, t) PROVE KycInv'
  <2>1. NewFits("create", NoReviewer, LiveOf(t), t) BY DEF NewFits, LiveOf, Live
  <2> QED BY <1>1, <2>1, LoadKept DEF SubmitDocument
 <1>2. ASSUME NEW r \in Reviewers, ClaimCase(h, r) PROVE KycInv'
  <2>1. NewFits("claim", r, Queue(TRUE) \cup Queue(FALSE), "UNDER_REVIEW") BY DEF NewFits, Queue, REVIEWABLE
  <2> QED BY <1>2, <2>1, LoadKept DEF ClaimCase
 <1>3. ASSUME NEW r \in Reviewers, ReleaseCase(h, r) PROVE KycInv'
  <2> DEFINE mine == {d \in Documents : docHolder[d] = r}
  <2>1. \A d \in mine : docState[d] # "none" /\ (d \notin raced => docState[d] = "UNDER_REVIEW")
    BY KycAssumption DEF KycInv, NewIsUntouched, HeldIsOpen
  <2>2. NewFits("claim", NoReviewer, mine, "SUBMITTED") BY <2>1 DEF NewFits, REVIEWABLE
  <2>3. Load(h, "claim", NoReviewer, mine, "SUBMITTED") BY <1>3 DEF ReleaseCase
  <2> HIDE DEF mine
  <2> QED BY <2>2, <2>3, LoadKept
 <1>4. ASSUME NEW r \in Reviewers, NEW d \in Documents, ClaimDocument(h, r, d) PROVE KycInv'
  <2>1. NewFits("claim", r, {d}, "UNDER_REVIEW") BY <1>4 DEF NewFits, REVIEWABLE, ClaimDocument
  <2> QED BY <1>4, <2>1, LoadKept DEF ClaimDocument
 <1>5. ASSUME NEW d \in Documents, NEW v \in Decided, Decide(h, d, v) PROVE KycInv'
  <2>1. NewFits("decide", NoReviewer, {d}, v) BY <1>5 DEF NewFits, REVIEWABLE, Decide
  <2> QED BY <1>5, <2>1, LoadKept DEF Decide
 <1> QED BY <1>1, <1>2, <1>3, <1>4, <1>5 DEF ApproveDocument, RejectDocument, Decided

(* A write of documents leaves every other badge late. *)
LEMMA LateOnes ==
  ASSUME KycTyped, NEW h \in KycRequests, MakeLate(h), kpc[h] # "badge", kpc'[h] # "badge",
         \A g \in KycRequests \ {h} : KycRests(g)
  PROVE  /\ klate' \subseteq {g \in KycRequests : kpc'[g] = "badge"}
         /\ \A g \in KycRequests \ {h} : kpc[g] = "badge" => g \in klate'
  BY DEF MakeLate, KycTyped, KycRests

LEMMA CreateDocumentKept ==
  ASSUME KycInv, NEW h \in KycRequests, NEW d \in Documents, NEW single \in BOOLEAN, CreateDocument(h, d, single)
  PROVE  KycInv'
 <1>t. KycTyped /\ ReviewFits(h) /\ NewIsUntouched BY DEF KycInv
 <1> DEFINE t == kverdict[h]
 <1>0. /\ kpc[h] = "create" /\ docState[d] = "none" /\ t \in KycTypes
       /\ UNCHANGED <<docHolder, docExpired, badge, kset, kseen, kwho, kverdict, astray>>
   BY <1>t DEF CreateDocument, ReviewFits
 <1>1. /\ docState' \in [Documents -> KycStatus] /\ docState'[d] = "SUBMITTED"
       /\ \A e \in Documents \ {d} : docState'[e] = docState[e]
   BY <1>t DEF CreateDocument, KycTyped, KycStatus, REVIEWABLE
 <1>2. /\ docType' \in [Documents -> KycTypes \cup {"none"}] /\ docType'[d] = t
       /\ \A e \in Documents \ {d} : docType'[e] = docType[e]
       /\ singleSided' \in [Documents -> BOOLEAN]
   BY <1>t, <1>0 DEF CreateDocument, KycTyped
 <1>3. /\ kpc' \in [KycRequests -> ReviewSteps] /\ kpc'[h] = "supersede"
       /\ \A g \in KycRequests \ {h} : KycRests(g)
   BY <1>t, <1>0 DEF CreateDocument, KycTyped, ReviewSteps, KycRests
 <1>4. raced \subseteq raced' /\ raced' \subseteq raced \cup {d} /\ (LiveOf(t) # kset[h] => d \in raced')
   BY DEF CreateDocument
 <1>5. /\ klate' \subseteq {g \in KycRequests : kpc'[g] = "badge"}
       /\ \A g \in KycRequests \ {h} : kpc[g] = "badge" => g \in klate'
   BY <1>t, <1>0, <1>3, LateOnes DEF CreateDocument
 <1>6. KycTyped'
  <2>1. \A e \in Documents : docState'[e] = "none" <=> docType'[e] = "none"
    BY <1>t, <1>0, <1>1, <1>2, KycAssumption DEF KycTyped
  <2>2. raced' \subseteq Documents BY <1>t, <1>4 DEF KycTyped
  <2> QED BY <1>t, <1>0, <1>1, <1>2, <1>3, <1>5, <2>1, <2>2 DEF KycTyped
 <1>7. ASSUME NEW g \in KycRequests PROVE ReviewFits(g)'
  <2>1. \A e \in Documents : docState'[e] = "none" => docState[e] = "none" BY <1>1
  <2>2. CASE g = h
   <3>1. DOMAIN kseen'[h] = kset'[h] /\ \A e \in kset'[h] : docState'[e] # "none"
     BY <1>t, <1>0, <2>1 DEF ReviewFits, KycTyped
   <3> QED BY <1>0, <1>3, <2>2, <3>1 DEF ReviewFits
  <2>3. CASE g # h
   <3>1. ReviewFits(g) /\ KycRests(g) /\ kset[g] \subseteq Documents BY <1>t, <1>3, <2>3 DEF KycInv, KycTyped
   <3> QED BY <3>1, <2>1, <2>3, <1>4, <1>5, RestsFit
  <2> QED BY <2>2, <2>3
 <1>8. NewIsUntouched' BY <1>t, <1>0, <1>1, <1>4 DEF NewIsUntouched
 <1>9. ASSUME NEW s \in KycTypes PROVE NewestStays(s)'
  <2>1. LiveOf(t)' = LiveOf(t) \cup {d} BY <1>0, <1>1, <1>2 DEF LiveOf, Live
  <2>2. s # t => LiveOf(s)' = LiveOf(s) BY <1>0, <1>1, <1>2 DEF LiveOf, Live
  <2>3. CASE s = t /\ d \in raced' BY <2>3, <1>2 DEF NewestStays
  <2>4. CASE s = t /\ d \notin raced'
   <3>1. LiveOf(s)' = kset'[h] \cup {d} BY <2>1, <2>4, <1>4, <1>0 DEF LiveOf
   <3>2. AtMostOne(LiveOf(s) \ kset[h])' BY <3>1 DEF AtMostOne
   <3>3. kpc'[h] = "supersede" /\ kverdict'[h] = s BY <1>0, <1>3, <2>4
   <3> QED BY <3>2, <3>3, Zenon DEF NewestStays
  <2>5. CASE s # t
   <3>1. NewestStays(s) /\ \A e \in raced : docType'[e] = docType[e]
     BY <1>t, <1>0, <1>2 DEF KycInv, NewIsUntouched, KycTyped
   <3>2. \A g \in KycRequests : kpc[g] = "supersede" => kpc'[g] = "supersede" /\ kverdict'[g] = kverdict[g] /\ kset'[g] = kset[g]
     BY <1>0, <1>3 DEF KycRests
   <3> QED BY <3>1, <3>2, <2>2, <2>5, <1>4, TypesStay
  <2> QED BY <2>3, <2>4, <2>5
 <1>10. BadgeFollows' BY <1>3 DEF BadgeFollows, Owing
 <1>11. HeldIsOpen' BY <1>t, <1>0, <1>1, <1>4 DEF KycInv, HeldIsOpen, NewIsUntouched
 <1> QED BY <1>6, <1>7, <1>8, <1>9, <1>10, <1>11 DEF KycInv

LEMMA SupersedeKept ==
  ASSUME KycInv, NEW h \in KycRequests, Supersede(h)
  PROVE  KycInv'
 <1>t. KycTyped /\ ReviewFits(h) /\ NewIsUntouched BY DEF KycInv
 <1>0. /\ kpc[h] = "supersede" /\ Forget(h, "derive")
       /\ UNCHANGED <<docType, singleSided, docExpired, badge, raced, astray>>
   BY DEF Supersede
 <1>1. /\ \A d \in kset[h] : docState'[d] = "SUPERSEDED" /\ docHolder'[d] = NoReviewer /\ docState[d] # "none"
       /\ \A d \in Documents \ kset[h] : docState'[d] = docState[d] /\ docHolder'[d] = docHolder[d]
   BY <1>t DEF Supersede, ReviewFits, KycTyped
 <1>2. docState' \in [Documents -> KycStatus] /\ docHolder' \in [Documents -> Reviewers \cup {NoReviewer}]
   BY <1>t DEF Supersede, KycTyped, KycStatus
 <1>3. /\ RequestsTyped' /\ ReviewFits(h)' /\ kpc'[h] = "derive"
       /\ \A g \in KycRequests \ {h} : KycRests(g)
   BY <1>t, <1>0, Forgotten
 <1>5. /\ klate' \subseteq {g \in KycRequests : kpc'[g] = "badge"}
       /\ \A g \in KycRequests \ {h} : kpc[g] = "badge" => g \in klate'
   BY <1>t, <1>0, <1>3, LateOnes DEF Supersede
 <1>6. KycTyped'
  <2>1. \A d \in Documents : docState'[d] = "none" <=> docType'[d] = "none" BY <1>t, <1>0, <1>1 DEF KycTyped
  <2> QED BY <1>t, <1>0, <1>2, <1>3, <1>5, <2>1 DEF KycTyped, RequestsTyped
 <1>7. ASSUME NEW g \in KycRequests PROVE ReviewFits(g)'
  <2>1. CASE g # h
   <3>1. ReviewFits(g) /\ KycRests(g) /\ kset[g] \subseteq Documents BY <1>t, <1>3, <2>1 DEF KycInv, KycTyped
   <3> QED BY <3>1, <2>1, <1>0, <1>1, <1>5, RestsFit
  <2> QED BY <2>1, <1>3
 <1>8. NewIsUntouched' BY <1>t, <1>0, <1>1 DEF NewIsUntouched
 <1>9. ASSUME NEW t \in KycTypes PROVE NewestStays(t)'
  <2>1. LiveOf(t)' \subseteq LiveOf(t) \ kset[h] BY <1>0, <1>1 DEF LiveOf, Live
  <2>2. AtMostOne(LiveOf(t) \ kset[h]) => AtMostOne(LiveOf(t)') BY <2>1 DEF AtMostOne
  <2>3. NewestStays(t) BY DEF KycInv
  <2>4. \A g \in KycRequests \ {h} : kpc'[g] = kpc[g] /\ kverdict'[g] = kverdict[g] /\ kset'[g] = kset[g]
    BY <1>3 DEF KycRests
  <2> QED BY <2>1, <2>2, <2>3, <2>4, <1>0, TypesStay
 <1>10. BadgeFollows' BY <1>3 DEF BadgeFollows, Owing
 <1>11. HeldIsOpen' BY <1>t, <1>0, <1>1 DEF KycInv, HeldIsOpen
 <1> QED BY <1>6, <1>7, <1>8, <1>9, <1>10, <1>11 DEF KycInv

(* The documents a blind write may have touched are marked. *)
LEMMA SaveClaimKept ==
  ASSUME KycInv, NEW h \in KycRequests, SaveClaim(h)
  PROVE  KycInv'
 <1>t. KycTyped /\ ReviewFits(h) /\ NewIsUntouched BY DEF KycInv
 <1>0. /\ kpc[h] = "claim" /\ Forget(h, "idle") /\ raced' = raced \cup Moved(h)
       /\ UNCHANGED <<docType, singleSided, docExpired, badge>>
   BY DEF SaveClaim, Done
 <1>c. kpc[h] = "claim" =>
      /\ \/ kwho[h] \in Reviewers /\ kverdict[h] = "UNDER_REVIEW"
         \/ kwho[h] = NoReviewer /\ kverdict[h] = "SUBMITTED"
      /\ \A d \in kset[h] \ raced : kseen[h][d][1] \in REVIEWABLE
   BY <1>t DEF ReviewFits
 <1>1. PICK skip \in SUBSET kset[h] :
         /\ skip # {} => kwho[h] # NoReviewer /\ \A d \in skip : kseen[h][d][1] = "UNDER_REVIEW"
         /\ docState' = [d \in Documents |-> IF d \in kset[h] \ skip THEN kverdict[h] ELSE docState[d]]
   BY DEF SaveClaim
 <1>2. docHolder' = [d \in Documents |-> IF d \in kset[h] THEN kwho[h] ELSE docHolder[d]] BY DEF SaveClaim
 <1>3. kset[h] \subseteq Documents /\ (\A d \in kset[h] : docState[d] # "none")
       /\ kverdict[h] \in REVIEWABLE /\ kwho[h] \in Reviewers \cup {NoReviewer}
   BY <1>t, <1>0, <1>c DEF ReviewFits, KycTyped, REVIEWABLE
 <1>4. docState' \in [Documents -> KycStatus] /\ docHolder' \in [Documents -> Reviewers \cup {NoReviewer}]
   BY <1>t, <1>1, <1>2, <1>3 DEF KycTyped, KycStatus
 <1>5. \A d \in Documents : docState'[d] = "none" <=> docState[d] = "none"
   BY <1>1, <1>3 DEF REVIEWABLE
 <1>6. ASSUME NEW d \in kset[h], d \notin raced'
       PROVE  /\ kseen[h][d] = <<docState[d], docHolder[d]>> /\ docState[d] \in REVIEWABLE
              /\ docState'[d] \in REVIEWABLE /\ docHolder'[d] = kwho[h]
              /\ kwho[h] # NoReviewer <=> docState'[d] = "UNDER_REVIEW"
  <2>1. kseen[h][d] = <<docState[d], docHolder[d]>> BY <1>0, <1>6 DEF Moved
  <2>2. kseen[h][d][1] = docState[d] BY <2>1
  <2>3. docState[d] \in REVIEWABLE BY <1>0, <1>c, <1>6, <2>2
  <2>4. d \in Documents BY <1>3
  <2>5. docHolder'[d] = kwho[h] BY <1>2, <2>4
  <2>6. CASE d \in skip
   <3>1. docState'[d] = docState[d] /\ docState[d] = "UNDER_REVIEW" /\ kwho[h] # NoReviewer
     BY <1>1, <2>2, <2>4, <2>6
   <3> QED BY <2>1, <2>3, <2>5, <3>1
  <2>7. CASE d \notin skip
   <3>1. docState'[d] = kverdict[h] BY <1>1, <2>4, <2>7
   <3>2. kwho[h] # NoReviewer <=> kverdict[h] = "UNDER_REVIEW" BY <1>0, <1>c, KycAssumption
   <3> QED BY <2>1, <2>3, <2>5, <1>3, <3>1, <3>2
  <2> QED BY <2>6, <2>7
 <1>7. \A d \in Documents \ kset[h] : docState'[d] = docState[d] /\ docHolder'[d] = docHolder[d] BY <1>1, <1>2
 <1>8. /\ RequestsTyped' /\ ReviewFits(h)' /\ kpc'[h] = "idle"
       /\ \A g \in KycRequests \ {h} : KycRests(g)
   BY <1>t, <1>0, Forgotten
 <1>9. \/ /\ kset[h] \cap raced' = {} /\ astray' = astray /\ klate' = klate
          /\ Derived' = Derived
       \/ /\ astray' = TRUE /\ klate' \subseteq {g \in KycRequests : kpc'[g] = "badge"}
          /\ \A g \in KycRequests \ {h} : kpc[g] = "badge" => g \in klate'
  <2>1. CASE kset[h] \cap raced' = {}
   <3>1. OpenOrSame BY <2>1, <1>6, <1>7 DEF OpenOrSame
   <3>2. Derived' = Derived BY <3>1, <1>0, DerivedStays
   <3> QED BY <2>1, <3>2 DEF SaveClaim
  <2>2. CASE kset[h] \cap raced' # {}
   <3>1. astray' = TRUE /\ MakeLate(h) BY <2>2 DEF SaveClaim
   <3> QED BY <3>1, <1>t, <1>0, <1>8, LateOnes
  <2> QED BY <2>1, <2>2
 <1>10. klate' \subseteq {g \in KycRequests : kpc'[g] = "badge"}
  <2>1. CASE klate' = klate BY <2>1, <1>t, <1>0, <1>8 DEF KycTyped, KycRests
  <2> QED BY <2>1, <1>9
 <1>11. KycTyped'
  <2>1. raced' \subseteq Documents BY <1>0, <1>3, <1>t DEF KycTyped, Moved
  <2>2. astray' \in BOOLEAN BY <1>9, <1>t DEF KycTyped
  <2>3. \A d \in Documents : docState'[d] = "none" <=> docType'[d] = "none" BY <1>0, <1>5, <1>t DEF KycTyped
  <2> QED BY <1>t, <1>0, <1>4, <1>8, <1>10, <2>1, <2>2, <2>3 DEF KycTyped, RequestsTyped
 <1>12. ASSUME NEW g \in KycRequests PROVE ReviewFits(g)'
  <2>1. CASE g # h
   <3>1. ReviewFits(g) /\ KycRests(g) /\ kset[g] \subseteq Documents BY <1>t, <1>8, <2>1 DEF KycInv, KycTyped
   <3>2. kpc[g] = "badge" => g \in klate' \/ (g \notin klate /\ Derived' = Derived) BY <1>9, <2>1
   <3> QED BY <3>1, <3>2, <1>0, <1>5, RestsFit
  <2> QED BY <2>1, <1>8
 <1>13. NewIsUntouched'
  <2>1. \A d \in Documents : docState'[d] = "none" => d \notin kset[h] /\ d \notin Moved(h) BY <1>3, <1>5 DEF Moved
  <2> QED BY <1>t, <1>0, <1>5, <1>7, <2>1 DEF NewIsUntouched
 <1>14. ASSUME NEW t \in KycTypes PROVE NewestStays(t)'
  <2>1. ASSUME ~ \E d \in raced' : docType'[d] = t PROVE LiveOf(t)' \subseteq LiveOf(t)
   <3>1. \A d \in LiveOf(t)' : d \in Documents /\ d \notin raced' /\ docType[d] = t BY <1>0, <2>1 DEF LiveOf
   <3>2. \A d \in LiveOf(t)' : Live(d)
    <4> SUFFICES ASSUME NEW d \in LiveOf(t)' PROVE Live(d) OBVIOUS
    <4>1. Live(d)' BY DEF LiveOf
    <4>2. CASE d \in kset[h] BY <4>2, <3>1, <1>6 DEF Live, REVIEWABLE
    <4>3. CASE d \notin kset[h] BY <4>3, <3>1, <1>7, <4>1 DEF Live
    <4> QED BY <4>2, <4>3
   <3> QED BY <3>1, <3>2 DEF LiveOf
  <2>2. NewestStays(t) BY DEF KycInv
  <2>3. \A g \in KycRequests : kpc[g] = "supersede" => kpc'[g] = "supersede" /\ kverdict'[g] = kverdict[g] /\ kset'[g] = kset[g]
    BY <1>0, <1>8 DEF KycRests
  <2> QED BY <1>0, <2>1, <2>2, <2>3, TypesStay
 <1>15. BadgeFollows'
  <2> SUFFICES ASSUME ~astray', \A g \in KycRequests : ~Owing(g)' PROVE badge' = Derived'
    BY DEF BadgeFollows
  <2>1. ~astray /\ Derived' = Derived BY <1>9
  <2>2. \A g \in KycRequests : ~Owing(g) BY <1>0, <1>8 DEF Owing, KycRests
  <2> QED BY <1>0, <2>1, <2>2 DEF KycInv, BadgeFollows
 <1>16. HeldIsOpen'
  <2> SUFFICES ASSUME NEW d \in Documents, d \notin raced'
               PROVE  docHolder'[d] # NoReviewer <=> docState'[d] = "UNDER_REVIEW"
    BY DEF HeldIsOpen
  <2>1. CASE d \in kset[h] BY <2>1, <1>6
  <2>2. CASE d \notin kset[h]
   <3>1. d \notin raced BY <1>0
   <3> QED BY <2>2, <3>1, <1>7 DEF KycInv, HeldIsOpen
  <2> QED BY <2>1, <2>2
 <1> QED BY <1>11, <1>12, <1>13, <1>14, <1>15, <1>16 DEF KycInv

LEMMA SaveDecisionKept ==
  ASSUME KycInv, NEW h \in KycRequests, SaveDecision(h)
  PROVE  KycInv'
 <1>t. KycTyped /\ ReviewFits(h) /\ NewIsUntouched BY DEF KycInv
 <1>0. /\ kpc[h] = "decide" /\ Forget(h, "derive") /\ raced' = raced \cup Moved(h) /\ MakeLate(h)
       /\ UNCHANGED <<docType, singleSided, docExpired, badge, astray>>
   BY DEF SaveDecision
 <1>1. docState' = [d \in Documents |-> IF d \in kset[h] THEN kverdict[h] ELSE docState[d]] BY DEF SaveDecision
 <1>2. docHolder' = [d \in Documents |-> IF d \in kset[h] /\ kseen[h][d][2] # NoReviewer THEN NoReviewer ELSE docHolder[d]]
   BY DEF SaveDecision
 <1>3. kset[h] \subseteq Documents /\ (\A d \in kset[h] : docState[d] # "none") /\ kverdict[h] \in Decided
       /\ \A d \in kset[h] : kseen[h][d][1] \in REVIEWABLE
   BY <1>t, <1>0 DEF ReviewFits, KycTyped
 <1>4. docState' \in [Documents -> KycStatus] /\ docHolder' \in [Documents -> Reviewers \cup {NoReviewer}]
   BY <1>t, <1>1, <1>2, <1>3 DEF KycTyped, KycStatus
 <1>5. \A d \in Documents : docState'[d] = "none" <=> docState[d] = "none" BY <1>1, <1>3 DEF Decided
 <1>6. ASSUME NEW d \in kset[h], d \notin raced'
       PROVE  docState[d] \in REVIEWABLE /\ docState'[d] \in Decided /\ docHolder'[d] = NoReviewer
  <2>1. kseen[h][d] = <<docState[d], docHolder[d]>> BY <1>0, <1>6 DEF Moved
  <2>2. kseen[h][d][1] = docState[d] /\ kseen[h][d][2] = docHolder[d] BY <2>1
  <2> QED BY <1>1, <1>2, <1>3, <2>2
 <1>7. \A d \in Documents \ kset[h] : docState'[d] = docState[d] /\ docHolder'[d] = docHolder[d] BY <1>1, <1>2
 <1>8. /\ RequestsTyped' /\ ReviewFits(h)' /\ kpc'[h] = "derive"
       /\ \A g \in KycRequests \ {h} : KycRests(g)
   BY <1>t, <1>0, Forgotten
 <1>10. /\ klate' \subseteq {g \in KycRequests : kpc'[g] = "badge"}
        /\ \A g \in KycRequests \ {h} : kpc[g] = "badge" => g \in klate'
   BY <1>t, <1>0, <1>8, LateOnes
 <1>11. KycTyped'
  <2>1. raced' \subseteq Documents BY <1>0, <1>3, <1>t DEF KycTyped, Moved
  <2>3. \A d \in Documents : docState'[d] = "none" <=> docType'[d] = "none" BY <1>0, <1>5, <1>t DEF KycTyped
  <2> QED BY <1>t, <1>0, <1>4, <1>8, <1>10, <2>1, <2>3 DEF KycTyped, RequestsTyped
 <1>12. ASSUME NEW g \in KycRequests PROVE ReviewFits(g)'
  <2>1. CASE g # h
   <3>1. ReviewFits(g) /\ KycRests(g) /\ kset[g] \subseteq Documents BY <1>t, <1>8, <2>1 DEF KycInv, KycTyped
   <3> QED BY <3>1, <1>10, <2>1, <1>0, <1>5, RestsFit
  <2> QED BY <2>1, <1>8
 <1>13. NewIsUntouched'
  <2>1. \A d \in Documents : docState'[d] = "none" => d \notin kset[h] /\ d \notin Moved(h) BY <1>3, <1>5 DEF Moved
  <2> QED BY <1>t, <1>0, <1>5, <1>7, <2>1 DEF NewIsUntouched
 <1>14. ASSUME NEW t \in KycTypes PROVE NewestStays(t)'
  <2>1. ASSUME ~ \E d \in raced' : docType'[d] = t PROVE LiveOf(t)' \subseteq LiveOf(t)
   <3>1. \A d \in LiveOf(t)' : d \in Documents /\ d \notin raced' /\ docType[d] = t BY <1>0, <2>1 DEF LiveOf
   <3>2. \A d \in LiveOf(t)' : Live(d)
    <4> SUFFICES ASSUME NEW d \in LiveOf(t)' PROVE Live(d) OBVIOUS
    <4>1. Live(d)' BY DEF LiveOf
    <4>2. CASE d \in kset[h] BY <4>2, <3>1, <1>6 DEF Live, REVIEWABLE
    <4>3. CASE d \notin kset[h] BY <4>3, <3>1, <1>7, <4>1 DEF Live
    <4> QED BY <4>2, <4>3
   <3> QED BY <3>1, <3>2 DEF LiveOf
  <2>2. NewestStays(t) BY DEF KycInv
  <2>3. \A g \in KycRequests : kpc[g] = "supersede" => kpc'[g] = "supersede" /\ kverdict'[g] = kverdict[g] /\ kset'[g] = kset[g]
    BY <1>0, <1>8 DEF KycRests
  <2> QED BY <1>0, <2>1, <2>2, <2>3, TypesStay
 <1>15. BadgeFollows' BY <1>8 DEF BadgeFollows, Owing
 <1>16. HeldIsOpen'
  <2> SUFFICES ASSUME NEW d \in Documents, d \notin raced'
               PROVE  docHolder'[d] # NoReviewer <=> docState'[d] = "UNDER_REVIEW"
    BY DEF HeldIsOpen
  <2>1. CASE d \in kset[h] BY <2>1, <1>6 DEF Decided
  <2>2. CASE d \notin kset[h]
   <3>1. d \notin raced BY <1>0
   <3> QED BY <2>2, <3>1, <1>7 DEF KycInv, HeldIsOpen
  <2> QED BY <2>1, <2>2
 <1> QED BY <1>11, <1>12, <1>13, <1>14, <1>15, <1>16 DEF KycInv

LEMMA BadgeStepsKept ==
  ASSUME KycInv, NEW h \in KycRequests, Derive(h) \/ WriteBadge(h)
  PROVE  KycInv'
 <1>t. KycTyped /\ ReviewFits(h) /\ NewIsUntouched BY DEF KycInv
 <1>0. UNCHANGED <<docState, docType, singleSided, docHolder, docExpired, raced>>
   BY DEF Derive, WriteBadge, documents, kycHistory
 <1>1. kpc[h] \in {"derive", "badge"} BY DEF Derive, WriteBadge
 <1>2. Derived' = Derived /\ \A t : LiveOf(t)' = LiveOf(t) BY <1>0, DerivedStays DEF OpenOrSame
 <1>3. /\ RequestsTyped' /\ ReviewFits(h)'
       /\ \A g \in KycRequests \ {h} : KycRests(g)
       /\ klate' \subseteq {g \in KycRequests : kpc'[g] = "badge"}
       /\ badge' \in VerificationStatus /\ astray' \in BOOLEAN
       /\ klate' = klate \ {h} /\ BadgeFollows'
  <2>1. CASE Derive(h)
   <3>1. /\ kpc' \in [KycRequests -> ReviewSteps] /\ kverdict' \in [KycRequests -> InHand]
         /\ kpc'[h] = "badge" /\ kverdict'[h] = Derived
         /\ \A g \in KycRequests \ {h} : kpc'[g] = kpc[g] /\ kverdict'[g] = kverdict[g]
         /\ UNCHANGED <<kset, kseen, kwho, klate, badge, astray>>
     BY <2>1, <1>t, DerivedIsStatus DEF Derive, KycTyped, ReviewSteps, InHand, kycHistory
   <3>2. h \notin klate BY <2>1, <1>t DEF Derive, KycTyped
   <3>3. ReviewFits(h)'
    <4>1. DOMAIN kseen'[h] = kset'[h] /\ \A d \in kset'[h] : docState'[d] # "none"
      BY <3>1, <1>0, <1>t DEF ReviewFits
    <4>2. kverdict'[h] \in VerificationStatus /\ kverdict'[h] = Derived' BY <3>1, <1>2, DerivedIsStatus
    <4> QED BY <3>1, <4>1, <4>2 DEF ReviewFits
   <3>4. klate' \subseteq {g \in KycRequests : kpc'[g] = "badge"} BY <3>1, <3>2, <1>t DEF KycTyped
   <3>5. BadgeFollows' BY <3>1 DEF BadgeFollows, Owing
   <3>6. \A g \in KycRequests \ {h} : KycRests(g) BY <3>1 DEF KycRests
   <3>7. RequestsTyped' BY <3>1, <1>t DEF RequestsTyped, KycTyped
   <3>8. klate' = klate \ {h} BY <3>1, <3>2
   <3> QED BY <3>1, <3>3, <3>4, <3>5, <3>6, <3>7, <3>8, <1>t DEF KycTyped
  <2>2. CASE WriteBadge(h)
   <3>1. Forget(h, "idle") /\ kpc[h] = "badge" /\ badge' = kverdict[h] /\ klate' = klate \ {h}
     BY <2>2 DEF WriteBadge, Done
   <3>2. /\ RequestsTyped' /\ ReviewFits(h)' /\ kpc'[h] = "idle"
         /\ \A g \in KycRequests \ {h} : KycRests(g)
     BY <3>1, <1>t, Forgotten
   <3>3. badge' \in VerificationStatus /\ (h \notin klate => badge' = Derived) BY <3>1, <1>t DEF ReviewFits
   <3>4. astray' = (h \in klate) BY <2>2 DEF WriteBadge
   <3>5. astray' \in BOOLEAN
    <4>1. CASE h \in klate BY <3>4, <4>1
    <4>2. CASE h \notin klate BY <3>4, <4>2
    <4> QED BY <4>1, <4>2
   <3>6. BadgeFollows' BY <3>3, <3>4, <1>2 DEF BadgeFollows
   <3>7. klate' \subseteq {g \in KycRequests : kpc'[g] = "badge"} BY <3>1, <3>2, <1>t DEF KycTyped, KycRests
   <3> QED BY <3>1, <3>2, <3>3, <3>5, <3>6, <3>7
  <2> QED BY <2>1, <2>2
 <1>4. KycTyped' BY <1>t, <1>0, <1>3 DEF KycTyped, RequestsTyped
 <1>5. ASSUME NEW g \in KycRequests PROVE ReviewFits(g)'
  <2>1. CASE g # h
   <3>1. ReviewFits(g) /\ KycRests(g) /\ kset[g] \subseteq Documents BY <1>t, <1>3, <2>1 DEF KycInv, KycTyped
   <3> QED BY <3>1, <2>1, <1>0, <1>2, <1>3, RestsFit
  <2> QED BY <2>1, <1>3
 <1>6. NewIsUntouched' BY <1>t, <1>0 DEF NewIsUntouched
 <1>7. ASSUME NEW t \in KycTypes PROVE NewestStays(t)'
  <2>1. NewestStays(t) BY DEF KycInv
  <2>2. \A g \in KycRequests : kpc[g] = "supersede" => kpc'[g] = "supersede" /\ kverdict'[g] = kverdict[g] /\ kset'[g] = kset[g]
    BY <1>1, <1>3 DEF KycRests
  <2> QED BY <1>0, <1>2, <2>1, <2>2, TypesStay
 <1>8. HeldIsOpen' BY <1>0 DEF KycInv, HeldIsOpen
 <1> QED BY <1>3, <1>4, <1>5, <1>6, <1>7, <1>8 DEF KycInv

LEMMA LoseRequestKept ==
  ASSUME KycInv, NEW h \in KycRequests, LoseRequest(h)
  PROVE  KycInv'
 <1>t. KycTyped /\ ReviewFits(h) /\ NewIsUntouched BY DEF KycInv
 <1>0. UNCHANGED <<docState, docType, singleSided, docHolder, docExpired, badge>> /\ klate' = klate \ {h}
       /\ Forget(h, "idle") /\ kpc[h] # "idle"
   BY DEF LoseRequest, documents, Done
 <1>1. raced \subseteq raced' /\ raced' \subseteq raced \cup LiveOf(kverdict[h])
       /\ (kpc[h] = "supersede" => LiveOf(kverdict[h]) \subseteq raced')
   BY DEF LoseRequest
 <1>2. Derived' = Derived /\ \A t : LiveOf(t)' = LiveOf(t) BY <1>0, DerivedStays DEF OpenOrSame
 <1>3. /\ RequestsTyped' /\ ReviewFits(h)' /\ kpc'[h] = "idle"
       /\ \A g \in KycRequests \ {h} : KycRests(g)
   BY <1>t, <1>0, Forgotten
 <1>4. KycTyped'
  <2>1. astray' \in BOOLEAN
   <3>1. astray' = (astray \/ kpc[h] \in {"supersede", "derive", "badge"}) BY DEF LoseRequest
   <3> QED BY <3>1, Zenon
  <2>2. klate' \subseteq {g \in KycRequests : kpc'[g] = "badge"} BY <1>0, <1>3, <1>t DEF KycTyped, KycRests
  <2>3. raced' \subseteq Documents BY <1>1, <1>t DEF KycTyped, LiveOf
  <2> QED BY <1>t, <1>0, <1>3, <2>1, <2>2, <2>3 DEF KycTyped, RequestsTyped
 <1>5. ASSUME NEW g \in KycRequests PROVE ReviewFits(g)'
  <2>1. CASE g # h
   <3>1. ReviewFits(g) /\ KycRests(g) /\ kset[g] \subseteq Documents BY <1>t, <1>3, <2>1 DEF KycInv, KycTyped
   <3> QED BY <3>1, <2>1, <1>0, <1>1, <1>2, RestsFit
  <2> QED BY <2>1, <1>3
 <1>6. NewIsUntouched'
  <2>1. \A d \in LiveOf(kverdict[h]) : docState[d] # "none" BY DEF LiveOf, Live
  <2> QED BY <2>1, <1>t, <1>0, <1>1 DEF NewIsUntouched
 <1>7. ASSUME NEW t \in KycTypes PROVE NewestStays(t)'
  <2>1. NewestStays(t) BY DEF KycInv
  <2>2. ASSUME NEW g \in KycRequests, kpc[g] = "supersede", kverdict[g] = t
        PROVE  \/ kpc'[g] = "supersede" /\ kverdict'[g] = t /\ kset'[g] = kset[g]
               \/ \E d \in raced' : docType'[d] = t
               \/ AtMostOne(LiveOf(t) \ kset[g]) => AtMostOne(LiveOf(t)')
   <3>1. CASE g # h BY <2>2, <3>1, <1>3 DEF KycRests
   <3>2. CASE g = h /\ LiveOf(t) = {} BY <3>2, <1>2 DEF AtMostOne
   <3>3. CASE g = h /\ LiveOf(t) # {}
    <4>1. PICK d \in LiveOf(t) : TRUE BY <3>3
    <4>2. d \in raced' /\ docType'[d] = t BY <4>1, <3>3, <2>2, <1>0, <1>1 DEF LiveOf
    <4> QED BY <4>2
   <3> QED BY <3>1, <3>2, <3>3
  <2> QED BY <2>1, <2>2, <1>0, <1>1, <1>2, TypesStay
 <1>8. BadgeFollows'
  <2> SUFFICES ASSUME ~astray', \A g \in KycRequests : ~Owing(g)' PROVE badge' = Derived'
    BY DEF BadgeFollows
  <2>1. ~astray /\ kpc[h] \notin {"supersede", "derive", "badge"} BY DEF LoseRequest
  <2>2. kpc[h] \in ReviewSteps BY <1>t DEF KycTyped
  <2>3. \A g \in KycRequests : ~Owing(g) BY <2>1, <2>2, <1>3 DEF Owing, KycRests, ReviewSteps
  <2> QED BY <1>0, <1>2, <2>1, <2>3 DEF KycInv, BadgeFollows
 <1>9. HeldIsOpen' BY <1>0, <1>1 DEF KycInv, HeldIsOpen
 <1> QED BY <1>4, <1>5, <1>6, <1>7, <1>8, <1>9, <1>3 DEF KycInv

LEMMA ExpireKept ==
  ASSUME KycInv, NEW d \in Documents, Expire(d)
  PROVE  KycInv'
 <1>t. KycTyped /\ NewIsUntouched BY DEF KycInv
 <1>0. /\ UNCHANGED <<docState, docType, singleSided, docHolder, badge, kpc, kset, kseen, kwho, kverdict, raced>>
       /\ astray' = TRUE /\ klate' = klate \cup {g \in KycRequests : kpc[g] = "badge"}
   BY DEF Expire, kycRequest
 <1>1. docExpired' \in [Documents -> BOOLEAN] BY <1>t DEF Expire, KycTyped
 <1>2. KycTyped' BY <1>t, <1>0, <1>1 DEF KycTyped
 <1>3. ASSUME NEW g \in KycRequests PROVE ReviewFits(g)'
  <2>1. ReviewFits(g) /\ KycRests(g) /\ kset[g] \subseteq Documents BY <1>t, <1>0 DEF KycInv, KycRests, KycTyped
  <2> QED BY <2>1, <1>0, RestsFit
 <1>4. NewIsUntouched' BY <1>t, <1>0 DEF NewIsUntouched
 <1>5. ASSUME NEW t \in KycTypes PROVE NewestStays(t)'
  <2>1. NewestStays(t) BY DEF KycInv
  <2>2. LiveOf(t)' = LiveOf(t) BY <1>0 DEF LiveOf, Live
  <2> QED BY <1>0, <2>1, <2>2, TypesStay
 <1>6. BadgeFollows' BY <1>0 DEF BadgeFollows
 <1>7. HeldIsOpen' BY <1>0 DEF KycInv, HeldIsOpen
 <1> QED BY <1>2, <1>3, <1>4, <1>5, <1>6, <1>7 DEF KycInv

LEMMA KycInvNext == KycInv /\ [KycNext]_kycVars => KycInv'
 <1> SUFFICES ASSUME KycInv, [KycNext]_kycVars PROVE KycInv' OBVIOUS
 <1>1. CASE UNCHANGED kycVars
  <2>0. UNCHANGED <<docState, docType, singleSided, docHolder, docExpired, badge, kpc, kset, kseen, kwho, kverdict,
                    klate, raced, astray>>
    BY <1>1 DEF kycVars, documents, kycRequest, kycHistory
  <2>t. KycTyped BY DEF KycInv
  <2>1. KycTyped' BY <2>0, <2>t DEF KycTyped
  <2>2. Derived' = Derived /\ \A t : LiveOf(t)' = LiveOf(t) BY <2>0, DerivedStays DEF OpenOrSame
  <2>3. ASSUME NEW g \in KycRequests PROVE ReviewFits(g)'
   <3>1. ReviewFits(g) /\ KycRests(g) /\ kset[g] \subseteq Documents BY <2>t, <2>0 DEF KycInv, KycRests, KycTyped
   <3> QED BY <3>1, <2>0, <2>2, RestsFit
  <2>4. ASSUME NEW t \in KycTypes PROVE NewestStays(t)'
   <3>1. NewestStays(t) BY DEF KycInv
   <3> QED BY <2>0, <2>2, <3>1, TypesStay
  <2>5. NewIsUntouched' /\ HeldIsOpen' BY <2>0 DEF KycInv, NewIsUntouched, HeldIsOpen
  <2>6. BadgeFollows' BY <2>0, <2>2 DEF KycInv, BadgeFollows, Owing
  <2> QED BY <2>1, <2>3, <2>4, <2>5, <2>6 DEF KycInv
 <1>2. CASE KycNext
  <2>1. PICK h \in KycRequests :
          \/ \E t \in KycTypes : SubmitDocument(h, t)
          \/ \E d \in Documents, single \in BOOLEAN : CreateDocument(h, d, single)
          \/ Supersede(h)
          \/ \E r \in Reviewers : ClaimCase(h, r) \/ ReleaseCase(h, r)
          \/ \E r \in Reviewers, d \in Documents : ClaimDocument(h, r, d)
          \/ SaveClaim(h)
          \/ \E d \in Documents : ApproveDocument(h, d) \/ RejectDocument(h, d)
          \/ SaveDecision(h) \/ Derive(h) \/ WriteBadge(h) \/ LoseRequest(h)
          \/ \E d \in Documents : Expire(d)
    BY <1>2 DEF KycNext
  <2>2. CASE \E d \in Documents, single \in BOOLEAN : CreateDocument(h, d, single) BY <2>2, CreateDocumentKept
  <2>3. CASE \E d \in Documents : Expire(d) BY <2>3, ExpireKept
  <2>4. CASE Supersede(h) \/ SaveClaim(h) \/ SaveDecision(h)
    BY <2>4, SupersedeKept, SaveClaimKept, SaveDecisionKept
  <2>5. CASE Derive(h) \/ WriteBadge(h) \/ LoseRequest(h) BY <2>5, BadgeStepsKept, LoseRequestKept
  <2> QED BY <2>1, <2>2, <2>3, <2>4, <2>5, NewRequestsKept
 <1> QED BY <1>1, <1>2

LEMMA KycInvSays == KycInv => KycTypeOK /\ BadgeFollows /\ OneLivePerType /\ HeldIsOpen
 <1> SUFFICES ASSUME KycInv PROVE KycTypeOK /\ OneLivePerType BY DEF KycInv
 <1>1. KycTypeOK
  <2>1. \A h \in KycRequests : kset[h] \subseteq Documents /\ DOMAIN kseen[h] = kset[h]
    BY DEF KycInv, KycTyped, ReviewFits
  <2> QED BY <2>1 DEF KycInv, KycTyped, KycTypeOK
 <1>2. OneLivePerType
  <2> SUFFICES ASSUME NEW t \in KycTypes, ~ \E d \in raced : docType[d] = t,
                      ~ \E h \in KycRequests : kpc[h] = "supersede" /\ kverdict[h] = t
               PROVE  Cardinality(LiveOf(t)) <= 1
    BY DEF OneLivePerType
  <2>1. AtMostOne(LiveOf(t)) BY DEF KycInv, NewestStays
  <2>2. CASE LiveOf(t) = {} BY <2>2, FS_EmptySet
  <2>3. CASE LiveOf(t) # {}
   <3>1. PICK d : d \in LiveOf(t) BY <2>3
   <3>2. LiveOf(t) = {d} BY <2>1, <3>1 DEF AtMostOne
   <3> QED BY <3>2, FS_Singleton
  <2> QED BY <2>2, <2>3
 <1> QED BY <1>1, <1>2

LEMMA NoDecisionUndone == KycInv /\ [KycNext]_kycVars => DecisionsStand
 <1> SUFFICES ASSUME KycInv, [KycNext]_kycVars, NEW d \in Documents, docState[d] \in Decided
              PROVE  docState'[d] \in {docState[d], "SUPERSEDED"} \/ d \in raced'
   BY DEF DecisionsStand
 <1>t. KycTyped BY DEF KycInv
 <1>1. CASE docState' = docState BY <1>1
 <1>2. CASE docState' # docState
  <2>1. PICK h \in KycRequests :
          \/ \E e \in Documents, single \in BOOLEAN : CreateDocument(h, e, single)
          \/ Supersede(h) \/ SaveClaim(h) \/ SaveDecision(h)
    BY <1>2, ZenonT(60) DEF KycNext, SubmitDocument, ClaimCase, ReleaseCase, ClaimDocument, ApproveDocument, RejectDocument,
         Decide, Load, Derive, WriteBadge, LoseRequest, Expire, documents, kycVars
  <2>2. CASE \E e \in Documents, single \in BOOLEAN : CreateDocument(h, e, single)
   <3>1. PICK e \in Documents, single \in BOOLEAN : CreateDocument(h, e, single) BY <2>2
   <3>2. e # d BY <3>1 DEF CreateDocument, Decided
   <3> QED BY <1>t, <3>1, <3>2 DEF CreateDocument, KycTyped
  <2>3. CASE Supersede(h) BY <2>3 DEF Supersede
  <2>4. CASE SaveClaim(h) \/ SaveDecision(h)
   <3>1. raced' = raced \cup Moved(h) BY <2>4 DEF SaveClaim, SaveDecision
   <3>2. CASE d \notin kset[h] BY <2>4, <3>2 DEF SaveClaim, SaveDecision
   <3>3. CASE d \in kset[h] /\ d \notin raced'
    <4>1. kseen[h][d] = <<docState[d], docHolder[d]>> BY <3>1, <3>3 DEF Moved
    <4>2. kseen[h][d][1] = docState[d] BY <4>1
    <4>3. kpc[h] \in {"claim", "decide"} BY <2>4 DEF SaveClaim, SaveDecision
    <4>4. kseen[h][d][1] \in REVIEWABLE BY <3>1, <3>3, <4>3 DEF KycInv, ReviewFits
    <4> QED BY <4>2, <4>4 DEF REVIEWABLE, Decided
   <3> QED BY <3>2, <3>3
  <2> QED BY <2>1, <2>2, <2>3, <2>4
 <1> QED BY <1>1, <1>2

(* However submissions, claims and decisions of any number of requests cross,
   the badge follows the documents, a type has one live document, what is held
   is open and no decision is undone, but for the blind writes on record. *)
THEOREM ReviewSound == KycSpec => ReviewIsSound
 <1>1. KycInit => KycInv BY KycInvInit
 <1>2. KycInv /\ [KycNext]_kycVars => KycInv' BY KycInvNext
 <1>3. KycInv /\ [KycNext]_kycVars =>
         [kycVars' # kycVars =>
            /\ (KycTypeOK /\ BadgeFollows /\ OneLivePerType /\ HeldIsOpen)'
            /\ DecisionsStand]_kycVars
  <2> SUFFICES ASSUME KycInv, [KycNext]_kycVars
               PROVE  (KycTypeOK /\ BadgeFollows /\ OneLivePerType /\ HeldIsOpen)' /\ DecisionsStand
    OBVIOUS
  <2>1. KycInv' /\ DecisionsStand BY KycInvNext, NoDecisionUndone
  <2>2. (KycInv => KycTypeOK /\ BadgeFollows /\ OneLivePerType /\ HeldIsOpen)' BY KycInvSays, PTL
  <2> QED BY <2>1, <2>2
 <1> QED BY <1>1, <1>2, <1>3, PTL DEF KycSpec, ReviewIsSound

=============================================================================
