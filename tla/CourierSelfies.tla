--------------------------- MODULE CourierSelfies ---------------------------
(* The liveness selfie of one courier: taken and retaken by the courier,
   revoked by a reviewer, erased with the account.  A selfie is a row, an
   object in the public bucket, and, while it is the live one, the photo
   and the gate of the courier's user document.

   Each is written by a step of its own, and nothing is transactional; a
   partial unique index alone keeps a second ACTIVE row out.  The checks
   on the picture are left out: an upload that fails them never begins. *)
EXTENDS Naturals, FiniteSets

CONSTANTS
  SelfieRequests,     \* requests in progress
  MaxSelfies,         \* bound: selfies ever taken
  MaxSelfieCalls,     \* bound: requests ever made, and processes lost
  MaxSelfieMishaps    \* bound: processes lost, deletions the bucket refuses

ASSUME SelfieBoundIsNatural == MaxSelfies \in Nat

Selfies == 1..MaxSelfies

VARIABLES
  selfieStatus, selfieObject,      \* courier_selfies; the bucket
  userPhoto, userGate,             \* photoUrl and selfieStatus of the user
  spc, sown, sprev, slive,         \* a request in progress
  selfieCalls, selfieMishaps,
  scrossed,                        \* history: a write rested on a stale read
  sleft                            \* history: objects nobody will delete

selfieRows == <<selfieStatus, selfieObject>>
selfieUser == <<userPhoto, userGate>>
selfieRequest == <<spc, sown, sprev, slive>>
selfieBounds == <<selfieCalls, selfieMishaps>>
selfieVars == <<selfieRows, selfieUser, selfieRequest, selfieBounds, scrossed, sleft>>

SelfieStatus == {"none", "uploaded", "ACTIVE", "SUPERSEDED", "REVOKED", "erased"}
Gate == {"none", "ACTIVE", "REVOKED"}

SelfieInit ==
  /\ selfieStatus = [s \in Selfies |-> "none"]
  /\ selfieObject = [s \in Selfies |-> FALSE]
  /\ userPhoto = 0 /\ userGate = "none"
  /\ spc = [h \in SelfieRequests |-> "idle"]
  /\ sown = [h \in SelfieRequests |-> 0] /\ sprev = [h \in SelfieRequests |-> 0]
  /\ slive = [h \in SelfieRequests |-> FALSE]
  /\ selfieCalls = 0 /\ selfieMishaps = 0
  /\ scrossed = FALSE /\ sleft = {}

-----------------------------------------------------------------------------
SelfieBegin(h, at, own, prev, live) ==
  /\ spc[h] = "idle" /\ selfieCalls < MaxSelfieCalls
  /\ selfieCalls' = selfieCalls + 1
  /\ spc' = [spc EXCEPT ![h] = at]
  /\ sown' = [sown EXCEPT ![h] = own]
  /\ sprev' = [sprev EXCEPT ![h] = prev]
  /\ slive' = [slive EXCEPT ![h] = live]

SelfieGoto(h, at) ==
  /\ spc' = [spc EXCEPT ![h] = at]
  /\ UNCHANGED <<sown, sprev, slive>>

SelfieDone(h) ==
  /\ spc' = [spc EXCEPT ![h] = "idle"]
  /\ sown' = [sown EXCEPT ![h] = 0] /\ sprev' = [sprev EXCEPT ![h] = 0]
  /\ slive' = [slive EXCEPT ![h] = FALSE]

LiveSelfies == {s \in Selfies : selfieStatus[s] = "ACTIVE"}

-----------------------------------------------------------------------------
(* submitSelfie: the object is uploaded first. *)
UploadSelfie(h, s) ==
  /\ selfieStatus[s] = "none" /\ \A q \in 1..(s - 1) : selfieStatus[q] # "none"
  /\ SelfieBegin(h, "find", s, 0, FALSE)
  /\ selfieStatus' = [selfieStatus EXCEPT ![s] = "uploaded"]
  /\ selfieObject' = [selfieObject EXCEPT ![s] = TRUE]
  /\ UNCHANGED <<selfieUser, selfieMishaps, scrossed, sleft>>

FindPrevious(h) ==
  /\ spc[h] = "find"
  /\ IF LiveSelfies = {} THEN SelfieGoto(h, "create")
     ELSE /\ spc' = [spc EXCEPT ![h] = "retire"]
          /\ sprev' = [sprev EXCEPT ![h] = CHOOSE s \in LiveSelfies : TRUE]
          /\ UNCHANGED <<sown, slive>>
  /\ UNCHANGED <<selfieRows, selfieUser, selfieBounds, scrossed, sleft>>

(* A row that was erased since cannot be saved: the request fails. *)
RetirePrevious(h) ==
  LET s == sprev[h] IN
  /\ spc[h] = "retire"
  /\ IF selfieStatus[s] = "erased"
     THEN SelfieDone(h) /\ sleft' = sleft \cup {sown[h]} /\ UNCHANGED selfieStatus
     ELSE /\ selfieStatus' = [selfieStatus EXCEPT ![s] = "SUPERSEDED"]
          /\ SelfieGoto(h, "create") /\ UNCHANGED sleft
  /\ UNCHANGED <<selfieObject, selfieUser, selfieBounds, scrossed>>

(* The index refuses a second live row; the request fails, its object stays. *)
CreateSelfie(h) ==
  /\ spc[h] = "create"
  /\ IF LiveSelfies = {}
     THEN /\ selfieStatus' = [selfieStatus EXCEPT ![sown[h]] = "ACTIVE"]
          /\ SelfieGoto(h, "user") /\ UNCHANGED sleft
     ELSE /\ UNCHANGED selfieStatus
          /\ sleft' = sleft \cup {sown[h], sprev[h]}
          /\ SelfieDone(h)
  /\ UNCHANGED <<selfieObject, selfieUser, selfieBounds, scrossed>>

(* What the user document shows may meanwhile be replaced, revoked, erased. *)
ShowSelfie(h) ==
  /\ spc[h] = "user"
  /\ userPhoto' = sown[h] /\ userGate' = "ACTIVE"
  /\ scrossed' = \/ selfieStatus[sown[h]] # "ACTIVE" \/ ~selfieObject[sown[h]]
                 \/ \E g \in SelfieRequests : spc[g] \in {"objects", "rows"}
  /\ SelfieGoto(h, "delete")
  /\ UNCHANGED <<selfieRows, selfieBounds, sleft>>

(* The object of the selfie that was replaced or revoked: best effort. *)
DeleteObject(h, works) ==
  /\ spc[h] = "delete"
  /\ sprev[h] # 0 \/ works
  /\ selfieMishaps' = IF works THEN selfieMishaps ELSE selfieMishaps + 1
  /\ selfieMishaps' <= MaxSelfieMishaps
  /\ IF sprev[h] # 0 /\ works
     THEN /\ selfieObject' = [selfieObject EXCEPT ![sprev[h]] = FALSE] /\ UNCHANGED sleft
     ELSE /\ sleft' = (IF works THEN sleft ELSE sleft \cup {sprev[h]})
          /\ UNCHANGED selfieObject
  /\ SelfieDone(h)
  /\ UNCHANGED <<selfieStatus, selfieUser, selfieCalls, scrossed>>

-----------------------------------------------------------------------------
(* revokeSelfie: whether the selfie is the live one is known from the read. *)
FindSelfie(h, s) ==
  /\ selfieStatus[s] \in {"ACTIVE", "SUPERSEDED"}
  /\ SelfieBegin(h, "revoke", 0, s, selfieStatus[s] = "ACTIVE")
  /\ UNCHANGED <<selfieRows, selfieUser, selfieMishaps, scrossed, sleft>>

(* Mutant: revoking any selfie of the courier closes the gate. *)
SaveAndLockAny(h) ==
  /\ spc[h] = "revoke" /\ selfieStatus[sprev[h]] # "erased"
  /\ selfieStatus' = [selfieStatus EXCEPT ![sprev[h]] = "REVOKED"]
  /\ SelfieGoto(h, "lock")
  /\ UNCHANGED <<selfieObject, selfieUser, selfieBounds, scrossed, sleft>>

SaveRevocation(h) ==
  LET s == sprev[h] IN
  /\ spc[h] = "revoke"
  /\ IF selfieStatus[s] = "erased" THEN SelfieDone(h) /\ UNCHANGED selfieStatus
     ELSE /\ selfieStatus' = [selfieStatus EXCEPT ![s] = "REVOKED"]
          /\ SelfieGoto(h, IF slive[h] THEN "lock" ELSE "delete")
  /\ UNCHANGED <<selfieObject, selfieUser, selfieBounds, scrossed, sleft>>

(* The courier may have taken another selfie since. *)
LockCourier(h) ==
  /\ spc[h] = "lock"
  /\ userPhoto' = 0 /\ userGate' = "REVOKED"
  /\ scrossed' = (scrossed \/ (slive[h] /\ userPhoto \notin {0, sprev[h]}))
  /\ SelfieGoto(h, "delete")
  /\ UNCHANGED <<selfieRows, selfieBounds, sleft>>

-----------------------------------------------------------------------------
(* AccountDeletionService clears the user document, then calls eraseForUser:
   the rows are looked up and their objects deleted, then all rows go. *)
EraseUser(h) ==
  /\ SelfieBegin(h, "objects", 0, 0, FALSE)
  /\ userPhoto' = 0 /\ userGate' = "none"
  /\ UNCHANGED <<selfieRows, selfieMishaps, scrossed, sleft>>

Rows == {s \in Selfies : selfieStatus[s] \in {"ACTIVE", "SUPERSEDED", "REVOKED"}}

(* What the bucket refuses is logged and passed over. *)
EraseObjects(h) ==
  /\ spc[h] = "objects"
  /\ \E refused \in SUBSET Rows :
       /\ selfieMishaps' = IF refused = {} THEN selfieMishaps ELSE selfieMishaps + 1
       /\ selfieObject' = [s \in Selfies |-> selfieObject[s] /\ s \notin Rows \ refused]
       /\ sleft' = sleft \cup refused
  /\ selfieMishaps' <= MaxSelfieMishaps
  /\ SelfieGoto(h, "rows")
  /\ UNCHANGED <<selfieStatus, selfieUser, selfieCalls, scrossed>>

EraseRows(h) ==
  /\ spc[h] = "rows"
  /\ selfieStatus' = [s \in Selfies |-> IF s \in Rows THEN "erased" ELSE selfieStatus[s]]
  /\ sleft' = sleft \cup {s \in Rows : selfieObject[s]}
  /\ SelfieDone(h)
  /\ UNCHANGED <<selfieObject, selfieUser, selfieBounds, scrossed>>

(* The server process is lost. *)
LoseSelfieRequest(h) ==
  /\ spc[h] # "idle"
  /\ selfieMishaps < MaxSelfieMishaps /\ selfieMishaps' = selfieMishaps + 1
  /\ selfieCalls < MaxSelfieCalls /\ selfieCalls' = selfieCalls + 1
  /\ scrossed' = TRUE /\ sleft' = sleft \cup {sown[h], sprev[h]}
  /\ SelfieDone(h)
  /\ UNCHANGED <<selfieRows, selfieUser>>

SelfieNext ==
  \/ \E h \in SelfieRequests :
       \/ \E s \in Selfies : UploadSelfie(h, s) \/ FindSelfie(h, s)
       \/ FindPrevious(h) \/ RetirePrevious(h) \/ CreateSelfie(h) \/ ShowSelfie(h)
       \/ \E works \in BOOLEAN : DeleteObject(h, works)
       \/ SaveRevocation(h) \/ LockCourier(h)
       \/ EraseUser(h) \/ EraseObjects(h) \/ EraseRows(h) \/ LoseSelfieRequest(h)

SelfieSpec == SelfieInit /\ [][SelfieNext]_selfieVars

-----------------------------------------------------------------------------
SelfieTypeOK ==
  /\ selfieStatus \in [Selfies -> SelfieStatus]
  /\ selfieObject \in [Selfies -> BOOLEAN]
  /\ userPhoto \in 0..MaxSelfies /\ userGate \in Gate
  /\ sown \in [SelfieRequests -> 0..MaxSelfies]
  /\ sprev \in [SelfieRequests -> 0..MaxSelfies]
  /\ sleft \subseteq 0..MaxSelfies

SelfiesAtRest == \A h \in SelfieRequests : spc[h] = "idle"

(* The courier's gate is open exactly while a live selfie stands, and then the
   photo that customers see is that selfie.  A revocation that closes the gate
   over a newer selfie, a submission that shows what was meanwhile replaced,
   revoked or erased, and a lost process break it until the next submission. *)
GateFollowsSelfie ==
  SelfiesAtRest /\ ~scrossed =>
    /\ userGate = "ACTIVE" <=> \E s \in Selfies : selfieStatus[s] = "ACTIVE"
    /\ userGate = "ACTIVE" => selfieStatus[userPhoto] = "ACTIVE" /\ selfieObject[userPhoto]

(* No face stays in the public bucket but that of the live selfie: what is
   replaced, revoked or erased is deleted.  Left behind are only the objects
   of requests that failed or were lost half way, those the bucket refused to
   delete (an erasure passes these over and then deletes the rows, so that no
   row names them any more), and those whose row was created while the rows
   were being erased. *)
NoFaceLeftBehind ==
  SelfiesAtRest =>
    \A s \in Selfies : selfieObject[s] => selfieStatus[s] = "ACTIVE" \/ s \in sleft

(* The gate of a courier and the pictures kept of her tell one story: she is
   let in by the selfie on record, and another face stays in storage only when
   its deletion was refused, its request failed, or it crossed an erasure. *)
GateAndFaceAgree ==
  /\ SelfieTypeOK
  /\ GateFollowsSelfie
  /\ NoFaceLeftBehind

=============================================================================
