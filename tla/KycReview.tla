----------------------------- MODULE KycReview -----------------------------
(* The verification of one provider: documents that its owner submits and
   replaces, reviewers who claim, release and decide them, and the badge
   recomputed from them.

   Nothing here runs in a transaction.  A request loads what it needs,
   decides, and writes by identity; a document is saved without a version
   check, and only the paths that differ from the loaded copy.

   Documents are numbered in the order of submittedAt.  Uploads, sizes and
   the wording of reasons are left out; so are audit rows, which nothing
   reads back, and expiry dates, of which one bit matters. *)
EXTENDS Naturals, FiniteSets, FiniteSetsExt

CONSTANTS
  KycRequests,     \* requests in progress, of the owner and of reviewers
  Reviewers,
  KycTypes,        \* the document types a provider of this kind may submit
  RequiredTypes,   \* those it must have approved
  FrontTypes,      \* those that carry the claimed government ID
  BackTypes,       \* those a single-sided ID does without
  NoReviewer,
  MaxDocuments,    \* bound: documents ever submitted
  MaxKycCalls,     \* bound: requests ever made, and mishaps
  MaxKycMishaps    \* bound: documents that expire, processes lost

ASSUME KycAssumption ==
  /\ NoReviewer \notin Reviewers /\ "none" \notin KycTypes
  /\ RequiredTypes # {} /\ MaxDocuments \in Nat

Documents == 1..MaxDocuments

VARIABLES
  docState, docType, singleSided, docHolder, docExpired,  \* kyc_documents
  badge,           \* verificationStatus of the branch or washer profile
  kpc, kset, kseen, kwho, kverdict,  \* a request in progress
  kycMishaps,
  kycCalls,        \* requests made so far, against the bound
  klate, raced, astray  \* history: see the properties

documents == <<docState, docType, singleSided, docHolder, docExpired>>
kycRequest == <<kpc, kset, kseen, kwho, kverdict>>
kycBounds == <<kycCalls, kycMishaps>>
kycHistory == <<klate, raced, astray>>
kycVars == <<documents, badge, kycRequest, kycBounds, kycHistory>>

REVIEWABLE == {"SUBMITTED", "UNDER_REVIEW"}
Decided == {"APPROVED", "REJECTED"}
KycStatus == REVIEWABLE \cup Decided \cup {"none", "SUPERSEDED"}
VerificationStatus == {"PENDING", "IN_REVIEW", "APPROVED", "REJECTED"}

-----------------------------------------------------------------------------
(* What the documents say of the provider. *)
Live(d) == docState[d] \notin {"none", "SUPERSEDED"}
LiveOf(t) == {d \in Documents : Live(d) /\ docType[d] = t}
Newest(S) == CHOOSE d \in S : \A e \in S : e <= d

(* The front of an ID decides whether its back is asked for. *)
ClaimsSingleSided ==
  LET fronts == {d \in Documents : Live(d) /\ docType[d] \in FrontTypes}
  IN  fronts # {} /\ singleSided[Newest(fronts)]

Required == IF ClaimsSingleSided THEN RequiredTypes \ BackTypes ELSE RequiredTypes

Satisfied(d) == docState[d] = "APPROVED" /\ ~docExpired[d]

(* recomputeProviderVerification: what the newest document of each type says. *)
Derived ==
  LET latest(t) == Newest(LiveOf(t))
      inHand == \A t \in Required : LiveOf(t) # {}
  IN  IF \E t \in Required : LiveOf(t) # {} /\ docState[latest(t)] = "REJECTED"
      THEN "REJECTED"
      ELSE IF inHand /\ \A t \in Required : Satisfied(latest(t)) THEN "APPROVED"
      ELSE IF inHand THEN "IN_REVIEW" ELSE "PENDING"

(* reviewQueue: what a reviewer sees as claimed, and as free. *)
Queue(claimed) ==
  {d \in Documents : docState[d] \in REVIEWABLE
                     /\ (docHolder[d] # NoReviewer <=> claimed)}

-----------------------------------------------------------------------------
(* Steps of a request. *)
Snapshot(S) == [d \in S |-> <<docState[d], docHolder[d]>>]
Moved(h) == {d \in kset[h] : kseen[h][d] # <<docState[d], docHolder[d]>>}

Load(h, at, who, S, verdict) ==
  /\ kpc[h] = "idle" /\ kycCalls < MaxKycCalls /\ kycCalls' = kycCalls + 1
  /\ kpc' = [kpc EXCEPT ![h] = at]
  /\ kwho' = [kwho EXCEPT ![h] = who]
  /\ kset' = [kset EXCEPT ![h] = S]
  /\ kseen' = [kseen EXCEPT ![h] = Snapshot(S)]
  /\ kverdict' = [kverdict EXCEPT ![h] = verdict]
  /\ UNCHANGED <<documents, badge, kycMishaps, kycHistory>>

Forget(h, at) ==
  /\ kpc' = [kpc EXCEPT ![h] = at]
  /\ kset' = [kset EXCEPT ![h] = {}]
  /\ kseen' = [kseen EXCEPT ![h] = Snapshot({})]
  /\ kwho' = [kwho EXCEPT ![h] = NoReviewer]
  /\ kverdict' = [kverdict EXCEPT ![h] = "none"]

Done(h) == Forget(h, "idle")

(* A badge computed before this write of documents is late. *)
MakeLate(h) == klate' = klate \cup {g \in KycRequests \ {h} : kpc[g] = "badge"}

-----------------------------------------------------------------------------
(* submitDocument: the live documents of the type are read, the new one is
   created, and those that were read are superseded. *)
SubmitDocument(h, t) == Load(h, "create", NoReviewer, LiveOf(t), t)

CreateDocument(h, d, single) ==
  LET t == kverdict[h] IN
  /\ kpc[h] = "create"
  /\ docState[d] = "none" /\ \A e \in 1..(d - 1) : docState[e] # "none"
  /\ docState' = [docState EXCEPT ![d] = "SUBMITTED"]
  /\ docType' = [docType EXCEPT ![d] = t]
  /\ single => t \in FrontTypes
  /\ singleSided' = [singleSided EXCEPT ![d] = single]
  /\ raced' = IF LiveOf(t) = kset[h] THEN raced ELSE raced \cup {d}
  /\ kpc' = [kpc EXCEPT ![h] = "supersede"]
  /\ MakeLate(h)
  /\ UNCHANGED <<docHolder, docExpired, badge, kset, kseen, kwho,
                 kverdict, kycBounds, astray>>

(* Mutant: the documents that were replaced keep their status. *)
SupersedeNothing(h) ==
  /\ kpc[h] = "supersede"
  /\ Forget(h, "derive")
  /\ MakeLate(h)
  /\ UNCHANGED <<documents, badge, kycBounds, raced, astray>>

Supersede(h) ==
  /\ kpc[h] = "supersede"
  /\ docState' = [d \in Documents |->
                    IF d \in kset[h] THEN "SUPERSEDED" ELSE docState[d]]
  /\ docHolder' = [d \in Documents |->
                     IF d \in kset[h] THEN NoReviewer ELSE docHolder[d]]
  /\ Forget(h, "derive")
  /\ MakeLate(h)
  /\ UNCHANGED <<docType, singleSided, docExpired, badge, kycBounds,
                 raced, astray>>

-----------------------------------------------------------------------------
(* Claims.  The case is every document still open; one reviewer takes it all,
   or nothing if another holds a part of it. *)
ClaimCase(h, r) ==
  /\ \A d \in Queue(TRUE) : docHolder[d] = r
  /\ Queue(FALSE) # {}
  /\ Load(h, "claim", r, Queue(TRUE) \cup Queue(FALSE), "UNDER_REVIEW")

ReleaseCase(h, r) ==
  LET mine == {d \in Documents : docHolder[d] = r} IN
  /\ mine # {}
  /\ Load(h, "claim", NoReviewer, mine, "SUBMITTED")

ClaimDocument(h, r, d) ==
  /\ docState[d] \in REVIEWABLE /\ docHolder[d] = NoReviewer
  /\ Load(h, "claim", r, {d}, "UNDER_REVIEW")

(* updateMany by identity; and claimDocumentForReview's save of one document,
   which leaves a status alone that it found UNDER_REVIEW already. *)
SaveClaim(h) ==
  /\ kpc[h] = "claim"
  /\ \E skip \in SUBSET kset[h] :
       /\ skip # {} => Cardinality(kset[h]) = 1 /\ kwho[h] # NoReviewer
                        /\ \A d \in skip : kseen[h][d][1] = "UNDER_REVIEW"
       /\ docState' = [d \in Documents |->
                         IF d \in kset[h] \ skip THEN kverdict[h] ELSE docState[d]]
  /\ docHolder' = [d \in Documents |->
                     IF d \in kset[h] THEN kwho[h] ELSE docHolder[d]]
  /\ raced' = raced \cup Moved(h)
  /\ IF kset[h] \cap raced' = {}
       THEN UNCHANGED <<astray, klate>>
       ELSE astray' = TRUE /\ MakeLate(h)
  /\ Done(h)
  /\ UNCHANGED <<docType, singleSided, docExpired, badge, kycBounds>>

-----------------------------------------------------------------------------
(* approveDocument, rejectDocument, and one after the other in
   completeCaseReview: anybody may decide what is open, over any claim. *)
Decide(h, d, verdict) ==
  /\ docState[d] \in REVIEWABLE
  /\ Load(h, "decide", NoReviewer, {d}, verdict)

ApproveDocument(h, d) == Decide(h, d, "APPROVED")
RejectDocument(h, d) == Decide(h, d, "REJECTED")

(* The save writes the status, and the claim only if the copy had one. *)
SaveDecision(h) ==
  /\ kpc[h] = "decide"
  /\ docState' = [d \in Documents |->
                    IF d \in kset[h] THEN kverdict[h] ELSE docState[d]]
  /\ docHolder' = [d \in Documents |->
                     IF d \in kset[h] /\ kseen[h][d][2] # NoReviewer
                     THEN NoReviewer ELSE docHolder[d]]
  /\ raced' = raced \cup Moved(h)
  /\ Forget(h, "derive")
  /\ MakeLate(h)
  /\ UNCHANGED <<docType, singleSided, docExpired, badge, kycBounds,
                 astray>>

-----------------------------------------------------------------------------
(* recomputeProviderVerification reads the documents, then writes the badge. *)
Derive(h) ==
  /\ kpc[h] = "derive"
  /\ kpc' = [kpc EXCEPT ![h] = "badge"]
  /\ kverdict' = [kverdict EXCEPT ![h] = Derived]
  /\ UNCHANGED <<documents, badge, kset, kseen, kwho, kycBounds,
                 kycHistory>>

WriteBadge(h) ==
  /\ kpc[h] = "badge"
  /\ badge' = kverdict[h]
  /\ astray' = (h \in klate)
  /\ klate' = klate \ {h}
  /\ Done(h)
  /\ UNCHANGED <<documents, kycBounds, raced>>

(* A mishap takes the room of a request, so that the bounds are shared. *)
KycMishap ==
  /\ kycMishaps < MaxKycMishaps /\ kycMishaps' = kycMishaps + 1
  /\ kycCalls < MaxKycCalls /\ kycCalls' = kycCalls + 1

(* Time passes; nothing recomputes a badge for it. *)
Expire(d) ==
  /\ Live(d) /\ ~docExpired[d]
  /\ KycMishap
  /\ docExpired' = [docExpired EXCEPT ![d] = TRUE]
  /\ astray' = TRUE
  /\ klate' = klate \cup {g \in KycRequests : kpc[g] = "badge"}
  /\ UNCHANGED <<docState, docType, singleSided, docHolder, badge,
                 kycRequest, raced>>

(* The process is lost in the middle of a request. *)
LoseRequest(h) ==
  /\ kpc[h] # "idle"
  /\ KycMishap
  /\ astray' = (astray \/ kpc[h] \in {"supersede", "derive", "badge"})
  /\ raced' = IF kpc[h] = "supersede" THEN raced \cup LiveOf(kverdict[h]) ELSE raced
  /\ klate' = klate \ {h}
  /\ Done(h)
  /\ UNCHANGED <<documents, badge>>

-----------------------------------------------------------------------------
KycInit ==
  /\ docState = [d \in Documents |-> "none"]
  /\ docType = [d \in Documents |-> "none"]
  /\ singleSided = [d \in Documents |-> FALSE]
  /\ docHolder = [d \in Documents |-> NoReviewer]
  /\ docExpired = [d \in Documents |-> FALSE]
  /\ badge = "PENDING"
  /\ kpc = [h \in KycRequests |-> "idle"]
  /\ kset = [h \in KycRequests |-> {}]
  /\ kseen = [h \in KycRequests |-> Snapshot({})]
  /\ kwho = [h \in KycRequests |-> NoReviewer]
  /\ kverdict = [h \in KycRequests |-> "none"]
  /\ kycCalls = 0 /\ kycMishaps = 0
  /\ klate = {} /\ raced = {} /\ astray = FALSE

KycNext ==
  \E h \in KycRequests :
    \/ \E t \in KycTypes : SubmitDocument(h, t)
    \/ \E d \in Documents, single \in BOOLEAN : CreateDocument(h, d, single)
    \/ Supersede(h)
    \/ \E r \in Reviewers : ClaimCase(h, r) \/ ReleaseCase(h, r)
    \/ \E r \in Reviewers, d \in Documents : ClaimDocument(h, r, d)
    \/ SaveClaim(h)
    \/ \E d \in Documents : ApproveDocument(h, d) \/ RejectDocument(h, d)
    \/ SaveDecision(h) \/ Derive(h) \/ WriteBadge(h) \/ LoseRequest(h)
    \/ \E d \in Documents : Expire(d)

KycSpec == KycInit /\ [][KycNext]_kycVars

-----------------------------------------------------------------------------
KycTypeOK ==
  /\ docState \in [Documents -> KycStatus]
  /\ docType \in [Documents -> KycTypes \cup {"none"}]
  /\ \A d \in Documents : docState[d] = "none" <=> docType[d] = "none"
  /\ singleSided \in [Documents -> BOOLEAN] /\ docExpired \in [Documents -> BOOLEAN]
  /\ docHolder \in [Documents -> Reviewers \cup {NoReviewer}]
  /\ badge \in VerificationStatus
  /\ \A h \in KycRequests : kset[h] \subseteq Documents /\ DOMAIN kseen[h] = kset[h]
  /\ klate \subseteq {h \in KycRequests : kpc[h] = "badge"}
  /\ raced \subseteq Documents
  /\ astray \in BOOLEAN

Owing(h) == kpc[h] \notin {"idle", "create", "claim", "decide"}

(* With nobody between a write of documents and the badge, the badge is
   the one the documents call for - unless the last one to write it had
   read before another's write, a claim went over a decision, a document
   expired, or a process was lost on the way. *)
BadgeFollows ==
  ~astray /\ (\A h \in KycRequests : ~Owing(h)) => badge = Derived

(* One live document per type, on which supersession and the check that
   all are approved rest: unless two submissions of the type crossed, one
   was lost half-way, or a claim or decision revived a superseded one. *)
OneLivePerType ==
  \A t \in KycTypes :
    \/ Cardinality(LiveOf(t)) <= 1
    \/ \E h \in KycRequests : kpc[h] = "supersede" /\ kverdict[h] = t
    \/ \E d \in raced : docType[d] = t

(* A document somebody holds is under review, and no other is: what has
   been decided or replaced is in nobody's hands, so that handing a case
   back reopens no decision.  A blind write - one whose document changed
   since it was loaded - is the only way out. *)
HeldIsOpen ==
  \A d \in Documents \ raced :
    docHolder[d] # NoReviewer <=> docState[d] = "UNDER_REVIEW"

(* A decision is undone only by a blind write or by a new submission. *)
DecisionsStand ==
  \A d \in Documents :
    docState[d] \in Decided => docState'[d] \in {docState[d], "SUPERSEDED"}
                               \/ d \in raced'

(* The review of a provider as a whole, over two requests that interleave
   write by write: whichever step is taken, the badge follows the documents, a
   type has one live document, what is held is open, and no decision is
   undone. *)
ReviewIsSound ==
  [][kycVars' # kycVars =>
       /\ (KycTypeOK /\ BadgeFollows /\ OneLivePerType /\ HeldIsOpen)'
       /\ DecisionsStand]_kycVars

=============================================================================
