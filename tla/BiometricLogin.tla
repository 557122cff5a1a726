-------------------------- MODULE BiometricLogin --------------------------
(* Sign-in with a device key (biometric.service): a challenge kept in the
   cache is signed with the enrolled key and traded for a custom token.
   Logins, enrolments and revocations interleave at their awaits, and the
   cache drops challenges after two minutes.  A client signs with the key
   its device holds. *)
EXTENDS Naturals, FiniteSets

CONSTANTS
  BioDevices, BioUidOf,   \* devices and the account each belongs to
  BioChallenges,          \* challenge ids, each issued once
  BioLogins,              \* login requests in progress
  BioMostKeys, BioMostSessions   \* bounds

ASSUME BioBoundIsNatural == BioMostKeys \in Nat

VARIABLES
  bioCred,      \* credential documents: id -> [device, key]
  bioKeys,      \* keys generated so far; device -> the one it holds
  bioHeld,
  bioCache,     \* challenge -> credential id, while in the cache
  bioIssued,    \* challenges issued so far
  bioDisabled,  \* accounts disabled with Firebase
  biopc, bioAsks, bioSigned, bioStored, bioRead,  \* logins: challenge, key signed with, cache read, device of the document read
  bioOpened,    \* history: challenge -> sessions it opened
  bioTogether,  \* history: challenges two logins had read before either deleted it
  bioRevoked,   \* history: logins whose credential was revoked before they saved it
  bioStale,     \* history: sessions opened by such a login
  bioSessions

bioVars == <<bioCred, bioKeys, bioHeld, bioCache, bioIssued, bioDisabled, biopc, bioAsks, bioSigned,
             bioStored, bioRead, bioOpened, bioTogether, bioRevoked, bioStale, bioSessions>>
bioRequests == <<biopc, bioAsks, bioSigned, bioStored, bioRead>>
bioHistory == <<bioOpened, bioTogether, bioRevoked, bioStale, bioSessions>>

BioInit ==
  /\ bioCred = <<>> /\ bioKeys = 0 /\ bioHeld = [d \in BioDevices |-> 0] /\ bioCache = <<>>
  /\ bioIssued = {} /\ bioDisabled = {}
  /\ biopc = [h \in BioLogins |-> "idle"] /\ bioAsks = [h \in BioLogins |-> {}]
  /\ bioSigned = [h \in BioLogins |-> 0] /\ bioStored = [h \in BioLogins |-> {}]
  /\ bioRead = [h \in BioLogins |-> {}]
  /\ bioOpened = [c \in BioChallenges |-> 0] /\ bioTogether = {} /\ bioRevoked = {}
  /\ bioStale = {} /\ bioSessions = 0

\* enroll: an upsert of the device's credential with a new key.
Enroll(d) ==
  /\ bioKeys < BioMostKeys /\ bioKeys' = bioKeys + 1
  /\ bioHeld' = [bioHeld EXCEPT ![d] = bioKeys + 1]
  /\ LET own == {i \in DOMAIN bioCred : bioCred[i].device = d} IN
     \E i \in IF own # {} THEN own ELSE {bioKeys + 1} :  \* ids are never used again
       bioCred' = [j \in DOMAIN bioCred \cup {i} |->
                     IF j = i THEN [device |-> d, key |-> bioKeys + 1] ELSE bioCred[j]]
  /\ UNCHANGED <<bioCache, bioIssued, bioDisabled, bioRequests, bioHistory>>

\* revoke: the document is deleted.
Revoke(i) ==
  /\ bioCred' = [j \in DOMAIN bioCred \ {i} |-> bioCred[j]]
  /\ bioRevoked' = bioRevoked \cup {h \in BioLogins : biopc[h] \in {"account", "save"} /\ bioStored[h] = {i}}
  /\ UNCHANGED <<bioKeys, bioHeld, bioCache, bioIssued, bioDisabled, bioRequests,
                 bioOpened, bioTogether, bioStale, bioSessions>>

RequestChallenge(i, c) ==
  /\ i \in DOMAIN bioCred /\ c \notin bioIssued
  /\ bioCache' = [k \in DOMAIN bioCache \cup {c} |-> IF k = c THEN i ELSE bioCache[k]]
  /\ bioIssued' = bioIssued \cup {c}
  /\ UNCHANGED <<bioCred, bioKeys, bioHeld, bioDisabled, bioRequests, bioHistory>>

Without(cache, c) == [k \in DOMAIN cache \ {c} |-> cache[k]]

\* The two minutes are over.
ExpireChallenge(c) ==
  /\ c \in DOMAIN bioCache /\ bioCache' = Without(bioCache, c)
  /\ UNCHANGED <<bioCred, bioKeys, bioHeld, bioIssued, bioDisabled, bioRequests, bioHistory>>

\* login, up to its read of the cache.
ReadChallenge(h, c, d) ==
  /\ biopc[h] = "idle" /\ c \in bioIssued /\ bioHeld[d] # 0 /\ bioSessions < BioMostSessions
  /\ biopc' = [biopc EXCEPT ![h] = "consume"] /\ bioAsks' = [bioAsks EXCEPT ![h] = {c}]
  /\ bioSigned' = [bioSigned EXCEPT ![h] = bioHeld[d]]
  /\ bioStored' = [bioStored EXCEPT ![h] = IF c \in DOMAIN bioCache THEN {bioCache[c]} ELSE {}]
  /\ bioTogether' = IF \E g \in BioLogins \ {h} : biopc[g] = "consume" /\ bioAsks[g] = {c}
                    THEN bioTogether \cup {c} ELSE bioTogether
  /\ bioRevoked' = bioRevoked \ {h}
  /\ UNCHANGED <<bioCred, bioKeys, bioHeld, bioCache, bioIssued, bioDisabled, bioRead,
                 bioOpened, bioStale, bioSessions>>

GiveUp(h) ==
  /\ biopc' = [biopc EXCEPT ![h] = "idle"] /\ bioAsks' = [bioAsks EXCEPT ![h] = {}]
  /\ bioSigned' = [bioSigned EXCEPT ![h] = 0] /\ bioStored' = [bioStored EXCEPT ![h] = {}]
  /\ bioRead' = [bioRead EXCEPT ![h] = {}]

\* Mutant: a challenge is spent by a login that succeeds.
KeepUntilSuccess(h) == bioCache' = bioCache
\* The delete that follows at once, even on failure.
Consume(h) == \E c \in bioAsks[h] : bioCache' = Without(bioCache, c)

ConsumeChallenge(h) ==
  /\ biopc[h] = "consume" /\ Consume(h)
  /\ IF bioStored[h] = {} THEN GiveUp(h)
     ELSE biopc' = [biopc EXCEPT ![h] = "verify"] /\ UNCHANGED <<bioAsks, bioSigned, bioStored, bioRead>>
  /\ UNCHANGED <<bioCred, bioKeys, bioHeld, bioIssued, bioDisabled, bioHistory>>

\* findById and the signature.
VerifySignature(h) ==
  /\ biopc[h] = "verify"
  /\ \E i \in bioStored[h] :
       IF i \in DOMAIN bioCred /\ bioCred[i].key = bioSigned[h]
       THEN /\ biopc' = [biopc EXCEPT ![h] = "account"]
            /\ bioRead' = [bioRead EXCEPT ![h] = {bioCred[i].device}]
            /\ UNCHANGED <<bioAsks, bioSigned, bioStored>>
       ELSE GiveUp(h)
  /\ UNCHANGED <<bioCred, bioKeys, bioHeld, bioCache, bioIssued, bioDisabled, bioHistory>>

\* getUser of Firebase.
AskAccount(h) ==
  /\ biopc[h] = "account"
  /\ IF \E d \in bioRead[h] : BioUidOf[d] \in bioDisabled THEN GiveUp(h)
     ELSE biopc' = [biopc EXCEPT ![h] = "save"] /\ UNCHANGED <<bioAsks, bioSigned, bioStored, bioRead>>
  /\ UNCHANGED <<bioCred, bioKeys, bioHeld, bioCache, bioIssued, bioDisabled, bioHistory>>

\* credential.save() of a deleted document throws.
SaveFinds(h) == bioStored[h] \subseteq DOMAIN bioCred

\* lastUsedAt is saved.
SaveStamp(h) ==
  /\ biopc[h] = "save"
  /\ IF SaveFinds(h)
     THEN biopc' = [biopc EXCEPT ![h] = "mint"] /\ UNCHANGED <<bioAsks, bioSigned, bioStored, bioRead>>
     ELSE GiveUp(h)
  /\ UNCHANGED <<bioCred, bioKeys, bioHeld, bioCache, bioIssued, bioDisabled, bioHistory>>

\* createCustomToken.
OpenSession(h) ==
  /\ biopc[h] = "mint"
  /\ \E c \in bioAsks[h] :
       /\ bioOpened' = [bioOpened EXCEPT ![c] = @ + 1] /\ bioSessions' = bioSessions + 1
       /\ bioStale' = IF h \in bioRevoked THEN bioStale \cup {c} ELSE bioStale
  /\ GiveUp(h) /\ bioRevoked' = bioRevoked \ {h}
  /\ UNCHANGED <<bioCred, bioKeys, bioHeld, bioCache, bioIssued, bioDisabled, bioTogether>>

DisableAccount(uid) ==
  /\ uid \notin bioDisabled /\ bioDisabled' = bioDisabled \cup {uid}
  /\ UNCHANGED <<bioCred, bioKeys, bioHeld, bioCache, bioIssued, bioRequests, bioHistory>>

BioNext ==
  \/ \E d \in BioDevices : Enroll(d)
  \/ \E i \in DOMAIN bioCred : Revoke(i) \/ \E c \in BioChallenges : RequestChallenge(i, c)
  \/ \E c \in BioChallenges : ExpireChallenge(c)
  \/ \E h \in BioLogins :
       \/ \E c \in BioChallenges, d \in BioDevices : ReadChallenge(h, c, d)
       \/ ConsumeChallenge(h) \/ VerifySignature(h) \/ AskAccount(h) \/ SaveStamp(h) \/ OpenSession(h)
  \/ \E d \in BioDevices : DisableAccount(BioUidOf[d])

BioSpec == BioInit /\ [][BioNext]_bioVars

-----------------------------------------------------------------------------
BioTypeOK ==
  /\ DOMAIN bioCred \subseteq 1..BioMostKeys /\ bioHeld \in [BioDevices -> 0..BioMostKeys]
  /\ DOMAIN bioCache \subseteq bioIssued /\ bioIssued \subseteq BioChallenges
  /\ biopc \in [BioLogins -> {"idle", "consume", "verify", "account", "save", "mint"}]

\* A challenge opens one session, however often its signature is sent again, unless two
\* logins had both read it from the cache before either deleted it (login: get, then del).
OneSessionPerChallenge == \A c \in BioChallenges \ bioTogether : bioOpened[c] <= 1

\* A device whose key was revoked before its login stamps the credential gets no session: the
\* stamp is saved to a document that is gone, and that refuses (login: save before
\* createCustomToken).  Between the two a revocation comes too late.
RevokedKeyOpensNothing == bioStale = {}

(* A signed challenge opens one session, for a device whose key still stands,
   whatever comes between the reads and the writes of a login. *)
LoginsAreSound ==
  /\ BioTypeOK
  /\ OneSessionPerChallenge
  /\ RevokedKeyOpensNothing

=============================================================================
