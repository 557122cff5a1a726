--------------------------- MODULE DeviceSessions ---------------------------
(* The phones of one staff member: registered, approved, blocked, removed,
   and of them the one that holds the account's active session.  The guard
   of every request reads the answer of resolveDeviceAuth, which is cached.

   Nothing runs in a transaction: the session is claimed in one update,
   the siblings are looked up in a second step, put out in a third and
   dropped from the cache in a fourth.  Branches, names, push tokens and
   the alerts to the phone that is signed out are left out. *)
EXTENDS Naturals, FiniteSets

CONSTANTS
  Phones,
  DeviceRequests,    \* requests in progress
  NoPhone,
  MaxDeviceCalls,    \* bound: requests ever made, and mishaps
  MaxDeviceMishaps   \* bound: server processes lost, answers that expire

VARIABLES
  phoneStatus, activeSession,   \* devices
  authCache,                    \* device_auth entries: the cached decision
  dpc, dphone, dset,            \* a request in progress
  deviceCalls, deviceMishaps,
  dclaimed,     \* history: the staff member's last claim still counts
  dunblocked,   \* history: phones let back in without putting others out
  dclash,       \* history: two claims overlapped, or one lost its phone
  dstale        \* history: phones whose cached answer nobody will drop

phoneRows == <<phoneStatus, activeSession>>
deviceRequest == <<dpc, dphone, dset>>
deviceBounds == <<deviceCalls, deviceMishaps>>
deviceHistory == <<dclaimed, dunblocked, dclash, dstale>>
deviceVars == <<phoneRows, authCache, deviceRequest, deviceBounds, deviceHistory>>

DeviceStatus == {"none", "PENDING", "APPROVED", "BLOCKED"}
Decision == {"unknown", "yes", "no"}

DeviceInit ==
  /\ phoneStatus = [d \in Phones |-> "none"]
  /\ activeSession = [d \in Phones |-> FALSE]
  /\ authCache = [d \in Phones |-> "unknown"]
  /\ dpc = [h \in DeviceRequests |-> "idle"]
  /\ dphone = [h \in DeviceRequests |-> NoPhone]
  /\ dset = [h \in DeviceRequests |-> {}]
  /\ deviceCalls = 0 /\ deviceMishaps = 0
  /\ dclaimed = FALSE /\ dunblocked = {} /\ dclash = FALSE /\ dstale = {}

(* What the gate asks of a phone. *)
Authorized(d) == phoneStatus[d] = "APPROVED" /\ activeSession[d]

-----------------------------------------------------------------------------
DeviceBegin(h, at, d) ==
  /\ dpc[h] = "idle" /\ deviceCalls < MaxDeviceCalls
  /\ deviceCalls' = deviceCalls + 1
  /\ dpc' = [dpc EXCEPT ![h] = at]
  /\ dphone' = [dphone EXCEPT ![h] = d]

DeviceMove(h, at) ==
  /\ dpc' = [dpc EXCEPT ![h] = at]
  /\ UNCHANGED <<dphone, dset>>

DeviceDone(h) ==
  /\ dpc' = [dpc EXCEPT ![h] = "idle"]
  /\ dphone' = [dphone EXCEPT ![h] = NoPhone]
  /\ dset' = [dset EXCEPT ![h] = {}]

(* Requests that have taken the session and not yet put the others out. *)
Claiming(h) == dpc[h] \in {"drop+", "siblings", "supersede"}

-----------------------------------------------------------------------------
(* register: a new phone of a staff member waits for its owner. *)
RegisterPhone(h, d) ==
  /\ phoneStatus[d] = "none"
  /\ DeviceBegin(h, "drop", d)
  /\ phoneStatus' = [phoneStatus EXCEPT ![d] = "PENDING"]
  /\ activeSession' = [activeSession EXCEPT ![d] = TRUE]
  /\ UNCHANGED <<authCache, dset, deviceMishaps, deviceHistory>>

(* approve, unblock, block, disapprove, delete find the phone before they write;
   claimActiveDevice also wants it approved. *)
FindPhone(h, at, d) ==
  /\ phoneStatus[d] # "none"
  /\ at = "claim" => phoneStatus[d] = "APPROVED"
  /\ DeviceBegin(h, at, d)
  /\ UNCHANGED <<phoneRows, authCache, dset, deviceMishaps, deviceHistory>>

(* The write does nothing to a phone that was removed since. *)
SetPhone(d, status) ==
  /\ phoneStatus' = IF phoneStatus[d] = "none" THEN phoneStatus
                    ELSE [phoneStatus EXCEPT ![d] = status]
  /\ activeSession' = IF phoneStatus[d] = "none" THEN activeSession
                      ELSE [activeSession EXCEPT ![d] = TRUE]

(* approve and claimActiveDevice take the session and go on to the siblings. *)
TakeSession(h) ==
  LET d == dphone[h] IN
  /\ dpc[h] \in {"approve", "claim"}
  /\ SetPhone(d, IF dpc[h] = "approve" THEN "APPROVED" ELSE phoneStatus[d])
  /\ DeviceMove(h, "drop+")
  /\ dclaimed' = TRUE
  /\ dclash' = \/ dclash
               \/ phoneStatus[d] = "none"
               \/ dpc[h] = "claim" /\ phoneStatus[d] # "APPROVED"
               \/ \E g \in DeviceRequests \ {h} : Claiming(g)
  /\ UNCHANGED <<authCache, deviceBounds, dunblocked, dstale>>

Unblock(h) ==
  LET d == dphone[h] IN
  /\ dpc[h] = "unblock"
  /\ SetPhone(d, "APPROVED")
  /\ DeviceMove(h, "drop")
  /\ dunblocked' = dunblocked \cup {d}
  /\ UNCHANGED <<authCache, deviceBounds, dclaimed, dclash, dstale>>

Block(h) ==
  LET d == dphone[h] IN
  /\ dpc[h] = "block"
  /\ phoneStatus' = IF phoneStatus[d] = "none" THEN phoneStatus
                    ELSE [phoneStatus EXCEPT ![d] = "BLOCKED"]
  /\ DeviceMove(h, "drop")
  /\ dclaimed' = FALSE
  /\ UNCHANGED <<activeSession, authCache, deviceBounds, dunblocked, dclash, dstale>>

RemovePhone(h) ==
  LET d == dphone[h] IN
  /\ dpc[h] = "remove"
  /\ phoneStatus' = [phoneStatus EXCEPT ![d] = "none"]
  /\ activeSession' = [activeSession EXCEPT ![d] = FALSE]
  /\ DeviceMove(h, "drop")
  /\ dclaimed' = FALSE
  /\ dunblocked' = dunblocked \ {d}
  /\ UNCHANGED <<authCache, deviceBounds, dclash, dstale>>

(* invalidateDeviceAuth for the phone of the request. *)
DropAuth(h) ==
  /\ dpc[h] \in {"drop", "drop+"}
  /\ authCache' = [authCache EXCEPT ![dphone[h]] = "unknown"]
  /\ dstale' = dstale \ {dphone[h]}
  /\ IF dpc[h] = "drop" THEN DeviceDone(h) ELSE DeviceMove(h, "siblings")
  /\ UNCHANGED <<phoneRows, deviceBounds, dclaimed, dunblocked, dclash>>

-----------------------------------------------------------------------------
(* supersedeSiblingDevices. *)
Siblings(d) == {e \in Phones \ {d} : phoneStatus[e] # "none" /\ activeSession[e]}

FindSiblings(h) ==
  LET found == Siblings(dphone[h]) IN
  /\ dpc[h] = "siblings"
  /\ IF found = {} THEN DeviceDone(h)
     ELSE /\ dpc' = [dpc EXCEPT ![h] = "supersede"]
          /\ dset' = [dset EXCEPT ![h] = found]
          /\ UNCHANGED dphone
  /\ UNCHANGED <<phoneRows, authCache, deviceBounds, deviceHistory>>

(* Mutant: only the phones that were found are put out of the cache and no
   phone is put out of its session. *)
SupersedeNone(h) ==
  /\ dpc[h] = "supersede"
  /\ DeviceMove(h, "dropall")
  /\ UNCHANGED <<phoneRows, authCache, deviceBounds, deviceHistory>>

(* The update matches the siblings of this moment, not those that were found. *)
SupersedeSiblings(h) ==
  LET out == Siblings(dphone[h]) IN
  /\ dpc[h] = "supersede"
  /\ activeSession' = [e \in Phones |-> IF e \in out THEN FALSE ELSE activeSession[e]]
  /\ dunblocked' = dunblocked \ out
  /\ dstale' = dstale \cup (out \ dset[h])
  /\ DeviceMove(h, "dropall")
  /\ UNCHANGED <<phoneStatus, authCache, deviceBounds, dclaimed, dclash>>

DropSiblings(h) ==
  /\ dpc[h] = "dropall"
  /\ authCache' = [e \in Phones |-> IF e \in dset[h] THEN "unknown" ELSE authCache[e]]
  /\ dstale' = dstale \ dset[h]
  /\ DeviceDone(h)
  /\ UNCHANGED <<phoneRows, deviceBounds, dclaimed, dunblocked, dclash>>

-----------------------------------------------------------------------------
(* resolveDeviceAuth: a cached answer is final; otherwise the row is read and
   the answer cached, which may be after somebody dropped the entry. *)
AskAuth(h, d) ==
  /\ authCache[d] = "unknown"
  /\ DeviceBegin(h, IF Authorized(d) THEN "fill yes" ELSE "fill no", d)
  /\ UNCHANGED <<phoneRows, authCache, dset, deviceMishaps, deviceHistory>>

FillAuth(h) ==
  LET d == dphone[h] yes == dpc[h] = "fill yes" IN
  /\ dpc[h] \in {"fill yes", "fill no"}
  /\ authCache' = [authCache EXCEPT ![d] = IF yes THEN "yes" ELSE "no"]
  /\ dstale' = IF yes = Authorized(d) THEN dstale ELSE dstale \cup {d}
  /\ DeviceDone(h)
  /\ UNCHANGED <<phoneRows, deviceBounds, dclaimed, dunblocked, dclash>>

(* The entry expires, after DEVICE_AUTH_TTL. *)
ExpireAuth(d) ==
  /\ authCache[d] # "unknown"
  /\ deviceMishaps < MaxDeviceMishaps /\ deviceMishaps' = deviceMishaps + 1
  /\ deviceCalls < MaxDeviceCalls /\ deviceCalls' = deviceCalls + 1
  /\ authCache' = [authCache EXCEPT ![d] = "unknown"]
  /\ dstale' = dstale \ {d}
  /\ UNCHANGED <<phoneRows, deviceRequest, dclaimed, dunblocked, dclash>>

(* The server process is lost; what it would have dropped stays cached. *)
LoseDeviceRequest(h) ==
  /\ dpc[h] # "idle"
  /\ deviceMishaps < MaxDeviceMishaps /\ deviceMishaps' = deviceMishaps + 1
  /\ deviceCalls < MaxDeviceCalls /\ deviceCalls' = deviceCalls + 1
  /\ dclash' = (dclash \/ Claiming(h))
  /\ dstale' = dstale \cup (IF dpc[h] \in {"drop", "drop+"} THEN {dphone[h]}
                            ELSE IF dpc[h] = "dropall" THEN dset[h] ELSE {})
  /\ DeviceDone(h)
  /\ UNCHANGED <<phoneRows, authCache, dclaimed, dunblocked>>

DeviceNext ==
  \/ \E h \in DeviceRequests :
       \/ \E d \in Phones : \/ RegisterPhone(h, d)
                            \/ AskAuth(h, d)
                            \/ \E at \in {"approve", "claim", "unblock", "block", "remove"} :
                                 FindPhone(h, at, d)
       \/ TakeSession(h) \/ Unblock(h) \/ Block(h) \/ RemovePhone(h)
       \/ DropAuth(h) \/ FindSiblings(h) \/ SupersedeSiblings(h) \/ DropSiblings(h)
       \/ FillAuth(h) \/ LoseDeviceRequest(h)
  \/ \E d \in Phones : ExpireAuth(d)

DeviceSpec == DeviceInit /\ [][DeviceNext]_deviceVars

-----------------------------------------------------------------------------
DeviceTypeOK ==
  /\ phoneStatus \in [Phones -> DeviceStatus]
  /\ activeSession \in [Phones -> BOOLEAN]
  /\ authCache \in [Phones -> Decision]
  /\ dphone \in [DeviceRequests -> Phones \cup {NoPhone}]
  /\ dset \in [DeviceRequests -> SUBSET Phones]
  /\ dunblocked \subseteq Phones /\ dstale \subseteq Phones

SessionsAtRest == \A h \in DeviceRequests : ~Claiming(h)

(* A staff member works on one phone: two approved phones hold the session
   only if one of them was unblocked, which puts no other phone out, or if
   two claims overlapped or one was cut short. *)
OneActiveDevice ==
  SessionsAtRest =>
    \A d, e \in Phones :
      d # e /\ phoneStatus[d] = "APPROVED" /\ activeSession[d]
            /\ phoneStatus[e] = "APPROVED" /\ activeSession[e]
        => d \in dunblocked \/ e \in dunblocked \/ dclash

(* Claiming the session leaves the staff member a phone: after a claim, and
   until the owner blocks or removes one, some phone passes the gate.  Two
   claims that overlap put each other out and leave none. *)
ClaimLeavesAPhone ==
  SessionsAtRest /\ dclaimed => dclash \/ \E d \in Phones : Authorized(d)

(* A cached yes is backed by the row, or a request that will drop it is on
   its way.  The exceptions outlive their request until the entry expires: an
   answer read before the row changed and cached after the entry was dropped,
   a sibling that took the session between the look-up and the update, and
   a process lost before it dropped the entry. *)
CachedYesIsBacked ==
  \A d \in Phones : authCache[d] = "yes" =>
    \/ phoneStatus[d] = "APPROVED" /\ activeSession[d]
    \/ d \in dstale
    \/ \E h \in DeviceRequests : \/ dpc[h] \in {"drop", "drop+"} /\ dphone[h] = d
                                 \/ dpc[h] = "dropall" /\ d \in dset[h]

(* What signing in on a device promises a staff member: one active session, no
   claim that ends without one, and no cached permission that outlives its
   device. *)
SessionsAreSound ==
  /\ DeviceTypeOK
  /\ OneActiveDevice
  /\ ClaimLeavesAPhone
  /\ CachedYesIsBacked

=============================================================================
