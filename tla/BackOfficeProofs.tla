-------------------------- MODULE BackOfficeProofs --------------------------
(* What TLAPS proves of the back office, for any number of requests,
   phones, keys and selfies: the sessions of phones (DeviceSessions), the
   sign-in with a device key (BiometricLogin), the selfies of a courier
   (CourierSelfies), the migrations of stored documents (Migrations), the
   pages and the search of the operators (BackOfficeViews), and that the
   composition (BackOffice) runs each of its components as that
   component's own specification allows.
   How an account comes to be, whom it lets in and how a provider is
   verified is in AccountsProofs.

   Each part has one inductive invariant.  It says, of a request in
   progress, what it still knows to be so of the documents it has read,
   and which history variable was marked if that may have changed. *)
EXTENDS BackOffice, FiniteSetTheorems, WellFoundedInduction, TLAPS

-----------------------------------------------------------------------------
(* Phones and sessions. *)
DeviceSteps ==
  {"idle", "drop", "drop+", "approve", "claim", "unblock", "block", "remove",
   "siblings", "supersede", "dropall", "fill yes", "fill no"}

DeviceTyped ==
  /\ DeviceTypeOK
  /\ dpc \in [DeviceRequests -> DeviceSteps]
  /\ \A h \in DeviceRequests : dpc[h] # "idle" => dphone[h] \in Phones
  /\ dclaimed \in BOOLEAN /\ dclash \in BOOLEAN

(* Until two claims overlap or one is cut short, one request at most is
   between taking the session and putting the others out, its own phone has
   the session, and any second phone that has it is one it will put out or
   one that was let back in. *)
OneClaim ==
  ~dclash => \A g, h \in DeviceRequests : Claiming(g) /\ Claiming(h) => g = h

ClaimHasItsPhone ==
  ~dclash /\ dclaimed =>
    /\ \E d \in Phones : Authorized(d)
    /\ \A h \in DeviceRequests : Claiming(h) => Authorized(dphone[h])

SecondIsOnItsWayOut ==
  ~dclash =>
    \A d, e \in Phones :
      d # e /\ Authorized(d) /\ Authorized(e)
        => \/ d \in dunblocked \/ e \in dunblocked
           \/ \E h \in DeviceRequests : Claiming(h) /\ dphone[h] \in {d, e}

DeviceInv ==
  DeviceTyped /\ OneClaim /\ ClaimHasItsPhone /\ SecondIsOnItsWayOut /\ CachedYesIsBacked

LEMMA DeviceInvInit == DeviceInit => DeviceInv
 <1> SUFFICES ASSUME DeviceInit PROVE DeviceInv OBVIOUS
 <1>1. DeviceTyped BY DEF DeviceInit, DeviceTyped, DeviceTypeOK, DeviceSteps, DeviceStatus, Decision
 <1>2. OneClaim /\ ClaimHasItsPhone BY DEF DeviceInit, OneClaim, ClaimHasItsPhone, Claiming
 <1>3. SecondIsOnItsWayOut BY DEF DeviceInit, SecondIsOnItsWayOut, Authorized
 <1>4. CachedYesIsBacked BY DEF DeviceInit, CachedYesIsBacked
 <1> QED BY <1>1, <1>2, <1>3, <1>4 DEF DeviceInv

LEMMA DeviceTypedNext ==
  ASSUME DeviceTyped, [DeviceNext]_deviceVars
  PROVE  DeviceTyped'
 <1> USE DEF DeviceTyped, DeviceTypeOK, DeviceSteps, DeviceStatus, Decision
 <1>1. ASSUME NEW h \in DeviceRequests, NEW d \in Phones, RegisterPhone(h, d) PROVE DeviceTyped'
   BY <1>1 DEF RegisterPhone, DeviceBegin, deviceHistory
 <1>2. ASSUME NEW h \in DeviceRequests, NEW d \in Phones, AskAuth(h, d) PROVE DeviceTyped'
   BY <1>2 DEF AskAuth, DeviceBegin, phoneRows, deviceHistory
 <1>3. ASSUME NEW h \in DeviceRequests, NEW d \in Phones,
              NEW at \in {"approve", "claim", "unblock", "block", "remove"}, FindPhone(h, at, d)
       PROVE  DeviceTyped'
   BY <1>3 DEF FindPhone, DeviceBegin, phoneRows, deviceHistory
 <1>4. ASSUME NEW h \in DeviceRequests, TakeSession(h) PROVE DeviceTyped'
   BY <1>4 DEF TakeSession, SetPhone, DeviceMove
 <1>5. ASSUME NEW h \in DeviceRequests, Unblock(h) PROVE DeviceTyped'
   BY <1>5 DEF Unblock, SetPhone, DeviceMove
 <1>6. ASSUME NEW h \in DeviceRequests, Block(h) \/ RemovePhone(h) PROVE DeviceTyped'
   BY <1>6 DEF Block, RemovePhone, DeviceMove
 <1>7. ASSUME NEW h \in DeviceRequests, DropAuth(h) PROVE DeviceTyped'
   BY <1>7 DEF DropAuth, DeviceMove, DeviceDone, phoneRows
 <1>8. ASSUME NEW h \in DeviceRequests, FindSiblings(h) PROVE DeviceTyped'
  <2>1. PICK found \in SUBSET Phones : found = Siblings(dphone[h]) BY DEF Siblings
  <2>2. UNCHANGED <<phoneRows, authCache, deviceBounds, deviceHistory>> BY <1>8 DEF FindSiblings
  <2>3. CASE found = {}
   <3>1. DeviceDone(h) BY <1>8, <2>1, <2>3 DEF FindSiblings
   <3>2. dpc' \in [DeviceRequests -> DeviceSteps] /\ dset' \in [DeviceRequests -> SUBSET Phones]
         /\ dphone' \in [DeviceRequests -> Phones \cup {NoPhone}]
     BY <3>1 DEF DeviceDone
   <3>3. \A g \in DeviceRequests : dpc'[g] # "idle" => dphone'[g] \in Phones BY <3>1 DEF DeviceDone
   <3> QED BY <2>2, <3>2, <3>3 DEF phoneRows, deviceHistory
  <2>4. CASE found # {}
   <3>1. /\ dpc' = [dpc EXCEPT ![h] = "supersede"] /\ dset' = [dset EXCEPT ![h] = found]
         /\ dphone' = dphone /\ dpc[h] = "siblings"
     BY <1>8, <2>1, <2>4 DEF FindSiblings
   <3>2. dpc' \in [DeviceRequests -> DeviceSteps] /\ dset' \in [DeviceRequests -> SUBSET Phones]
     BY <2>1, <3>1
   <3>3. \A g \in DeviceRequests : dpc'[g] # "idle" => dphone'[g] \in Phones BY <3>1
   <3> QED BY <2>2, <3>1, <3>2, <3>3 DEF phoneRows, deviceHistory
  <2> QED BY <2>3, <2>4
 <1>9. ASSUME NEW h \in DeviceRequests, SupersedeSiblings(h) PROVE DeviceTyped'
   BY <1>9 DEF SupersedeSiblings, Siblings, DeviceMove
 <1>10. ASSUME NEW h \in DeviceRequests, DropSiblings(h) PROVE DeviceTyped'
   BY <1>10 DEF DropSiblings, DeviceDone, phoneRows
 <1>11. ASSUME NEW h \in DeviceRequests, FillAuth(h) PROVE DeviceTyped'
   BY <1>11 DEF FillAuth, DeviceDone, phoneRows
 <1>12. ASSUME NEW h \in DeviceRequests, LoseDeviceRequest(h) PROVE DeviceTyped'
   BY <1>12 DEF LoseDeviceRequest, DeviceDone, phoneRows, Claiming
 <1>13. ASSUME NEW d \in Phones, ExpireAuth(d) PROVE DeviceTyped'
   BY <1>13 DEF ExpireAuth, phoneRows, deviceRequest
 <1>14. CASE UNCHANGED deviceVars BY <1>14 DEF deviceVars, phoneRows, deviceRequest, deviceHistory
 <1> QED BY <1>1, <1>2, <1>3, <1>4, <1>5, <1>6, <1>7, <1>8, <1>9, <1>10, <1>11, <1>12, <1>13,
    <1>14 DEF DeviceNext

(* Requests that take no session and change no phone. *)
LEMMA QuietKeepsClaims ==
  ASSUME DeviceInv, DeviceTyped', NEW h \in DeviceRequests,
         phoneStatus' = phoneStatus, activeSession' = activeSession,
         dclaimed' = dclaimed, dunblocked' = dunblocked,
         \A g \in DeviceRequests \ {h} : dpc'[g] = dpc[g] /\ dphone'[g] = dphone[g],
         \/ dclash' = dclash /\ (Claiming(h)' <=> Claiming(h)) /\ (Claiming(h) => dphone'[h] = dphone[h])
         \/ dclash' = (dclash \/ Claiming(h)) /\ ~Claiming(h)'
  PROVE  OneClaim' /\ ClaimHasItsPhone' /\ SecondIsOnItsWayOut'
 <1>1. \A d : Authorized(d)' <=> Authorized(d) BY DEF Authorized
 <1>2. \A g \in DeviceRequests : ~dclash' =>
         /\ Claiming(g)' <=> Claiming(g)
         /\ Claiming(g) => dphone'[g] = dphone[g]
   BY DEF Claiming
 <1>3. dclash => dclash' OBVIOUS
 <1>4. OneClaim' BY <1>2, <1>3 DEF DeviceInv, OneClaim
 <1>5. ClaimHasItsPhone' BY <1>1, <1>2, <1>3 DEF DeviceInv, ClaimHasItsPhone, Authorized
 <1>6. SecondIsOnItsWayOut' BY <1>1, <1>2, <1>3 DEF DeviceInv, SecondIsOnItsWayOut
 <1> QED BY <1>4, <1>5, <1>6

LEMMA DeviceClaimsNext ==
  ASSUME DeviceInv, [DeviceNext]_deviceVars
  PROVE  OneClaim' /\ ClaimHasItsPhone' /\ SecondIsOnItsWayOut'
 <1> DEFINE Claims == OneClaim /\ ClaimHasItsPhone /\ SecondIsOnItsWayOut
 <1>t. DeviceTyped /\ DeviceTyped' BY DeviceTypedNext DEF DeviceInv
 <1>q. ASSUME NEW h \in DeviceRequests, UNCHANGED <<phoneStatus, activeSession, dclaimed, dunblocked, dclash>>,
              \A g \in DeviceRequests \ {h} : dpc'[g] = dpc[g] /\ dphone'[g] = dphone[g],
              Claiming(h)' <=> Claiming(h), Claiming(h) => dphone'[h] = dphone[h]
       PROVE  Claims'
   BY <1>t, <1>q, QuietKeepsClaims
 <1>1. ASSUME NEW h \in DeviceRequests, NEW d \in Phones, RegisterPhone(h, d) PROVE Claims'
  <2>1. \A e \in Phones : Authorized(e)' <=> Authorized(e)
    BY <1>t, <1>1 DEF RegisterPhone, Authorized, DeviceTyped, DeviceTypeOK
  <2>2. \A g \in DeviceRequests : /\ Claiming(g)' <=> Claiming(g)
                                  /\ Claiming(g) => dphone'[g] = dphone[g]
    BY <1>t, <1>1 DEF RegisterPhone, DeviceBegin, Claiming, DeviceTyped, DeviceTypeOK
  <2>3. UNCHANGED <<dclaimed, dunblocked, dclash>> BY <1>1 DEF RegisterPhone, deviceHistory
  <2>4. OneClaim' BY <2>2, <2>3 DEF DeviceInv, OneClaim
  <2>5. ClaimHasItsPhone'
    BY <1>t, <2>1, <2>2, <2>3 DEF DeviceInv, ClaimHasItsPhone, DeviceTyped, Claiming, Authorized
  <2>6. SecondIsOnItsWayOut' BY <2>1, <2>2, <2>3 DEF DeviceInv, SecondIsOnItsWayOut
  <2> QED BY <2>4, <2>5, <2>6
 <1>2. ASSUME NEW h \in DeviceRequests, NEW d \in Phones, AskAuth(h, d) PROVE Claims'
   BY <1>q, <1>t, <1>2
      DEF AskAuth, DeviceBegin, phoneRows, deviceHistory, Claiming, DeviceTyped, DeviceTypeOK
 <1>3. ASSUME NEW h \in DeviceRequests, NEW d \in Phones,
              NEW at \in {"approve", "claim", "unblock", "block", "remove"}, FindPhone(h, at, d)
       PROVE  Claims'
   BY <1>q, <1>t, <1>3
      DEF FindPhone, DeviceBegin, phoneRows, deviceHistory, Claiming, DeviceTyped, DeviceTypeOK
 <1>4. ASSUME NEW h \in DeviceRequests, TakeSession(h) PROVE Claims'
  <2> SUFFICES ASSUME ~dclash' PROVE Claims' BY DEF OneClaim, ClaimHasItsPhone, SecondIsOnItsWayOut
  <2>0. PICK d \in Phones : d = dphone[h] BY <1>t, <1>4 DEF TakeSession, DeviceTyped
  <2>1. /\ d \in Phones /\ ~dclash /\ ~Claiming(h)
        /\ \A g \in DeviceRequests \ {h} : ~Claiming(g)
        /\ phoneStatus[d] # "none" /\ (dpc[h] = "claim" => phoneStatus[d] = "APPROVED")
    BY <1>t, <1>4, <2>0 DEF TakeSession, DeviceTyped, Claiming
  <2>2. \A e \in Phones : e # d => (Authorized(e)' <=> Authorized(e))
    BY <1>t, <1>4, <2>0 DEF TakeSession, SetPhone, Authorized, DeviceTyped, DeviceTypeOK
  <2>3. Authorized(d)'
    BY <1>t, <1>4, <2>0, <2>1 DEF TakeSession, SetPhone, Authorized, DeviceTyped, DeviceTypeOK
  <2>4. \A g \in DeviceRequests : Claiming(g)' => g = h
    BY <1>t, <1>4, <2>0, <2>1 DEF TakeSession, DeviceMove, Claiming, DeviceTyped
  <2>5. Claiming(h)' /\ dphone'[h] = d
    BY <1>t, <1>4, <2>0 DEF TakeSession, DeviceMove, Claiming, DeviceTyped
  <2>6. dunblocked' = dunblocked BY <1>4 DEF TakeSession
  <2>7. OneClaim' BY <2>4 DEF OneClaim
  <2>8. ClaimHasItsPhone' BY <2>1, <2>3, <2>4, <2>5 DEF ClaimHasItsPhone, Authorized
  <2>9. SecondIsOnItsWayOut'
   <3> SUFFICES ASSUME NEW e \in Phones, NEW f \in Phones, e # f, Authorized(e)', Authorized(f)',
                       e \notin dunblocked, f \notin dunblocked
                PROVE  d \in {e, f}
     BY <2>5, <2>6 DEF SecondIsOnItsWayOut
   <3>1. \A g \in DeviceRequests : ~Claiming(g) BY <2>1
   <3> QED BY <2>1, <2>2, <3>1 DEF DeviceInv, SecondIsOnItsWayOut
  <2> QED BY <2>7, <2>8, <2>9
 <1>5. ASSUME NEW h \in DeviceRequests, Unblock(h) PROVE Claims'
  <2>0. PICK d \in Phones : d = dphone[h] BY <1>t, <1>5 DEF Unblock, DeviceTyped
  <2>2. \A e \in Phones : /\ Authorized(e) => Authorized(e)'
                          /\ e # d => (Authorized(e)' <=> Authorized(e))
    BY <1>t, <1>5, <2>0 DEF Unblock, SetPhone, Authorized, DeviceTyped, DeviceTypeOK
  <2>3. \A g \in DeviceRequests : /\ Claiming(g)' <=> Claiming(g)
                                  /\ dphone'[g] = dphone[g]
    BY <1>t, <1>5, <2>0 DEF Unblock, DeviceMove, Claiming, DeviceTyped
  <2>4. dclaimed' = dclaimed /\ dclash' = dclash /\ dunblocked' = dunblocked \cup {d}
    BY <1>5, <2>0 DEF Unblock
  <2>5. OneClaim' BY <2>3, <2>4 DEF DeviceInv, OneClaim
  <2>6. ClaimHasItsPhone'
    BY <1>t, <2>2, <2>3, <2>4 DEF DeviceInv, ClaimHasItsPhone, DeviceTyped, Claiming, Authorized
  <2>7. SecondIsOnItsWayOut' BY <2>2, <2>3, <2>4 DEF DeviceInv, SecondIsOnItsWayOut
  <2> QED BY <2>5, <2>6, <2>7
 <1>6. ASSUME NEW h \in DeviceRequests, Block(h) \/ RemovePhone(h) PROVE Claims'
  <2>0. PICK d \in Phones : d = dphone[h] BY <1>t, <1>6 DEF Block, RemovePhone, DeviceTyped
  <2>2. \A e \in Phones : /\ e # d => (Authorized(e)' <=> Authorized(e))
                          /\ ~Authorized(d)'
    BY <1>t, <1>6, <2>0 DEF Block, RemovePhone, Authorized, DeviceTyped, DeviceTypeOK
  <2>3. \A g \in DeviceRequests : /\ Claiming(g)' <=> Claiming(g)
                                  /\ dphone'[g] = dphone[g]
    BY <1>t, <1>6, <2>0 DEF Block, RemovePhone, DeviceMove, Claiming, DeviceTyped
  <2>4. dclaimed' = FALSE /\ dclash' = dclash /\ dunblocked \ {d} \subseteq dunblocked'
    BY <1>6, <2>0 DEF Block, RemovePhone
  <2>5. OneClaim' BY <2>3, <2>4 DEF DeviceInv, OneClaim
  <2>6. ClaimHasItsPhone' BY <2>4 DEF ClaimHasItsPhone
  <2>7. SecondIsOnItsWayOut' BY <2>2, <2>3, <2>4 DEF DeviceInv, SecondIsOnItsWayOut
  <2> QED BY <2>5, <2>6, <2>7
 <1>7. ASSUME NEW h \in DeviceRequests, DropAuth(h) PROVE Claims'
   BY <1>q, <1>t, <1>7
      DEF DropAuth, DeviceMove, DeviceDone, phoneRows, Claiming, DeviceTyped, DeviceTypeOK
 <1>8. ASSUME NEW h \in DeviceRequests, FindSiblings(h) PROVE Claims'
  <2>1. CASE Siblings(dphone[h]) # {}
    BY <1>q, <1>t, <1>8, <2>1
       DEF FindSiblings, phoneRows, deviceHistory, Claiming, DeviceTyped, DeviceTypeOK
  <2>2. CASE Siblings(dphone[h]) = {}
   <3>0. PICK d \in Phones : d = dphone[h] BY <1>t, <1>8 DEF FindSiblings, DeviceTyped
   <3>1. \A e \in Phones : Authorized(e)' <=> Authorized(e)
     BY <1>8 DEF FindSiblings, phoneRows, Authorized
   <3>2. \A g \in DeviceRequests : /\ Claiming(g)' <=> (Claiming(g) /\ g # h)
                                   /\ Claiming(g)' => dphone'[g] = dphone[g]
     BY <1>t, <1>8, <2>2 DEF FindSiblings, DeviceDone, Claiming, DeviceTyped, DeviceTypeOK
   <3>3. UNCHANGED <<dclaimed, dunblocked, dclash>> BY <1>8 DEF FindSiblings, deviceHistory
   <3>4. \A e \in Phones : Authorized(e) => e = d BY <2>2, <3>0 DEF Siblings, Authorized
   <3>5. OneClaim' BY <3>2, <3>3 DEF DeviceInv, OneClaim
   <3>6. ClaimHasItsPhone'
     BY <1>t, <3>1, <3>2, <3>3 DEF DeviceInv, ClaimHasItsPhone, DeviceTyped, Claiming, Authorized
   <3>7. SecondIsOnItsWayOut' BY <3>1, <3>4 DEF SecondIsOnItsWayOut
   <3> QED BY <3>5, <3>6, <3>7
  <2> QED BY <2>1, <2>2
 <1>9. ASSUME NEW h \in DeviceRequests, SupersedeSiblings(h) PROVE Claims'
  <2>0. PICK d \in Phones : d = dphone[h] BY <1>t, <1>9 DEF SupersedeSiblings, DeviceTyped
  <2>1. d \in Phones /\ Claiming(h) BY <1>t, <1>9, <2>0 DEF SupersedeSiblings, DeviceTyped, Claiming
  <2>2. (Authorized(d) => Authorized(d)') /\ \A e \in Phones \ {d} : ~Authorized(e)'
    BY <1>t, <1>9, <2>0, <2>1
       DEF SupersedeSiblings, Siblings, Authorized, DeviceTyped, DeviceTypeOK
  <2>3. \A g \in DeviceRequests : /\ Claiming(g)' <=> (Claiming(g) /\ g # h)
                                  /\ dphone'[g] = dphone[g]
    BY <1>t, <1>9, <2>0 DEF SupersedeSiblings, DeviceMove, Claiming, DeviceTyped
  <2>4. dclaimed' = dclaimed /\ dclash' = dclash BY <1>9 DEF SupersedeSiblings
  <2>5. OneClaim' BY <2>3, <2>4 DEF DeviceInv, OneClaim
  <2>6. ~dclash => \A g \in DeviceRequests : ~Claiming(g)' BY <2>1, <2>3 DEF DeviceInv, OneClaim
  <2>7. ClaimHasItsPhone' BY <2>0, <2>1, <2>2, <2>4, <2>6 DEF DeviceInv, ClaimHasItsPhone, Authorized
  <2>8. SecondIsOnItsWayOut' BY <2>2 DEF SecondIsOnItsWayOut
  <2> QED BY <2>5, <2>7, <2>8
 <1>10. ASSUME NEW h \in DeviceRequests, DropSiblings(h) PROVE Claims'
   BY <1>q, <1>t, <1>10
      DEF DropSiblings, DeviceDone, phoneRows, Claiming, DeviceTyped, DeviceTypeOK
 <1>11. ASSUME NEW h \in DeviceRequests, FillAuth(h) PROVE Claims'
   BY <1>q, <1>t, <1>11
      DEF FillAuth, DeviceDone, phoneRows, Claiming, DeviceTyped, DeviceTypeOK
 <1>12. ASSUME NEW h \in DeviceRequests, LoseDeviceRequest(h) PROVE Claims'
  <2>1. dclash' = (dclash \/ Claiming(h)) /\ ~Claiming(h)'
    BY <1>t, <1>12 DEF LoseDeviceRequest, DeviceDone, Claiming, DeviceTyped
  <2> QED BY <1>t, <1>12, <2>1, QuietKeepsClaims
          DEF LoseDeviceRequest, DeviceDone, phoneRows, DeviceTyped, DeviceTypeOK
 <1>13. ASSUME UNCHANGED <<phoneRows, deviceRequest, dclaimed, dunblocked, dclash>> PROVE Claims'
  <2>1. \A e : Authorized(e)' <=> Authorized(e) BY <1>13 DEF phoneRows, Authorized
  <2>2. \A g : (Claiming(g)' <=> Claiming(g)) /\ dphone'[g] = dphone[g]
    BY <1>13 DEF deviceRequest, Claiming
  <2>3. OneClaim' BY <1>13, <2>2 DEF DeviceInv, OneClaim
  <2>4. ClaimHasItsPhone' BY <1>13, <2>1, <2>2 DEF DeviceInv, ClaimHasItsPhone, Authorized
  <2>5. SecondIsOnItsWayOut' BY <1>13, <2>1, <2>2 DEF DeviceInv, SecondIsOnItsWayOut
  <2> QED BY <2>3, <2>4, <2>5
 <1>14. ASSUME NEW d \in Phones, ExpireAuth(d) PROVE Claims' BY <1>13, <1>14 DEF ExpireAuth
 <1>15. CASE UNCHANGED deviceVars BY <1>13, <1>15 DEF deviceVars, deviceHistory
 <1> QED BY <1>1, <1>2, <1>3, <1>4, <1>5, <1>6, <1>7, <1>8, <1>9, <1>10, <1>11, <1>12, <1>14,
    <1>15 DEF DeviceNext

(* A cached yes: what each step does to the phone it is about. *)
LEMMA CachedYesNext ==
  ASSUME DeviceInv, [DeviceNext]_deviceVars
  PROVE  CachedYesIsBacked'
 <1>t. DeviceTyped /\ DeviceTyped' /\ CachedYesIsBacked BY DeviceTypedNext DEF DeviceInv
 <1> DEFINE Drops(h, d) == \/ dpc[h] \in {"drop", "drop+"} /\ dphone[h] = d
                           \/ dpc[h] = "dropall" /\ d \in dset[h]
            Backed(d) == \/ phoneStatus[d] = "APPROVED" /\ activeSession[d]
                         \/ d \in dstale
                         \/ \E h \in DeviceRequests : Drops(h, d)
 (* A step of request h leaves a phone backed, or with what backed it. *)
 <1>s. ASSUME NEW h \in DeviceRequests,
              \A g \in DeviceRequests \ {h} :
                dpc'[g] = dpc[g] /\ dphone'[g] = dphone[g] /\ dset'[g] = dset[g],
              \A d \in Phones :
                \/ authCache'[d] # "yes"
                \/ phoneStatus'[d] = "APPROVED" /\ activeSession'[d]
                \/ d \in dstale'
                \/ Drops(h, d)'
                \/ /\ authCache[d] = "yes"
                   /\ d \notin dstale
                   /\ phoneStatus'[d] = phoneStatus[d] /\ activeSession'[d] = activeSession[d]
                   /\ ~Drops(h, d)
       PROVE  CachedYesIsBacked'
  <2>1. ASSUME NEW d \in Phones, authCache'[d] = "yes" PROVE Backed(d)'
   <3>1. authCache[d] = "yes" => Backed(d) BY <1>t DEF CachedYesIsBacked
   <3> QED BY <1>s, <2>1, <3>1
  <2> QED BY <2>1 DEF CachedYesIsBacked
 <1> USE DEF DeviceTyped, DeviceTypeOK
 <1>1. ASSUME NEW h \in DeviceRequests, NEW d \in Phones, RegisterPhone(h, d)
       PROVE  CachedYesIsBacked'
  <2>1. Drops(h, d)' BY <1>t, <1>1 DEF RegisterPhone, DeviceBegin
  <2>2. /\ \A g \in DeviceRequests \ {h} :
             dpc'[g] = dpc[g] /\ dphone'[g] = dphone[g] /\ dset'[g] = dset[g]
        /\ dpc[h] = "idle" /\ authCache' = authCache /\ dstale' = dstale
        /\ \A e \in Phones \ {d} : phoneStatus'[e] = phoneStatus[e] /\ activeSession'[e] = activeSession[e]
    BY <1>t, <1>1 DEF RegisterPhone, DeviceBegin, deviceHistory
  <2> QED BY <1>s, <2>1, <2>2
 <1>2. ASSUME NEW h \in DeviceRequests, NEW d \in Phones, AskAuth(h, d)
       PROVE  CachedYesIsBacked'
  <2>1. /\ \A g \in DeviceRequests \ {h} :
             dpc'[g] = dpc[g] /\ dphone'[g] = dphone[g] /\ dset'[g] = dset[g]
        /\ dpc[h] = "idle" /\ UNCHANGED <<authCache, dstale, phoneStatus, activeSession>>
    BY <1>t, <1>2 DEF AskAuth, DeviceBegin, deviceHistory, phoneRows
  <2> QED BY <1>s, <2>1
 <1>3. ASSUME NEW h \in DeviceRequests, NEW d \in Phones,
              NEW at \in {"approve", "claim", "unblock", "block", "remove"}, FindPhone(h, at, d)
       PROVE  CachedYesIsBacked'
  <2>1. /\ \A g \in DeviceRequests \ {h} :
             dpc'[g] = dpc[g] /\ dphone'[g] = dphone[g] /\ dset'[g] = dset[g]
        /\ dpc[h] = "idle" /\ UNCHANGED <<authCache, dstale, phoneStatus, activeSession>>
    BY <1>t, <1>3 DEF FindPhone, DeviceBegin, deviceHistory, phoneRows
  <2> QED BY <1>s, <2>1
 <1>4. ASSUME NEW h \in DeviceRequests,
              TakeSession(h) \/ Unblock(h) \/ Block(h) \/ RemovePhone(h)
       PROVE  CachedYesIsBacked'
  <2>0. PICK d \in Phones : d = dphone[h] BY <1>t, <1>4 DEF TakeSession, Unblock, Block, RemovePhone
  <2>1. /\ Drops(h, d)' /\ ~\E e \in Phones : Drops(h, e)
        /\ \A g \in DeviceRequests \ {h} :
             dpc'[g] = dpc[g] /\ dphone'[g] = dphone[g] /\ dset'[g] = dset[g]
    BY <1>t, <1>4, <2>0 DEF TakeSession, Unblock, Block, RemovePhone, DeviceMove
  <2>2. UNCHANGED <<authCache, dstale>> BY <1>4 DEF TakeSession, Unblock, Block, RemovePhone
  <2>3. \A e \in Phones \ {d} :
          phoneStatus'[e] = phoneStatus[e] /\ activeSession'[e] = activeSession[e]
    BY <1>t, <1>4, <2>0 DEF TakeSession, Unblock, Block, RemovePhone, SetPhone
  <2> QED BY <1>s, <2>1, <2>2, <2>3
 <1>5. ASSUME NEW h \in DeviceRequests, DropAuth(h) PROVE CachedYesIsBacked'
  <2>1. /\ dphone[h] \in Phones /\ authCache'[dphone[h]] = "unknown"
        /\ \A e \in Phones \ {dphone[h]} : authCache'[e] = authCache[e] /\ ~Drops(h, e)
        /\ dstale' = dstale \ {dphone[h]}
        /\ UNCHANGED <<phoneStatus, activeSession>>
        /\ \A g \in DeviceRequests \ {h} :
             dpc'[g] = dpc[g] /\ dphone'[g] = dphone[g] /\ dset'[g] = dset[g]
    BY <1>t, <1>5 DEF DropAuth, DeviceMove, DeviceDone, phoneRows
  <2> QED BY <1>s, <2>1
 <1>6. ASSUME NEW h \in DeviceRequests, FindSiblings(h) PROVE CachedYesIsBacked'
  <2>1. /\ ~\E d \in Phones : Drops(h, d)
        /\ UNCHANGED <<authCache, dstale, phoneStatus, activeSession>>
        /\ \A g \in DeviceRequests \ {h} :
             dpc'[g] = dpc[g] /\ dphone'[g] = dphone[g] /\ dset'[g] = dset[g]
    BY <1>t, <1>6 DEF FindSiblings, DeviceDone, phoneRows, deviceHistory
  <2> QED BY <1>s, <2>1
 <1>7. ASSUME NEW h \in DeviceRequests, SupersedeSiblings(h) PROVE CachedYesIsBacked'
  <2> DEFINE out == Siblings(dphone[h])
  <2>2. /\ \A d \in out : Drops(h, d)' \/ d \in dstale'
        /\ ~\E d \in Phones : Drops(h, d)
        /\ authCache' = authCache /\ dstale \subseteq dstale'
        /\ \A g \in DeviceRequests \ {h} :
             dpc'[g] = dpc[g] /\ dphone'[g] = dphone[g] /\ dset'[g] = dset[g]
    BY <1>t, <1>7 DEF SupersedeSiblings, DeviceMove
  <2>3. \A e \in Phones \ out : phoneStatus'[e] = phoneStatus[e] /\ activeSession'[e] = activeSession[e]
    BY <1>t, <1>7 DEF SupersedeSiblings
  <2> HIDE DEF out
  <2> QED BY <1>s, <2>2, <2>3
 <1>8. ASSUME NEW h \in DeviceRequests, DropSiblings(h) PROVE CachedYesIsBacked'
  <2>1. /\ dset[h] \in SUBSET Phones
        /\ \A d \in dset[h] : authCache'[d] = "unknown"
        /\ \A d \in Phones \ dset[h] : authCache'[d] = authCache[d] /\ ~Drops(h, d)
        /\ dstale' = dstale \ dset[h]
        /\ UNCHANGED <<phoneStatus, activeSession>>
        /\ \A g \in DeviceRequests \ {h} :
             dpc'[g] = dpc[g] /\ dphone'[g] = dphone[g] /\ dset'[g] = dset[g]
    BY <1>t, <1>8 DEF DropSiblings, DeviceDone, phoneRows
  <2> QED BY <1>s, <2>1
 <1>9. ASSUME NEW h \in DeviceRequests, FillAuth(h) PROVE CachedYesIsBacked'
  <2>0. PICK d \in Phones : d = dphone[h] BY <1>t, <1>9 DEF FillAuth
  <2>1. /\ ~\E e \in Phones : Drops(h, e)
        /\ \A e \in Phones \ {d} : authCache'[e] = authCache[e]
        /\ dstale \subseteq dstale'
        /\ UNCHANGED <<phoneStatus, activeSession>>
        /\ \A g \in DeviceRequests \ {h} :
             dpc'[g] = dpc[g] /\ dphone'[g] = dphone[g] /\ dset'[g] = dset[g]
    BY <1>t, <1>9, <2>0 DEF FillAuth, DeviceDone, phoneRows
  <2>2. \/ authCache'[d] # "yes"
        \/ phoneStatus'[d] = "APPROVED" /\ activeSession'[d]
        \/ d \in dstale'
    BY <1>t, <1>9, <2>0, <2>1 DEF FillAuth, Authorized
  <2> QED BY <1>s, <2>1, <2>2
 <1>10. ASSUME NEW h \in DeviceRequests, LoseDeviceRequest(h) PROVE CachedYesIsBacked'
  <2>1. /\ \A d \in Phones : Drops(h, d) => d \in dstale'
        /\ dstale \subseteq dstale'
        /\ UNCHANGED <<authCache, phoneStatus, activeSession>>
        /\ \A g \in DeviceRequests \ {h} :
             dpc'[g] = dpc[g] /\ dphone'[g] = dphone[g] /\ dset'[g] = dset[g]
    BY <1>t, <1>10 DEF LoseDeviceRequest, DeviceDone, phoneRows
  <2> QED BY <1>s, <2>1
 <1>11. ASSUME NEW d \in Phones, ExpireAuth(d) PROVE CachedYesIsBacked'
   BY <1>t, <1>11 DEF ExpireAuth, phoneRows, deviceRequest, CachedYesIsBacked
 <1>12. CASE UNCHANGED deviceVars
   BY <1>t, <1>12 DEF deviceVars, phoneRows, deviceRequest, deviceHistory, CachedYesIsBacked
 <1> QED
   BY <1>1, <1>2, <1>3, <1>4, <1>5, <1>6, <1>7, <1>8, <1>9, <1>10, <1>11, <1>12
   DEF DeviceNext

LEMMA SessionsFollow == DeviceInv => SessionsAreSound
 <1> SUFFICES ASSUME DeviceInv PROVE SessionsAreSound OBVIOUS
 <1>1. DeviceTypeOK /\ CachedYesIsBacked BY DEF DeviceInv, DeviceTyped
 <1>2. dclash \in BOOLEAN BY DEF DeviceInv, DeviceTyped
 <1>3. OneActiveDevice
   BY <1>2 DEF DeviceInv, SecondIsOnItsWayOut, OneActiveDevice, SessionsAtRest, Authorized
 <1>4. ClaimLeavesAPhone BY <1>2 DEF DeviceInv, ClaimHasItsPhone, ClaimLeavesAPhone
 <1> QED BY <1>1, <1>3, <1>4 DEF SessionsAreSound

(* However many requests register, approve, claim, block and remove phones,
   and whatever is lost between their steps: claimActiveDevice,
   supersedeSiblingDevices and resolveDeviceAuth leave one active session, no
   claim that ends without one, and no cached yes that outlives its device. *)
THEOREM DevicesSound == DeviceSpec => []SessionsAreSound
 <1>1. DeviceInv /\ [DeviceNext]_deviceVars => DeviceInv'
   BY DeviceTypedNext, DeviceClaimsNext, CachedYesNext DEF DeviceInv
 <1> QED BY <1>1, DeviceInvInit, SessionsFollow, PTL DEF DeviceSpec
-----------------------------------------------------------------------------
(* Sign-in with a device key. *)
BioShaped ==
  /\ BioTypeOK
  /\ bioKeys \in 0..BioMostKeys /\ DOMAIN bioCred \subseteq 1..bioKeys
  /\ \A c \in DOMAIN bioCache : bioCache[c] \in 1..bioKeys
  /\ bioOpened \in [BioChallenges -> Nat]
  /\ DOMAIN bioAsks = BioLogins /\ DOMAIN bioSigned = BioLogins
  /\ DOMAIN bioStored = BioLogins /\ DOMAIN bioRead = BioLogins
  /\ \A h \in BioLogins : bioStored[h] \subseteq 1..bioKeys
  /\ \A h \in BioLogins :
       IF biopc[h] = "idle" THEN bioAsks[h] = {} /\ bioStored[h] = {}
       ELSE \E c \in bioIssued : bioAsks[h] = {c}
  /\ \A h \in BioLogins : biopc[h] \in {"verify", "account", "save", "mint"} => bioStored[h] # {}

(* The logins that have read the challenge while it was in the cache. *)
Holds(h, c) == biopc[h] # "idle" /\ bioAsks[h] = {c} /\ bioStored[h] # {}

(* A challenge is held by one login at most, and while it is held or cached
   it has opened nothing. *)
SpentOnce(c) ==
  /\ c \notin bioIssued => bioOpened[c] = 0
  /\ c \notin bioTogether =>
       /\ bioOpened[c] <= 1
       /\ \A g, h \in BioLogins : Holds(g, c) /\ Holds(h, c) => g = h
       /\ \A h \in BioLogins : Holds(h, c) => bioOpened[c] = 0
       /\ c \in DOMAIN bioCache =>
            /\ bioOpened[c] = 0
            /\ \A h \in BioLogins : Holds(h, c) => biopc[h] = "consume"

(* A login whose credential was revoked holds the id of a document that is
   gone, and ids are never used again: it does not get past its stamp. *)
RevokedIsGone ==
  \A h \in BioLogins :
    h \in bioRevoked =>
      \/ biopc[h] = "idle"
      \/ biopc[h] # "mint" /\ bioStored[h] # {} /\ bioStored[h] \cap DOMAIN bioCred = {}

BioInv ==
  /\ BioShaped
  /\ \A c \in BioChallenges : SpentOnce(c)
  /\ RevokedIsGone
  /\ RevokedKeyOpensNothing

LEMMA BioInvInit == BioInit => BioInv
 <1> SUFFICES ASSUME BioInit PROVE BioInv OBVIOUS
 <1>1. BioShaped BY BioBoundIsNatural DEF BioInit, BioShaped, BioTypeOK
 <1>2. \A c \in BioChallenges : SpentOnce(c) BY DEF BioInit, SpentOnce, Holds
 <1>3. RevokedIsGone /\ RevokedKeyOpensNothing BY DEF BioInit, RevokedIsGone, RevokedKeyOpensNothing
 <1> QED BY <1>1, <1>2, <1>3 DEF BioInv

LEMMA BioShapedNext ==
  ASSUME BioShaped, [BioNext]_bioVars
  PROVE  BioShaped'
 <1> USE BioBoundIsNatural DEF BioShaped, BioTypeOK
 <1>1. ASSUME NEW d \in BioDevices, Enroll(d) PROVE BioShaped'
  <2>1. PICK i : /\ i \in DOMAIN bioCred \/ i = bioKeys + 1
                 /\ bioCred' = [j \in DOMAIN bioCred \cup {i} |->
                      IF j = i THEN [device |-> d, key |-> bioKeys + 1] ELSE bioCred[j]]
    BY <1>1 DEF Enroll
  <2>2. bioKeys' = bioKeys + 1 /\ bioKeys < BioMostKeys BY <1>1 DEF Enroll
  <2>3. bioKeys' \in 0..BioMostKeys /\ 1..bioKeys \subseteq 1..bioKeys' /\ bioKeys + 1 \in 1..bioKeys'
    BY <2>2
  <2>4. DOMAIN bioCred' \subseteq 1..bioKeys' BY <2>1, <2>3
  <2>5. bioHeld' \in [BioDevices -> 0..BioMostKeys] BY <1>1, <2>2 DEF Enroll
  <2>6. 1..bioKeys' \subseteq 1..BioMostKeys BY <2>3
  <2>7. UNCHANGED <<bioCache, bioIssued, bioRequests, bioHistory>> BY <1>1 DEF Enroll
  <2> QED BY <2>3, <2>4, <2>5, <2>6, <2>7 DEF bioRequests, bioHistory
 <1>2. ASSUME NEW i \in DOMAIN bioCred, Revoke(i) PROVE BioShaped' BY <1>2 DEF Revoke, bioRequests
 <1>3. ASSUME NEW i \in DOMAIN bioCred, NEW c \in BioChallenges, RequestChallenge(i, c)
       PROVE  BioShaped'
   BY <1>3 DEF RequestChallenge, bioRequests, bioHistory
 <1>4. ASSUME NEW c \in BioChallenges, ExpireChallenge(c) PROVE BioShaped'
   BY <1>4 DEF ExpireChallenge, Without, bioRequests, bioHistory
 <1>5. ASSUME NEW h \in BioLogins, NEW c \in BioChallenges, NEW d \in BioDevices,
              ReadChallenge(h, c, d)
       PROVE  BioShaped'
   BY <1>5 DEF ReadChallenge
 <1>6. ASSUME NEW h \in BioLogins, ConsumeChallenge(h) PROVE BioShaped'
  <2>1. PICK c : bioCache' = Without(bioCache, c) BY <1>6 DEF ConsumeChallenge, Consume
  <2>2. DOMAIN bioCache' \subseteq DOMAIN bioCache
        /\ \A k \in DOMAIN bioCache' : bioCache'[k] = bioCache[k]
    BY <2>1 DEF Without
  <2> QED BY <1>6, <2>2 DEF ConsumeChallenge, GiveUp, bioHistory
 <1>7. ASSUME NEW h \in BioLogins, VerifySignature(h) PROVE BioShaped'
   BY <1>7 DEF VerifySignature, GiveUp, bioHistory
 <1>8. ASSUME NEW h \in BioLogins, AskAccount(h) PROVE BioShaped'
   BY <1>8 DEF AskAccount, GiveUp, bioHistory
 <1>12. ASSUME NEW h \in BioLogins, SaveStamp(h) PROVE BioShaped'
   BY <1>12 DEF SaveStamp, GiveUp, bioHistory
 <1>9. ASSUME NEW h \in BioLogins, OpenSession(h) PROVE BioShaped'
  <2>1. bioOpened' \in [BioChallenges -> Nat] BY <1>9 DEF OpenSession
  <2> QED BY <1>9, <2>1 DEF OpenSession, GiveUp
 <1>10. ASSUME NEW uid, DisableAccount(uid) PROVE BioShaped'
   BY <1>10 DEF DisableAccount, bioRequests, bioHistory
 <1>11. CASE UNCHANGED bioVars BY <1>11 DEF bioVars
 <1> QED BY <1>1, <1>2, <1>3, <1>4, <1>5, <1>6, <1>7, <1>8, <1>9, <1>10, <1>11, <1>12
     DEF BioNext

(* What a step of one login owes a challenge: the others hold what they held. *)
LEMMA SpentOnceStep ==
  ASSUME BioShaped, BioShaped', NEW h \in BioLogins, NEW c \in BioChallenges, SpentOnce(c),
         \A g \in BioLogins \ {h} : Holds(g, c)' <=> Holds(g, c),
         \A g \in BioLogins \ {h} : biopc'[g] = biopc[g],
         bioIssued' = bioIssued, bioTogether' = bioTogether,
         c \in DOMAIN bioCache' => c \in DOMAIN bioCache,
         \/ /\ bioOpened'[c] = bioOpened[c]
            /\ Holds(h, c)' => /\ Holds(h, c)
                               /\ c \in DOMAIN bioCache' => biopc'[h] = "consume"
         \/ /\ bioOpened'[c] = bioOpened[c] + 1 /\ Holds(h, c) /\ ~Holds(h, c)'
            /\ biopc[h] # "consume" /\ c \in bioIssued
  PROVE  SpentOnce(c)'
 <1>1. bioOpened[c] \in Nat BY DEF BioShaped
 <1>2. CASE /\ bioOpened'[c] = bioOpened[c]
            /\ Holds(h, c)' => /\ Holds(h, c)
                               /\ c \in DOMAIN bioCache' => biopc'[h] = "consume"
   BY <1>1, <1>2 DEF SpentOnce
 <1>3. CASE /\ bioOpened'[c] = bioOpened[c] + 1 /\ Holds(h, c) /\ ~Holds(h, c)'
            /\ biopc[h] # "consume" /\ c \in bioIssued
  <2> SUFFICES ASSUME c \notin bioTogether
               PROVE  /\ bioOpened'[c] <= 1 /\ c \notin DOMAIN bioCache'
                      /\ \A g \in BioLogins : ~Holds(g, c)'
    BY <1>3 DEF SpentOnce
  <2>1. bioOpened[c] = 0 BY <1>3 DEF SpentOnce
  <2>2. \A g \in BioLogins \ {h} : ~Holds(g, c) BY <1>3 DEF SpentOnce
  <2>3. c \notin DOMAIN bioCache BY <1>3 DEF SpentOnce
  <2> QED BY <1>3, <2>1, <2>2, <2>3
 <1> QED BY <1>2, <1>3

LEMMA SpentOnceNext ==
  ASSUME BioInv, [BioNext]_bioVars, NEW c \in BioChallenges
  PROVE  SpentOnce(c)'
 <1>t. BioShaped /\ BioShaped' /\ SpentOnce(c) BY BioShapedNext DEF BioInv
 <1>0. ASSUME UNCHANGED <<bioIssued, bioTogether, bioOpened, bioRequests>>,
              c \in DOMAIN bioCache' => c \in DOMAIN bioCache
       PROVE  SpentOnce(c)'
   BY <1>t, <1>0 DEF SpentOnce, Holds, bioRequests
 <1> USE DEF BioShaped, BioTypeOK
 <1>1. ASSUME NEW d \in BioDevices, Enroll(d) PROVE SpentOnce(c)'
   BY <1>0, <1>1 DEF Enroll, bioHistory
 <1>2. ASSUME NEW i \in DOMAIN bioCred, Revoke(i) PROVE SpentOnce(c)' BY <1>0, <1>2 DEF Revoke
 <1>3. ASSUME NEW i \in DOMAIN bioCred, NEW k \in BioChallenges, RequestChallenge(i, k)
       PROVE  SpentOnce(c)'
  <2>1. CASE k # c
   <3>1. /\ c \in bioIssued' <=> c \in bioIssued
         /\ c \in DOMAIN bioCache' <=> c \in DOMAIN bioCache
     BY <1>3, <2>1 DEF RequestChallenge
   <3> QED BY <1>t, <1>3, <3>1 DEF RequestChallenge, SpentOnce, Holds, bioRequests, bioHistory
  <2>2. CASE k = c
   <3>1. c \notin bioIssued /\ c \in bioIssued' BY <1>3, <2>2 DEF RequestChallenge
   <3>2. bioOpened[c] = 0 BY <1>t, <3>1 DEF SpentOnce
   <3>3. ASSUME NEW h \in BioLogins, Holds(h, c) PROVE FALSE
    <4>1. PICK m \in bioIssued : bioAsks[h] = {m} BY <1>t, <3>3 DEF Holds
    <4>2. m = c BY <3>3, <4>1 DEF Holds
    <4> QED BY <3>1, <4>1, <4>2
   <3> QED BY <1>3, <3>1, <3>2, <3>3
           DEF RequestChallenge, SpentOnce, Holds, bioRequests, bioHistory
  <2> QED BY <2>1, <2>2
 <1>4. ASSUME NEW k \in BioChallenges, ExpireChallenge(k) PROVE SpentOnce(c)'
   BY <1>0, <1>4 DEF ExpireChallenge, Without, bioHistory
 <1>5. ASSUME NEW h \in BioLogins, NEW k \in BioChallenges, NEW d \in BioDevices,
              ReadChallenge(h, k, d)
       PROVE  SpentOnce(c)'
  <2>1. \A g \in BioLogins \ {h} : biopc'[g] = biopc[g] /\ (Holds(g, c)' <=> Holds(g, c))
    BY <1>t, <1>5 DEF ReadChallenge, Holds
  <2>2. ~Holds(h, c) BY <1>5 DEF ReadChallenge, Holds
  <2>3. UNCHANGED <<bioIssued, bioCache, bioOpened>> BY <1>5 DEF ReadChallenge
  <2>4. bioTogether \subseteq bioTogether' BY <1>5 DEF ReadChallenge
  <2>5. CASE ~Holds(h, c)' BY <1>t, <2>1, <2>2, <2>3, <2>4, <2>5 DEF SpentOnce
  <2>6. CASE Holds(h, c)'
   <3>1. k = c /\ c \in DOMAIN bioCache /\ biopc'[h] = "consume" /\ c \in bioIssued
     BY <1>t, <1>5, <2>6, SMTT(60) DEF ReadChallenge, Holds
   <3>2. c \notin bioTogether' => \A g \in BioLogins \ {h} : ~(biopc[g] = "consume" /\ bioAsks[g] = {c})
     BY <1>5, <3>1 DEF ReadChallenge
   <3>3. c \notin bioTogether' => \A g \in BioLogins \ {h} : ~Holds(g, c)
     BY <1>t, <2>4, <3>1, <3>2 DEF SpentOnce, Holds
   <3>4. c \notin bioTogether' => bioOpened[c] = 0 BY <1>t, <2>4, <3>1 DEF SpentOnce
   <3> QED BY <1>t, <2>1, <2>3, <2>4, <3>1, <3>3, <3>4 DEF SpentOnce
  <2> QED BY <2>5, <2>6
 <1>6. ASSUME NEW h \in BioLogins, ConsumeChallenge(h) PROVE SpentOnce(c)'
  <2>1. PICK k \in bioAsks[h] : bioCache' = Without(bioCache, k)
    BY <1>6 DEF ConsumeChallenge, Consume
  <2>2. /\ c \in DOMAIN bioCache' => c \in DOMAIN bioCache /\ c # k BY <2>1 DEF Without
  <2>3. /\ \A g \in BioLogins \ {h} : biopc'[g] = biopc[g] /\ (Holds(g, c)' <=> Holds(g, c))
        /\ Holds(h, c)' => Holds(h, c)
    BY <1>t, <1>6 DEF ConsumeChallenge, GiveUp, Holds
  <2>4. Holds(h, c)' => c \notin DOMAIN bioCache' BY <2>1, <2>2, <2>3 DEF Holds
  <2>5. UNCHANGED <<bioIssued, bioTogether, bioOpened>> BY <1>6 DEF ConsumeChallenge, bioHistory
  <2> QED BY <1>t, <2>2, <2>3, <2>4, <2>5, SpentOnceStep
 <1>7. ASSUME NEW h \in BioLogins, VerifySignature(h) \/ AskAccount(h) \/ SaveStamp(h) PROVE SpentOnce(c)'
  <2>1. /\ \A g \in BioLogins \ {h} : biopc'[g] = biopc[g] /\ (Holds(g, c)' <=> Holds(g, c))
        /\ Holds(h, c)' => Holds(h, c)
    BY <1>t, <1>7 DEF VerifySignature, AskAccount, SaveStamp, GiveUp, Holds
  <2>2. UNCHANGED <<bioIssued, bioTogether, bioOpened, bioCache>>
    BY <1>7 DEF VerifySignature, AskAccount, SaveStamp, bioHistory
  <2>3. biopc[h] # "idle" /\ biopc[h] # "consume" BY <1>7 DEF VerifySignature, AskAccount, SaveStamp
  <2>4. c \notin bioTogether /\ Holds(h, c) => c \notin DOMAIN bioCache BY <1>t, <2>3 DEF SpentOnce
  <2> QED BY <1>t, <2>1, <2>2, <2>4 DEF SpentOnce
 <1>8. ASSUME NEW h \in BioLogins, OpenSession(h) PROVE SpentOnce(c)'
  <2>1. /\ \A g \in BioLogins \ {h} : biopc'[g] = biopc[g] /\ (Holds(g, c)' <=> Holds(g, c))
        /\ ~Holds(h, c)' /\ biopc[h] = "mint"
    BY <1>t, <1>8 DEF OpenSession, GiveUp, Holds
  <2>2. UNCHANGED <<bioIssued, bioTogether, bioCache>> BY <1>8 DEF OpenSession
  <2>3. PICK k \in bioIssued : bioAsks[h] = {k} BY <1>t, <1>8 DEF OpenSession
  <2>4. CASE bioOpened'[c] = bioOpened[c] BY <1>t, <2>1, <2>2, <2>4, SpentOnceStep
  <2>5. CASE bioOpened'[c] # bioOpened[c]
   <3>1. bioOpened' = [bioOpened EXCEPT ![k] = @ + 1] BY <1>8, <2>3, <2>5 DEF OpenSession
   <3>2. k = c /\ bioOpened'[c] = bioOpened[c] + 1 BY <1>t, <2>5, <3>1
   <3> QED BY <1>t, <2>1, <2>2, <2>3, <3>2, SpentOnceStep DEF Holds
  <2> QED BY <2>4, <2>5
 <1>9. ASSUME NEW uid, DisableAccount(uid) PROVE SpentOnce(c)'
   BY <1>0, <1>9 DEF DisableAccount, bioHistory
 <1>10. CASE UNCHANGED bioVars BY <1>0, <1>10 DEF bioVars, bioRequests
 <1> QED BY <1>1, <1>2, <1>3, <1>4, <1>5, <1>6, <1>7, <1>8, <1>9, <1>10 DEF BioNext

LEMMA RevokedNext ==
  ASSUME BioInv, [BioNext]_bioVars
  PROVE  RevokedIsGone' /\ RevokedKeyOpensNothing'
 <1>t. BioShaped /\ BioShaped' /\ RevokedIsGone /\ RevokedKeyOpensNothing
   BY BioShapedNext DEF BioInv
 <1>0. ASSUME bioStale' = bioStale, bioRequests' = bioRequests, bioRevoked' = bioRevoked,
              DOMAIN bioCred' \cap 1..bioKeys \subseteq DOMAIN bioCred
       PROVE  RevokedIsGone' /\ RevokedKeyOpensNothing'
   BY <1>t, <1>0 DEF RevokedIsGone, RevokedKeyOpensNothing, bioRequests, BioShaped
 <1>h. ASSUME NEW h \in BioLogins, bioStale' = bioStale, bioCred' = bioCred,
              \A g \in BioLogins \ {h} : /\ biopc'[g] = biopc[g] /\ bioStored'[g] = bioStored[g]
                                         /\ g \in bioRevoked' => g \in bioRevoked,
              h \in bioRevoked' => h \in bioRevoked /\ biopc[h] # "idle",
              \/ biopc'[h] = "idle"
              \/ bioStored'[h] = bioStored[h] /\ (biopc'[h] = "mint" => h \notin bioRevoked)
       PROVE  RevokedIsGone' /\ RevokedKeyOpensNothing'
   BY <1>t, <1>h DEF RevokedIsGone, RevokedKeyOpensNothing
 <1> USE DEF BioShaped, BioTypeOK
 <1>1. ASSUME NEW d \in BioDevices, Enroll(d) PROVE RevokedIsGone' /\ RevokedKeyOpensNothing'
  <2>1. PICK i : /\ i \in DOMAIN bioCred \/ i = bioKeys + 1
                 /\ bioCred' = [j \in DOMAIN bioCred \cup {i} |->
                      IF j = i THEN [device |-> d, key |-> bioKeys + 1] ELSE bioCred[j]]
    BY <1>1 DEF Enroll
  <2>2. bioKeys \in Nat BY <1>t, BioBoundIsNatural
  <2>3. DOMAIN bioCred' \cap 1..bioKeys \subseteq DOMAIN bioCred BY <2>1, <2>2
  <2> QED BY <1>0, <1>1, <2>3 DEF Enroll, bioHistory
 <1>2. ASSUME NEW i \in DOMAIN bioCred, Revoke(i)
       PROVE  RevokedIsGone' /\ RevokedKeyOpensNothing'
  <2>1. /\ DOMAIN bioCred' = DOMAIN bioCred \ {i} /\ bioStale' = bioStale
        /\ biopc' = biopc /\ bioStored' = bioStored
        /\ bioRevoked' = bioRevoked \cup
             {h \in BioLogins : biopc[h] \in {"account", "save"} /\ bioStored[h] = {i}}
    BY <1>2 DEF Revoke, bioRequests
  <2> QED BY <1>t, <2>1 DEF RevokedIsGone, RevokedKeyOpensNothing
 <1>3. ASSUME NEW i \in DOMAIN bioCred, NEW k \in BioChallenges, RequestChallenge(i, k)
       PROVE  RevokedIsGone' /\ RevokedKeyOpensNothing'
   BY <1>0, <1>3 DEF RequestChallenge, bioHistory
 <1>4. ASSUME NEW k \in BioChallenges, ExpireChallenge(k)
       PROVE  RevokedIsGone' /\ RevokedKeyOpensNothing'
   BY <1>0, <1>4 DEF ExpireChallenge, bioHistory
 <1>5. ASSUME NEW h \in BioLogins, NEW k \in BioChallenges, NEW d \in BioDevices,
              ReadChallenge(h, k, d)
       PROVE  RevokedIsGone' /\ RevokedKeyOpensNothing'
   BY <1>t, <1>5 DEF ReadChallenge, RevokedIsGone, RevokedKeyOpensNothing
 <1>6. ASSUME NEW h \in BioLogins, ConsumeChallenge(h)
       PROVE  RevokedIsGone' /\ RevokedKeyOpensNothing'
   BY <1>t, <1>h, <1>6 DEF ConsumeChallenge, GiveUp, bioHistory
 <1>7. ASSUME NEW h \in BioLogins, VerifySignature(h) \/ AskAccount(h)
       PROVE  RevokedIsGone' /\ RevokedKeyOpensNothing'
   BY <1>t, <1>h, <1>7 DEF VerifySignature, AskAccount, GiveUp, bioHistory
 <1>11. ASSUME NEW h \in BioLogins, SaveStamp(h)
        PROVE  RevokedIsGone' /\ RevokedKeyOpensNothing'
  <2>1. /\ bioStale' = bioStale /\ bioCred' = bioCred /\ bioRevoked' = bioRevoked /\ biopc[h] = "save"
        /\ \A g \in BioLogins \ {h} : biopc'[g] = biopc[g] /\ bioStored'[g] = bioStored[g]
    BY <1>t, <1>11 DEF SaveStamp, GiveUp, bioHistory
  <2>2. \/ biopc'[h] = "idle"
        \/ bioStored' = bioStored /\ SaveFinds(h)
    BY <1>t, <1>11 DEF SaveStamp, GiveUp
  <2>3. SaveFinds(h) => h \notin bioRevoked
   <3>1. bioStored[h] # {} BY <1>t, <2>1
   <3> QED BY <1>t, <2>1, <3>1 DEF SaveFinds, RevokedIsGone
  <2> QED BY <1>h, <2>1, <2>2, <2>3
 <1>8. ASSUME NEW h \in BioLogins, OpenSession(h)
       PROVE  RevokedIsGone' /\ RevokedKeyOpensNothing'
  <2>1. h \notin bioRevoked BY <1>t, <1>8 DEF OpenSession, RevokedIsGone
  <2>2. bioStale' = bioStale BY <1>8, <2>1 DEF OpenSession
  <2>3. h \notin bioRevoked' /\ \A g \in BioLogins : g \in bioRevoked' => g \in bioRevoked
    BY <1>8 DEF OpenSession
  <2> QED BY <1>t, <1>h, <1>8, <2>2, <2>3 DEF OpenSession, GiveUp
 <1>9. ASSUME NEW uid, DisableAccount(uid) PROVE RevokedIsGone' /\ RevokedKeyOpensNothing'
   BY <1>0, <1>9 DEF DisableAccount, bioHistory
 <1>10. CASE UNCHANGED bioVars BY <1>0, <1>10 DEF bioVars, bioRequests
 <1> QED BY <1>1, <1>2, <1>3, <1>4, <1>5, <1>6, <1>7, <1>8, <1>9, <1>10, <1>11 DEF BioNext

(* However logins, enrolments and revocations interleave, a challenge read by
   one login at a time opens one session, and a key revoked before the stamp
   is saved opens none: login of biometric.service. *)
THEOREM LoginsSound == BioSpec => []LoginsAreSound
 <1>1. BioInv /\ [BioNext]_bioVars => BioInv'
   BY BioShapedNext, SpentOnceNext, RevokedNext DEF BioInv
 <1>2. BioInv => LoginsAreSound
   BY DEF BioInv, BioShaped, SpentOnce, LoginsAreSound, OneSessionPerChallenge
 <1> QED BY <1>1, <1>2, BioInvInit, PTL DEF BioSpec
-----------------------------------------------------------------------------
(* Selfies of a courier. *)
SelfieSteps ==
  {"idle", "find", "retire", "create", "user", "delete", "revoke", "lock", "objects", "rows"}
Submitting == {"find", "retire", "create"}
Past == {"SUPERSEDED", "REVOKED", "erased"}

SelfieTyped ==
  /\ SelfieTypeOK
  /\ spc \in [SelfieRequests -> SelfieSteps] /\ slive \in [SelfieRequests -> BOOLEAN]
  /\ scrossed \in BOOLEAN

(* What a request in progress knows of its two selfies. *)
SelfieAsked(h) ==
  /\ spc[h] \in Submitting \cup {"user"} => sown[h] \in Selfies
  /\ spc[h] \in Submitting => selfieStatus[sown[h]] = "uploaded"
  /\ spc[h] = "find" => sprev[h] = 0
  /\ spc[h] \in {"retire", "revoke", "lock"} => sprev[h] \in Selfies
  /\ spc[h] \in {"retire", "revoke"} => selfieStatus[sprev[h]] \in Past \cup {"ACTIVE"}
  /\ spc[h] = "lock" => slive[h]
  /\ spc[h] = "revoke" /\ ~slive[h] => selfieStatus[sprev[h]] \in Past
  /\ spc[h] \in {"create", "user", "delete", "lock"} /\ sprev[h] # 0
       => selfieStatus[sprev[h]] \in Past
  /\ spc[h] \in {"idle", "objects", "rows"} => sown[h] = 0 /\ sprev[h] = 0

OwnSelfie ==
  \A g, h \in SelfieRequests :
    g # h /\ spc[g] \in Submitting /\ spc[h] \in Submitting => sown[g] # sown[h]

OneLiveSelfie == \A s, q \in LiveSelfies : s = q

Erasing == \E h \in SelfieRequests : spc[h] \in {"objects", "rows"}
OnTheFace(s) == userPhoto = s /\ selfieStatus[s] = "ACTIVE" /\ selfieObject[s]

(* An open gate shows the live selfie, or a request that has retired, revoked
   or created one has yet to reach the user document; an erasure closed it. *)
OpenGateFits ==
  ~scrossed /\ userGate = "ACTIVE" =>
    /\ ~Erasing
    /\ \/ userPhoto \in Selfies /\ OnTheFace(userPhoto)
       \/ \E h \in SelfieRequests : spc[h] \in {"create", "user", "lock"}

LiveSelfieFits ==
  ~scrossed =>
    \A s \in LiveSelfies :
      \/ userGate = "ACTIVE" /\ OnTheFace(s)
      \/ Erasing
      \/ \E h \in SelfieRequests : spc[h] = "user" /\ sown[h] = s

(* The request that has to delete a picture, or to make it the live one. *)
HasToDelete(h, s) ==
  \/ spc[h] \in Submitting /\ sown[h] = s
  \/ spc[h] \in {"create", "user", "lock", "delete"} /\ sprev[h] = s

FacesAreOwed ==
  \A s \in Selfies :
    selfieObject[s] =>
      selfieStatus[s] = "ACTIVE" \/ s \in sleft \/ \E h \in SelfieRequests : HasToDelete(h, s)

SelfieInv ==
  /\ SelfieTyped
  /\ \A h \in SelfieRequests : SelfieAsked(h)
  /\ OwnSelfie /\ OneLiveSelfie
  /\ OpenGateFits /\ LiveSelfieFits /\ FacesAreOwed

LEMMA SelfieInvInit == SelfieInit => SelfieInv
 <1> SUFFICES ASSUME SelfieInit PROVE SelfieInv OBVIOUS
 <1>1. SelfieTyped
  <2>1. 0 \in 0..MaxSelfies BY SelfieBoundIsNatural
  <2>2. /\ "none" \in SelfieStatus /\ "none" \in Gate /\ "idle" \in SelfieSteps
    BY DEF SelfieStatus, Gate, SelfieSteps
  <2> QED BY <2>1, <2>2 DEF SelfieInit, SelfieTyped, SelfieTypeOK
 <1>2. \A h \in SelfieRequests : SelfieAsked(h) BY DEF SelfieInit, SelfieAsked, Submitting
 <1>3. OwnSelfie /\ OneLiveSelfie BY DEF SelfieInit, OwnSelfie, OneLiveSelfie, LiveSelfies, Submitting
 <1>4. OpenGateFits /\ LiveSelfieFits /\ FacesAreOwed
   BY DEF SelfieInit, OpenGateFits, LiveSelfieFits, FacesAreOwed, LiveSelfies
 <1> QED BY <1>1, <1>2, <1>3, <1>4 DEF SelfieInv


(* The bounds of the model, as plain sets. *)
LEMMA SelfieNumbers == 0 \in 0..MaxSelfies /\ Selfies \subseteq 0..MaxSelfies
  BY SelfieBoundIsNatural DEF Selfies

LEMMA SelfieWords ==
  /\ "idle" \in SelfieSteps
  /\ {"find", "retire", "create", "user", "delete", "revoke", "lock", "objects", "rows"}
       \subseteq SelfieSteps
  /\ {"uploaded", "ACTIVE", "SUPERSEDED", "REVOKED", "erased"} \subseteq SelfieStatus
  BY DEF SelfieSteps, SelfieStatus

(* Each variable is typed by the shape of its assignments. *)
LEMMA SelfieTypedNext ==
  ASSUME SelfieTyped, \A h \in SelfieRequests : SelfieAsked(h), [SelfieNext]_selfieVars
  PROVE  SelfieTyped'
 <1> DEFINE N == 0..MaxSelfies
 <1> HIDE DEF N
 <1>t. /\ selfieStatus \in [Selfies -> SelfieStatus] /\ selfieObject \in [Selfies -> BOOLEAN]
       /\ userPhoto \in N /\ userGate \in Gate
       /\ sown \in [SelfieRequests -> N] /\ sprev \in [SelfieRequests -> N] /\ sleft \subseteq N
       /\ spc \in [SelfieRequests -> SelfieSteps] /\ slive \in [SelfieRequests -> BOOLEAN]
       /\ scrossed \in BOOLEAN
   BY DEF SelfieTyped, SelfieTypeOK, N
 <1>n. 0 \in N /\ \A s \in Selfies : s \in N BY SelfieNumbers DEF N
 <1>o. \A h \in SelfieRequests :
         /\ spc[h] \in Submitting \cup {"user"} => sown[h] \in Selfies
   BY DEF SelfieAsked
 <1> DEFINE Rest == /\ selfieStatus' \in [Selfies -> SelfieStatus]
                    /\ selfieObject' \in [Selfies -> BOOLEAN]
                    /\ userPhoto' \in N /\ userGate' \in Gate
                    /\ sown' \in [SelfieRequests -> N] /\ sprev' \in [SelfieRequests -> N]
                    /\ slive' \in [SelfieRequests -> BOOLEAN]
                    /\ sleft' \subseteq N /\ scrossed' \in BOOLEAN
            Steps == spc' \in [SelfieRequests -> SelfieSteps]
 <1>1. ASSUME NEW h \in SelfieRequests, NEW s \in Selfies, UploadSelfie(h, s) PROVE Rest /\ Steps
  <2>1. Rest BY <1>1, <1>t, <1>n, SelfieWords DEF UploadSelfie, SelfieBegin, selfieUser
  <2>2. Steps BY <1>1, <1>t, SelfieWords DEF UploadSelfie, SelfieBegin
  <2> QED BY <2>1, <2>2
 <1>2. ASSUME NEW h \in SelfieRequests, NEW s \in Selfies, FindSelfie(h, s) PROVE Rest /\ Steps
  <2>1. Rest BY <1>2, <1>t, <1>n DEF FindSelfie, SelfieBegin, selfieRows, selfieUser
  <2>2. Steps BY <1>2, <1>t, SelfieWords DEF FindSelfie, SelfieBegin
  <2> QED BY <2>1, <2>2
 <1>3. ASSUME NEW h \in SelfieRequests, FindPrevious(h) PROVE Rest /\ Steps
  <2> DEFINE live == CHOOSE s \in LiveSelfies : TRUE
  <2>1. LiveSelfies # {} => live \in Selfies BY DEF LiveSelfies
  <2>2. /\ spc' = [spc EXCEPT ![h] = "create"] \/ spc' = [spc EXCEPT ![h] = "retire"]
        /\ sprev' = sprev \/ (LiveSelfies # {} /\ sprev' = [sprev EXCEPT ![h] = live])
        /\ UNCHANGED <<sown, slive, selfieRows, selfieUser, scrossed, sleft>>
    BY <1>3 DEF FindPrevious, SelfieGoto
  <2> HIDE DEF live
  <2>3. Rest BY <2>1, <2>2, <1>t, <1>n DEF selfieRows, selfieUser
  <2>4. Steps BY <2>2, <1>t, SelfieWords
  <2> QED BY <2>3, <2>4
 <1>4. ASSUME NEW h \in SelfieRequests, RetirePrevious(h) PROVE Rest /\ Steps
  <2>1. Rest
   <3>1. sleft' \subseteq N BY <1>4, <1>t DEF RetirePrevious, SelfieGoto, SelfieDone, selfieUser
   <3>2. selfieStatus' \in [Selfies -> SelfieStatus]
     BY <1>4, <1>t, SelfieWords DEF RetirePrevious, SelfieGoto, SelfieDone, selfieUser
   <3> QED BY <1>4, <1>t, <1>n, <3>1, <3>2 DEF RetirePrevious, SelfieGoto, SelfieDone, selfieUser
  <2>2. Steps BY <1>4, <1>t, SelfieWords DEF RetirePrevious, SelfieGoto, SelfieDone
  <2> QED BY <2>1, <2>2
 <1>5. ASSUME NEW h \in SelfieRequests, CreateSelfie(h) PROVE Rest /\ Steps
  <2>1. Rest
   <3>1. sleft' \subseteq N BY <1>5, <1>t DEF CreateSelfie, SelfieGoto, SelfieDone, selfieUser
   <3>2. selfieStatus' \in [Selfies -> SelfieStatus]
     BY <1>5, <1>t, SelfieWords DEF CreateSelfie, SelfieGoto, SelfieDone, selfieUser
   <3> QED BY <1>5, <1>t, <1>n, <3>1, <3>2 DEF CreateSelfie, SelfieGoto, SelfieDone, selfieUser
  <2>2. Steps BY <1>5, <1>t, SelfieWords DEF CreateSelfie, SelfieGoto, SelfieDone
  <2> QED BY <2>1, <2>2
 <1>6. ASSUME NEW h \in SelfieRequests, ShowSelfie(h) PROVE Rest /\ Steps
  <2>1. Rest BY <1>6, <1>t, <1>n DEF ShowSelfie, SelfieGoto, selfieRows, Gate
  <2>2. Steps BY <1>6, <1>t, SelfieWords DEF ShowSelfie, SelfieGoto
  <2> QED BY <2>1, <2>2
 <1>7. ASSUME NEW h \in SelfieRequests, NEW works \in BOOLEAN, DeleteObject(h, works)
       PROVE  Rest /\ Steps
  <2>1. Rest
   <3>1. sleft' \subseteq N BY <1>7, <1>t DEF DeleteObject
   <3>2. selfieObject' \in [Selfies -> BOOLEAN] BY <1>7, <1>t DEF DeleteObject
   <3> QED BY <1>7, <1>t, <1>n, <3>1, <3>2 DEF DeleteObject, SelfieDone, selfieUser
  <2>2. Steps BY <1>7, <1>t, SelfieWords DEF DeleteObject, SelfieDone
  <2> QED BY <2>1, <2>2
 <1>8. ASSUME NEW h \in SelfieRequests, SaveRevocation(h) PROVE Rest /\ Steps
  <2>1. Rest BY <1>8, <1>t, <1>n, SelfieWords DEF SaveRevocation, SelfieGoto, SelfieDone, selfieUser
  <2>2. Steps BY <1>8, <1>t, SelfieWords DEF SaveRevocation, SelfieGoto, SelfieDone
  <2> QED BY <2>1, <2>2
 <1>9. ASSUME NEW h \in SelfieRequests, LockCourier(h) PROVE Rest /\ Steps
  <2>1. Rest BY <1>9, <1>t, <1>n DEF LockCourier, SelfieGoto, selfieRows, Gate
  <2>2. Steps BY <1>9, <1>t, SelfieWords DEF LockCourier, SelfieGoto
  <2> QED BY <2>1, <2>2
 <1>10. ASSUME NEW h \in SelfieRequests, EraseUser(h) PROVE Rest /\ Steps
  <2>1. Rest BY <1>10, <1>t, <1>n DEF EraseUser, SelfieBegin, selfieRows, Gate
  <2>2. Steps BY <1>10, <1>t, SelfieWords DEF EraseUser, SelfieBegin
  <2> QED BY <2>1, <2>2
 <1>11. ASSUME NEW h \in SelfieRequests, EraseObjects(h) PROVE Rest /\ Steps
  <2>3. sleft' \subseteq N
   <3>1. PICK refused \in SUBSET Rows : sleft' = sleft \cup refused BY <1>11 DEF EraseObjects
   <3> QED BY <3>1, <1>t, <1>n DEF Rows
  <2>4. selfieObject' \in [Selfies -> BOOLEAN] BY <1>11 DEF EraseObjects
  <2>1. Rest BY <1>11, <1>t, <1>n, <2>3, <2>4 DEF EraseObjects, SelfieGoto, selfieUser
  <2>2. Steps BY <1>11, <1>t, SelfieWords DEF EraseObjects, SelfieGoto
  <2> QED BY <2>1, <2>2
 <1>12. ASSUME NEW h \in SelfieRequests, EraseRows(h) PROVE Rest /\ Steps
  <2>1. Rest BY <1>12, <1>t, <1>n, SelfieWords DEF EraseRows, SelfieDone, selfieUser, Rows
  <2>2. Steps BY <1>12, <1>t, SelfieWords DEF EraseRows, SelfieDone
  <2> QED BY <2>1, <2>2
 <1>13. ASSUME NEW h \in SelfieRequests, LoseSelfieRequest(h) PROVE Rest /\ Steps
  <2>1. Rest BY <1>13, <1>t, <1>n DEF LoseSelfieRequest, SelfieDone, selfieRows, selfieUser
  <2>2. Steps BY <1>13, <1>t, SelfieWords DEF LoseSelfieRequest, SelfieDone
  <2> QED BY <2>1, <2>2
 <1>14. ASSUME UNCHANGED selfieVars PROVE Rest /\ Steps
  <2>1. UNCHANGED <<selfieStatus, selfieObject, userPhoto, userGate, spc, sown, sprev, slive,
                    scrossed, sleft>>
    BY <1>14 DEF selfieVars, selfieRows, selfieUser, selfieRequest
  <2> QED BY <2>1, <1>t
 <1> HIDE DEF Rest, Steps
 <1>15. Rest /\ Steps BY <1>1, <1>2, <1>3, <1>4, <1>5, <1>6, <1>7, <1>8, <1>9, <1>10, <1>11, <1>12,
    <1>13, <1>14 DEF SelfieNext
 <1> QED BY <1>15 DEF SelfieTyped, SelfieTypeOK, N, Rest, Steps

(* A step of request h: the others stay where they are, and a row only moves
   on -- an uploaded picture becomes a row by its own request alone. *)
SelfieStep(h) ==
  /\ \A g \in SelfieRequests \ {h} :
       /\ spc'[g] = spc[g] /\ sown'[g] = sown[g] /\ sprev'[g] = sprev[g] /\ slive'[g] = slive[g]
  /\ \A s \in Selfies :
       /\ selfieStatus[s] \in Past => selfieStatus'[s] \in Past
       /\ selfieStatus[s] = "ACTIVE" => selfieStatus'[s] \in Past \cup {"ACTIVE"}
       /\ selfieStatus[s] = "uploaded" =>
            selfieStatus'[s] = "uploaded" \/ (spc[h] = "create" /\ sown[h] = s)
       /\ selfieStatus'[s] = "ACTIVE" =>
            selfieStatus[s] = "ACTIVE" \/ (LiveSelfies = {} /\ sown[h] = s)
  /\ spc'[h] \in Submitting =>
       \/ spc[h] \in Submitting /\ sown'[h] = sown[h]
       \/ selfieStatus[sown'[h]] = "none"

LEMMA SelfieMove ==
  ASSUME SelfieTyped, \A h \in SelfieRequests : SelfieAsked(h), NEW h \in SelfieRequests,
         \/ \E s \in Selfies : UploadSelfie(h, s) \/ FindSelfie(h, s)
         \/ FindPrevious(h) \/ RetirePrevious(h) \/ CreateSelfie(h) \/ ShowSelfie(h)
         \/ \E works \in BOOLEAN : DeleteObject(h, works)
         \/ SaveRevocation(h) \/ LockCourier(h)
         \/ EraseUser(h) \/ EraseObjects(h) \/ EraseRows(h) \/ LoseSelfieRequest(h)
  PROVE  SelfieStep(h) /\ SelfieAsked(h)'
 <1>t. /\ selfieStatus \in [Selfies -> SelfieStatus] /\ selfieObject \in [Selfies -> BOOLEAN]
       /\ DOMAIN sown = SelfieRequests /\ DOMAIN sprev = SelfieRequests
       /\ DOMAIN spc = SelfieRequests /\ slive \in [SelfieRequests -> BOOLEAN]
   BY DEF SelfieTyped, SelfieTypeOK
 <1>d. DOMAIN selfieStatus = Selfies BY <1>t
 <1>z. 0 \notin Selfies BY DEF Selfies
 <1>a. /\ SelfieAsked(h)
       /\ spc[h] \in Submitting \cup {"user"} => sown[h] \in Selfies
       /\ spc[h] \in {"retire", "revoke", "lock"} => sprev[h] \in Selfies
   BY DEF SelfieAsked
 <1> USE DEF SelfieStep, SelfieAsked, Submitting, Past
 <1>1. ASSUME NEW s \in Selfies, UploadSelfie(h, s) PROVE SelfieStep(h) /\ SelfieAsked(h)'
   BY <1>1, <1>t, <1>d DEF UploadSelfie, SelfieBegin
 <1>2. ASSUME NEW s \in Selfies, FindSelfie(h, s) PROVE SelfieStep(h) /\ SelfieAsked(h)'
   BY <1>2, <1>t, <1>d DEF FindSelfie, SelfieBegin, selfieRows
 <1>3. ASSUME FindPrevious(h) PROVE SelfieStep(h) /\ SelfieAsked(h)'
  <2> DEFINE live == CHOOSE s \in LiveSelfies : TRUE
  <2>1. LiveSelfies # {} => live \in Selfies /\ selfieStatus[live] = "ACTIVE" BY DEF LiveSelfies
  <2>2. /\ spc[h] = "find"
        /\ \/ spc' = [spc EXCEPT ![h] = "create"] /\ sprev' = sprev
           \/ /\ LiveSelfies # {}
              /\ spc' = [spc EXCEPT ![h] = "retire"] /\ sprev' = [sprev EXCEPT ![h] = live]
        /\ UNCHANGED <<sown, slive, selfieStatus>>
    BY <1>3 DEF FindPrevious, SelfieGoto, selfieRows
  <2> HIDE DEF live
  <2> QED BY <2>1, <2>2, <1>t, <1>a
 <1>4. ASSUME RetirePrevious(h) PROVE SelfieStep(h) /\ SelfieAsked(h)'
   BY <1>4, <1>t, <1>d, <1>a DEF RetirePrevious, SelfieGoto, SelfieDone
 <1>5. ASSUME CreateSelfie(h) PROVE SelfieStep(h) /\ SelfieAsked(h)'
  <2>1. CASE LiveSelfies = {}
   <3>1. SelfieStep(h) BY <1>5, <2>1, <1>t, <1>d, <1>a DEF CreateSelfie, SelfieGoto
   <3>2. sprev[h] # 0 => selfieStatus[sprev[h]] \in Past BY <1>5, <1>a DEF CreateSelfie
   <3>3. /\ sprev[h] # sown[h] /\ sown[h] \in Selfies BY <1>5, <1>a, <1>z, <3>2 DEF CreateSelfie
   <3>4. /\ selfieStatus' = [selfieStatus EXCEPT ![sown[h]] = "ACTIVE"]
         /\ spc' = [spc EXCEPT ![h] = "user"] /\ UNCHANGED <<sown, sprev, slive>>
     BY <1>5, <2>1 DEF CreateSelfie, SelfieGoto
   <3>5. sprev[h] # 0 => selfieStatus'[sprev[h]] \in Past BY <3>2, <3>3, <3>4
   <3>6. spc'[h] = "user" /\ sown'[h] = sown[h] /\ sprev'[h] = sprev[h] BY <3>4, <1>t
   <3>7. SelfieAsked(h)' BY <3>3, <3>5, <3>6
   <3> QED BY <3>1, <3>7
  <2>2. CASE LiveSelfies # {} BY <1>5, <2>2, <1>t, <1>d, <1>a DEF CreateSelfie, SelfieDone
  <2> QED BY <2>1, <2>2
 <1>6. ASSUME ShowSelfie(h) PROVE SelfieStep(h) /\ SelfieAsked(h)'
   BY <1>6, <1>t, <1>a DEF ShowSelfie, SelfieGoto, selfieRows
 <1>7. ASSUME NEW works \in BOOLEAN, DeleteObject(h, works)
       PROVE  SelfieStep(h) /\ SelfieAsked(h)'
   BY <1>7, <1>t, <1>a DEF DeleteObject, SelfieDone
 <1>8. ASSUME SaveRevocation(h) PROVE SelfieStep(h) /\ SelfieAsked(h)'
   BY <1>8, <1>t, <1>d, <1>a DEF SaveRevocation, SelfieGoto, SelfieDone
 <1>9. ASSUME LockCourier(h) PROVE SelfieStep(h) /\ SelfieAsked(h)'
   BY <1>9, <1>t, <1>a DEF LockCourier, SelfieGoto, selfieRows
 <1>10. ASSUME EraseUser(h) PROVE SelfieStep(h) /\ SelfieAsked(h)'
   BY <1>10, <1>t, <1>a DEF EraseUser, SelfieBegin, selfieRows
 <1>11. ASSUME EraseObjects(h) PROVE SelfieStep(h) /\ SelfieAsked(h)'
   BY <1>11, <1>t, <1>a DEF EraseObjects, SelfieGoto
 <1>12. ASSUME EraseRows(h) PROVE SelfieStep(h) /\ SelfieAsked(h)'
   BY <1>12, <1>t, <1>a DEF EraseRows, SelfieDone, Rows
 <1>13. ASSUME LoseSelfieRequest(h) PROVE SelfieStep(h) /\ SelfieAsked(h)'
   BY <1>13, <1>t, <1>a DEF LoseSelfieRequest, SelfieDone, selfieRows
 <1> HIDE DEF SelfieStep, SelfieAsked
 <1> QED BY <1>1, <1>2, <1>3, <1>4, <1>5, <1>6, <1>7, <1>8, <1>9, <1>10, <1>11, <1>12, <1>13

(* What the other requests know survives it, and so do their selfies. *)
LEMMA SelfieOthers ==
  ASSUME SelfieTyped, \A g \in SelfieRequests : SelfieAsked(g), OwnSelfie,
         NEW h \in SelfieRequests, SelfieStep(h), NEW g \in SelfieRequests \ {h}
  PROVE  SelfieAsked(g)'
 <1>1. /\ spc'[g] = spc[g] /\ sown'[g] = sown[g] /\ sprev'[g] = sprev[g] /\ slive'[g] = slive[g]
       /\ SelfieAsked(g)
   BY DEF SelfieStep
 <1>2. spc[g] \in Submitting => selfieStatus'[sown[g]] = "uploaded"
   BY <1>1 DEF SelfieStep, SelfieAsked, OwnSelfie, Submitting
 <1>3. \A s \in Selfies :
         /\ selfieStatus[s] \in Past => selfieStatus'[s] \in Past
         /\ selfieStatus[s] \in Past \cup {"ACTIVE"} => selfieStatus'[s] \in Past \cup {"ACTIVE"}
   BY DEF SelfieStep
 <1>4. sprev[g] # 0 => sprev[g] \in Selfies BY DEF SelfieTyped, SelfieTypeOK, Selfies
 <1> QED BY <1>1, <1>2, <1>3, <1>4 DEF SelfieAsked

LEMMA SelfieOwnAndLive ==
  ASSUME SelfieTyped, \A g \in SelfieRequests : SelfieAsked(g), OwnSelfie, OneLiveSelfie,
         NEW h \in SelfieRequests, SelfieStep(h)
  PROVE  OwnSelfie' /\ OneLiveSelfie'
 <1>1. ASSUME NEW f \in SelfieRequests, NEW g \in SelfieRequests, f # g,
              (spc[f] \in Submitting)', (spc[g] \in Submitting)'
       PROVE  sown'[f] # sown'[g]
  <2>1. \A k \in SelfieRequests :
          (spc'[k] \in Submitting /\ k # h) =>
            spc[k] \in Submitting /\ sown'[k] = sown[k] /\ selfieStatus[sown[k]] = "uploaded"
    BY DEF SelfieStep, SelfieAsked
  <2>2. (spc[h] \in Submitting)' =>
          \/ spc[h] \in Submitting /\ sown'[h] = sown[h]
          \/ selfieStatus[sown'[h]] = "none"
    BY DEF SelfieStep
  <2> QED BY <1>1, <2>1, <2>2 DEF OwnSelfie
 <1>2. OwnSelfie' BY <1>1 DEF OwnSelfie
 <1>3. \A s, q \in Selfies :
         selfieStatus'[s] = "ACTIVE" /\ selfieStatus'[q] = "ACTIVE" => s = q
   BY DEF SelfieStep, OneLiveSelfie, LiveSelfies
 <1>4. OneLiveSelfie' BY <1>3 DEF OneLiveSelfie, LiveSelfies
 <1> QED BY <1>2, <1>4

(* The gate: each handler either leaves what the invariant rests on, or
   writes the user document in accord with the rows, or marks the crossing. *)
LEMMA SelfieGateKept ==
  ASSUME SelfieTyped, \A g \in SelfieRequests : SelfieAsked(g), OneLiveSelfie,
         OpenGateFits, LiveSelfieFits,
         NEW h \in SelfieRequests, SelfieStep(h),
         \/ \E s \in Selfies : UploadSelfie(h, s) \/ FindSelfie(h, s)
         \/ FindPrevious(h) \/ RetirePrevious(h) \/ CreateSelfie(h) \/ ShowSelfie(h)
         \/ \E works \in BOOLEAN : DeleteObject(h, works)
         \/ SaveRevocation(h) \/ LockCourier(h)
         \/ EraseUser(h) \/ EraseObjects(h) \/ EraseRows(h) \/ LoseSelfieRequest(h)
  PROVE  OpenGateFits' /\ LiveSelfieFits'
 <1> DEFINE Kept == OpenGateFits' /\ LiveSelfieFits'
 <1>t. /\ selfieStatus \in [Selfies -> SelfieStatus] /\ selfieObject \in [Selfies -> BOOLEAN]
       /\ DOMAIN sown = SelfieRequests /\ DOMAIN sprev = SelfieRequests
       /\ DOMAIN spc = SelfieRequests /\ DOMAIN slive = SelfieRequests
   BY DEF SelfieTyped, SelfieTypeOK
 <1>d. DOMAIN selfieStatus = Selfies /\ DOMAIN selfieObject = Selfies BY <1>t
 <1>a. /\ spc[h] \in {"find", "retire", "create", "user"} => sown[h] \in Selfies
       /\ spc[h] \in {"find", "retire", "create"} => selfieStatus[sown[h]] = "uploaded"
       /\ spc[h] \in {"retire", "revoke", "lock"} => sprev[h] \in Selfies
       /\ spc[h] = "lock" => slive[h]
       /\ spc[h] = "revoke" /\ ~slive[h] => selfieStatus[sprev[h]] # "ACTIVE"
       /\ spc[h] \in {"delete", "lock"} /\ sprev[h] # 0 => selfieStatus[sprev[h]] # "ACTIVE"
   BY DEF SelfieAsked, Submitting, Past
 <1>o. \A g \in SelfieRequests \ {h} : spc'[g] = spc[g] /\ sown'[g] = sown[g] BY DEF SelfieStep
 <1>r. \A s \in Selfies :
         selfieStatus'[s] = "ACTIVE" =>
           selfieStatus[s] = "ACTIVE" \/ (LiveSelfies = {} /\ sown[h] = s)
   BY DEF SelfieStep
 <1>z. 0 \notin Selfies BY DEF Selfies
 <1>l. \A s, q \in Selfies : selfieStatus[s] = "ACTIVE" /\ selfieStatus[q] = "ACTIVE" => s = q
   BY DEF OneLiveSelfie, LiveSelfies
 (* A handler that writes neither the user document nor a row it lives by. *)
 <1>u. ASSUME UNCHANGED <<userPhoto, userGate, scrossed>>,
              \A s \in Selfies : /\ selfieStatus[s] = "ACTIVE" <=> selfieStatus'[s] = "ACTIVE"
                                 /\ selfieStatus[s] = "ACTIVE" => selfieObject'[s] = selfieObject[s],
              spc[h] \notin {"create", "user", "lock", "objects", "rows"},
              spc'[h] \notin {"objects", "rows"}
       PROVE  Kept
  <2>1. Erasing' <=> Erasing BY <1>u, <1>o DEF Erasing
  <2>2. \A s \in Selfies : OnTheFace(s)' <=> OnTheFace(s) BY <1>u DEF OnTheFace
  <2>3. OpenGateFits' BY <1>u, <1>o, <2>1, <2>2 DEF OpenGateFits
  <2>4. LiveSelfieFits' BY <1>u, <1>o, <2>1, <2>2 DEF LiveSelfieFits, LiveSelfies
  <2> QED BY <2>3, <2>4
 <1>1. ASSUME NEW s \in Selfies, UploadSelfie(h, s) PROVE Kept
   BY <1>1, <1>t, <1>d, <1>u DEF UploadSelfie, SelfieBegin, selfieUser
 <1>2. ASSUME NEW s \in Selfies, FindSelfie(h, s) PROVE Kept
   BY <1>2, <1>t, <1>u DEF FindSelfie, SelfieBegin, selfieRows, selfieUser
 <1>3. ASSUME FindPrevious(h) PROVE Kept
   BY <1>3, <1>t, <1>u DEF FindPrevious, SelfieGoto, selfieRows, selfieUser
 <1>7. ASSUME NEW works \in BOOLEAN, DeleteObject(h, works) PROVE Kept
  <2>1. \A s \in Selfies : selfieStatus[s] = "ACTIVE" => selfieObject'[s] = selfieObject[s]
    BY <1>7, <1>d, <1>a DEF DeleteObject
  <2>2. spc[h] = "delete" /\ spc'[h] = "idle" BY <1>7, <1>t DEF DeleteObject, SelfieDone
  <2>3. UNCHANGED <<selfieStatus, userPhoto, userGate, scrossed>>
    BY <1>7 DEF DeleteObject, selfieUser
  <2> QED BY <2>1, <2>2, <2>3, <1>u
(* What retires or revokes the live one has its next step to answer for it. *)
 <1>v. ASSUME UNCHANGED <<userPhoto, userGate, scrossed, selfieObject>>,
              NEW at \in {"create", "lock"}, spc'[h] = at, spc[h] \in {"retire", "revoke"},
              \A s \in Selfies : selfieStatus'[s] = "ACTIVE" => selfieStatus[s] = "ACTIVE"
       PROVE  Kept
  <2>1. Erasing' <=> Erasing BY <1>v, <1>o DEF Erasing
  <2>2. OpenGateFits' BY <1>v, <2>1 DEF OpenGateFits
  <2>3. ASSUME ~scrossed', NEW s \in LiveSelfies'
        PROVE  \/ userGate' = "ACTIVE" /\ OnTheFace(s)'
               \/ Erasing'
               \/ \E g \in SelfieRequests : spc'[g] = "user" /\ sown'[g] = s
   <3>1. s \in LiveSelfies /\ s \in Selfies /\ selfieStatus'[s] = "ACTIVE" /\ ~scrossed
     BY <2>3, <1>v DEF LiveSelfies
   <3>2. \/ userGate = "ACTIVE" /\ OnTheFace(s)
         \/ Erasing
         \/ \E g \in SelfieRequests : spc[g] = "user" /\ sown[g] = s
     BY <3>1 DEF LiveSelfieFits
   <3>3. CASE userGate = "ACTIVE" /\ OnTheFace(s) BY <3>3, <3>1, <1>v DEF OnTheFace
   <3>4. CASE \E g \in SelfieRequests : spc[g] = "user" /\ sown[g] = s BY <3>4, <1>v, <1>o
   <3> QED BY <3>2, <3>3, <3>4, <2>1
  <2>4. LiveSelfieFits' BY <2>3 DEF LiveSelfieFits
  <2> QED BY <2>2, <2>4
 <1>4. ASSUME RetirePrevious(h) PROVE Kept
  <2>1. CASE selfieStatus[sprev[h]] = "erased"
    BY <1>4, <2>1, <1>t, <1>u DEF RetirePrevious, SelfieDone, selfieUser
  <2>2. CASE selfieStatus[sprev[h]] # "erased"
    BY <1>4, <2>2, <1>t, <1>d, <1>v DEF RetirePrevious, SelfieGoto, selfieUser
  <2> QED BY <2>1, <2>2
 <1>8. ASSUME SaveRevocation(h) PROVE Kept
  <2>1. CASE selfieStatus[sprev[h]] = "erased"
    BY <1>8, <2>1, <1>t, <1>u DEF SaveRevocation, SelfieDone, selfieUser
  <2>2. CASE selfieStatus[sprev[h]] # "erased" /\ slive[h]
    BY <1>8, <2>2, <1>t, <1>d, <1>v DEF SaveRevocation, SelfieGoto, selfieUser
  <2>3. CASE selfieStatus[sprev[h]] # "erased" /\ ~slive[h]
    BY <1>8, <2>3, <1>t, <1>d, <1>a, <1>u DEF SaveRevocation, SelfieGoto, selfieUser
  <2> QED BY <2>1, <2>2, <2>3
 <1>5. ASSUME CreateSelfie(h) PROVE Kept
  <2>1. /\ spc[h] = "create" /\ sown[h] \in Selfies
        /\ UNCHANGED <<userPhoto, userGate, scrossed, selfieObject>>
    BY <1>5, <1>a DEF CreateSelfie, selfieUser
  <2>2. CASE LiveSelfies = {}
   <3>1. /\ selfieStatus' = [selfieStatus EXCEPT ![sown[h]] = "ACTIVE"]
         /\ spc'[h] = "user" /\ sown'[h] = sown[h]
     BY <1>5, <2>2, <1>t DEF CreateSelfie, SelfieGoto
   <3>2. Erasing' <=> Erasing BY <3>1, <2>1, <1>o DEF Erasing
   <3>3. OpenGateFits' BY <3>1, <3>2, <2>1 DEF OpenGateFits
   <3>4. \A s \in LiveSelfies' : s = sown[h] BY <3>1, <2>2, <1>d DEF LiveSelfies
   <3>5. LiveSelfieFits' BY <3>1, <3>4 DEF LiveSelfieFits
   <3> QED BY <3>3, <3>5
  <2>3. CASE LiveSelfies # {}
   <3>1. UNCHANGED selfieStatus /\ spc'[h] = "idle" BY <1>5, <2>3, <1>t DEF CreateSelfie, SelfieDone
   <3>2. Erasing' <=> Erasing BY <3>1, <2>1, <1>o DEF Erasing
   <3>3. \A s \in Selfies : OnTheFace(s)' <=> OnTheFace(s) BY <3>1, <2>1 DEF OnTheFace
   <3>4. LiveSelfies' = LiveSelfies BY <3>1 DEF LiveSelfies
   <3>5. LiveSelfieFits' BY <2>1, <3>1, <3>2, <3>3, <3>4, <1>o DEF LiveSelfieFits, LiveSelfies
   <3>6. ASSUME ~scrossed', (userGate = "ACTIVE")'
         PROVE  /\ ~Erasing'
                /\ \/ userPhoto' \in Selfies /\ OnTheFace(userPhoto)'
                   \/ \E g \in SelfieRequests : spc'[g] \in {"create", "user", "lock"}
    <4>1. ~scrossed /\ userGate = "ACTIVE" /\ ~Erasing /\ ~Erasing'
      BY <3>6, <2>1, <3>2 DEF OpenGateFits
    <4>2. PICK s \in LiveSelfies : s \in Selfies BY <2>3 DEF LiveSelfies
    <4>3. OnTheFace(s) \/ \E g \in SelfieRequests : spc[g] = "user" /\ sown[g] = s
      BY <4>1, <4>2 DEF LiveSelfieFits
    <4>4. CASE OnTheFace(s) BY <4>1, <4>2, <4>4, <3>1, <2>1 DEF OnTheFace
    <4>5. CASE \E g \in SelfieRequests : spc[g] = "user" /\ sown[g] = s BY <4>1, <4>5, <2>1, <1>o
    <4> QED BY <4>3, <4>4, <4>5
   <3>7. OpenGateFits' BY <3>6 DEF OpenGateFits
   <3> QED BY <3>5, <3>7
  <2> QED BY <2>2, <2>3
 <1>6. ASSUME ShowSelfie(h) PROVE Kept
  <2>1. /\ sown[h] \in Selfies /\ userPhoto' = sown[h] /\ userGate' = "ACTIVE"
        /\ UNCHANGED <<selfieStatus, selfieObject>> /\ spc'[h] = "delete" /\ spc[h] = "user"
        /\ scrossed' = \/ selfieStatus[sown[h]] # "ACTIVE" \/ ~selfieObject[sown[h]]
                       \/ \E g \in SelfieRequests : spc[g] \in {"objects", "rows"}
    BY <1>6, <1>a, <1>t DEF ShowSelfie, SelfieGoto, selfieRows
  <2>2. PICK o \in Selfies : o = sown[h] BY <2>1
  <2>3. ~scrossed' => ~Erasing' BY <2>1, <1>o DEF Erasing
  <2>4. OpenGateFits'
   <3>1. ~scrossed' => OnTheFace(userPhoto)' BY <2>1 DEF OnTheFace
   <3> QED BY <3>1, <2>1, <2>3 DEF OpenGateFits
  <2>5. ASSUME ~scrossed', NEW s \in LiveSelfies' PROVE OnTheFace(s)'
   <3>1. s \in Selfies /\ selfieStatus[s] = "ACTIVE" BY <2>1, <2>5 DEF LiveSelfies
   <3>2. selfieStatus[o] = "ACTIVE" /\ selfieObject[o] BY <2>1, <2>2, <2>5
   <3>3. s = o BY <3>1, <3>2, <1>l
   <3> QED BY <2>1, <2>2, <3>2, <3>3 DEF OnTheFace
  <2>6. LiveSelfieFits' BY <2>1, <2>5 DEF LiveSelfieFits
  <2> QED BY <2>4, <2>6
 <1>9. ASSUME LockCourier(h) PROVE Kept
  <2>1. /\ userPhoto' = 0 /\ userGate' = "REVOKED"
        /\ UNCHANGED <<selfieStatus, selfieObject>> /\ spc'[h] = "delete" /\ spc[h] = "lock"
        /\ ~scrossed' => ~scrossed /\ userPhoto \in {0, sprev[h]}
        /\ sprev[h] \in Selfies /\ selfieStatus[sprev[h]] # "ACTIVE"
    BY <1>9, <1>a, <1>t, <1>z DEF LockCourier, SelfieGoto, selfieRows
  <2>2. Erasing' <=> Erasing BY <2>1, <1>o DEF Erasing
  <2>3. OpenGateFits' BY <2>1 DEF OpenGateFits
  <2>4. ASSUME ~scrossed', NEW s \in LiveSelfies'
        PROVE  Erasing' \/ \E g \in SelfieRequests : spc'[g] = "user" /\ sown'[g] = s
   <3>1. s \in LiveSelfies /\ s \in Selfies /\ selfieStatus[s] = "ACTIVE"
     BY <2>1, <2>4 DEF LiveSelfies
   <3>2. ~OnTheFace(s) BY <2>1, <2>4, <3>1, <1>z DEF OnTheFace
   <3>3. Erasing \/ \E g \in SelfieRequests : spc[g] = "user" /\ sown[g] = s
     BY <2>1, <2>4, <3>1, <3>2 DEF LiveSelfieFits
   <3> QED BY <3>3, <2>1, <2>2, <1>o
  <2>5. LiveSelfieFits' BY <2>4 DEF LiveSelfieFits
  <2> QED BY <2>3, <2>5
 <1>10. ASSUME EraseUser(h) PROVE Kept
  <2>1. userGate' = "none" /\ spc'[h] = "objects" BY <1>10, <1>t DEF EraseUser, SelfieBegin
  <2> QED BY <2>1 DEF OpenGateFits, LiveSelfieFits, Erasing
 <1>11. ASSUME EraseObjects(h) PROVE Kept
  <2>1. /\ spc[h] = "objects" /\ spc'[h] = "rows" /\ UNCHANGED <<userGate, scrossed>>
    BY <1>11, <1>t DEF EraseObjects, SelfieGoto, selfieUser
  <2>2. Erasing /\ Erasing' BY <2>1 DEF Erasing
  <2> QED BY <2>1, <2>2 DEF OpenGateFits, LiveSelfieFits
 <1>12. ASSUME EraseRows(h) PROVE Kept
  <2>1. Erasing /\ UNCHANGED <<userGate, scrossed>> BY <1>12 DEF EraseRows, selfieUser, Erasing
  <2>2. LiveSelfies' = {} BY <1>12 DEF EraseRows, LiveSelfies, Rows
  <2> QED BY <2>1, <2>2 DEF OpenGateFits, LiveSelfieFits
 <1>13. ASSUME LoseSelfieRequest(h) PROVE Kept
   BY <1>13 DEF LoseSelfieRequest, OpenGateFits, LiveSelfieFits
 <1> HIDE DEF Kept
 <1>q. Kept BY <1>1, <1>2, <1>3, <1>4, <1>5, <1>6, <1>7, <1>8, <1>9, <1>10, <1>11, <1>12, <1>13
 <1> QED BY <1>q DEF Kept

(* A picture that is not live is somebody's to delete: whoever gives it up
   hands it on, or lists it among the left-behind. *)
LEMMA FacesKept ==
  ASSUME SelfieTyped, \A g \in SelfieRequests : SelfieAsked(g), FacesAreOwed,
         NEW h \in SelfieRequests, SelfieStep(h),
         \/ \E s \in Selfies : UploadSelfie(h, s) \/ FindSelfie(h, s)
         \/ FindPrevious(h) \/ RetirePrevious(h) \/ CreateSelfie(h) \/ ShowSelfie(h)
         \/ \E works \in BOOLEAN : DeleteObject(h, works)
         \/ SaveRevocation(h) \/ LockCourier(h)
         \/ EraseUser(h) \/ EraseObjects(h) \/ EraseRows(h) \/ LoseSelfieRequest(h)
  PROVE  FacesAreOwed'
 <1> DEFINE Accounted(s) == \/ selfieStatus'[s] = "ACTIVE" \/ s \in sleft' \/ HasToDelete(h, s)'
 <1>t. /\ selfieStatus \in [Selfies -> SelfieStatus] /\ selfieObject \in [Selfies -> BOOLEAN]
       /\ DOMAIN sown = SelfieRequests /\ DOMAIN sprev = SelfieRequests
       /\ DOMAIN spc = SelfieRequests /\ DOMAIN slive = SelfieRequests
   BY DEF SelfieTyped, SelfieTypeOK
 <1>d. DOMAIN selfieStatus = Selfies /\ DOMAIN selfieObject = Selfies BY <1>t
 <1>a. /\ spc[h] = "find" => sprev[h] = 0
       /\ spc[h] = "revoke" /\ ~slive[h] => selfieStatus[sprev[h]] # "ACTIVE"
   BY DEF SelfieAsked, Past
 (* It is enough to follow the pictures the request itself answers for, those
    of the rows it takes out of the live, and those it stores. *)
 <1>s. SUFFICES
         /\ sleft \subseteq sleft'
         /\ \A s \in Selfies :
              /\ selfieObject'[s] /\ ~selfieObject[s] => Accounted(s)
              /\ selfieObject'[s] /\ selfieStatus[s] = "ACTIVE" => Accounted(s)
              /\ selfieObject'[s] /\ HasToDelete(h, s) => Accounted(s)
  <2>1. \A g \in SelfieRequests \ {h} : \A s \in Selfies : HasToDelete(g, s) => HasToDelete(g, s)'
    BY DEF SelfieStep, HasToDelete
  <2>2. ASSUME NEW s \in Selfies, selfieObject'[s], ~Accounted(s)
        PROVE  \E g \in SelfieRequests : HasToDelete(g, s)'
    BY <1>s, <2>1, <2>2 DEF FacesAreOwed
  <2>3. \A s \in Selfies :
          selfieObject'[s] =>
            \/ selfieStatus'[s] = "ACTIVE" \/ s \in sleft'
            \/ \E g \in SelfieRequests : HasToDelete(g, s)'
    BY <2>2
  <2> QED BY <2>3 DEF FacesAreOwed
 <1> USE DEF HasToDelete, Submitting
 <1> DEFINE Goal == /\ sleft \subseteq sleft'
                    /\ \A s \in Selfies :
                         /\ selfieObject'[s] /\ ~selfieObject[s] => Accounted(s)
                         /\ selfieObject'[s] /\ selfieStatus[s] = "ACTIVE" => Accounted(s)
                         /\ selfieObject'[s] /\ HasToDelete(h, s) => Accounted(s)
 <1>1. ASSUME NEW s \in Selfies, UploadSelfie(h, s) PROVE Goal
   BY <1>1, <1>t, <1>d DEF UploadSelfie, SelfieBegin
 <1>2. ASSUME NEW s \in Selfies, FindSelfie(h, s) PROVE Goal
   BY <1>2, <1>t DEF FindSelfie, SelfieBegin, selfieRows
 <1>3. ASSUME FindPrevious(h) PROVE Goal
  <2>1. /\ UNCHANGED <<selfieStatus, selfieObject, sown, sleft>>
        /\ spc[h] = "find" /\ spc'[h] \in {"create", "retire"}
    BY <1>3, <1>t DEF FindPrevious, SelfieGoto, selfieRows
  <2> QED BY <2>1, <1>a
 <1>4. ASSUME RetirePrevious(h) PROVE Goal
   BY <1>4, <1>t, <1>d DEF RetirePrevious, SelfieGoto, SelfieDone
 <1>5. ASSUME CreateSelfie(h) PROVE Goal
   BY <1>5, <1>t, <1>d DEF CreateSelfie, SelfieGoto, SelfieDone
 <1>6. ASSUME ShowSelfie(h) PROVE Goal BY <1>6, <1>t DEF ShowSelfie, SelfieGoto, selfieRows
 <1>7. ASSUME NEW works \in BOOLEAN, DeleteObject(h, works) PROVE Goal
  <2>1. /\ spc[h] = "delete" /\ UNCHANGED selfieStatus
        /\ \/ /\ selfieObject' = [selfieObject EXCEPT ![sprev[h]] = FALSE] /\ UNCHANGED sleft
           \/ UNCHANGED selfieObject /\ sleft' = sleft \cup {sprev[h]}
           \/ sprev[h] = 0 /\ UNCHANGED <<selfieObject, sleft>>
    BY <1>7 DEF DeleteObject
  <2>2. \A s \in Selfies : HasToDelete(h, s) => s = sprev[h] BY <2>1
  <2>3. \A s \in Selfies : selfieStatus[s] = "ACTIVE" => Accounted(s) BY <2>1
  <2>4. \A s \in Selfies : s # 0 BY DEF Selfies
  <2> QED BY <2>1, <2>2, <2>3, <2>4, <1>d
 <1>8. ASSUME SaveRevocation(h) PROVE Goal
   BY <1>8, <1>t, <1>d, <1>a DEF SaveRevocation, SelfieGoto, SelfieDone
 <1>9. ASSUME LockCourier(h) PROVE Goal BY <1>9, <1>t DEF LockCourier, SelfieGoto, selfieRows
 <1>10. ASSUME EraseUser(h) PROVE Goal BY <1>10, <1>t DEF EraseUser, SelfieBegin, selfieRows
 <1>11. ASSUME EraseObjects(h) PROVE Goal BY <1>11, <1>t DEF EraseObjects, SelfieGoto
 <1>12. ASSUME EraseRows(h) PROVE Goal BY <1>12, <1>t DEF EraseRows, SelfieDone, Rows
 <1>13. ASSUME LoseSelfieRequest(h) PROVE Goal
   BY <1>13, <1>t DEF LoseSelfieRequest, SelfieDone, selfieRows
 <1> HIDE DEF Accounted, HasToDelete
 <1> QED BY <1>1, <1>2, <1>3, <1>4, <1>5, <1>6, <1>7, <1>8, <1>9, <1>10, <1>11, <1>12, <1>13

LEMMA SelfieInvNext == SelfieInv /\ [SelfieNext]_selfieVars => SelfieInv'
 <1> SUFFICES ASSUME SelfieInv, [SelfieNext]_selfieVars PROVE SelfieInv' OBVIOUS
 <1>i. /\ SelfieTyped /\ \A g \in SelfieRequests : SelfieAsked(g)
       /\ OwnSelfie /\ OneLiveSelfie /\ OpenGateFits /\ LiveSelfieFits /\ FacesAreOwed
   BY DEF SelfieInv
 <1>t. SelfieTyped' BY <1>i, SelfieTypedNext
 <1>1. CASE SelfieNext
  <2>1. PICK h \in SelfieRequests :
          \/ \E s \in Selfies : UploadSelfie(h, s) \/ FindSelfie(h, s)
          \/ FindPrevious(h) \/ RetirePrevious(h) \/ CreateSelfie(h) \/ ShowSelfie(h)
          \/ \E works \in BOOLEAN : DeleteObject(h, works)
          \/ SaveRevocation(h) \/ LockCourier(h)
          \/ EraseUser(h) \/ EraseObjects(h) \/ EraseRows(h) \/ LoseSelfieRequest(h)
    BY <1>1 DEF SelfieNext
  <2>2. SelfieStep(h) /\ SelfieAsked(h)' BY <1>i, <2>1, SelfieMove
  <2>3. \A g \in SelfieRequests \ {h} : SelfieAsked(g)' BY <1>i, <2>2, SelfieOthers
  <2>4. OwnSelfie' /\ OneLiveSelfie' BY <1>i, <2>2, SelfieOwnAndLive
  <2>5. OpenGateFits' /\ LiveSelfieFits' BY <1>i, <2>1, <2>2, SelfieGateKept
  <2>6. FacesAreOwed' BY <1>i, <2>1, <2>2, FacesKept
  <2>7. \A g \in SelfieRequests : SelfieAsked(g)' BY <2>2, <2>3
  <2> QED BY <1>t, <2>4, <2>5, <2>6, <2>7 DEF SelfieInv
 <1>2. CASE UNCHANGED selfieVars
   BY <1>2, <1>i, <1>t
      DEF selfieVars, selfieRows, selfieUser, selfieRequest, SelfieInv, SelfieAsked,
          OwnSelfie, OneLiveSelfie, LiveSelfies, OpenGateFits, LiveSelfieFits, FacesAreOwed,
          Erasing, OnTheFace, HasToDelete, Submitting
 <1> QED BY <1>1, <1>2

(* At rest nobody has a step to answer for: the gate and the live selfie
   agree, and every other picture is gone or listed. *)
LEMMA SelfieInvAgrees == SelfieInv => GateAndFaceAgree
 <1> SUFFICES ASSUME SelfieInv PROVE GateAndFaceAgree OBVIOUS
 <1>1. SelfieTypeOK BY DEF SelfieInv, SelfieTyped
 <1>2. ASSUME SelfiesAtRest, ~scrossed
       PROVE  /\ userGate = "ACTIVE" <=> \E s \in Selfies : selfieStatus[s] = "ACTIVE"
              /\ userGate = "ACTIVE" => selfieStatus[userPhoto] = "ACTIVE" /\ selfieObject[userPhoto]
  <2>1. ~Erasing BY <1>2 DEF Erasing, SelfiesAtRest
  <2>2. userGate = "ACTIVE" => userPhoto \in Selfies /\ OnTheFace(userPhoto)
    BY <1>2 DEF SelfieInv, OpenGateFits, SelfiesAtRest
  <2>3. \A s \in Selfies : selfieStatus[s] = "ACTIVE" => userGate = "ACTIVE"
    BY <1>2, <2>1 DEF SelfieInv, LiveSelfieFits, LiveSelfies, SelfiesAtRest
  <2> QED BY <2>2, <2>3 DEF OnTheFace
 <1>3. GateFollowsSelfie BY <1>2 DEF GateFollowsSelfie
 <1>4. NoFaceLeftBehind
   BY DEF SelfieInv, FacesAreOwed, HasToDelete, NoFaceLeftBehind, SelfiesAtRest, Submitting
 <1> QED BY <1>1, <1>3, <1>4 DEF GateAndFaceAgree

(* The courier's gate and her pictures: whatever the order in which selfies
   are taken, revoked and erased (CourierSelfiesService), the gate is open
   exactly over the live selfie and no other face stays in the bucket. *)
THEOREM SelfiesSound == SelfieSpec => []GateAndFaceAgree
 <1> QED BY SelfieInvInit, SelfieInvNext, SelfieInvAgrees, PTL DEF SelfieSpec

-----------------------------------------------------------------------------
(* The migrations. *)
Optional(values) == {{}} \cup {{x} : x \in values}

(* What a document of a migrated collection can be, found, edited or
   rewritten. *)
Orders ==
  [timing : {"on_delivery", "at_final_handover", "on_pickup"}, collected : BOOLEAN,
   ended : {"no", "abandoned", "final"}, back : BOOLEAN, fee : Optional({"taken"}), stale : BOOLEAN]

DocsOf(t) ==
  CASE t = "grants" -> [old : SUBSET {"confirm", "stock"}, grants : Optional(SUBSET {"confirm", "cancel", "stock"})]
    [] t = "legs" -> [both : Optional(BOOLEAN), pickup : Optional(BOOLEAN), delivery : Optional(BOOLEAN)]
    [] t = "host" -> [host : {"old", "new"}, key : {1, 2}]
    [] t = "day" -> [dated : BOOLEAN, window : BOOLEAN]
    [] t = "name" -> [name : {"none", "hers", "derived"}]
    [] t = "capacity" -> [washer : BOOLEAN, asked : Optional({1, 3})]
    [] t = "pin" -> [pin : {"none", "whole", "half"}]
    [] t = "stamp" -> [approved : BOOLEAN, complete : BOOLEAN, stamped : BOOLEAN]
    [] t = "timing" -> Orders
    [] t = "index" -> [named : {"no", "so", "otherwise"}, keyed : BOOLEAN]

(* Permissions that have never been granted by group are held as they were. *)
KeptSoFar(t, meant, v) ==
  Keeps(t, meant, v) /\ (t = "grants" /\ v.grants = {} => meant = HeldNow(v))

(* A run knows what it read, and has before it all there is left to rewrite. *)
RunFits(r) ==
  /\ \A w \in mgtodo[r] :
       \E v \in DocsOf(mgTask) :
         mgsaw[r][w[2]] = {v} /\ (mgTask \notin Rechecks => Matches(mgTask, w[1], v))
  /\ mgpc[r] = "rewrite" =>
       \A d \in MgDocs \ (mgFresh \cup mgCrossed), k \in Statements(mgTask) :
         Matches(mgTask, k, mgDoc[d]) => <<k, d>> \in mgtodo[r]

MgTyped ==
  /\ mgTask \in Tasks
  /\ mgDoc \in [MgDocs -> DocsOf(mgTask)]
  /\ mgMeant = [d \in MgDocs |-> mgMeant[d]]
  /\ mgpc \in [MgRuns -> {"idle", "rewrite"}]
  /\ mgtodo \in [MgRuns -> SUBSET (Statements(mgTask) \X MgDocs)]
  /\ mgsaw \in [MgRuns -> [MgDocs -> SUBSET DocsOf(mgTask)]]
  /\ mgRuns \in 0..MgMostRuns /\ mgEdits \in 0..MgMostEdits
  /\ mgClean \in BOOLEAN /\ mgFresh \subseteq MgDocs /\ mgCrossed \subseteq MgDocs

MgInv ==
  /\ MgTyped
  /\ \A r \in MgRuns : RunFits(r)
  /\ \A d \in MgDocs : KeptSoFar(mgTask, mgMeant[d], mgDoc[d]) \/ d \in mgCrossed
  /\ SecondRunMatchesNothing

(* The operators of the migrations.  Permissions that are held are in groups,
   and expanding them twice adds nothing. *)
LEMMA Expansion ==
  /\ \A s : Expanded(s) \subseteq {"confirm", "cancel", "stock"}
  /\ \A s, x : x \in Expanded(s) <=> \/ x \in {"confirm", "cancel"} /\ s \cap {"confirm", "cancel"} # {}
                                     \/ x = "stock" /\ "stock" \in s
  BY DEF Expanded, Groups

LEMMA HeldIsGrouped ==
  ASSUME NEW v \in DocsOf("grants")
  PROVE  HeldNow(v) \subseteq {"confirm", "cancel", "stock"}
 <1>1. v \in [old : SUBSET {"confirm", "stock"}, grants : Optional(SUBSET {"confirm", "cancel", "stock"})]
   BY DEF DocsOf
 <1>2. v.old \subseteq {"confirm", "stock"} /\ v.grants \in Optional(SUBSET {"confirm", "cancel", "stock"}) BY <1>1
 <1>3. UNION v.grants \subseteq {"confirm", "cancel", "stock"} BY <1>2 DEF Optional
 <1> QED BY <1>2, <1>3 DEF HeldNow, Floor

(* A document says of itself what it says. *)
LEMMA SaysKept ==
  ASSUME NEW t \in Tasks, NEW v \in DocsOf(t),
         t = "timing" => ~Owes(v) \/ v.back \/ v.timing \in Deferred
  PROVE  KeptSoFar(t, Says(t, v), v)
 <1>1. CASE t = "grants"
  <2>1. HeldNow(v) \subseteq {"confirm", "cancel", "stock"} BY <1>1, HeldIsGrouped
  <2>2. HeldNow(v) \subseteq Expanded(HeldNow(v)) BY <2>1, Expansion
  <2> QED BY <1>1, <2>2 DEF KeptSoFar, Keeps, Says
 <1>2. CASE t = "timing"
  <2>1. Says(t, v) <=> Owes(v) BY <1>2 DEF Says
  <2>2. Says(t, v) = Owes(v) BY <1>2 DEF Says
  <2> QED BY <1>2, <2>1, <2>2 DEF KeptSoFar, Keeps
 <1>3. CASE t = "name" BY <1>3 DEF KeptSoFar, Keeps, Says
 <1>4. CASE t \notin {"grants", "timing", "name"} BY <1>4 DEF KeptSoFar, Keeps
 <1> QED BY <1>1, <1>2, <1>3, <1>4

LEMMA FoundFits ==
  ASSUME NEW t \in Tasks, NEW v \in FoundBy(t)
  PROVE  v \in DocsOf(t) /\ KeptSoFar(t, Says(t, v), v)
 <1>1. v \in DocsOf(t)
  <2>1. CASE t = "grants" BY <2>1 DEF FoundBy, DocsOf, Optional
  <2>2. CASE t = "legs" BY <2>2 DEF FoundBy, DocsOf, Optional, Legs
  <2>3. CASE t = "host" BY <2>3 DEF FoundBy, DocsOf
  <2>4. CASE t = "day" BY <2>4 DEF FoundBy, DocsOf
  <2>5. CASE t = "name" BY <2>5 DEF FoundBy, DocsOf
  <2>6. CASE t = "capacity" BY <2>6 DEF FoundBy, DocsOf, Optional
  <2>7. CASE t = "pin" BY <2>7 DEF FoundBy, DocsOf
  <2>8. CASE t = "stamp" BY <2>8 DEF FoundBy, DocsOf
  <2>9. CASE t = "timing" BY <2>9 DEF FoundBy, DocsOf, Orders, Optional
  <2>10. CASE t = "index" BY <2>10 DEF FoundBy, DocsOf
  <2> QED BY <2>1, <2>2, <2>3, <2>4, <2>5, <2>6, <2>7, <2>8, <2>9, <2>10 DEF Tasks
 <1>2. t = "timing" => ~Owes(v) \/ v.timing \in Deferred BY DEF FoundBy, Owes, Deferred
 <1> QED BY <1>1, <1>2, SaysKept

LEMMA EditFits ==
  ASSUME NEW t \in Tasks, NEW v \in DocsOf(t), NEW w \in EditsOf(t, v)
  PROVE  w \in DocsOf(t) /\ KeptSoFar(t, Says(t, w), w)
 <1>1. w \in DocsOf(t) /\ (t = "timing" => ~Owes(w) \/ w.back \/ w.timing \in Deferred)
  <2>1. CASE t = "grants"
   <3>1. v \in [old : SUBSET {"confirm", "stock"}, grants : Optional(SUBSET {"confirm", "cancel", "stock"})]
     BY <2>1 DEF DocsOf
   <3>2. PICK s \in {{}, {"confirm", "cancel"}} : w = [v EXCEPT !.grants = {s}] BY <2>1 DEF EditsOf
   <3>3. {s} \in Optional(SUBSET {"confirm", "cancel", "stock"}) BY DEF Optional
   <3>4. w \in [old : SUBSET {"confirm", "stock"}, grants : Optional(SUBSET {"confirm", "cancel", "stock"})]
     BY <3>1, <3>2, <3>3
   <3> QED BY <2>1, <3>4 DEF DocsOf
  <2>2. CASE t = "legs"
   <3>1. PICK a \in BOOLEAN : w = [both |-> {}, pickup |-> {a}, delivery |-> {~a}] BY <2>2 DEF EditsOf
   <3>2. {} \in Optional(BOOLEAN) /\ {a} \in Optional(BOOLEAN) /\ {~a} \in Optional(BOOLEAN) BY DEF Optional
   <3>3. w \in [both : Optional(BOOLEAN), pickup : Optional(BOOLEAN), delivery : Optional(BOOLEAN)]
     BY <3>1, <3>2
   <3> QED BY <2>2, <3>3 DEF DocsOf
  <2>3. CASE t = "host" BY <2>3 DEF EditsOf, DocsOf
  <2>4. CASE t = "day" BY <2>4 DEF EditsOf, DocsOf
  <2>5. CASE t = "name" BY <2>5 DEF EditsOf, DocsOf
  <2>6. CASE t = "capacity" BY <2>6 DEF EditsOf, DocsOf, Optional
  <2>7. CASE t = "pin" BY <2>7 DEF EditsOf, DocsOf
  <2>8. CASE t = "stamp" BY <2>8 DEF EditsOf, DocsOf
  <2>9. CASE t = "timing"
   <3>1. v \in Orders /\ w \in OrderEdits(v) BY <2>9 DEF DocsOf, EditsOf
   <3>2. \/ w = [v EXCEPT !.timing = "on_pickup", !.collected = TRUE, !.fee = {"taken"}]
         \/ w = [v EXCEPT !.timing = "at_final_handover", !.fee = {"taken"}]
         \/ w = [v EXCEPT !.collected = TRUE, !.fee = {"taken"}]
         \/ \E e \in {"abandoned", "final"} : w = [v EXCEPT !.ended = e]
         \/ w = [v EXCEPT !.ended = "no", !.back = TRUE]
     BY <3>1 DEF OrderEdits
   <3>3. {"taken"} \in Optional({"taken"}) BY DEF Optional
   <3>4. w \in Orders BY <3>1, <3>2, <3>3 DEF Orders
   <3>5. ~Owes(w) \/ w.back \/ w.timing \in Deferred BY <3>1, <3>2 DEF Owes, Deferred, Orders
   <3> QED BY <2>9, <3>4, <3>5 DEF DocsOf
  <2>10. CASE t = "index" BY <2>10 DEF EditsOf, DocsOf
  <2> QED BY <2>1, <2>2, <2>3, <2>4, <2>5, <2>6, <2>7, <2>8, <2>9, <2>10 DEF Tasks
 <1> QED BY <1>1, SaysKept

(* What a migration rewrites keeps its meaning, and is not found again. *)
LEMMA RewriteFits ==
  ASSUME NEW t \in Tasks, NEW k \in Statements(t), NEW v \in DocsOf(t), Matches(t, k, v)
  PROVE  /\ RewriteOf(t, k, v) \in DocsOf(t) /\ ~Matches(t, k, RewriteOf(t, k, v))
         /\ \A j \in Statements(t) : Matches(t, j, RewriteOf(t, k, v)) => Matches(t, j, v)
         /\ \A meant : KeptSoFar(t, meant, v) => KeptSoFar(t, meant, RewriteOf(t, k, v))
 <1> DEFINE is == RewriteOf(t, k, v)
 <1> SUFFICES /\ is \in DocsOf(t) /\ ~Matches(t, k, is)
              /\ t = "timing" => \A j \in Statements(t) : Matches(t, j, is) => Matches(t, j, v)
              /\ \A meant : KeptSoFar(t, meant, v) => KeptSoFar(t, meant, is)
   BY DEF Statements
 <1> HIDE DEF is
 <1>1. CASE t = "grants"
  <2>1. /\ v \in [old : SUBSET {"confirm", "stock"}, grants : Optional(SUBSET {"confirm", "cancel", "stock"})]
        /\ v.grants = {}
    BY <1>1 DEF DocsOf, Matches
  <2>2. is = Backfilled(v) BY <1>1 DEF is, RewriteOf
  <2>3. PICK held : held = v.old \cup Floor OBVIOUS
  <2>4. Backfilled(v) = [v EXCEPT !.grants = {Expanded(held)}] BY <2>3 DEF Backfilled
  <2>5. Expanded(held) \subseteq {"confirm", "cancel", "stock"} /\ held \subseteq {"confirm", "cancel", "stock"}
    BY <2>1, <2>3, Expansion DEF Floor
  <2>6. {Expanded(held)} \in Optional(SUBSET {"confirm", "cancel", "stock"}) BY <2>5 DEF Optional
  <2>7. Backfilled(v) \in [old : SUBSET {"confirm", "stock"}, grants : Optional(SUBSET {"confirm", "cancel", "stock"})]
    BY <2>1, <2>4, <2>6
  <2>8. Backfilled(v).grants = {Expanded(held)} BY <2>1, <2>4
  <2>9. HeldNow(v) = held /\ HeldNow(Backfilled(v)) = Expanded(held) BY <2>1, <2>3, <2>8 DEF HeldNow
  <2>10. held \subseteq Expanded(held) BY <2>5, Expansion
  <2>11. ASSUME NEW meant, KeptSoFar(t, meant, v) PROVE KeptSoFar(t, meant, Backfilled(v))
   <3>1. meant = held BY <2>11, <1>1, <2>1, <2>9 DEF KeptSoFar
   <3> QED BY <3>1, <1>1, <2>8, <2>9, <2>10 DEF KeptSoFar, Keeps
  <2>12. Backfilled(v) \in DocsOf(t) BY <2>7, <1>1 DEF DocsOf
  <2>13. ~Matches(t, k, Backfilled(v)) BY <2>8, <1>1 DEF Matches
  <2> QED BY <1>1, <2>2, <2>11, <2>12, <2>13
 <1>2. CASE t = "legs"
  <2>1. v \in [both : Optional(BOOLEAN), pickup : Optional(BOOLEAN), delivery : Optional(BOOLEAN)] BY <1>2 DEF DocsOf
  <2>2. is = SplitOf(v) BY <1>2 DEF is, RewriteOf
  <2>3. /\ Else(v.pickup, Else(v.both, {TRUE})) \in Optional(BOOLEAN)
        /\ Else(v.delivery, Else(v.both, {TRUE})) \in Optional(BOOLEAN) /\ {} \in Optional(BOOLEAN)
   <3>1. {TRUE} \in Optional(BOOLEAN) /\ {} \in Optional(BOOLEAN) BY DEF Optional
   <3>2. v.pickup \in Optional(BOOLEAN) /\ v.delivery \in Optional(BOOLEAN) /\ v.both \in Optional(BOOLEAN) BY <2>1
   <3> QED BY <3>1, <3>2 DEF Else
  <2>4. SplitOf(v) \in [both : Optional(BOOLEAN), pickup : Optional(BOOLEAN), delivery : Optional(BOOLEAN)]
    BY <2>3 DEF SplitOf
  <2>5. /\ SplitOf(v).both = {} /\ SplitOf(v).pickup = Else(v.pickup, Else(v.both, {TRUE}))
        /\ SplitOf(v).delivery = Else(v.delivery, Else(v.both, {TRUE}))
    BY DEF SplitOf
  <2>6. LegsRead(SplitOf(v)) = LegsRead(v)
   <3>1. Else(Else(SplitOf(v).pickup, SplitOf(v).both), {TRUE}) = Else(Else(v.pickup, v.both), {TRUE})
     BY <2>5 DEF Else
   <3>2. Else(Else(SplitOf(v).delivery, SplitOf(v).both), {TRUE}) = Else(Else(v.delivery, v.both), {TRUE})
     BY <2>5 DEF Else
   <3> QED BY <3>1, <3>2 DEF LegsRead
  <2>7. \A meant : KeptSoFar(t, meant, v) => KeptSoFar(t, meant, SplitOf(v))
    BY <1>2, <2>6 DEF KeptSoFar, Keeps, Says
  <2>8. SplitOf(v) \in DocsOf(t) BY <2>4, <1>2 DEF DocsOf
  <2>9. ~Matches(t, k, SplitOf(v)) BY <2>5, <1>2 DEF Matches
  <2> QED BY <1>2, <2>2, <2>7, <2>8, <2>9
 <1>3. CASE t = "host"
  <2>1. v \in [host : {"old", "new"}, key : {1, 2}] BY <1>3 DEF DocsOf
  <2>2. is = OnHost(v) /\ OnHost(v) = [v EXCEPT !.host = "new"] BY <1>3 DEF is, RewriteOf, OnHost
  <2>3. OnHost(v) \in [host : {"old", "new"}, key : {1, 2}] /\ OnHost(v).host = "new" /\ OnHost(v).key = v.key
    BY <2>1, <2>2
  <2> QED BY <1>3, <2>2, <2>3 DEF DocsOf, Matches, KeptSoFar, Keeps, Says
 <1>4. CASE t = "day"
  <2>1. v \in [dated : BOOLEAN, window : BOOLEAN] /\ v.dated BY <1>4 DEF DocsOf, Matches
  <2>2. is = [v EXCEPT !.window = FALSE] BY <1>4, <2>1 DEF is, RewriteOf, DayOnly
  <2>3. /\ is \in [dated : BOOLEAN, window : BOOLEAN]
        /\ is.window = FALSE /\ is.dated = v.dated
    BY <2>1, <2>2
  <2> QED BY <1>4, <2>3 DEF DocsOf, Matches, KeptSoFar, Keeps, Says
 <1>5. CASE t = "name"
  <2>1. v \in [name : {"none", "hers", "derived"}] /\ v.name = "none" BY <1>5 DEF DocsOf, Matches
  <2>2. is = [v EXCEPT !.name = "derived"] BY <1>5 DEF is, RewriteOf, Named
  <2>3. is \in [name : {"none", "hers", "derived"}] /\ is.name = "derived" BY <2>1, <2>2
  <2> QED BY <1>5, <2>1, <2>3 DEF DocsOf, Matches, KeptSoFar, Keeps
 <1>6. CASE t = "capacity"
  <2>1. v \in [washer : BOOLEAN, asked : Optional({1, 3})] /\ v.washer BY <1>6 DEF DocsOf, Matches
  <2>2. is = [v EXCEPT !.asked = {}] BY <1>6 DEF is, RewriteOf, Uncapped
  <2>3. {} \in Optional({1, 3}) BY DEF Optional
  <2>4. /\ is \in [washer : BOOLEAN, asked : Optional({1, 3})]
        /\ is.asked = {} /\ is.washer = v.washer
    BY <2>1, <2>2, <2>3
  <2> QED BY <1>6, <2>1, <2>4 DEF DocsOf, Matches, KeptSoFar, Keeps, Says
 <1>7. CASE t = "pin"
  <2>1. v \in [pin : {"none", "whole", "half"}] /\ v.pin = "half" BY <1>7 DEF DocsOf, Matches
  <2>2. is = [v EXCEPT !.pin = "none"] BY <1>7 DEF is, RewriteOf, PinCleared
  <2>3. is \in [pin : {"none", "whole", "half"}] /\ is.pin = "none" BY <2>1, <2>2
  <2>4. (v.pin = "whole") = (is.pin = "whole") BY <2>1, <2>3
  <2> QED BY <1>7, <2>3, <2>4 DEF DocsOf, Matches, KeptSoFar, Keeps, Says
 <1>8. CASE t = "stamp"
  <2>1. v \in [approved : BOOLEAN, complete : BOOLEAN, stamped : BOOLEAN] BY <1>8 DEF DocsOf
  <2>2. is = [v EXCEPT !.stamped = TRUE] BY <1>8 DEF is, RewriteOf, Stamped
  <2>3. /\ is \in [approved : BOOLEAN, complete : BOOLEAN, stamped : BOOLEAN]
        /\ is.stamped = TRUE /\ is.approved = v.approved
    BY <2>1, <2>2
  <2> QED BY <1>8, <2>3 DEF DocsOf, Matches, KeptSoFar, Keeps, Says
 <1>9. CASE t = "timing"
  <2>1. k \in 1..4 /\ is = Retimed(k, v) /\ v \in Orders BY <1>9 DEF is, RewriteOf, Statements, DocsOf
  <2>2. is \in Orders /\ is.collected = v.collected /\ is.ended = v.ended /\ is.back = v.back
   <3>1. {"taken"} \in Optional({"taken"}) BY DEF Optional
   <3>2. CASE k = 1 BY <2>1, <3>2 DEF Retimed, Orders
   <3>3. CASE k = 2 BY <2>1, <3>3 DEF Retimed, Orders
   <3>4. CASE k = 3
    <4>1. is = [v EXCEPT !.stale = FALSE] BY <2>1, <3>4 DEF Retimed
    <4>2. PICK paid : paid = Optional({"taken"}) OBVIOUS
    <4>3. /\ v \in [timing : {"on_delivery", "at_final_handover", "on_pickup"}, collected : BOOLEAN,
                   ended : {"no", "abandoned", "final"}, back : BOOLEAN, fee : paid, stale : BOOLEAN]
          /\ Orders = [timing : {"on_delivery", "at_final_handover", "on_pickup"}, collected : BOOLEAN,
                       ended : {"no", "abandoned", "final"}, back : BOOLEAN, fee : paid, stale : BOOLEAN]
      BY <2>1, <4>2 DEF Orders
    <4> QED BY <4>1, <4>3
   <3>5. CASE k = 4
    <4>1. is = [v EXCEPT !.fee = {"taken"}] BY <2>1, <3>5 DEF Retimed
    <4>2. PICK paid : paid = {"taken"} OBVIOUS
    <4>3. paid \in Optional({"taken"}) /\ is = [v EXCEPT !.fee = paid] BY <3>1, <4>1, <4>2
    <4> QED BY <2>1, <4>3 DEF Orders
   <3> QED BY <2>1, <3>2, <3>3, <3>4, <3>5
  <2>3. Owes(is) <=> Owes(v) BY <2>2 DEF Owes
  <2>4. \A j \in 1..4 : Matches(t, j, v) <=>
          \/ j = 1 /\ v.timing = "on_delivery" /\ Owes(v)
          \/ j = 2 /\ v.timing = "on_delivery" /\ ~Owes(v)
          \/ j = 3 /\ v.stale
          \/ j = 4 /\ v.collected /\ v.fee = {}
    BY <1>9 DEF Matches
  <2>5. \A j \in 1..4 : Matches(t, j, is) <=>
          \/ j = 1 /\ is.timing = "on_delivery" /\ Owes(is)
          \/ j = 2 /\ is.timing = "on_delivery" /\ ~Owes(is)
          \/ j = 3 /\ is.stale
          \/ j = 4 /\ is.collected /\ is.fee = {}
    BY <1>9 DEF Matches
  <2>6. /\ k = 1 => is.timing = "at_final_handover" /\ is.stale = v.stale /\ is.fee = v.fee
        /\ k = 2 => is.timing = "on_pickup" /\ is.stale = v.stale /\ is.fee = v.fee
        /\ k = 3 => is.timing = v.timing /\ ~is.stale /\ is.fee = v.fee
        /\ k = 4 => is.timing = v.timing /\ is.stale = v.stale /\ is.fee = {"taken"}
   <3>1. CASE k = 1 BY <2>1, <3>1 DEF Retimed, Orders
   <3>2. CASE k = 2 BY <2>1, <3>2 DEF Retimed, Orders
   <3>3. CASE k = 3 BY <2>1, <3>3 DEF Retimed, Orders
   <3>4. CASE k = 4
    <4>1. is = [v EXCEPT !.fee = {"taken"}] BY <2>1, <3>4 DEF Retimed
    <4>2. PICK paid : paid = {"taken"} OBVIOUS
    <4>3. is = [v EXCEPT !.fee = paid] BY <4>1, <4>2
    <4>4. is.timing = v.timing /\ is.stale = v.stale /\ is.fee = paid BY <2>1, <4>3 DEF Orders
    <4> QED BY <3>4, <4>2, <4>4
   <3> QED BY <2>1, <3>1, <3>2, <3>3, <3>4
  <2>7. ~Matches(t, k, is) BY <2>1, <2>5, <2>6
  <2>8. ASSUME NEW j \in 1..4, Matches(t, j, is) PROVE Matches(t, j, v)
   <3>1. CASE j = 1 BY <2>8, <3>1, <2>1, <2>3, <2>4, <2>5, <2>6
   <3>2. CASE j = 2 BY <2>8, <3>2, <2>1, <2>3, <2>4, <2>5, <2>6
   <3>3. CASE j = 3 BY <2>8, <3>3, <2>1, <2>4, <2>5, <2>6
   <3>4. CASE j = 4
    <4>1. is.collected /\ is.fee = {} /\ is.fee # {"taken"} BY <2>8, <3>4, <2>5
    <4>2. v.collected /\ v.fee = {} BY <4>1, <2>1, <2>2, <2>6
    <4> QED BY <4>2, <3>4, <2>4
   <3> QED BY <3>1, <3>2, <3>3, <3>4
  <2>9. ASSUME NEW meant, KeptSoFar(t, meant, v) PROVE KeptSoFar(t, meant, is)
   <3>1. meant = Owes(v) /\ (Owes(v) => v.back \/ v.timing \in Deferred)
     BY <2>9, <1>9 DEF KeptSoFar, Keeps
   <3>2. Owes(v) => k # 2 BY <2>1, <2>4
   <3>3. Owes(is) => is.back \/ is.timing \in Deferred
     BY <2>1, <2>2, <2>3, <2>6, <3>1, <3>2 DEF Deferred
   <3>4. Owes(is) = Owes(v) BY <2>2 DEF Owes
   <3> QED BY <3>1, <3>3, <3>4, <1>9 DEF KeptSoFar, Keeps
  <2> QED BY <1>9, <2>1, <2>2, <2>7, <2>8, <2>9 DEF DocsOf, Statements
 <1>10. CASE t = "index"
  <2>1. v \in [named : {"no", "so", "otherwise"}, keyed : BOOLEAN] /\ v.named = "no" BY <1>10 DEF DocsOf, Matches
  <2>2. is = [v EXCEPT !.named = "so"] BY <1>10 DEF is, RewriteOf, Indexed
  <2>3. /\ is \in [named : {"no", "so", "otherwise"}, keyed : BOOLEAN]
        /\ is.named = "so" /\ is.keyed = v.keyed
    BY <2>1, <2>2
  <2>4. (v.named = "otherwise") = (is.named = "otherwise") BY <2>1, <2>3
  <2> QED BY <1>10, <2>3, <2>4 DEF DocsOf, Matches, KeptSoFar, Keeps, Says
 <1> QED BY <1>1, <1>2, <1>3, <1>4, <1>5, <1>6, <1>7, <1>8, <1>9, <1>10 DEF Tasks

(* A document has the fields its task found in it. *)
LEMMA FieldsStay ==
  ASSUME NEW t \in Tasks, NEW v \in DocsOf(t)
  PROVE  \E w \in FoundBy(t) : DOMAIN v = DOMAIN w
 <1>1. CASE t = "grants"
  <2>1. [old |-> {}, grants |-> {}] \in FoundBy(t) BY <1>1 DEF FoundBy
  <2> QED BY <1>1, <2>1 DEF DocsOf
 <1>2. CASE t = "legs"
  <2>1. [both |-> {}, pickup |-> {}, delivery |-> {}] \in FoundBy(t) BY <1>2 DEF FoundBy, Legs
  <2> QED BY <1>2, <2>1 DEF DocsOf
 <1>3. CASE t = "host"
  <2>1. [host |-> "old", key |-> 1] \in FoundBy(t) BY <1>3 DEF FoundBy
  <2> QED BY <1>3, <2>1 DEF DocsOf
 <1>4. CASE t = "day"
  <2>1. [dated |-> TRUE, window |-> TRUE] \in FoundBy(t) BY <1>4 DEF FoundBy
  <2> QED BY <1>4, <2>1 DEF DocsOf
 <1>5. CASE t = "name"
  <2>1. [name |-> "none"] \in FoundBy(t) BY <1>5 DEF FoundBy
  <2> QED BY <1>5, <2>1 DEF DocsOf
 <1>6. CASE t = "capacity"
  <2>1. [washer |-> TRUE, asked |-> {}] \in FoundBy(t) BY <1>6 DEF FoundBy
  <2> QED BY <1>6, <2>1 DEF DocsOf
 <1>7. CASE t = "pin"
  <2>1. [pin |-> "none"] \in FoundBy(t) BY <1>7 DEF FoundBy
  <2> QED BY <1>7, <2>1 DEF DocsOf
 <1>8. CASE t = "stamp"
  <2>1. [approved |-> TRUE, complete |-> TRUE, stamped |-> FALSE] \in FoundBy(t) BY <1>8 DEF FoundBy
  <2> QED BY <1>8, <2>1 DEF DocsOf
 <1>9. CASE t = "timing"
  <2>1. [timing |-> "on_delivery", collected |-> TRUE, ended |-> "no", back |-> FALSE, fee |-> {}, stale |-> FALSE]
          \in FoundBy(t)
    BY <1>9 DEF FoundBy
  <2> QED BY <1>9, <2>1 DEF DocsOf, Orders
 <1>10. CASE t = "index"
  <2>1. [named |-> "no", keyed |-> TRUE] \in FoundBy(t) BY <1>10 DEF FoundBy
  <2> QED BY <1>10, <2>1 DEF DocsOf
 <1> QED BY <1>1, <1>2, <1>3, <1>4, <1>5, <1>6, <1>7, <1>8, <1>9, <1>10 DEF Tasks

LEMMA MgInvInit == MgInit => MgInv
 <1> SUFFICES ASSUME MgInit PROVE MgInv OBVIOUS
 <1>1. mgTask \in Tasks /\ mgDoc \in [MgDocs -> FoundBy(mgTask)] BY DEF MgInit
 <1>2. \A d \in MgDocs : mgDoc[d] \in DocsOf(mgTask) /\ KeptSoFar(mgTask, mgMeant[d], mgDoc[d])
  <2> SUFFICES ASSUME NEW d \in MgDocs
               PROVE  mgDoc[d] \in DocsOf(mgTask) /\ KeptSoFar(mgTask, mgMeant[d], mgDoc[d])
    OBVIOUS
  <2>1. mgMeant[d] = Says(mgTask, mgDoc[d]) BY DEF MgInit
  <2> QED BY <1>1, <2>1, FoundFits
 <1>3. MgTyped
  <2>1. mgDoc \in [MgDocs -> DocsOf(mgTask)] BY <1>1, <1>2
  <2>2. mgMeant = [d \in MgDocs |-> mgMeant[d]] BY DEF MgInit
  <2>3. mgRuns \in 0..MgMostRuns /\ mgEdits \in 0..MgMostEdits BY MgAssumption DEF MgInit
  <2>4. mgClean \in BOOLEAN BY DEF MgInit
  <2>5. /\ mgpc \in [MgRuns -> {"idle", "rewrite"}]
        /\ mgtodo \in [MgRuns -> SUBSET (Statements(mgTask) \X MgDocs)]
        /\ mgsaw \in [MgRuns -> [MgDocs -> SUBSET DocsOf(mgTask)]]
        /\ mgFresh \subseteq MgDocs /\ mgCrossed \subseteq MgDocs
    BY DEF MgInit
  <2> QED BY <1>1, <2>1, <2>2, <2>3, <2>4, <2>5 DEF MgTyped
 <1>4. \A r \in MgRuns : RunFits(r) BY DEF MgInit, RunFits
 <1>5. SecondRunMatchesNothing BY DEF MgInit, SecondRunMatchesNothing
 <1> QED BY <1>2, <1>3, <1>4, <1>5 DEF MgInv

(* A run that stands, while no document comes to match that did not or was
   written by the program. *)
LEMMA RunStands ==
  ASSUME NEW r, RunFits(r), mgTask' = mgTask, mgpc'[r] = mgpc[r], mgtodo'[r] = mgtodo[r], mgsaw'[r] = mgsaw[r],
         \A d \in MgDocs \ (mgFresh' \cup mgCrossed') :
           /\ d \notin mgFresh \cup mgCrossed \/ ~Found(mgTask, mgDoc'[d])
           /\ \A k \in Statements(mgTask) : Matches(mgTask, k, mgDoc'[d]) => Matches(mgTask, k, mgDoc[d])
  PROVE  RunFits(r)'
  BY DEF RunFits, Found

LEMMA FindDocumentsKept ==
  ASSUME MgInv, NEW r \in MgRuns, FindDocuments(r)
  PROVE  MgInv'
 <1> DEFINE found == {w \in Statements(mgTask) \X MgDocs : w[2] \in Planned(mgTask, w[1], mgDoc)}
 <1>t. MgTyped BY DEF MgInv
 <1>u. /\ mgpc[r] = "idle" /\ mgRuns < MgMostRuns /\ mgRuns' = mgRuns + 1
       /\ mgtodo' = [mgtodo EXCEPT ![r] = found]
       /\ mgsaw' = [mgsaw EXCEPT ![r] = [d \in MgDocs |-> {mgDoc[d]}]]
       /\ mgpc' = [mgpc EXCEPT ![r] = "rewrite"]
       /\ UNCHANGED <<mgTask, mgDoc, mgMeant, mgEdits, mgClean, mgFresh, mgCrossed>>
   BY DEF FindDocuments, mgStored
 <1>1. /\ found \subseteq Statements(mgTask) \X MgDocs
       /\ \A k \in Statements(mgTask), d \in MgDocs : Matches(mgTask, k, mgDoc[d]) => <<k, d>> \in found
       /\ mgTask \notin Rechecks => \A w \in found : Matches(mgTask, w[1], mgDoc[w[2]])
  <2>1. \A k \in Statements(mgTask), d \in MgDocs :
          Matches(mgTask, k, mgDoc[d]) => d \in Planned(mgTask, k, mgDoc)
    BY DEF Planned
  <2>2. mgTask \notin Rechecks =>
          \A w \in Statements(mgTask) \X MgDocs :
            w[2] \in Planned(mgTask, w[1], mgDoc) => Matches(mgTask, w[1], mgDoc[w[2]])
    BY DEF Planned, AtOnce, Rechecks
  <2> QED BY <2>1, <2>2
 <1> HIDE DEF found
 <1>2. [d \in MgDocs |-> {mgDoc[d]}] \in [MgDocs -> SUBSET DocsOf(mgTask)] BY <1>t DEF MgTyped
 <1>3. MgTyped'
  <2>1. mgRuns' \in 0..MgMostRuns BY <1>u, <1>t, MgAssumption DEF MgTyped
  <2>2. mgsaw' \in [MgRuns -> [MgDocs -> SUBSET DocsOf(mgTask)]] BY <1>u, <1>t, <1>2 DEF MgTyped
  <2>3. mgpc' \in [MgRuns -> {"idle", "rewrite"}] BY <1>u, <1>t DEF MgTyped
  <2>4. mgtodo' \in [MgRuns -> SUBSET (Statements(mgTask) \X MgDocs)] BY <1>u, <1>t, <1>1 DEF MgTyped
  <2> QED BY <2>1, <2>2, <2>3, <2>4, <1>u, <1>t DEF MgTyped
 <1>4. RunFits(r)'
  <2>1. mgpc'[r] = "rewrite" /\ mgtodo'[r] = found BY <1>u, <1>t DEF MgTyped
  <2>2. \A d \in MgDocs : mgsaw'[r][d] = {mgDoc[d]} /\ mgDoc[d] \in DocsOf(mgTask) BY <1>u, <1>t DEF MgTyped
  <2>3. \A w \in found : w[2] \in MgDocs /\ (mgTask \notin Rechecks => Matches(mgTask, w[1], mgDoc[w[2]]))
    BY <1>1
  <2>4. ASSUME NEW w \in found
        PROVE  \E v \in DocsOf(mgTask) :
                 mgsaw'[r][w[2]] = {v} /\ (mgTask \notin Rechecks => Matches(mgTask, w[1], v))
   <3>1. w[2] \in MgDocs /\ (mgTask \notin Rechecks => Matches(mgTask, w[1], mgDoc[w[2]])) BY <2>3, <2>4
   <3> QED BY <2>2, <3>1
  <2> QED BY <2>1, <2>4, <1>1, <1>u DEF RunFits
 <1>5. \A k \in MgRuns : RunFits(k)'
  <2> SUFFICES ASSUME NEW k \in MgRuns, k # r PROVE RunFits(k)' BY <1>4
  <2>1. RunFits(k) /\ mgpc'[k] = mgpc[k] /\ mgtodo'[k] = mgtodo[k] /\ mgsaw'[k] = mgsaw[k]
    BY <1>u, <1>t DEF MgInv, MgTyped
  <2> QED BY <2>1, <1>u, RunStands
 <1>6. /\ \A d \in MgDocs : KeptSoFar(mgTask, mgMeant[d], mgDoc[d])' \/ d \in mgCrossed'
       /\ SecondRunMatchesNothing'
   BY <1>u DEF MgInv, SecondRunMatchesNothing
 <1> QED BY <1>3, <1>5, <1>6 DEF MgInv

(* One document rewritten: by what it is, or by what it was. *)
LEMMA RewriteOneKept ==
  ASSUME MgInv, NEW r \in MgRuns, NEW k \in Statements(mgTask), NEW d \in MgDocs, RewriteOne(r, k, d)
  PROVE  MgInv'
 <1>t. MgTyped BY DEF MgInv
 <1>1. PICK was \in mgsaw[r][d] :
         /\ mgpc[r] = "rewrite" /\ <<k, d>> \in mgtodo[r]
         /\ mgDoc' = [mgDoc EXCEPT ![d] = Written(mgTask, k, was, mgDoc[d])]
         /\ mgCrossed' = IF mgTask \notin Rechecks /\ mgDoc[d] # was THEN mgCrossed \cup {d} ELSE mgCrossed
         /\ mgtodo' = [mgtodo EXCEPT ![r] = mgtodo[r] \ {<<k, d>>}]
         /\ UNCHANGED <<mgTask, mgMeant, mgpc, mgsaw, mgRuns, mgEdits, mgClean, mgFresh>>
   BY DEF RewriteOne
 <1>2. was \in DocsOf(mgTask) /\ (mgTask \notin Rechecks => Matches(mgTask, k, was))
  <2>1. RunFits(r) BY DEF MgInv
  <2>2. PICK w \in mgtodo[r] : w = <<k, d>> BY <1>1
  <2>3. PICK v \in DocsOf(mgTask) :
          mgsaw[r][w[2]] = {v} /\ (mgTask \notin Rechecks => Matches(mgTask, w[1], v))
    BY <2>1 DEF RunFits
  <2>4. w[1] = k /\ w[2] = d BY <2>2
  <2>5. was = v BY <2>3, <2>4, <1>1
  <2> QED BY <2>3, <2>4, <2>5
 <1>3. mgTask \in Tasks /\ mgDoc[d] \in DocsOf(mgTask) BY <1>t DEF MgTyped
 <1>4. PICK is : is = Written(mgTask, k, was, mgDoc[d]) OBVIOUS
 <1>5. /\ is \in DocsOf(mgTask) /\ ~Matches(mgTask, k, is)
       /\ KeptSoFar(mgTask, mgMeant[d], mgDoc[d]) => KeptSoFar(mgTask, mgMeant[d], is) \/ d \in mgCrossed'
       /\ d \in mgCrossed' \/ \A j \in Statements(mgTask) : Matches(mgTask, j, is) => Matches(mgTask, j, mgDoc[d])
  <2>1. CASE mgTask \notin Rechecks
   <3>1. is = RewriteOf(mgTask, k, was) BY <2>1, <1>4 DEF Written
   <3>2. /\ is \in DocsOf(mgTask) /\ ~Matches(mgTask, k, is)
         /\ \A j \in Statements(mgTask) : Matches(mgTask, j, is) => Matches(mgTask, j, was)
         /\ \A meant : KeptSoFar(mgTask, meant, was) => KeptSoFar(mgTask, meant, is)
     BY <3>1, <2>1, <1>2, <1>3, RewriteFits
   <3>3. mgDoc[d] = was \/ d \in mgCrossed' BY <2>1, <1>1
   <3> QED BY <3>2, <3>3
  <2>2. CASE mgTask \in Rechecks /\ Matches(mgTask, k, mgDoc[d])
   <3>1. is = RewriteOf(mgTask, k, mgDoc[d]) BY <2>2, <1>4 DEF Written
   <3> QED BY <3>1, <2>2, <1>3, RewriteFits
  <2>3. CASE mgTask \in Rechecks /\ ~Matches(mgTask, k, mgDoc[d])
   <3>1. is = mgDoc[d] BY <2>3, <1>4 DEF Written
   <3> QED BY <3>1, <2>3, <1>3
  <2> QED BY <2>1, <2>2, <2>3
 <1>6. mgDoc' = [mgDoc EXCEPT ![d] = is] /\ mgDoc'[d] = is /\ (\A e \in MgDocs : e # d => mgDoc'[e] = mgDoc[e])
   BY <1>1, <1>4, <1>t DEF MgTyped
 <1>7. mgCrossed \subseteq mgCrossed' /\ mgCrossed' \subseteq MgDocs BY <1>1, <1>t DEF MgTyped
 <1>8. MgTyped'
  <2>1. mgDoc' \in [MgDocs -> DocsOf(mgTask)] BY <1>5, <1>6, <1>t DEF MgTyped
  <2>2. mgtodo' \in [MgRuns -> SUBSET (Statements(mgTask) \X MgDocs)]
   <3>1. mgtodo \in [MgRuns -> SUBSET (Statements(mgTask) \X MgDocs)] BY <1>t DEF MgTyped
   <3>2. mgtodo[r] \ {<<k, d>>} \in SUBSET (Statements(mgTask) \X MgDocs) BY <3>1
   <3> QED BY <3>1, <3>2, <1>1
  <2> QED BY <2>1, <2>2, <1>1, <1>7, <1>t DEF MgTyped
 <1>9. ASSUME NEW e \in MgDocs \ (mgFresh' \cup mgCrossed')
       PROVE  /\ e \notin mgFresh \cup mgCrossed
              /\ \A j \in Statements(mgTask) : Matches(mgTask, j, mgDoc'[e]) => Matches(mgTask, j, mgDoc[e])
  <2>1. e \notin mgFresh \cup mgCrossed BY <1>9, <1>1, <1>7
  <2>2. CASE e = d BY <2>1, <2>2, <1>9, <1>5, <1>6
  <2>3. CASE e # d BY <2>1, <2>3, <1>6
  <2> QED BY <2>2, <2>3
 <1>10. \A q \in MgRuns : RunFits(q)'
  <2> SUFFICES ASSUME NEW q \in MgRuns PROVE RunFits(q)' OBVIOUS
  <2>1. RunFits(q) /\ mgpc'[q] = mgpc[q] /\ mgsaw'[q] = mgsaw[q] BY <1>1 DEF MgInv
  <2>2. CASE q # r
   <3>1. mgtodo'[q] = mgtodo[q] BY <2>2, <1>1, <1>t DEF MgTyped
   <3> QED BY <3>1, <2>1, <1>1, <1>9, RunStands
  <2>3. CASE q = r
   <3>1. mgtodo'[q] = mgtodo[q] \ {<<k, d>>} BY <2>3, <1>1, <1>t DEF MgTyped
   <3>2. \A w \in mgtodo'[q] :
           \E v \in DocsOf(mgTask) :
             mgsaw'[q][w[2]] = {v} /\ (mgTask \notin Rechecks => Matches(mgTask, w[1], v))
     BY <3>1, <2>1 DEF RunFits
   <3>3. ASSUME NEW e \in MgDocs \ (mgFresh' \cup mgCrossed'), NEW j \in Statements(mgTask),
                Matches(mgTask, j, mgDoc'[e]), mgpc[q] = "rewrite"
         PROVE  <<j, e>> \in mgtodo'[q]
    <4>1. e \notin mgFresh \cup mgCrossed /\ Matches(mgTask, j, mgDoc[e]) BY <3>3, <1>9
    <4>2. <<j, e>> \in mgtodo[q] BY <4>1, <3>3, <2>1 DEF RunFits
    <4>3. <<j, e>> # <<k, d>>
     <5>1. ~(j = k /\ e = d) BY <3>3, <1>5, <1>6
     <5> QED BY <5>1
    <4> QED BY <3>1, <4>2, <4>3
   <3> QED BY <3>2, <3>3, <2>1, <1>1 DEF RunFits
  <2> QED BY <2>2, <2>3
 <1>11. \A e \in MgDocs : KeptSoFar(mgTask, mgMeant[e], mgDoc[e])' \/ e \in mgCrossed'
  <2> SUFFICES ASSUME NEW e \in MgDocs, e \notin mgCrossed' PROVE KeptSoFar(mgTask', mgMeant'[e], mgDoc'[e])
    BY DEF KeptSoFar, Keeps, Says
  <2>1. KeptSoFar(mgTask, mgMeant[e], mgDoc[e]) BY <1>7 DEF MgInv
  <2>2. mgTask' = mgTask /\ mgMeant'[e] = mgMeant[e] BY <1>1
  <2> QED BY <2>1, <2>2, <1>5, <1>6
 <1>12. SecondRunMatchesNothing' BY <1>1, <1>9 DEF MgInv, SecondRunMatchesNothing, Found
 <1> QED BY <1>8, <1>10, <1>11, <1>12 DEF MgInv

(* A run that ends has nothing left before it, one that is stopped says
   nothing. *)
LEMMA RunEndsKept ==
  ASSUME MgInv, NEW r \in MgRuns, FinishRun(r) \/ StopRun(r)
  PROVE  MgInv'
 <1>t. MgTyped BY DEF MgInv
 <1>u. /\ mgpc[r] = "rewrite" /\ mgpc' = [mgpc EXCEPT ![r] = "idle"]
       /\ mgsaw' = [mgsaw EXCEPT ![r] = [d \in MgDocs |-> {}]]
       /\ UNCHANGED <<mgTask, mgDoc, mgMeant, mgRuns, mgEdits, mgFresh, mgCrossed>>
       /\ \/ mgtodo[r] = {} /\ mgtodo' = mgtodo /\ mgClean' = TRUE
          \/ mgtodo' = [mgtodo EXCEPT ![r] = {}] /\ mgClean' = mgClean
   BY DEF FinishRun, StopRun, mgStored
 <1>1. /\ mgpc'[r] = "idle" /\ mgtodo'[r] = {}
       /\ \A k \in MgRuns : k # r => mgpc'[k] = mgpc[k] /\ mgtodo'[k] = mgtodo[k] /\ mgsaw'[k] = mgsaw[k]
   BY <1>u, <1>t DEF MgTyped
 <1>2. MgTyped'
  <2>1. [d \in MgDocs |-> {}] \in [MgDocs -> SUBSET DocsOf(mgTask)] OBVIOUS
  <2>2. mgsaw' \in [MgRuns -> [MgDocs -> SUBSET DocsOf(mgTask)]] BY <2>1, <1>u, <1>t DEF MgTyped
  <2>3. /\ mgpc' \in [MgRuns -> {"idle", "rewrite"}]
        /\ mgtodo' \in [MgRuns -> SUBSET (Statements(mgTask) \X MgDocs)]
    BY <1>u, <1>t DEF MgTyped
  <2>4. mgClean' \in BOOLEAN BY <1>u, <1>t DEF MgTyped
  <2> QED BY <2>2, <2>3, <2>4, <1>u, <1>t DEF MgTyped
 <1>3. \A k \in MgRuns : RunFits(k)'
  <2> SUFFICES ASSUME NEW k \in MgRuns PROVE RunFits(k)' OBVIOUS
  <2>1. CASE k = r BY <2>1, <1>1 DEF RunFits
  <2>2. CASE k # r
   <3>1. RunFits(k) BY DEF MgInv
   <3> QED BY <3>1, <2>2, <1>1, <1>u, RunStands
  <2> QED BY <2>1, <2>2
 <1>4. \A d \in MgDocs : KeptSoFar(mgTask, mgMeant[d], mgDoc[d])' \/ d \in mgCrossed' BY <1>u DEF MgInv
 <1>5. SecondRunMatchesNothing'
  <2>1. RunFits(r) BY DEF MgInv
  <2>2. CASE mgtodo[r] = {} /\ mgtodo' = mgtodo /\ mgClean' = TRUE
   <3>1. \A d \in MgDocs \ (mgFresh \cup mgCrossed) : ~Found(mgTask, mgDoc[d])
     BY <2>1, <2>2, <1>u DEF RunFits, Found
   <3> QED BY <3>1, <1>u DEF SecondRunMatchesNothing
  <2>3. CASE mgClean' = mgClean BY <2>3, <1>u DEF MgInv, SecondRunMatchesNothing
  <2> QED BY <2>2, <2>3, <1>u
 <1> QED BY <1>2, <1>3, <1>4, <1>5 DEF MgInv

LEMMA ProgramWritesKept ==
  ASSUME MgInv, NEW d \in MgDocs, NEW v \in EditsOf(mgTask, mgDoc[d]), ProgramWrites(d, v)
  PROVE  MgInv'
 <1>t. MgTyped BY DEF MgInv
 <1>u. /\ mgEdits < MgMostEdits /\ mgEdits' = mgEdits + 1
       /\ mgDoc' = [mgDoc EXCEPT ![d] = v]
       /\ mgMeant' = [mgMeant EXCEPT ![d] = Says(mgTask, v)]
       /\ mgFresh' = IF Found(mgTask, v) THEN mgFresh \cup {d} ELSE mgFresh
       /\ UNCHANGED <<mgTask, mgpc, mgtodo, mgsaw, mgRuns, mgClean, mgCrossed>>
   BY DEF ProgramWrites, mgRun
 <1>1. v \in DocsOf(mgTask) /\ KeptSoFar(mgTask, Says(mgTask, v), v)
  <2>1. mgTask \in Tasks /\ mgDoc[d] \in DocsOf(mgTask) BY <1>t DEF MgTyped
  <2> QED BY <2>1, EditFits
 <1>2. /\ mgDoc'[d] = v /\ \A e \in MgDocs : e # d => mgDoc'[e] = mgDoc[e]
       /\ mgMeant'[d] = Says(mgTask, v) /\ \A e \in MgDocs : e # d => mgMeant'[e] = mgMeant[e]
  <2>1. mgMeant = [e \in MgDocs |-> mgMeant[e]] BY <1>t DEF MgTyped
  <2>2. mgMeant'[d] = Says(mgTask, v) /\ \A e \in MgDocs : e # d => mgMeant'[e] = mgMeant[e] BY <1>u, <2>1
  <2>3. mgDoc'[d] = v /\ \A e \in MgDocs : e # d => mgDoc'[e] = mgDoc[e] BY <1>u, <1>t DEF MgTyped
  <2> QED BY <2>2, <2>3
 <1>3. MgTyped'
  <2>1. mgDoc' \in [MgDocs -> DocsOf(mgTask)] BY <1>1, <1>u, <1>t DEF MgTyped
  <2>2. mgMeant' = [e \in MgDocs |-> mgMeant'[e]]
   <3>1. mgMeant = [e \in MgDocs |-> mgMeant[e]] BY <1>t DEF MgTyped
   <3>2. DOMAIN mgMeant' = MgDocs BY <3>1, <1>u
   <3> QED BY <3>2, <3>1, <1>u
  <2>3. mgEdits' \in 0..MgMostEdits BY <1>u, <1>t, MgAssumption DEF MgTyped
  <2>4. mgFresh' \subseteq MgDocs BY <1>u, <1>t DEF MgTyped
  <2> QED BY <2>1, <2>2, <2>3, <2>4, <1>u, <1>t DEF MgTyped
 <1>4. ASSUME NEW e \in MgDocs \ (mgFresh' \cup mgCrossed')
       PROVE  /\ e \notin mgFresh \cup mgCrossed \/ ~Found(mgTask, mgDoc'[e])
              /\ \A j \in Statements(mgTask) : Matches(mgTask, j, mgDoc'[e]) => Matches(mgTask, j, mgDoc[e])
   BY <1>4, <1>u, <1>2 DEF Found
 <1>5. \A k \in MgRuns : RunFits(k)'
  <2> SUFFICES ASSUME NEW k \in MgRuns PROVE RunFits(k)' OBVIOUS
  <2>1. RunFits(k) BY DEF MgInv
  <2> QED BY <2>1, <1>4, <1>u, RunStands
 <1>6. \A e \in MgDocs : KeptSoFar(mgTask, mgMeant[e], mgDoc[e])' \/ e \in mgCrossed'
  <2> SUFFICES ASSUME NEW e \in MgDocs, e \notin mgCrossed' PROVE KeptSoFar(mgTask', mgMeant'[e], mgDoc'[e])
    BY DEF KeptSoFar, Keeps, Says
  <2>1. KeptSoFar(mgTask, mgMeant[e], mgDoc[e]) BY <1>u DEF MgInv
  <2> QED BY <2>1, <1>1, <1>2, <1>u
 <1>7. SecondRunMatchesNothing' BY <1>u, <1>4 DEF MgInv, SecondRunMatchesNothing, Found
 <1> QED BY <1>3, <1>5, <1>6, <1>7 DEF MgInv

LEMMA MgInvNext == MgInv /\ [MgNext]_mgVars => MgInv'
 <1> SUFFICES ASSUME MgInv, [MgNext]_mgVars PROVE MgInv' OBVIOUS
 <1>1. CASE UNCHANGED mgVars
  <2>1. UNCHANGED <<mgTask, mgDoc, mgMeant, mgpc, mgtodo, mgsaw, mgRuns, mgEdits, mgClean, mgFresh, mgCrossed>>
    BY <1>1 DEF mgVars, mgStored, mgRun
  <2>2. MgTyped' BY <2>1 DEF MgInv, MgTyped
  <2>3. \A r \in MgRuns : RunFits(r)' BY <2>1 DEF MgInv, RunFits
  <2>4. \A d \in MgDocs : KeptSoFar(mgTask, mgMeant[d], mgDoc[d])' \/ d \in mgCrossed' BY <2>1 DEF MgInv
  <2>5. SecondRunMatchesNothing' BY <2>1 DEF MgInv, SecondRunMatchesNothing
  <2> QED BY <2>2, <2>3, <2>4, <2>5 DEF MgInv
 <1>2. CASE MgNext
  <2>1. ASSUME NEW r \in MgRuns, FindDocuments(r) \/ FinishRun(r) \/ StopRun(r) PROVE MgInv'
    BY <2>1, FindDocumentsKept, RunEndsKept
  <2>2. ASSUME NEW r \in MgRuns, NEW k \in Statements(mgTask), NEW d \in MgDocs, RewriteOne(r, k, d) PROVE MgInv'
    BY <2>2, RewriteOneKept
  <2>3. ASSUME NEW d \in MgDocs, NEW v \in EditsOf(mgTask, mgDoc[d]), ProgramWrites(d, v) PROVE MgInv'
    BY <2>3, ProgramWritesKept
  <2> QED BY <1>2, <2>1, <2>2, <2>3 DEF MgNext
 <1> QED BY <1>1, <1>2

LEMMA MgInvSays == MgInv => MgTypeOK /\ MigrationKeepsMeaning /\ SecondRunMatchesNothing
 <1> SUFFICES ASSUME MgInv PROVE MgTypeOK /\ MigrationKeepsMeaning BY DEF MgInv
 <1>1. MgTyped BY DEF MgInv
 <1>2. \A d \in MgDocs : \E v \in FoundBy(mgTask) : DOMAIN mgDoc[d] = DOMAIN v
  <2> SUFFICES ASSUME NEW d \in MgDocs PROVE \E v \in FoundBy(mgTask) : DOMAIN mgDoc[d] = DOMAIN v OBVIOUS
  <2>1. mgTask \in Tasks /\ mgDoc[d] \in DocsOf(mgTask) BY <1>1 DEF MgTyped
  <2> QED BY <2>1, FieldsStay
 <1>3. \A r \in MgRuns : \A w \in mgtodo[r] : Cardinality(mgsaw[r][w[2]]) = 1
  <2> SUFFICES ASSUME NEW r \in MgRuns, NEW w \in mgtodo[r] PROVE Cardinality(mgsaw[r][w[2]]) = 1 OBVIOUS
  <2>1. RunFits(r) BY DEF MgInv
  <2>2. PICK v : mgsaw[r][w[2]] = {v} BY <2>1 DEF RunFits
  <2> QED BY <2>2, FS_Singleton
 <1>4. MgTypeOK BY <1>1, <1>2, <1>3 DEF MgTyped, MgTypeOK
 <1>5. MigrationKeepsMeaning
  <2> SUFFICES ASSUME NEW d \in MgDocs, d \notin mgCrossed PROVE Keeps(mgTask, mgMeant[d], mgDoc[d])
    BY DEF MigrationKeepsMeaning
  <2>1. KeptSoFar(mgTask, mgMeant[d], mgDoc[d]) BY DEF MgInv
  <2> QED BY <2>1 DEF KeptSoFar
 <1> QED BY <1>4, <1>5

(* The evidence that is moved.  A run counts an address once, so the runs
   begun bound how often one is listed. *)
StillWith(f) == {r \in EmRuns : f \in emtodo[r] \cup emcopied[r]}

EmTyped ==
  /\ emPublic \subseteq EmFiles /\ emRetired \subseteq EmFiles
  /\ emKeys \in [EmFiles -> Nat]
  /\ empc \in [EmRuns -> {"idle", "copy", "retire"}]
  /\ emtodo \in [EmRuns -> SUBSET EmFiles]
  /\ emcopied \in [EmRuns -> SUBSET EmFiles]
  /\ emSent \subseteq EmFiles
  /\ emRuns \in 0..EmMostRuns /\ emWrites \in 0..EmMostWrites
  /\ emCurrent \subseteq EmFiles /\ emCrossed \in BOOLEAN

ListedOnce(f) ==
  /\ Cardinality(StillWith(f)) <= emRuns
  /\ emKeys[f] + Cardinality(StillWith(f)) <= emRuns + 1

MoveFits(r) ==
  /\ empc[r] = "idle" => emtodo[r] = {}
  /\ empc[r] # "retire" => emcopied[r] = {}
  /\ emtodo[r] \cap emcopied[r] = {}

EmInv ==
  /\ EmTyped
  /\ \A r \in EmRuns : MoveFits(r)
  /\ \A f \in EmFiles : ListedOnce(f)
  /\ EvidenceStaysReachable /\ OnlyCurrentIsShown

LEMMA Counted ==
  ASSUME NEW f, NEW S, S \subseteq StillWith(f)
  PROVE  /\ IsFiniteSet(S) /\ Cardinality(S) \in Nat /\ Cardinality(S) <= Cardinality(StillWith(f))
         /\ Cardinality(StillWith(f)) \in Nat
         /\ \A r : r \in StillWith(f) \ S => Cardinality(S) + 1 <= Cardinality(StillWith(f))
         /\ \A r \in EmRuns : Cardinality(S \cup {r}) \in Nat /\ Cardinality(S \cup {r}) <= Cardinality(StillWith(f)) + 1
 <1>1. IsFiniteSet(StillWith(f))
  <2>1. StillWith(f) \subseteq EmRuns BY DEF StillWith
  <2> QED BY <2>1, EmAssumption, FS_Subset
 <1>2. IsFiniteSet(S) /\ Cardinality(S) <= Cardinality(StillWith(f)) BY <1>1, FS_Subset
 <1>3. Cardinality(S) \in Nat /\ Cardinality(StillWith(f)) \in Nat BY <1>1, <1>2, FS_CardinalityType
 <1>4. ASSUME NEW r, r \in StillWith(f) \ S PROVE Cardinality(S) + 1 <= Cardinality(StillWith(f))
  <2>1. Cardinality(S \cup {r}) = Cardinality(S) + 1 BY <1>2, <1>4, FS_AddElement
  <2>2. Cardinality(S \cup {r}) <= Cardinality(StillWith(f))
   <3>1. S \cup {r} \subseteq StillWith(f) BY <1>4
   <3> QED BY <3>1, <1>1, FS_Subset
  <2> QED BY <2>1, <2>2
 <1>5. ASSUME NEW r \in EmRuns
       PROVE  Cardinality(S \cup {r}) \in Nat /\ Cardinality(S \cup {r}) <= Cardinality(StillWith(f)) + 1
  <2>1. Cardinality(S \cup {r}) = IF r \in S THEN Cardinality(S) ELSE Cardinality(S) + 1 BY <1>2, FS_AddElement
  <2> QED BY <2>1, <1>2, <1>3
 <1> QED BY <1>2, <1>3, <1>4, <1>5

LEMMA EmInvInit == EmInit => EmInv
 <1> SUFFICES ASSUME EmInit PROVE EmInv OBVIOUS
 <1>1. EmTyped
  <2>1. emRuns \in 0..EmMostRuns /\ emWrites \in 0..EmMostWrites BY EmAssumption DEF EmInit
  <2>2. emCrossed \in BOOLEAN BY DEF EmInit
  <2> QED BY <2>1, <2>2 DEF EmInit, EmTyped
 <1>2. \A r \in EmRuns : MoveFits(r) BY DEF EmInit, MoveFits
 <1>3. \A f \in EmFiles : ListedOnce(f)
  <2> SUFFICES ASSUME NEW f \in EmFiles PROVE ListedOnce(f) OBVIOUS
  <2>1. StillWith(f) = {} BY DEF EmInit, StillWith
  <2>2. Cardinality(StillWith(f)) = 0 BY <2>1, FS_EmptySet
  <2> QED BY <2>2 DEF ListedOnce, EmInit
 <1>4. EvidenceStaysReachable /\ OnlyCurrentIsShown
   BY DEF EmInit, EvidenceStaysReachable, OnlyCurrentIsShown, Shown
 <1> QED BY <1>1, <1>2, <1>3, <1>4 DEF EmInv

(* A step that gives no run an address it had not. *)
LEMMA NoneGained ==
  ASSUME EmInv, NEW f \in EmFiles, StillWith(f)' \subseteq StillWith(f), emRuns' = emRuns,
         emKeys'[f] \in Nat, emKeys'[f] <= 1 \/ emKeys'[f] <= emKeys[f]
           \/ (emKeys'[f] = emKeys[f] + 1 /\ \E r : r \in StillWith(f) \ StillWith(f)')
  PROVE  ListedOnce(f)'
 <1>0. PICK S : S = StillWith(f)' OBVIOUS
 <1>1. /\ Cardinality(S) \in Nat /\ Cardinality(S) <= Cardinality(StillWith(f)) /\ Cardinality(StillWith(f)) \in Nat
       /\ \A r : r \in StillWith(f) \ S => Cardinality(S) + 1 <= Cardinality(StillWith(f))
   BY <1>0, Counted
 <1>2. PICK n \in Nat : n = Cardinality(S) BY <1>1
 <1>3. PICK m \in Nat : m = Cardinality(StillWith(f)) BY <1>1
 <1>4. PICK k \in Nat : k = emKeys'[f] OBVIOUS
 <1>5. PICK j \in Nat : j = emKeys[f] BY DEF EmInv, EmTyped
 <1>6. PICK q \in Nat : q = emRuns BY DEF EmInv, EmTyped
 <1>7. m <= q /\ j + m <= q + 1 BY <1>3, <1>5, <1>6 DEF EmInv, ListedOnce
 <1>8. n <= m /\ (k <= 1 \/ k <= j \/ (k = j + 1 /\ n + 1 <= m)) BY <1>0, <1>1, <1>2, <1>3, <1>4, <1>5
 <1>9. n <= q /\ k + n <= q + 1 BY <1>7, <1>8
 <1> QED BY <1>0, <1>2, <1>4, <1>6, <1>9 DEF ListedOnce

LEMMA FindProofsKept ==
  ASSUME EmInv, NEW r \in EmRuns, FindProofs(r)
  PROVE  EmInv'
 <1>t. EmTyped BY DEF EmInv
 <1>u. /\ empc[r] = "idle" /\ emRuns < EmMostRuns /\ emRuns' = emRuns + 1
       /\ empc' = [empc EXCEPT ![r] = "copy"] /\ emtodo' = [emtodo EXCEPT ![r] = emPublic]
       /\ UNCHANGED <<emPublic, emKeys, emRetired, emcopied, emSent, emWrites, emCurrent, emCrossed>>
   BY DEF FindProofs, emProfile
 <1>1. EmTyped'
  <2>1. emRuns' \in 0..EmMostRuns BY <1>u, <1>t, EmAssumption DEF EmTyped
  <2> QED BY <2>1, <1>u, <1>t DEF EmTyped
 <1>2. /\ empc'[r] = "copy" /\ emtodo'[r] = emPublic
       /\ \A k \in EmRuns : k # r => empc'[k] = empc[k] /\ emtodo'[k] = emtodo[k]
   BY <1>u, <1>t DEF EmTyped
 <1>3. \A k \in EmRuns : MoveFits(k)' BY <1>u, <1>2 DEF EmInv, MoveFits
 <1>4. ASSUME NEW f \in EmFiles PROVE ListedOnce(f)'
  <2>1. StillWith(f)' \subseteq StillWith(f) \cup {r} BY <1>u, <1>2 DEF StillWith
  <2>2. PICK n \in Nat : n = Cardinality(StillWith(f)')
      /\ n <= Cardinality(StillWith(f)) + 1 /\ Cardinality(StillWith(f)) \in Nat
   <3>0. PICK S : S = StillWith(f)' OBVIOUS
   <3>1. CASE S \subseteq StillWith(f)
    <4>1. Cardinality(S) \in Nat /\ Cardinality(S) <= Cardinality(StillWith(f)) /\ Cardinality(StillWith(f)) \in Nat
      BY <3>1, Counted
    <4> QED BY <4>1, <3>0
   <3>2. CASE ~(S \subseteq StillWith(f))
    <4>1. S = (S \ {r}) \cup {r} /\ S \ {r} \subseteq StillWith(f) BY <3>2, <3>0, <2>1
    <4>2. \A T : T \subseteq StillWith(f) =>
            /\ Cardinality(T \cup {r}) \in Nat /\ Cardinality(T \cup {r}) <= Cardinality(StillWith(f)) + 1
            /\ Cardinality(T) <= Cardinality(StillWith(f)) /\ Cardinality(StillWith(f)) \in Nat
      BY Counted
    <4>3. /\ Cardinality((S \ {r}) \cup {r}) \in Nat /\ Cardinality((S \ {r}) \cup {r}) <= Cardinality(StillWith(f)) + 1
          /\ Cardinality(StillWith(f)) \in Nat
      BY <4>1, <4>2
    <4>4. Cardinality(S) \in Nat /\ Cardinality(S) <= Cardinality(StillWith(f)) + 1 BY <4>1, <4>3
    <4> QED BY <4>3, <4>4, <3>0
   <3> QED BY <3>1, <3>2
  <2>3. PICK m \in Nat : m = Cardinality(StillWith(f)) BY <2>2
  <2>4. PICK q \in Nat : q = emRuns BY <1>t DEF EmTyped
  <2>5. PICK j \in Nat : j = emKeys[f] BY <1>t DEF EmTyped
  <2>6. m <= q /\ j + m <= q + 1 BY <2>3, <2>4, <2>5 DEF EmInv, ListedOnce
  <2>7. n <= m + 1 BY <2>2, <2>3
  <2>8. n <= q + 1 /\ j + n <= q + 2 BY <2>6, <2>7
  <2>9. emRuns' = q + 1 /\ emKeys'[f] = j BY <1>u, <2>4, <2>5
  <2>10. n <= emRuns' /\ emKeys'[f] + n <= emRuns' + 1 BY <2>8, <2>9
  <2> QED BY <2>2, <2>10 DEF ListedOnce
 <1>5. EvidenceStaysReachable' /\ OnlyCurrentIsShown'
   BY <1>u DEF EmInv, EvidenceStaysReachable, OnlyCurrentIsShown, Shown
 <1> QED BY <1>1, <1>3, <1>4, <1>5 DEF EmInv

LEMMA CopyOrEndKept ==
  ASSUME EmInv, NEW r \in EmRuns, NEW g \in EmFiles, NEW works \in BOOLEAN, CopyProof(r, g, works) \/ EndMove(r)
  PROVE  EmInv'
 <1>t. EmTyped /\ MoveFits(r) BY DEF EmInv
 <1>u. UNCHANGED <<emPublic, emKeys, emRetired, emSent, emRuns, emWrites, emCurrent, emCrossed>>
   BY DEF CopyProof, EndMove, emProfile
 <1>1. /\ EmTyped'
       /\ MoveFits(r)' /\ emtodo'[r] \cup emcopied'[r] \subseteq emtodo[r] \cup emcopied[r]
       /\ \A k \in EmRuns : k # r => empc'[k] = empc[k] /\ emtodo'[k] = emtodo[k] /\ emcopied'[k] = emcopied[k]
  <2>1. CASE CopyProof(r, g, works)
   <3>1. /\ empc[r] = "copy" /\ g \in emtodo[r] /\ emtodo' = [emtodo EXCEPT ![r] = emtodo[r] \ {g}]
         /\ \/ empc' = [empc EXCEPT ![r] = "retire"] /\ emcopied' = [emcopied EXCEPT ![r] = {g}]
            \/ empc' = empc /\ emcopied' = emcopied
     BY <2>1 DEF CopyProof
   <3>2. EmTyped' BY <3>1, <1>u, <1>t DEF EmTyped
   <3> QED BY <3>1, <3>2, <1>t DEF EmTyped, MoveFits
  <2>2. CASE EndMove(r)
   <3>1. /\ empc' = [empc EXCEPT ![r] = "idle"]
         /\ emtodo' = [emtodo EXCEPT ![r] = {}] /\ emcopied' = [emcopied EXCEPT ![r] = {}]
     BY <2>2 DEF EndMove
   <3>2. EmTyped' BY <3>1, <1>u, <1>t DEF EmTyped
   <3> QED BY <3>1, <3>2, <1>t DEF EmTyped, MoveFits
  <2> QED BY <2>1, <2>2
 <1>2. \A k \in EmRuns : MoveFits(k)'
  <2> SUFFICES ASSUME NEW k \in EmRuns, k # r PROVE MoveFits(k)' BY <1>1
  <2>1. MoveFits(k) BY DEF EmInv
  <2> QED BY <2>1, <1>1 DEF MoveFits
 <1>3. ASSUME NEW f \in EmFiles PROVE ListedOnce(f)'
  <2>1. StillWith(f)' \subseteq StillWith(f) BY <1>1 DEF StillWith
  <2>2. emKeys'[f] \in Nat /\ emKeys'[f] <= emKeys[f] BY <1>u, <1>t DEF EmTyped
  <2> QED BY <2>1, <2>2, <1>u, NoneGained
 <1>4. EvidenceStaysReachable' /\ OnlyCurrentIsShown'
   BY <1>u DEF EmInv, EvidenceStaysReachable, OnlyCurrentIsShown, Shown
 <1> QED BY <1>1, <1>2, <1>3, <1>4 DEF EmInv

(* The update moves the address and lists the copy at once. *)
LEMMA RetireProofKept ==
  ASSUME EmInv, NEW r \in EmRuns, RetireProof(r)
  PROVE  EmInv'
 <1>t. EmTyped /\ MoveFits(r) BY DEF EmInv
 <1>0. PICK moved \in SUBSET EmFiles : moved = emcopied[r] BY <1>t DEF EmTyped
 <1>u. /\ empc[r] = "retire"
       /\ emPublic' = emPublic \ moved /\ emRetired' = emRetired \cup moved
       /\ emKeys' = [f \in EmFiles |-> IF f \in moved THEN emKeys[f] + 1 ELSE emKeys[f]]
       /\ emCrossed' = (emCrossed \/ ~(moved \subseteq emPublic))
       /\ empc' = [empc EXCEPT ![r] = "copy"] /\ emcopied' = [emcopied EXCEPT ![r] = {}]
       /\ UNCHANGED <<emtodo, emSent, emRuns, emWrites, emCurrent>>
   BY <1>0 DEF RetireProof
 <1>1. EmTyped'
  <2>1. emKeys' \in [EmFiles -> Nat] BY <1>u, <1>t DEF EmTyped
  <2>2. emCrossed' \in BOOLEAN BY <1>u, <1>t DEF EmTyped
  <2> QED BY <2>1, <2>2, <1>u, <1>t DEF EmTyped
 <1>2. /\ empc'[r] = "copy" /\ emcopied'[r] = {}
       /\ \A k \in EmRuns : k # r => empc'[k] = empc[k] /\ emcopied'[k] = emcopied[k]
   BY <1>u, <1>t DEF EmTyped
 <1>3. \A k \in EmRuns : MoveFits(k)' BY <1>u, <1>2 DEF EmInv, MoveFits
 <1>4. ASSUME NEW f \in EmFiles PROVE ListedOnce(f)'
  <2>1. StillWith(f)' \subseteq StillWith(f) BY <1>u, <1>2 DEF StillWith
  <2>2. f \in moved => r \in StillWith(f) \ StillWith(f)' BY <1>0, <1>u, <1>2, <1>t DEF StillWith, MoveFits
  <2>3. emKeys'[f] \in Nat /\ (IF f \in moved THEN emKeys'[f] = emKeys[f] + 1 ELSE emKeys'[f] <= emKeys[f])
    BY <1>u, <1>t DEF EmTyped
  <2> QED BY <2>1, <2>2, <2>3, <1>u, NoneGained
 <1>5. EvidenceStaysReachable'
  <2>1. \A f \in EmFiles : emKeys[f] > 0 \/ f \in moved => emKeys'[f] > 0 BY <1>u, <1>t DEF EmTyped
  <2> QED BY <2>1, <1>u, <1>t DEF EmInv, EmTyped, EvidenceStaysReachable, Shown
 <1>6. OnlyCurrentIsShown'
  <2> SUFFICES ASSUME ~emCrossed'
               PROVE  /\ Shown' \subseteq emCurrent'
                      /\ \A f \in EmFiles : emKeys'[f] < 2 /\ (f \in emPublic' => emKeys'[f] = 0)
    BY DEF OnlyCurrentIsShown
  <2>1. ~emCrossed /\ moved \subseteq emPublic BY <1>u
  <2>2. Shown \subseteq emCurrent /\ \A f \in EmFiles : emKeys[f] < 2 /\ (f \in emPublic => emKeys[f] = 0)
    BY <2>1 DEF EmInv, OnlyCurrentIsShown
  <2>3. \A f \in EmFiles : emKeys'[f] < 2 /\ (f \in emPublic' => emKeys'[f] = 0)
    BY <2>1, <2>2, <1>u, <1>t DEF EmTyped
  <2>4. Shown' \subseteq Shown
   <3>1. \A f \in EmFiles : emKeys'[f] > 0 => emKeys[f] > 0 \/ f \in moved BY <1>u
   <3> QED BY <3>1, <2>1, <1>u DEF Shown
  <2> QED BY <2>2, <2>3, <2>4, <1>u
 <1> QED BY <1>1, <1>3, <1>4, <1>5, <1>6 DEF EmInv

LEMMA HandingInKept ==
  ASSUME EmInv, NEW files \in SUBSET EmFiles, SendProofs(files) \/ SaveProofs \/ EraseProofs
  PROVE  EmInv'
 <1>t. EmTyped BY DEF EmInv
 <1>u. UNCHANGED <<empc, emtodo, emcopied, emRuns, emCrossed>>
   BY DEF SendProofs, SaveProofs, EraseProofs, emRun
 <1>1. \A k \in EmRuns : MoveFits(k)' BY <1>u DEF EmInv, MoveFits
 <1>2. \A f \in EmFiles : StillWith(f)' \subseteq StillWith(f) BY <1>u DEF StillWith
 <1>3. CASE SendProofs(files)
  <2>1. /\ emWrites < EmMostWrites /\ emWrites' = emWrites + 1 /\ emSent' = files
        /\ UNCHANGED <<emPublic, emKeys, emRetired, emCurrent>>
    BY <1>3 DEF SendProofs, emProfile
  <2>2. emWrites' \in 0..EmMostWrites BY <2>1, <1>t, EmAssumption DEF EmTyped
  <2>3. EmTyped' BY <2>1, <2>2, <1>u, <1>t DEF EmTyped
  <2>4. ASSUME NEW f \in EmFiles PROVE ListedOnce(f)'
   <3>1. emKeys'[f] \in Nat /\ emKeys'[f] <= emKeys[f] BY <2>1, <1>t DEF EmTyped
   <3> QED BY <3>1, <1>2, <1>u, NoneGained
  <2>5. EvidenceStaysReachable' /\ OnlyCurrentIsShown'
    BY <2>1, <1>u DEF EmInv, EvidenceStaysReachable, OnlyCurrentIsShown, Shown
  <2> QED BY <1>1, <2>3, <2>4, <2>5 DEF EmInv
 <1>4. CASE SaveProofs
  <2>1. /\ emKeys' = [f \in EmFiles |-> IF f \in emSent THEN 1 ELSE 0] /\ emPublic' = {}
        /\ emCurrent' = emSent /\ emSent' = {} /\ UNCHANGED <<emRetired, emWrites>>
    BY <1>4 DEF SaveProofs
  <2>2. emKeys' \in [EmFiles -> Nat] BY <2>1
  <2>3. EmTyped' BY <2>1, <2>2, <1>u, <1>t DEF EmTyped
  <2>4. ASSUME NEW f \in EmFiles PROVE ListedOnce(f)'
   <3>1. emKeys'[f] \in Nat /\ emKeys'[f] <= 1 BY <2>1
   <3> QED BY <3>1, <1>2, <1>u, NoneGained
  <2>5. Shown' = emCurrent' BY <2>1, <1>t DEF Shown, EmTyped
  <2>6. EvidenceStaysReachable' /\ OnlyCurrentIsShown'
    BY <2>1, <2>5 DEF EvidenceStaysReachable, OnlyCurrentIsShown
  <2> QED BY <1>1, <2>3, <2>4, <2>6 DEF EmInv
 <1>5. CASE EraseProofs
  <2>1. /\ emWrites < EmMostWrites /\ emWrites' = emWrites + 1 /\ emPublic' = {} /\ emRetired' = {}
        /\ emKeys' = [f \in EmFiles |-> 0] /\ emCurrent' = {} /\ emSent' = emSent
    BY <1>5 DEF EraseProofs
  <2>2. emWrites' \in 0..EmMostWrites BY <2>1, <1>t, EmAssumption DEF EmTyped
  <2>3. EmTyped' BY <2>1, <2>2, <1>u, <1>t DEF EmTyped
  <2>4. ASSUME NEW f \in EmFiles PROVE ListedOnce(f)'
   <3>1. emKeys'[f] \in Nat /\ emKeys'[f] <= 1 BY <2>1
   <3> QED BY <3>1, <1>2, <1>u, NoneGained
  <2>5. Shown' = {} BY <2>1 DEF Shown
  <2>6. EvidenceStaysReachable' /\ OnlyCurrentIsShown'
    BY <2>1, <2>5 DEF EvidenceStaysReachable, OnlyCurrentIsShown
  <2> QED BY <1>1, <2>3, <2>4, <2>6 DEF EmInv
 <1> QED BY <1>3, <1>4, <1>5

LEMMA EmInvNext == EmInv /\ [EmNext]_emVars => EmInv'
 <1> SUFFICES ASSUME EmInv, [EmNext]_emVars PROVE EmInv' OBVIOUS
 <1>1. CASE UNCHANGED emVars
  <2>1. /\ UNCHANGED <<emPublic, emKeys, emRetired, empc, emtodo, emcopied>>
        /\ UNCHANGED <<emSent, emRuns, emWrites, emCurrent, emCrossed>>
    BY <1>1 DEF emVars, emProfile, emRun
  <2>2. EmTyped' BY <2>1 DEF EmInv, EmTyped
  <2>3. \A f \in EmFiles : ListedOnce(f)'
   <3> SUFFICES ASSUME NEW f \in EmFiles PROVE ListedOnce(f)' OBVIOUS
   <3>1. StillWith(f)' = StillWith(f) BY <2>1 DEF StillWith
   <3> QED BY <3>1, <2>1 DEF EmInv, ListedOnce
  <2>4. \A r \in EmRuns : MoveFits(r)' BY <2>1 DEF EmInv, MoveFits
  <2>5. EvidenceStaysReachable' /\ OnlyCurrentIsShown'
    BY <2>1 DEF EmInv, EvidenceStaysReachable, OnlyCurrentIsShown, Shown
  <2> QED BY <2>2, <2>3, <2>4, <2>5 DEF EmInv
 <1>2. CASE EmNext
  <2>1. ASSUME NEW r \in EmRuns, FindProofs(r) \/ RetireProof(r) PROVE EmInv'
    BY <2>1, FindProofsKept, RetireProofKept
  <2>2. ASSUME NEW r \in EmRuns, EndMove(r) PROVE EmInv'
   <3>1. CASE EmFiles = {}
    <4>1. /\ empc' = [empc EXCEPT ![r] = "idle"] /\ emtodo' = [emtodo EXCEPT ![r] = {}]
          /\ emcopied' = [emcopied EXCEPT ![r] = {}]
          /\ UNCHANGED <<emPublic, emKeys, emRetired, emSent, emRuns, emWrites, emCurrent, emCrossed>>
      BY <2>2 DEF EndMove, emProfile
    <4>2. EmTyped' BY <4>1 DEF EmInv, EmTyped
    <4>3. \A k \in EmRuns : MoveFits(k)' BY <4>1 DEF EmInv, EmTyped, MoveFits
    <4>4. EvidenceStaysReachable' /\ OnlyCurrentIsShown'
      BY <4>1 DEF EmInv, EvidenceStaysReachable, OnlyCurrentIsShown, Shown
    <4> QED BY <3>1, <4>2, <4>3, <4>4 DEF EmInv
   <3>2. CASE EmFiles # {}
    <4>1. PICK g : g \in EmFiles BY <3>2
    <4> QED BY <4>1, <2>2, CopyOrEndKept
   <3> QED BY <3>1, <3>2
  <2>3. ASSUME NEW r \in EmRuns, NEW f \in EmFiles, NEW works \in BOOLEAN, CopyProof(r, f, works) PROVE EmInv'
    BY <2>3, CopyOrEndKept
  <2>4. ASSUME NEW files \in SUBSET EmFiles, SendProofs(files) PROVE EmInv' BY <2>4, HandingInKept
  <2>5. CASE SaveProofs \/ EraseProofs
   <3>1. {} \in SUBSET EmFiles OBVIOUS
   <3> QED BY <3>1, <2>5, HandingInKept
  <2> QED BY <1>2, <2>1, <2>2, <2>3, <2>4, <2>5 DEF EmNext
 <1> QED BY <1>1, <1>2

LEMMA EmInvTypes == EmInv => EmTypeOK
 <1> SUFFICES ASSUME EmInv PROVE EmTypeOK OBVIOUS
 <1>1. emKeys \in [EmFiles -> 0..EmMostRuns + 1]
  <2> SUFFICES ASSUME NEW f \in EmFiles PROVE emKeys[f] \in 0..EmMostRuns + 1 BY DEF EmInv, EmTyped
  <2>1. Cardinality(StillWith(f)) \in Nat BY Counted
  <2>2. emKeys[f] + Cardinality(StillWith(f)) <= emRuns + 1 BY DEF EmInv, ListedOnce
  <2> QED BY <2>1, <2>2, EmAssumption DEF EmInv, EmTyped
 <1> QED BY <1>1 DEF EmInv, EmTyped, EmTypeOK

(* A migration may be stopped anywhere, run again, or run twice at once
   beside the live program: whatever the collection held, every document goes
   on saying what it said, a run that ended leaves nothing to find, and no
   evidence of a washer is lost or shown that she replaced - for any number
   of documents, files and runs. *)
THEOREM MeaningKept == MgSpec /\ EmSpec => []MigrationsKeepMeaning
 <1>1. MgInit => MgInv BY MgInvInit
 <1>2. MgInv /\ [MgNext]_mgVars => MgInv' BY MgInvNext
 <1>3. EmInit => EmInv BY EmInvInit
 <1>4. EmInv /\ [EmNext]_emVars => EmInv' BY EmInvNext
 <1>5. MgInv /\ EmInv => MigrationsKeepMeaning
   BY MgInvSays, EmInvTypes DEF MigrationsKeepMeaning, EmInv
 <1> QED BY <1>1, <1>2, <1>3, <1>4, <1>5, PTL DEF MgSpec, EmSpec

-----------------------------------------------------------------------------
(* Pages put together from several sources.

   A page is composed while the records change.  What it shows is argued
   of the items that waited all along (bvStayed) and of the branches no
   money moved at (the others are bvMoved): of a source that was read, a
   late one of the former is on the page or the source was cut (LateFits),
   what was cut comes no sooner in its order (OldestFit), and the two
   queries of the wallets saw the latter as they are, as far as they read
   (VariancesFit). *)
RowSources == WorkSources \cup {"WALLET"}
BooksRead == bvBalances # {} /\ bvSums # {}
Row(what) == [what |-> what, high |-> TRUE]
Full(source) == bvCount[source] >= BvPerSource

BvTyped ==
  /\ BvTypeOK
  /\ bvAt \in Int
  /\ \A i \in DOMAIN BvItems : \A s, t \in bvSince[i] : s = t
  /\ bvSince \in [DOMAIN BvItems -> SUBSET (0..BvLastTick)]
  /\ \A i \in bvStayed : bvSince[i] # {}
  /\ bvStored \in [BvBranches -> Int] /\ bvLedger \in [BvBranches -> Int]
  /\ bvCount \in [RowSources -> Nat]
  /\ bvTruncated <=> NowTruncated(bvCount)

(* Between two pages nothing is at hand; a row comes from a source that was
   read, and one of a branch when both its queries were. *)
RowsFit ==
  /\ bvTodo = {} /\ ~bvReady => bvPage = {} /\ bvBalances = {} /\ bvSums = {}
  /\ \A p \in bvPage :
       \/ p.what \in DOMAIN BvItems /\ BvItems[p.what] \notin bvTodo
       \/ p.what \in BvBranches /\ BooksRead

LateFits ==
  \A i \in bvStayed : \A t \in bvSince[i] :
    (i \notin bvSwept /\ BvItems[i] \notin bvTodo /\ bvAt - t > BvLateAfter[i])
      => Full(BvItems[i]) \/ Row(i) \in bvPage

(* The order of a source: when an item began to wait, or its deadline. *)
NoLater(i, s, j, t) ==
  IF BvItems[j] # "UNSETTLED" THEN s <= t
  ELSE \/ i \in bvSwept
       \/ j \notin bvSwept /\ s + BvLateAfter[i] <= t + BvLateAfter[j]

OldestFit ==
  \A p \in bvPage, j \in bvStayed :
    (/\ p.what \in bvStayed /\ BvItems[p.what] = BvItems[j] /\ BvItems[j] \notin bvTodo
     /\ ~\E q \in bvPage : q.what = j
     /\ \A t \in bvSince[j] : bvAt - t >= BvShownAfter[BvItems[j]])
      => \A s \in bvSince[p.what], t \in bvSince[j] : NoLater(p.what, s, j, t)

(* What a query has read of the branches that nothing moved at. *)
SeenAsItIs(read, now) ==
  \A f \in read : \A b \in DOMAIN f \ bvMoved : f[b] = now[b]

(* The ledger is read whole, the wallets as far as their query goes. *)
ReadAsFar(balances, sums) ==
  /\ \A f \in sums : DOMAIN f = BvBranches
  /\ \A f \in balances :
       /\ DOMAIN f \subseteq BvBranches
       /\ DOMAIN f = BvBranches \/ Cardinality(DOMAIN f) = BvMostWallets
Unread(b, balances) == \E was \in balances : b \notin DOMAIN was

VariancesFit ==
  /\ "BALANCES" \in bvTodo => bvBalances = {}
  /\ "LEDGER" \in bvTodo => bvSums = {}
  /\ SeenAsItIs(bvBalances, bvStored) /\ SeenAsItIs(bvSums, bvLedger) /\ ReadAsFar(bvBalances, bvSums)
  /\ BooksRead =>
       \A b \in BvBranches \ bvMoved :
         /\ Row(b) \in bvPage => bvStored[b] # bvLedger[b]
         /\ bvStored[b] # bvLedger[b] => Full("WALLET") \/ Row(b) \in bvPage \/ Unread(b, bvBalances)

(* A source is read for a role that its records are for. *)
RolesFit ==
  /\ bvTodo # {} => bvRole \in BackOffice
  /\ bvTodo \cap {"BALANCES", "LEDGER"} # {} => bvRole = "admin"
  /\ \A r \in bvReads : r[2] \in DOMAIN OwnerOf /\ r[1] \in TypeRoles(r[2])

(* An attempt is on record before its credential is made. *)
TokensFit ==
  /\ bvTarget \subseteq BvAccounts
  /\ bvStep = "mint" => bvTarget \subseteq bvTrail \cup bvUnwritten
  /\ EveryTokenIsOnRecord

BvInv ==
  /\ BvTyped /\ RowsFit /\ LateFits /\ OldestFit /\ VariancesFit
  /\ RolesFit /\ FilterNeverWidens /\ TokensFit

(* The first of a set: all of it, or as many as fit. *)
LEMMA CutPage ==
  ASSUME NEW S, IsFiniteSet(S), NEW P \in SUBSET S, NEW n \in Nat,
         Cardinality(P) = IF Cardinality(S) < n THEN Cardinality(S) ELSE n
  PROVE  IsFiniteSet(P) /\ Cardinality(P) \in Nat /\ Cardinality(P) <= n /\ (Cardinality(P) = n \/ P = S)
 <1>1. /\ IsFiniteSet(P) /\ Cardinality(P) \in Nat /\ Cardinality(S) \in Nat
       /\ Cardinality(S) = Cardinality(P) => S = P
   BY FS_Subset, FS_CardinalityType
 <1> QED BY <1>1

LEMMA BvInvInit == BvInit => BvInv
 <1> SUFFICES ASSUME BvInit PROVE BvInv OBVIOUS
 <1>1. /\ bvNow = 0 /\ bvAt = 0 /\ bvTodo = {} /\ bvStep = "idle" BY DEF BvInit, NothingAsked
 <1>2. ~bvReady /\ ~bvTruncated BY DEF BvInit, NothingAsked
 <1>3. /\ bvBalances = {} /\ bvSums = {} /\ bvPage = {} /\ bvStayed = {} /\ bvMoved = {}
       /\ bvReads = {} /\ bvList = {} /\ bvTarget = {} /\ bvTokens = {} /\ bvTrail = {} /\ bvUnwritten = {}
   BY DEF BvInit, NothingAsked
 <1>4. ~NowTruncated(bvCount) /\ bvCount \in [RowSources -> Nat]
  <2>1. bvCount = [s \in RowSources |-> 0] BY DEF BvInit, NothingAsked, RowSources
  <2> QED BY <2>1, BvAssumption DEF NowTruncated
 <1>5. BvTyped
  <2>1. 0 \in 0..BvLastTick BY BvAssumption
  <2>9. PICK first \in BvFirst : bvSince = [i \in DOMAIN BvItems |-> IF i \in first THEN {0} ELSE {}]
    BY DEF BvInit
  <2>2. bvSince \in [DOMAIN BvItems -> SUBSET (0..BvLastTick)] BY <2>1, <2>9
  <2>3. bvStored \in [BvBranches -> Int] /\ bvLedger \in [BvBranches -> Int] BY DEF BvInit
  <2>4. bvTruncated <=> NowTruncated(bvCount) BY <1>2, <1>4
  <2>5. \A i \in DOMAIN BvItems : bvSince[i] \subseteq {0} BY <2>9
  <2>6. bvAt \in Int BY <1>1
  <2>7. bvRole \in BackOffice \cup {"none"} BY DEF BvInit, NothingAsked
  <2>10. bvSwept = {} BY DEF BvInit
  <2>8. BvTypeOK BY <1>1, <1>3, <2>1, <2>5, <2>7, <2>10 DEF BvTypeOK
  <2> QED BY <1>3, <1>4, <2>2, <2>3, <2>4, <2>5, <2>6, <2>8 DEF BvTyped
 <1>6. RowsFit /\ LateFits /\ OldestFit BY <1>3 DEF RowsFit, LateFits, OldestFit
 <1>7. VariancesFit BY <1>3 DEF VariancesFit, SeenAsItIs, ReadAsFar, BooksRead
 <1>8. RolesFit /\ FilterNeverWidens /\ TokensFit
   BY <1>1, <1>3 DEF RolesFit, FilterNeverWidens, TokensFit, EveryTokenIsOnRecord
 <1> QED BY <1>5, <1>6, <1>7, <1>8 DEF BvInv

LEMMA WaitedIs ==
  ASSUME BvTyped, NEW i \in DOMAIN BvItems, NEW t \in bvSince[i]
  PROVE  Waited(i) = bvAt - t
 <1>1. {bvAt - u : u \in bvSince[i]} = {bvAt - t} BY DEF BvTyped
 <1> QED BY <1>1 DEF Waited

LEMMA SourceNames ==
  /\ WorkSources \subseteq RowSources /\ "WALLET" \in RowSources /\ "WALLET" \notin WorkSources
  /\ {"BALANCES", "LEDGER"} \cap WorkSources = {}
  /\ \A s \in WorkSources : s \in DOMAIN OwnerOf /\ TypeRoles(s) = BackOffice
  /\ "WALLET" \in DOMAIN OwnerOf /\ TypeRoles("WALLET") = {"admin"}
  /\ "admin" \in BackOffice /\ "none" \notin BackOffice
  BY DEF WorkSources, RowSources, OwnerOf, TypeRoles, BackOffice

LEMMA ReadSourceKept ==
  ASSUME BvInv, NEW s \in WorkSources, ReadSource(s)
  PROVE  BvInv'
 <1> DEFINE waiting == {i \in DOMAIN BvItems : BvItems[i] = s /\ bvSince[i] # {}
                                             /\ Waited(i) >= BvShownAfter[s]}
 <1>1. PICK page \in FirstOf(waiting) :
         /\ bvPage' = bvPage \cup {[what |-> i, high |-> IsLate(i)] : i \in page}
         /\ bvCount' = [bvCount EXCEPT ![s] = Cardinality(page)]
   BY DEF ReadSource
 <1>2. /\ s \in bvTodo /\ bvTodo' = bvTodo \ {s} /\ bvReads' = bvReads \cup {<<bvRole, s>>}
       /\ bvReady' = (bvTodo' = {}) /\ bvTruncated' = NowTruncated(bvCount')
       /\ UNCHANGED <<bvNow, bvSince, bvSwept, bvStored, bvLedger, bvAt, bvRole, bvBalances, bvSums, bvStayed>>
       /\ UNCHANGED <<bvMoved, bvList, bvStep, bvTarget, bvTokens, bvTrail, bvUnwritten>>
   BY DEF ReadSource, itemVars, moneyVars, tokenVars
 <1>3. BvTyped /\ BvTypeOK BY DEF BvInv, BvTyped
 <1>4. page \subseteq waiting /\ waiting \subseteq DOMAIN BvItems
       /\ \A i \in page, j \in waiting \ page : StandsBefore(i, j)
   BY <1>1 DEF FirstOf
 <1>5. Cardinality(page) \in Nat /\ (Cardinality(page) = BvPerSource \/ page = waiting)
  <2>1. IsFiniteSet(waiting) BY <1>4, BvAssumption, FS_Subset
  <2>2. Cardinality(page) = IF Cardinality(waiting) < BvPerSource THEN Cardinality(waiting) ELSE BvPerSource
    BY <1>1 DEF FirstOf
  <2> HIDE DEF waiting
  <2> QED BY <2>1, <2>2, <1>4, BvAssumption, CutPage
 <1>6. \A i \in DOMAIN BvItems : \A t \in bvSince[i] : Waited(i) = bvAt - t /\ t \in Int
   BY <1>3, WaitedIs DEF BvTyped
 <1>7. bvCount'[s] = Cardinality(page) /\ \A k \in RowSources \ {s} : bvCount'[k] = bvCount[k]
   BY <1>1, <1>3, SourceNames DEF BvTyped
 <1>8. \A p \in bvPage' \ bvPage : p.what \in page /\ BvItems[p.what] = s BY <1>1, <1>4
 <1>9. \A i \in page : \E p \in bvPage' : p.what = i
  <2> SUFFICES ASSUME NEW i \in page PROVE \E p \in bvPage' : p.what = i OBVIOUS
  <2>1. [what |-> i, high |-> IsLate(i)] \in bvPage' BY <1>1
  <2> HIDE <1>1
  <2> QED BY <2>1
 <1>10. bvPage \subseteq bvPage' BY <1>1
 <1>11. \A i \in page \ bvSwept : \A t \in bvSince[i] : bvAt - t > BvLateAfter[i] => Row(i) \in bvPage'
  <2> SUFFICES ASSUME NEW i \in page \ bvSwept, NEW t \in bvSince[i], bvAt - t > BvLateAfter[i]
               PROVE  Row(i) \in bvPage'
    OBVIOUS
  <2>1. IsLate(i) = TRUE BY <1>4, <1>6 DEF IsLate
  <2>2. [what |-> i, high |-> IsLate(i)] \in bvPage' BY <1>1
  <2> QED BY <2>1, <2>2 DEF Row
 <1>12. BvTyped'
  <2>1. bvCount' \in [RowSources -> Nat] BY <1>1, <1>3, <1>5 DEF BvTyped
  <2>2. BvTypeOK' BY <1>2, <1>3 DEF BvTypeOK
  <2> QED BY <1>2, <1>3, <2>1, <2>2 DEF BvTyped
 <1>13. RowsFit'
  <2>1. \A p \in bvPage' : \/ p.what \in DOMAIN BvItems /\ BvItems[p.what] \notin bvTodo'
                           \/ p.what \in BvBranches /\ BooksRead'
   <3> SUFFICES ASSUME NEW p \in bvPage'
                PROVE  \/ p.what \in DOMAIN BvItems /\ BvItems[p.what] \notin bvTodo'
                       \/ p.what \in BvBranches /\ BooksRead'
     OBVIOUS
   <3>1. CASE p \in bvPage BY <1>2, <3>1 DEF BvInv, RowsFit, BooksRead
   <3>2. CASE p \notin bvPage BY <1>2, <1>4, <1>8, <3>2
   <3> QED BY <3>1, <3>2
  <2> QED BY <1>2, <2>1 DEF RowsFit
 <1>14. LateFits'
  <2> SUFFICES ASSUME NEW i \in bvStayed, NEW t \in bvSince[i], i \notin bvSwept,
                      BvItems[i] \notin bvTodo', bvAt - t > BvLateAfter[i]
               PROVE  Full(BvItems[i])' \/ Row(i) \in bvPage'
    BY <1>2 DEF LateFits, Row
  <2>1. i \in DOMAIN BvItems /\ BvItems[i] \in WorkSources BY <1>3, BvAssumption DEF BvTypeOK
  <2>2. CASE BvItems[i] = s
   <3>1. i \in waiting
    <4>1. /\ Waited(i) = bvAt - t /\ t \in Int /\ bvAt \in Int
          /\ BvLateAfter[i] \in Int /\ BvShownAfter[s] \in Int /\ BvShownAfter[s] <= BvLateAfter[i]
      BY <2>1, <2>2, <1>3, <1>6, BvAssumption DEF BvTyped
    <4>2. Waited(i) >= BvShownAfter[s] BY <4>1
    <4> QED BY <4>2, <2>1, <2>2
   <3>2. CASE page = waiting BY <3>1, <3>2, <1>11
   <3>3. CASE Cardinality(page) = BvPerSource BY <3>3, <2>2, <1>7, BvAssumption DEF Full
   <3> QED BY <3>2, <3>3, <1>5
  <2>3. CASE BvItems[i] # s
   <3>1. Full(BvItems[i]) \/ Row(i) \in bvPage BY <2>3, <1>2 DEF BvInv, LateFits
   <3> QED BY <3>1, <2>1, <2>3, <1>7, <1>10, SourceNames DEF Full
  <2> QED BY <2>2, <2>3
 <1>15. OldestFit'
  <2> SUFFICES ASSUME NEW p \in bvPage', NEW j \in bvStayed, p.what \in bvStayed,
                      BvItems[p.what] = BvItems[j], BvItems[j] \notin bvTodo',
                      ~\E q \in bvPage' : q.what = j,
                      \A t \in bvSince[j] : bvAt - t >= BvShownAfter[BvItems[j]],
                      NEW u \in bvSince[p.what], NEW t \in bvSince[j]
               PROVE  NoLater(p.what, u, j, t)
    BY <1>2 DEF OldestFit, NoLater
  <2>1. j \in DOMAIN BvItems /\ p.what \in DOMAIN BvItems /\ p.what \notin BvBranches
    BY <1>3, BvAssumption DEF BvTypeOK
  <2>2. CASE BvItems[j] = s
   <3>1. p \notin bvPage BY <2>1, <2>2, <1>2 DEF BvInv, RowsFit
   <3>2. p.what \in page BY <3>1, <1>8
   <3>3. j \in waiting \ page BY <2>1, <2>2, <1>6, <1>9
   <3>4. StandsBefore(p.what, j) BY <3>2, <3>3, <1>4
   <3>5. /\ Waited(p.what) = bvAt - u /\ Waited(j) = bvAt - t
         /\ u \in Int /\ t \in Int /\ bvAt \in Int
         /\ BvLateAfter[p.what] \in Int /\ BvLateAfter[j] \in Int
     BY <2>1, <1>3, <1>6, BvAssumption DEF BvTyped
   <3> QED BY <3>4, <3>5 DEF StandsBefore, NoLater
  <2>3. CASE BvItems[j] # s
   <3>1. p \in bvPage BY <2>3, <1>8
   <3>2. BvItems[j] \notin bvTodo /\ ~\E q \in bvPage : q.what = j BY <2>3, <1>2, <1>10
   <3> QED BY <3>1, <3>2 DEF BvInv, OldestFit
  <2> QED BY <2>2, <2>3
 <1>16. VariancesFit'
  <2>1. \A b \in BvBranches : Row(b) \in bvPage' <=> Row(b) \in bvPage
   <3> SUFFICES ASSUME NEW b \in BvBranches, Row(b) \in bvPage' PROVE Row(b) \in bvPage BY <1>10
   <3>1. Row(b).what \notin page BY <1>4, BvAssumption DEF Row
   <3> QED BY <3>1, <1>8
  <2>2. Full("WALLET")' <=> Full("WALLET") BY <1>7, SourceNames DEF Full
  <2>3. /\ SeenAsItIs(bvBalances, bvStored)' /\ SeenAsItIs(bvSums, bvLedger)' /\ ReadAsFar(bvBalances, bvSums)'
        /\ BooksRead' <=> BooksRead
        /\ \A b : Unread(b, bvBalances)' <=> Unread(b, bvBalances)
    BY <1>2 DEF BvInv, VariancesFit, SeenAsItIs, ReadAsFar, BooksRead, Unread
  <2>4. ("BALANCES" \in bvTodo' => bvBalances' = {}) /\ ("LEDGER" \in bvTodo' => bvSums' = {})
    BY <1>2 DEF BvInv, VariancesFit
  <2>5. ASSUME BooksRead, NEW b \in BvBranches \ bvMoved
        PROVE  /\ Row(b) \in bvPage' => bvStored[b] # bvLedger[b]
               /\ bvStored[b] # bvLedger[b] => Full("WALLET") \/ Row(b) \in bvPage' \/ Unread(b, bvBalances)
    BY <2>1, <2>5 DEF BvInv, VariancesFit
  <2>6. \A b : Row(b)' = Row(b) BY DEF Row
  <2> QED BY <2>2, <2>3, <2>4, <2>5, <2>6, <1>2 DEF VariancesFit
 <1>17. RolesFit'
  <2>1. RolesFit /\ bvTodo' \subseteq bvTodo /\ bvRole \in BackOffice BY <1>2 DEF BvInv, RolesFit
  <2>2. \A r \in bvReads' : r \in bvReads \/ r = <<bvRole, s>> BY <1>2
  <2>3. s \in DOMAIN OwnerOf /\ bvRole \in TypeRoles(s) BY <2>1, SourceNames
  <2>4. \A r \in bvReads' : r[2] \in DOMAIN OwnerOf /\ r[1] \in TypeRoles(r[2])
    BY <2>1, <2>2, <2>3 DEF RolesFit
  <2> QED BY <2>1, <2>4, <1>2 DEF RolesFit
 <1>18. FilterNeverWidens' /\ TokensFit' BY <1>2 DEF BvInv, FilterNeverWidens, TokensFit, EveryTokenIsOnRecord
 <1> QED BY <1>12, <1>13, <1>14, <1>15, <1>16, <1>17, <1>18 DEF BvInv

(* One of the two queries that the variances are computed from: the second
   to answer compares. *)
LEMMA BooksReadKept ==
  ASSUME BvInv, NEW part \in {"BALANCES", "LEDGER"}, part \in bvTodo,
         WithVariances(bvBalances', bvSums'), SeenAsItIs(bvBalances', bvStored), SeenAsItIs(bvSums', bvLedger),
         ReadAsFar(bvBalances', bvSums'),
         IF part = "BALANCES" THEN bvSums' = bvSums ELSE bvBalances' = bvBalances,
         bvTodo' = bvTodo \ {part}, bvReads' = bvReads \cup {<<bvRole, "WALLET">>},
         bvReady' = (bvTodo' = {}), bvTruncated' = NowTruncated(bvCount'),
         UNCHANGED <<bvNow, itemVars, moneyVars, bvAt, bvRole, bvStayed, bvMoved, bvList, tokenVars>>
  PROVE  BvInv'
 <1>1. /\ UNCHANGED <<bvNow, bvSince, bvSwept, bvStored, bvLedger, bvAt, bvRole, bvStayed, bvMoved>>
       /\ UNCHANGED <<bvList, bvStep, bvTarget, bvTokens, bvTrail, bvUnwritten>>
   BY DEF itemVars, moneyVars, tokenVars
 <1>2. BvTyped /\ BvTypeOK /\ part \notin WorkSources /\ ~BooksRead
   BY SourceNames DEF BvInv, BvTyped, VariancesFit, BooksRead
 <1>3. \A p \in bvPage : p.what \in DOMAIN BvItems /\ BvItems[p.what] \notin bvTodo
   BY <1>2 DEF BvInv, RowsFit
 <1>4. /\ bvCount' \in [RowSources -> Nat]
       /\ \A s \in WorkSources : bvCount'[s] = bvCount[s]
       /\ bvPage \subseteq bvPage'
       /\ \A p \in bvPage' \ bvPage : p.what \in BvBranches /\ BooksRead'
       /\ BooksRead' => \A b \in BvBranches \ bvMoved :
            /\ Row(b) \in bvPage' => bvStored[b] # bvLedger[b]
            /\ bvStored[b] # bvLedger[b] => \/ bvCount'["WALLET"] >= BvPerSource
                                            \/ Row(b) \in bvPage' \/ Unread(b, bvBalances')
  <2>1. CASE bvBalances' = {} \/ bvSums' = {} BY <2>1, <1>2 DEF WithVariances, BvTyped, BooksRead
  <2>2. CASE ~(bvBalances' = {} \/ bvSums' = {})
   <3>1. PICK was \in bvBalances', sum \in bvSums' :
           \E page \in SUBSET Variances(was, sum) :
             /\ Cardinality(page) = IF Cardinality(Variances(was, sum)) < BvPerSource
                                    THEN Cardinality(Variances(was, sum)) ELSE BvPerSource
             /\ bvPage' = bvPage \cup {[what |-> b, high |-> TRUE] : b \in page}
             /\ bvCount' = [bvCount EXCEPT !["WALLET"] = Cardinality(page)]
     BY <2>2 DEF WithVariances
   <3>2. PICK page \in SUBSET Variances(was, sum) :
           /\ Cardinality(page) = IF Cardinality(Variances(was, sum)) < BvPerSource
                                  THEN Cardinality(Variances(was, sum)) ELSE BvPerSource
           /\ bvPage' = bvPage \cup {[what |-> b, high |-> TRUE] : b \in page}
           /\ bvCount' = [bvCount EXCEPT !["WALLET"] = Cardinality(page)]
     BY <3>1
   <3>3. Variances(was, sum) \subseteq BvBranches BY <3>1 DEF Variances, ReadAsFar
   <3>4. Cardinality(page) \in Nat /\ (Cardinality(page) = BvPerSource \/ page = Variances(was, sum))
    <4>1. IsFiniteSet(Variances(was, sum)) BY <3>3, BvAssumption, FS_Subset
    <4>2. BvPerSource \in Nat BY BvAssumption
    <4> QED BY <3>2, <4>1, <4>2, CutPage
   <3>5. bvCount' \in [RowSources -> Nat] /\ bvCount'["WALLET"] = Cardinality(page)
         /\ \A s \in WorkSources : bvCount'[s] = bvCount[s]
     BY <3>2, <3>4, <1>2, SourceNames DEF BvTyped
   <3>6. bvPage' = bvPage \cup {Row(b) : b \in page} BY <3>2 DEF Row
   <3>7. \A p \in bvPage' \ bvPage : p.what \in page BY <3>6 DEF Row
   <3>8. ASSUME NEW b \in BvBranches PROVE Row(b) \in bvPage' <=> b \in page
    <4>1. Row(b).what = b BY DEF Row
    <4>2. b \notin DOMAIN BvItems BY BvAssumption
    <4> QED BY <4>1, <4>2, <3>6, <3>7, <1>3
   <3>9. ASSUME NEW b \in BvBranches \ bvMoved
         PROVE  /\ b \in Variances(was, sum) => bvStored[b] # bvLedger[b]
                /\ bvStored[b] # bvLedger[b] => b \in Variances(was, sum) \/ Unread(b, bvBalances')
    <4>1. DOMAIN sum = BvBranches BY <3>1 DEF ReadAsFar
    <4>2. sum[b] = bvLedger[b] BY <3>1, <4>1 DEF SeenAsItIs
    <4>3. CASE b \in DOMAIN was
     <5>1. was[b] = bvStored[b] BY <3>1, <4>3 DEF SeenAsItIs
     <5> QED BY <4>2, <4>3, <5>1 DEF Variances
    <4>4. CASE b \notin DOMAIN was BY <3>1, <4>4 DEF Variances, Unread
    <4> QED BY <4>3, <4>4
   <3>10. ASSUME NEW b \in BvBranches \ bvMoved
          PROVE  /\ Row(b) \in bvPage' => bvStored[b] # bvLedger[b]
                 /\ bvStored[b] # bvLedger[b] => \/ bvCount'["WALLET"] >= BvPerSource
                                                 \/ Row(b) \in bvPage' \/ Unread(b, bvBalances')
    <4>1. BvPerSource \in Nat BY BvAssumption
    <4> QED BY <3>2, <3>4, <3>5, <3>8, <3>9, <4>1
   <3> QED BY <2>2, <3>3, <3>2, <3>5, <3>6, <3>7, <3>10 DEF BooksRead
  <2> QED BY <2>1, <2>2
 <1>5. BvTyped'
  <2>1. bvTodo' \subseteq bvTodo OBVIOUS
  <2>2. BvTypeOK' BY <1>1, <1>2, <2>1 DEF BvTypeOK
  <2>3. bvTruncated' <=> NowTruncated(bvCount)' OBVIOUS
  <2> QED BY <1>1, <1>2, <1>4, <2>2, <2>3 DEF BvTyped
 <1>6. RowsFit'
  <2>1. ~(bvTodo' = {} /\ ~bvReady') OBVIOUS
  <2>2. ASSUME NEW p \in bvPage'
        PROVE  \/ p.what \in DOMAIN BvItems /\ BvItems[p.what] \notin bvTodo'
               \/ p.what \in BvBranches /\ BooksRead'
    BY <2>2, <1>3, <1>4
  <2> QED BY <2>1, <2>2 DEF RowsFit
 <1>7. bvStayed \subseteq DOMAIN BvItems /\ \A i \in bvStayed : BvItems[i] \in WorkSources /\ i \notin BvBranches
   BY <1>2, BvAssumption DEF BvTypeOK
 <1>8. LateFits'
  <2> SUFFICES ASSUME NEW i \in bvStayed, NEW t \in bvSince[i], i \notin bvSwept,
                      BvItems[i] \notin bvTodo', bvAt - t > BvLateAfter[i]
               PROVE  Full(BvItems[i])' \/ Row(i) \in bvPage'
    BY <1>1 DEF LateFits, Row
  <2>1. BvItems[i] \notin bvTodo BY <1>2, <1>7
  <2>2. Full(BvItems[i]) \/ Row(i) \in bvPage BY <2>1 DEF BvInv, LateFits
  <2> QED BY <2>2, <1>4, <1>7 DEF Full
 <1>9. OldestFit'
  <2> SUFFICES ASSUME NEW p \in bvPage', NEW j \in bvStayed, p.what \in bvStayed,
                      BvItems[p.what] = BvItems[j], BvItems[j] \notin bvTodo',
                      ~\E q \in bvPage' : q.what = j,
                      \A t \in bvSince[j] : bvAt - t >= BvShownAfter[BvItems[j]],
                      NEW u \in bvSince[p.what], NEW t \in bvSince[j]
               PROVE  NoLater(p.what, u, j, t)
    BY <1>1 DEF OldestFit, NoLater
  <2>1. p \in bvPage BY <1>4, <1>7
  <2>2. BvItems[j] \notin bvTodo /\ ~\E q \in bvPage : q.what = j BY <1>2, <1>4, <1>7
  <2> QED BY <2>1, <2>2 DEF BvInv, OldestFit
 <1>10. VariancesFit'
  <2>1. SeenAsItIs(bvBalances, bvStored)' /\ SeenAsItIs(bvSums, bvLedger)' /\ ReadAsFar(bvBalances, bvSums)'
    BY <1>1 DEF SeenAsItIs
  <2>4. \A b : Unread(b, bvBalances)' <=> Unread(b, bvBalances') BY DEF Unread
  <2>2. ("BALANCES" \in bvTodo' => bvBalances' = {}) /\ ("LEDGER" \in bvTodo' => bvSums' = {})
    BY DEF BvInv, VariancesFit
  <2>3. \A b : Row(b)' = Row(b) BY DEF Row
  <2> QED BY <2>1, <2>2, <2>3, <2>4, <1>1, <1>4 DEF VariancesFit, Full
 <1>11. RolesFit'
  <2>1. RolesFit BY DEF BvInv
  <2>2. bvRole = "admin" /\ bvTodo' \subseteq bvTodo BY <2>1 DEF RolesFit
  <2>3. \A r \in bvReads' : r \in bvReads \/ r = <<bvRole, "WALLET">> OBVIOUS
  <2>4. "WALLET" \in DOMAIN OwnerOf /\ bvRole \in TypeRoles("WALLET") BY <2>2, SourceNames
  <2>5. \A r \in bvReads' : r[2] \in DOMAIN OwnerOf /\ r[1] \in TypeRoles(r[2])
    BY <2>1, <2>3, <2>4 DEF RolesFit
  <2> QED BY <2>1, <2>2, <2>5, <1>1, SourceNames DEF RolesFit
 <1>12. FilterNeverWidens' /\ TokensFit' BY <1>1 DEF BvInv, FilterNeverWidens, TokensFit, EveryTokenIsOnRecord
 <1> QED BY <1>5, <1>6, <1>8, <1>9, <1>10, <1>11, <1>12 DEF BvInv

LEMMA ReadBooksKept ==
  ASSUME BvInv, ReadBalances \/ ReadLedger
  PROVE  BvInv'
 <1>1. BvTyped /\ VariancesFit BY DEF BvInv
 <1>2. CASE ReadBalances
  <2>1. PICK read \in WalletPages : bvBalances' = {[b \in read |-> bvStored[b]]} BY <1>2 DEF ReadBalances
  <2>2. /\ "BALANCES" \in bvTodo /\ bvSums' = bvSums
        /\ WithVariances(bvBalances', bvSums')
        /\ bvTodo' = bvTodo \ {"BALANCES"} /\ bvReads' = bvReads \cup {<<bvRole, "WALLET">>}
        /\ bvReady' = (bvTodo' = {}) /\ bvTruncated' = NowTruncated(bvCount')
        /\ UNCHANGED <<bvNow, itemVars, moneyVars, bvAt, bvRole, bvStayed, bvMoved, bvList, tokenVars>>
   <3>1. WithVariances(bvBalances', bvSums) /\ bvSums' = bvSums BY <1>2 DEF ReadBalances
   <3>2. WithVariances(bvBalances', bvSums') BY <3>1
   <3> QED BY <1>2, <3>1, <3>2 DEF ReadBalances
  <2>3. SeenAsItIs(bvBalances', bvStored) /\ SeenAsItIs(bvSums', bvLedger)
    BY <1>1, <2>1, <2>2 DEF VariancesFit, SeenAsItIs
  <2>4. read \subseteq BvBranches /\ (read = BvBranches \/ Cardinality(read) = BvMostWallets)
   <3>1. /\ read \in SUBSET BvBranches
         /\ Cardinality(read) = IF Cardinality(BvBranches) < BvMostWallets
                                THEN Cardinality(BvBranches) ELSE BvMostWallets
     BY <2>1 DEF WalletPages
   <3>2. IsFiniteSet(BvBranches) /\ BvMostWallets \in Nat BY BvAssumption
   <3> QED BY <3>1, <3>2, CutPage
  <2>5. ReadAsFar(bvBalances', bvSums')
   <3>1. \A f \in bvBalances' : DOMAIN f = read BY <2>1
   <3> QED BY <1>1, <2>2, <2>4, <3>1 DEF VariancesFit, ReadAsFar
  <2> QED BY <2>2, <2>3, <2>5, BooksReadKept
 <1>3. CASE ReadLedger
  <2>1. /\ "LEDGER" \in bvTodo /\ bvBalances' = bvBalances /\ bvSums' = {bvLedger}
        /\ WithVariances(bvBalances', bvSums')
        /\ bvTodo' = bvTodo \ {"LEDGER"} /\ bvReads' = bvReads \cup {<<bvRole, "WALLET">>}
        /\ bvReady' = (bvTodo' = {}) /\ bvTruncated' = NowTruncated(bvCount')
        /\ UNCHANGED <<bvNow, itemVars, moneyVars, bvAt, bvRole, bvStayed, bvMoved, bvList, tokenVars>>
   <3>1. WithVariances(bvBalances, {bvLedger}) /\ bvBalances' = bvBalances /\ bvSums' = {bvLedger}
     BY <1>3 DEF ReadLedger
   <3>2. WithVariances(bvBalances', bvSums') BY <3>1
   <3> QED BY <1>3, <3>1, <3>2 DEF ReadLedger
  <2>2. SeenAsItIs(bvBalances', bvStored) /\ SeenAsItIs(bvSums', bvLedger)
    BY <1>1, <2>1 DEF VariancesFit, SeenAsItIs
  <2>3. ReadAsFar(bvBalances', bvSums')
   <3>1. DOMAIN bvLedger = BvBranches BY <1>1 DEF BvTyped
   <3> QED BY <1>1, <2>1, <3>1 DEF VariancesFit, ReadAsFar
  <2> QED BY <2>1, <2>2, <2>3, BooksReadKept
 <1> QED BY <1>2, <1>3

(* What a page that is being built relies on when the records change. *)
RecordsMove ==
  /\ bvStayed' \subseteq bvStayed
  /\ \A i \in bvStayed' : bvSince'[i] = bvSince[i] /\ (i \in bvSwept' <=> i \in bvSwept)
  /\ bvSince' \in [DOMAIN BvItems -> SUBSET (0..BvLastTick)]
  /\ \A i \in DOMAIN BvItems : \A s, t \in bvSince'[i] : s = t
  /\ bvMoved \subseteq bvMoved'
  /\ bvStored' \in [BvBranches -> Int] /\ bvLedger' \in [BvBranches -> Int]
  /\ \A b \in BvBranches \ bvMoved' : bvStored'[b] = bvStored[b] /\ bvLedger'[b] = bvLedger[b]

LEMMA PageKept ==
  ASSUME BvInv, RecordsMove, UNCHANGED <<bvTodo, bvAt, bvBalances, bvSums, bvPage, bvCount, bvTruncated>>,
         bvTodo # {} \/ UNCHANGED bvReady, BvTypeOK'
  PROVE  BvTyped' /\ RowsFit' /\ LateFits' /\ OldestFit' /\ VariancesFit'
 <1>1. BvTyped BY DEF BvInv
 <1>2. BvTyped'
  <2>1. bvTruncated' <=> NowTruncated(bvCount)' BY <1>1 DEF BvTyped, NowTruncated
  <2> QED BY <2>1, <1>1 DEF BvTyped, RecordsMove
 <1>3. RowsFit' BY DEF BvInv, RowsFit, BooksRead
 <1>4. \A k : Full(k)' <=> Full(k) BY DEF Full
 <1>5. \A k : Row(k)' = Row(k) BY DEF Row
 <1>6. LateFits' BY <1>4, <1>5 DEF BvInv, LateFits, RecordsMove
 <1>7. OldestFit' BY DEF BvInv, OldestFit, RecordsMove, NoLater
 <1>8. VariancesFit'
  <2>1. VariancesFit BY DEF BvInv
  <2>2. ReadAsFar(bvBalances, bvSums)' BY <2>1 DEF VariancesFit, ReadAsFar
  <2>3. SeenAsItIs(bvBalances, bvStored)' /\ SeenAsItIs(bvSums, bvLedger)'
   <3>1. /\ \A f \in bvBalances : DOMAIN f \subseteq BvBranches
         /\ \A f \in bvSums : DOMAIN f = BvBranches
     BY <2>1 DEF VariancesFit, ReadAsFar
   <3> QED BY <2>1, <3>1 DEF VariancesFit, RecordsMove, SeenAsItIs
  <2>4. \A b : Unread(b, bvBalances)' <=> Unread(b, bvBalances) BY DEF Unread
  <2> QED BY <2>1, <2>2, <2>3, <2>4, <1>4, <1>5 DEF VariancesFit, RecordsMove, BooksRead
 <1> QED BY <1>2, <1>3, <1>6, <1>7, <1>8

LEMMA RecordsStand ==
  ASSUME BvInv, UNCHANGED <<bvSince, bvSwept, bvStored, bvLedger, bvStayed, bvMoved>>
  PROVE  RecordsMove
  BY DEF BvInv, BvTyped, RecordsMove

LEMMA RecordsMoveKept ==
  ASSUME BvInv, \/ \E i \in DOMAIN BvItems : Enqueue(i) \/ Dequeue(i) \/ SweepItem(i)
                \/ \E b \in BvBranches, ledgered \in BOOLEAN : MoveMoney(b, ledgered)
  PROVE  BvInv'
 <1>1. BvTyped /\ BvTypeOK BY DEF BvInv, BvTyped
 <1>2. /\ UNCHANGED <<bvTodo, bvAt, bvRole, bvBalances, bvSums, bvPage, bvCount, bvReady, bvTruncated>>
       /\ UNCHANGED <<bvNow, bvReads, bvList, bvStep, bvTarget, bvTokens, bvTrail, bvUnwritten>>
   BY DEF Enqueue, Dequeue, SweepItem, MoveMoney, pageVars, tokenVars
 <1>3. RecordsMove
  <2>1. ASSUME NEW i \in DOMAIN BvItems, Enqueue(i) PROVE RecordsMove
   <3>1. /\ bvSince' = [bvSince EXCEPT ![i] = {bvNow}] /\ bvSince[i] = {} /\ bvStayed' = bvStayed
         /\ bvSwept' = bvSwept
         /\ bvMoved' = bvMoved /\ bvStored' = bvStored /\ bvLedger' = bvLedger
     BY <2>1 DEF Enqueue, pageVars, moneyVars
   <3>2. i \notin bvStayed /\ bvNow \in 0..BvLastTick /\ bvStayed \subseteq DOMAIN BvItems
     BY <3>1, <1>1 DEF BvTyped, BvTypeOK
   <3>3. bvSince' \in [DOMAIN BvItems -> SUBSET (0..BvLastTick)] BY <3>1, <3>2, <1>1 DEF BvTyped
   <3>4. \A k \in DOMAIN BvItems : \A s, t \in bvSince'[k] : s = t BY <3>1, <1>1 DEF BvTyped
   <3>5. \A k \in bvStayed : bvSince'[k] = bvSince[k] BY <3>1, <3>2, <1>1 DEF BvTyped
   <3> QED BY <3>1, <3>3, <3>4, <3>5, <1>1 DEF BvTyped, RecordsMove
  <2>2. ASSUME NEW i \in DOMAIN BvItems, Dequeue(i) PROVE RecordsMove
   <3>1. /\ bvSince' = [bvSince EXCEPT ![i] = {}] /\ bvStayed' = bvStayed \ {i}
         /\ bvSwept' = bvSwept \ {i}
         /\ bvMoved' = bvMoved /\ bvStored' = bvStored /\ bvLedger' = bvLedger
     BY <2>2 DEF Dequeue, moneyVars
   <3>2. bvStayed \subseteq DOMAIN BvItems BY <1>1 DEF BvTypeOK
   <3> QED BY <3>1, <3>2, <1>1 DEF BvTyped, RecordsMove
  <2>3. ASSUME NEW b \in BvBranches, NEW ledgered \in BOOLEAN, MoveMoney(b, ledgered) PROVE RecordsMove
   <3>1. /\ bvStored' = [bvStored EXCEPT ![b] = @ - 1]
         /\ bvLedger' = [bvLedger EXCEPT ![b] = @ - 1] \/ bvLedger' = bvLedger
         /\ bvMoved' = bvMoved \cup {b} /\ bvSince' = bvSince /\ bvStayed' = bvStayed
         /\ bvSwept' = bvSwept
     BY <2>3 DEF MoveMoney, itemVars
   <3> QED BY <3>1, <1>1 DEF BvTyped, RecordsMove
  <2>4. ASSUME NEW i \in DOMAIN BvItems, SweepItem(i) PROVE RecordsMove
   <3>1. /\ bvSwept' = bvSwept \cup {i} /\ bvStayed' = bvStayed \ {i} /\ bvSince' = bvSince
         /\ bvMoved' = bvMoved /\ bvStored' = bvStored /\ bvLedger' = bvLedger
     BY <2>4 DEF SweepItem, moneyVars
   <3> QED BY <3>1, <1>1 DEF BvTyped, RecordsMove
  <2> QED BY <2>1, <2>2, <2>3, <2>4
 <1>4. BvTypeOK'
  <2>1. bvStayed' \subseteq DOMAIN BvItems BY <1>1, <1>3 DEF BvTypeOK, RecordsMove
  <2>2. \A i \in DOMAIN BvItems : bvSince'[i] \subseteq 0..BvLastTick BY <1>3 DEF RecordsMove
  <2>3. bvSwept' \subseteq DOMAIN BvItems
   <3>1. bvSwept' \subseteq bvSwept \cup DOMAIN BvItems
     BY DEF Enqueue, Dequeue, SweepItem, MoveMoney, itemVars
   <3> QED BY <3>1, <1>1 DEF BvTypeOK
  <2> QED BY <1>1, <1>2, <2>1, <2>2, <2>3 DEF BvTypeOK
 <1>5. BvTyped' /\ RowsFit' /\ LateFits' /\ OldestFit' /\ VariancesFit' BY <1>2, <1>3, <1>4, PageKept
 <1>6. RolesFit' /\ FilterNeverWidens' /\ TokensFit'
   BY <1>2 DEF BvInv, RolesFit, FilterNeverWidens, TokensFit, EveryTokenIsOnRecord
 <1> QED BY <1>5, <1>6 DEF BvInv

(* A page begins with nothing in hand, and ends so. *)
LEMMA PageTurnsKept ==
  ASSUME BvInv, CloseNow \/ \E role \in BackOffice : BeginNow(role)
  PROVE  BvInv'
 <1>1. BvTyped /\ BvTypeOK BY DEF BvInv, BvTyped
 <1>2. /\ UNCHANGED <<bvNow, bvSince, bvSwept, bvStored, bvLedger>>
       /\ UNCHANGED <<bvReads, bvList, bvStep, bvTarget, bvTokens, bvTrail, bvUnwritten>>
   BY DEF CloseNow, BeginNow, itemVars, moneyVars, tokenVars
 <1>3. /\ bvPage' = {} /\ bvBalances' = {} /\ bvSums' = {} /\ bvMoved' = {}
       /\ \A s \in WorkSources : s \in bvTodo' \/ bvStayed' = {}
       /\ bvStayed' = {} \/ bvStayed' = {i \in DOMAIN BvItems : bvSince[i] # {}}
  <2>1. CASE CloseNow BY <2>1 DEF CloseNow
  <2>2. ASSUME NEW role \in BackOffice, BeginNow(role)
        PROVE  /\ bvPage' = {} /\ bvBalances' = {} /\ bvSums' = {} /\ bvMoved' = {}
               /\ \A s \in WorkSources : s \in bvTodo'
               /\ bvStayed' = {i \in DOMAIN BvItems : bvSince[i] # {}}
    BY <2>2, SourceNames DEF BeginNow, BvInv, RowsFit
  <2> QED BY <2>1, <2>2
 <1>4. /\ bvAt' \in Int /\ bvCount' \in [RowSources -> Nat]
       /\ bvTruncated' <=> NowTruncated(bvCount)'
       /\ bvTodo' \subseteq WorkSources \cup {"BALANCES", "LEDGER"}
  <2>1. CASE CloseNow
   <3>1. bvCount' = [s \in RowSources |-> 0] BY <2>1 DEF CloseNow, RowSources
   <3>2. ~NowTruncated(bvCount)' /\ bvCount' \in [RowSources -> Nat] BY <3>1, BvAssumption DEF NowTruncated
   <3>3. ~bvTruncated' /\ bvAt' = 0 /\ bvTodo' = {} BY <2>1 DEF CloseNow
   <3> QED BY <3>2, <3>3
  <2>2. CASE \E role \in BackOffice : BeginNow(role)
   <3>1. UNCHANGED <<bvCount, bvTruncated>> /\ bvAt' = bvNow BY <2>2 DEF BeginNow
   <3>2. bvTodo' \subseteq WorkSources \cup {"BALANCES", "LEDGER"} BY <2>2 DEF BeginNow
   <3>3. bvAt' \in Int /\ bvNow \in Int
    <4>1. bvNow \in 0..BvLastTick BY <1>1 DEF BvTypeOK
    <4> QED BY <3>1, <4>1
   <3>4. bvTruncated' <=> NowTruncated(bvCount)' BY <3>1, <1>1 DEF BvTyped, NowTruncated
   <3> QED BY <3>1, <3>2, <3>3, <3>4, <1>1 DEF BvTyped
  <2> QED BY <2>1, <2>2
 <1>5. bvRole' \in BackOffice \cup {"none"} BY DEF CloseNow, BeginNow
 <1>6. BvTyped'
  <2>1. bvStayed' \subseteq DOMAIN BvItems /\ \A i \in bvStayed' : bvSince[i] # {} BY <1>3
  <2>2. BvTypeOK' BY <1>1, <1>2, <1>4, <1>5, <2>1 DEF BvTypeOK
  <2> QED BY <1>1, <1>2, <1>4, <2>1, <2>2 DEF BvTyped
 <1>7. RowsFit' /\ OldestFit' BY <1>3 DEF RowsFit, OldestFit
 <1>8. LateFits'
  <2>1. bvStayed' \subseteq DOMAIN BvItems BY <1>3
  <2>2. \A i \in bvStayed' : BvItems[i] \in bvTodo' BY <1>3, <2>1, BvAssumption
  <2> QED BY <2>2 DEF LateFits
 <1>9. VariancesFit' BY <1>3 DEF VariancesFit, SeenAsItIs, ReadAsFar, BooksRead
 <1>10. RolesFit'
  <2>1. RolesFit BY DEF BvInv
  <2>2. CASE CloseNow
   <3>1. bvTodo' = {} BY <2>2 DEF CloseNow
   <3> QED BY <2>1, <3>1, <1>2 DEF RolesFit
  <2>3. ASSUME NEW role \in BackOffice, BeginNow(role) PROVE RolesFit'
   <3>1. bvRole' = role /\ (bvTodo' \cap {"BALANCES", "LEDGER"} # {} => role \in TypeRoles("WALLET"))
     BY <2>3, SourceNames DEF BeginNow
   <3>2. role \in TypeRoles("WALLET") => role = "admin" BY SourceNames
   <3>3. bvTodo' # {} => bvRole' \in BackOffice BY <3>1
   <3>4. bvTodo' \cap {"BALANCES", "LEDGER"} # {} => bvRole' = "admin" BY <3>1, <3>2
   <3> QED BY <2>1, <3>3, <3>4, <1>2 DEF RolesFit
  <2> QED BY <2>2, <2>3
 <1>11. FilterNeverWidens' /\ TokensFit' BY <1>2 DEF BvInv, FilterNeverWidens, TokensFit, EveryTokenIsOnRecord
 <1> QED BY <1>6, <1>7, <1>8, <1>9, <1>10, <1>11 DEF BvInv

(* What neither the page nor its records change by. *)
LEMMA BesideThePageKept ==
  ASSUME BvInv,
         \/ BvTick \/ FailSources \/ Mint \/ LoseImpersonation
         \/ \E role \in BackOffice, s \in BvAccounts \cup {"BRANCH"} : BuildContext(role, s)
         \/ \E roleIds \in BvRoleFilters \cup {{}}, shared \in BOOLEAN : ListAccounts(roleIds, shared)
         \/ \E target \in BvAccounts : BeginImpersonation(target)
         \/ \E written \in BOOLEAN : RecordAttempt(written)
  PROVE  BvInv'
 <1>1. BvTyped /\ BvTypeOK BY DEF BvInv, BvTyped
 <1>2. /\ UNCHANGED <<bvSince, bvSwept, bvStored, bvLedger, bvTodo, bvAt, bvRole, bvBalances, bvSums>>
       /\ UNCHANGED <<bvPage, bvCount, bvTruncated, bvStayed, bvMoved>>
       /\ bvTodo # {} \/ UNCHANGED bvReady
   BY DEF BvTick, FailSources, Mint, LoseImpersonation, BuildContext, ListAccounts, BeginImpersonation,
          RecordAttempt, pageVars, itemVars, moneyVars
 <1>3. bvNow' \in 0..BvLastTick
  <2>1. bvNow' = bvNow \/ (bvNow < BvLastTick /\ bvNow' = bvNow + 1)
    BY DEF BvTick, FailSources, Mint, LoseImpersonation, BuildContext, ListAccounts, BeginImpersonation,
           RecordAttempt
  <2>2. bvNow \in 0..BvLastTick BY <1>1 DEF BvTypeOK
  <2> QED BY <2>1, <2>2, BvAssumption
 <1>4. TokensFit' /\ bvStep' \in {"idle", "record", "mint"}
       /\ bvTokens' \cup bvTrail' \cup bvUnwritten' \subseteq BvAccounts
  <2>1. TokensFit BY DEF BvInv
  <2>2. /\ bvTokens \cup bvTrail \cup bvUnwritten \cup bvTarget \subseteq BvAccounts
        /\ bvStep \in {"idle", "record", "mint"}
    BY <2>1, <1>1 DEF BvTypeOK, TokensFit
  <2>3. CASE UNCHANGED <<bvStep, bvTarget, bvTokens, bvTrail, bvUnwritten>>
    BY <2>1, <2>2, <2>3 DEF TokensFit, EveryTokenIsOnRecord
  <2>4. CASE \E target \in BvAccounts : BeginImpersonation(target)
   <3>1. bvStep' = "record" /\ bvTarget' \subseteq BvAccounts /\ UNCHANGED <<bvTokens, bvTrail, bvUnwritten>>
     BY <2>4 DEF BeginImpersonation, ImpersonationSteps
   <3> QED BY <2>1, <2>2, <3>1 DEF TokensFit, EveryTokenIsOnRecord
  <2>5. CASE \E written \in BOOLEAN : RecordAttempt(written)
   <3>1. /\ bvStep' = "mint" /\ bvTarget' = bvTarget /\ bvTokens' = bvTokens
         /\ bvTrail' \cup bvUnwritten' = bvTrail \cup bvUnwritten \cup bvTarget
     BY <2>5 DEF RecordAttempt, ImpersonationSteps
   <3> QED BY <2>1, <2>2, <3>1 DEF TokensFit, EveryTokenIsOnRecord
  <2>6. CASE Mint
   <3>1. bvStep = "mint" /\ bvStep' = "idle" /\ UNCHANGED <<bvTarget, bvTrail, bvUnwritten>>
         /\ bvTokens' \subseteq bvTokens \cup bvTarget
     BY <2>6 DEF Mint, ImpersonationSteps
   <3> QED BY <2>1, <2>2, <3>1 DEF TokensFit, EveryTokenIsOnRecord
  <2>7. CASE LoseImpersonation
    BY <2>1, <2>2, <2>7 DEF LoseImpersonation, TokensFit, EveryTokenIsOnRecord
  <2>8. CASE \/ BvTick \/ FailSources
             \/ \E role \in BackOffice, s \in BvAccounts \cup {"BRANCH"} : BuildContext(role, s)
             \/ \E roleIds \in BvRoleFilters \cup {{}}, shared \in BOOLEAN : ListAccounts(roleIds, shared)
    BY <2>3, <2>8 DEF BvTick, FailSources, BuildContext, ListAccounts, tokenVars
  <2> QED BY <2>4, <2>5, <2>6, <2>7, <2>8
 <1>5. BvTypeOK' BY <1>1, <1>2, <1>3, <1>4 DEF BvTypeOK
 <1>6. BvTyped' /\ RowsFit' /\ LateFits' /\ OldestFit' /\ VariancesFit'
   BY <1>2, <1>5, RecordsStand, PageKept
 <1>7. RolesFit'
  <2>1. RolesFit BY DEF BvInv
  <2>2. ASSUME NEW role \in BackOffice, NEW s \in BvAccounts \cup {"BRANCH"}, BuildContext(role, s)
        PROVE  \A r \in bvReads' : r[2] \in DOMAIN OwnerOf /\ r[1] \in TypeRoles(r[2])
   <3>1. Applicable(s) \subseteq DOMAIN OwnerOf BY DEF Applicable, OwnerOf
   <3>2. bvReads' = bvReads \cup {<<role, m>> : m \in {k \in Applicable(s) : role \in TypeRoles(k)}}
     BY <2>2 DEF BuildContext
   <3> HIDE DEF OwnerOf
   <3> QED BY <2>1, <3>1, <3>2 DEF RolesFit
  <2>3. (\E role \in BackOffice, s \in BvAccounts \cup {"BRANCH"} : BuildContext(role, s)) \/ bvReads' = bvReads
    BY DEF BvTick, FailSources, Mint, LoseImpersonation, ListAccounts, BeginImpersonation, RecordAttempt
  <2>4. \A r \in bvReads' : r[2] \in DOMAIN OwnerOf /\ r[1] \in TypeRoles(r[2])
    BY <2>1, <2>2, <2>3 DEF RolesFit
  <2> QED BY <2>1, <2>4, <1>2 DEF RolesFit
 <1>8. FilterNeverWidens'
  <2>1. FilterNeverWidens BY DEF BvInv
  <2>2. ASSUME NEW roleIds \in BvRoleFilters \cup {{}}, NEW shared \in BOOLEAN, ListAccounts(roleIds, shared)
        PROVE  FilterNeverWidens'
   <3> DEFINE found == IF roleIds = {} THEN BvAccounts ELSE RoleClause(roleIds)
              shown == IF shared THEN {a \in found : SharesPhone(a)} ELSE found
   <3>1. bvList' = {<<roleIds, shared, shown>>} BY <2>2 DEF ListAccounts
   <3>2. \A a \in shown : /\ roleIds # {} => BvRoleOf[a] \in roleIds
                          /\ shared => \E o \in BvAccounts \ {a} : BvPhoneOf[o] = BvPhoneOf[a]
     BY DEF RoleClause, SharesPhone
   <3> HIDE DEF shown
   <3> QED BY <3>1, <3>2 DEF FilterNeverWidens
  <2>3. (\E roleIds \in BvRoleFilters \cup {{}}, shared \in BOOLEAN : ListAccounts(roleIds, shared))
        \/ bvList' = bvList
    BY DEF BvTick, FailSources, Mint, LoseImpersonation, BuildContext, BeginImpersonation, RecordAttempt
  <2> QED BY <2>1, <2>2, <2>3 DEF FilterNeverWidens
 <1> QED BY <1>4, <1>6, <1>7, <1>8 DEF BvInv

LEMMA BvInvNext == BvInv /\ [BvNext]_bvVars => BvInv'
 <1> SUFFICES ASSUME BvInv, [BvNext]_bvVars PROVE BvInv' OBVIOUS
 <1>1. CASE UNCHANGED bvVars
  <2>1. /\ UNCHANGED <<bvNow, bvSince, bvSwept, bvStored, bvLedger, bvTodo, bvAt, bvRole, bvBalances, bvSums, bvPage>>
        /\ UNCHANGED <<bvCount, bvReady, bvTruncated, bvStayed, bvMoved, bvReads, bvList>>
        /\ UNCHANGED <<bvStep, bvTarget, bvTokens, bvTrail, bvUnwritten>>
    BY <1>1 DEF bvVars
  <2>2. BvTypeOK' BY <2>1 DEF BvInv, BvTyped, BvTypeOK
  <2>3. BvTyped' /\ RowsFit' /\ LateFits' /\ OldestFit' /\ VariancesFit' BY <2>1, <2>2, RecordsStand, PageKept
  <2>4. RolesFit' /\ FilterNeverWidens' /\ TokensFit'
    BY <2>1 DEF BvInv, RolesFit, FilterNeverWidens, TokensFit, EveryTokenIsOnRecord
  <2> QED BY <2>3, <2>4 DEF BvInv
 <1>2. CASE BvNext
  <2>1. CASE \E s \in WorkSources : ReadSource(s) BY <2>1, ReadSourceKept
  <2>2. CASE ReadBalances \/ ReadLedger BY <2>2, ReadBooksKept
  <2>3. CASE \/ \E i \in DOMAIN BvItems : Enqueue(i) \/ Dequeue(i) \/ SweepItem(i)
             \/ \E b \in BvBranches, ledgered \in BOOLEAN : MoveMoney(b, ledgered)
    BY <2>3, RecordsMoveKept
  <2>4. CASE CloseNow \/ \E role \in BackOffice : BeginNow(role) BY <2>4, PageTurnsKept
  <2>5. CASE \/ BvTick \/ FailSources \/ Mint \/ LoseImpersonation
             \/ \E role \in BackOffice, s \in BvAccounts \cup {"BRANCH"} : BuildContext(role, s)
             \/ \E roleIds \in BvRoleFilters \cup {{}}, shared \in BOOLEAN : ListAccounts(roleIds, shared)
             \/ \E target \in BvAccounts : BeginImpersonation(target)
             \/ \E written \in BOOLEAN : RecordAttempt(written)
    BY <2>5, BesideThePageKept
  <2> QED BY <1>2, <2>1, <2>2, <2>3, <2>4, <2>5 DEF BvNext
 <1> QED BY <1>1, <1>2

(* The resolver of each kind of record lets in whom its page shows it to. *)
LEMMA OwnersLetIn ==
  ASSUME NEW kind \in DOMAIN OwnerOf, NEW role \in TypeRoles(kind)
  PROVE  \E op \in Operations : op.name = OwnerOf[kind] /\ role \in op.roles
 <1> DEFINE Op(roles, n) == [name |-> n, roles |-> roles, needs |-> {}, allows |-> {}, public |-> FALSE]
 <1>1. Op(BackOffice, "supportTickets") \in SupportTicketsOps BY DEF SupportTicketsOps, Ops, Entry
 <1>2. Op(BackOffice, "kycReviewQueue") \in KycOps1 BY DEF KycOps1, Ops, Entry
 <1>3. Op(BackOffice, "adminOrders") \in OnlineOrdersOps3 /\ Op(BackOffice, "unsettledOrders") \in OnlineOrdersOps3
   BY DEF OnlineOrdersOps3, Ops, Entry
 <1>4. Op(BackOffice, "directoryUsers") \in DirectoryOps BY DEF DirectoryOps, Ops, Entry
 <1>5. Op(BackOffice, "bookingProviders") \in BookingAvailabilityOps1 BY DEF BookingAvailabilityOps1, Ops, Entry
 <1>6. Op({"admin"}, "adminWallets") \in WalletsAdminOps BY DEF WalletsAdminOps, Ops, Entry
 <1> DEFINE ListedFor == {"supportTickets", "kycReviewQueue", "adminOrders", "unsettledOrders", "directoryUsers",
                          "bookingProviders"}
 <1>7. \A n \in ListedFor : Op(BackOffice, n) \in Operations
  <2> HIDE DEF Op
  <2>1. \A group \in {SupportTicketsOps, KycOps1, OnlineOrdersOps3, DirectoryOps, BookingAvailabilityOps1} :
          group \subseteq Operations
    BY DEF Operations
  <2> QED BY <2>1, <1>1, <1>2, <1>3, <1>4, <1>5
 <1>8. Op({"admin"}, "adminWallets") \in Operations
  <2> HIDE DEF Op
  <2> QED BY <1>6 DEF Operations
 <1>9. \A roles, n : Op(roles, n).name = n /\ Op(roles, n).roles = roles OBVIOUS
 <1>10. CASE kind = "WALLET"
  <2>1. OwnerOf[kind] = "adminWallets" /\ role \in {"admin"} BY <1>10 DEF OwnerOf, TypeRoles
  <2> HIDE DEF Op
  <2> QED BY <2>1, <1>8, <1>9
 <1>11. CASE kind # "WALLET"
  <2>1. OwnerOf[kind] \in ListedFor BY <1>11 DEF OwnerOf
  <2>2. role \in BackOffice BY <1>11 DEF TypeRoles
  <2> HIDE DEF Op, ListedFor
  <2> QED BY <2>1, <2>2, <1>7, <1>9
 <1> QED BY <1>10, <1>11

LEMMA BvInvSays ==
  BvInv => /\ BvTypeOK /\ LateIsOnThePage /\ OldestAreShown /\ VariancesAreReal
           /\ NoWayAround /\ FilterNeverWidens /\ EveryTokenIsOnRecord
 <1> SUFFICES ASSUME BvInv
              PROVE  /\ BvTypeOK /\ LateIsOnThePage /\ OldestAreShown /\ VariancesAreReal
                     /\ NoWayAround /\ FilterNeverWidens /\ EveryTokenIsOnRecord
   OBVIOUS
 <1>1. BvTyped /\ BvTypeOK BY DEF BvInv, BvTyped
 <1>2. ~bvTruncated => \A s \in RowSources : ~Full(s) BY <1>1 DEF BvTyped, NowTruncated, Full
 <1>3. LateIsOnThePage
  <2>1. \A i \in bvStayed : BvItems[i] \in RowSources BY <1>1, SourceNames, BvAssumption DEF BvTypeOK
  <2> QED BY <2>1, <1>2 DEF BvInv, LateFits, LateIsOnThePage, Row
 <1>4. OldestAreShown
  <2> SUFFICES ASSUME NEW r \in bvPage, NEW j \in bvStayed, r.what \in bvStayed, BvItems[r.what] = BvItems[j],
                      ~\E q \in bvPage : q.what = j, BvItems[j] \notin bvTodo,
                      \A t \in bvSince[j] : bvAt - t >= BvShownAfter[BvItems[j]]
               PROVE  \A s \in bvSince[r.what], t \in bvSince[j] : NoLater(r.what, s, j, t)
    BY DEF OldestAreShown, NoLater
  <2>1. OldestFit BY DEF BvInv
  <2> QED BY <2>1 DEF OldestFit
 <1>5. VariancesAreReal
  <2> DEFINE unread(b) == \E was \in bvBalances : b \notin DOMAIN was
                                                   /\ Cardinality(DOMAIN was) >= BvMostWallets
  <2> SUFFICES ASSUME BooksRead, NEW b \in BvBranches \ bvMoved
               PROVE  /\ Row(b) \in bvPage => bvStored[b] # bvLedger[b]
                      /\ (bvStored[b] # bvLedger[b] /\ ~bvTruncated /\ ~unread(b)) => Row(b) \in bvPage
    BY DEF VariancesAreReal, BooksRead, Row
  <2>1. ~bvTruncated => ~Full("WALLET") BY <1>2, SourceNames
  <2>2. VariancesFit BY DEF BvInv
  <2>3. Unread(b, bvBalances) => unread(b)
   <3>1. BvMostWallets \in Nat BY BvAssumption
   <3> QED BY <2>2, <3>1 DEF VariancesFit, ReadAsFar, Unread
  <2> HIDE DEF unread
  <2> QED BY <2>1, <2>2, <2>3 DEF VariancesFit
 <1>6. NoWayAround BY OwnersLetIn DEF BvInv, RolesFit, NoWayAround
 <1> QED BY <1>1, <1>3, <1>4, <1>5, <1>6 DEF BvInv, TokensFit

-----------------------------------------------------------------------------
(* The search.

   A searcher that has answered holds a full page or every row that
   matched when the search began, unless more accounts have the number
   than are joined to the orders; then the accounts, of which few can have
   been opened since, fill a page.  The answer is the found rows whose
   predecessors are fewer than the limit; Precedes orders them, so that a
   row that was cut has as many predecessors in the answer as the limit,
   and a row identified exactly ranks before any that matched by name. *)
LEMMA LeastSize ==
  ASSUME NEW H \in SUBSET Nat, H # {}
  PROVE  \E t \in H : \A u \in H : t <= u
 <1>1. \E x \in H : \A y \in H : ~(<<y, x>> \in OpToRel(<, Nat)) BY WFMin, NatLessThanWellFounded
 <1>2. PICK x \in H : \A y \in H : ~(<<y, x>> \in OpToRel(<, Nat)) BY <1>1
 <1>3. \A y \in H : ~(y < x) BY <1>2 DEF OpToRel
 <1>4. \A y \in H : y \in Nat /\ x \in Nat OBVIOUS
 <1> QED BY <1>3, <1>4

LEMMA RanksApart ==
  ASSUME NEW r \in DOMAIN SrRows, NEW term \in DOMAIN SrTerms, TermIsClassified(term)
  PROVE  /\ RankOfRow(r, term) \in Int
         /\ Identified(r, term) <=> RankOfRow(r, term) <= 4
         /\ SearcherOf(r) \in Searchers
         /\ TieBreak[SrRows[r].type] \in Int
         /\ Identified(r, term) => HasClause(SearcherOf(r), term) /\ Carries(r, term)
 <1>1. SearcherOf(r) \in Searchers BY SrAssumption DEF SearcherOf, Searchers, TieBreak
 <1>2. TieBreak[SrRows[r].type] \in Int BY SrAssumption DEF TieBreak
 <1>3. Identified(r, term) => HasClause(SearcherOf(r), term) /\ Carries(r, term)
   BY DEF Identified, HasClause, Carries
 <1>4. ASSUME Identified(r, term) PROVE RankOfRow(r, term) \in Int /\ RankOfRow(r, term) <= 4
  <2>1. PICK i \in SrTerms[term].ids : TRUE BY <1>4 DEF Identified
  <2> DEFINE c == CHOOSE x \in SrTerms[term].ids : TRUE
  <2>2. c \in SrTerms[term].ids BY <2>1
  <2>3. c[1] \in Shapes BY <2>2 DEF TermIsClassified
  <2>4. RankOfRow(r, term) = ShapeRank[c[1]] BY <1>4 DEF RankOfRow
  <2> HIDE DEF c
  <2> QED BY <2>3, <2>4 DEF Shapes, ShapeRank
 <1>5. ASSUME ~Identified(r, term) PROVE RankOfRow(r, term) \in Int /\ ~(RankOfRow(r, term) <= 4)
  <2>1. NameStrength(r, term) \in {"EXACT", "PREFIX", "FUZZY", "NONE"}
    BY SrAssumption DEF NameStrength
  <2>2. RankOfRow(r, term) = NameRank[NameStrength(r, term)] BY <1>5 DEF RankOfRow
  <2> QED BY <2>1, <2>2 DEF NameRank
 <1> QED BY <1>1, <1>2, <1>3, <1>4, <1>5

LEMMA PrecedesIsAnOrder ==
  ASSUME NEW term \in DOMAIN SrTerms, TermIsClassified(term)
  PROVE  /\ \A r \in DOMAIN SrRows : ~Precedes(r, r, term)
         /\ \A r, q, p \in DOMAIN SrRows :
              Precedes(r, q, term) /\ Precedes(q, p, term) => Precedes(r, p, term)
         /\ \A r, q \in DOMAIN SrRows : Precedes(r, q, term) /\ Identified(q, term) => Identified(r, term)
         /\ \A r, q \in DOMAIN SrRows : Identified(r, term) /\ ~Identified(q, term) => Precedes(r, q, term)
 <1>1. \A r \in DOMAIN SrRows :
         /\ RankOfRow(r, term) \in Int /\ TieBreak[SrRows[r].type] \in Int /\ SrRows[r].at \in Int
         /\ Identified(r, term) <=> RankOfRow(r, term) <= 4
   BY RanksApart, SrAssumption
 <1>2. \A r, q \in DOMAIN SrRows :
         Precedes(r, q, term) <=>
           \/ RankOfRow(r, term) < RankOfRow(q, term)
           \/ /\ RankOfRow(r, term) = RankOfRow(q, term)
              /\ \/ TieBreak[SrRows[r].type] < TieBreak[SrRows[q].type]
                 \/ TieBreak[SrRows[r].type] = TieBreak[SrRows[q].type] /\ SrRows[r].at < SrRows[q].at
   BY DEF Precedes
 <1>3. \A r \in DOMAIN SrRows : ~Precedes(r, r, term) BY <1>1, <1>2
 <1>4. ASSUME NEW r \in DOMAIN SrRows, NEW q \in DOMAIN SrRows, NEW p \in DOMAIN SrRows,
              Precedes(r, q, term), Precedes(q, p, term)
       PROVE  Precedes(r, p, term)
   BY <1>1, <1>2, <1>4
 <1>5. \A r, q \in DOMAIN SrRows : Precedes(r, q, term) /\ Identified(q, term) => Identified(r, term)
   BY <1>1, <1>2
 <1>6. \A r, q \in DOMAIN SrRows : Identified(r, term) /\ ~Identified(q, term) => Precedes(r, q, term)
   BY <1>1, <1>2
 <1> QED BY <1>3, <1>4, <1>5, <1>6

(* What the cut by the limit leaves out has at least the limit before it in
   what is kept. *)
LEMMA CutKeepsTheFirst ==
  ASSUME NEW term \in DOMAIN SrTerms, TermIsClassified(term), NEW rows \in SUBSET DOMAIN SrRows,
         NEW limit \in Nat, NEW r \in rows, r \notin Sliced(rows, term, limit)
  PROVE  /\ IsFiniteSet(Sliced(rows, term, limit))
         /\ Cardinality({q \in Sliced(rows, term, limit) : Precedes(q, r, term)}) >= limit
 <1> DEFINE Before(x) == {q \in rows : Precedes(q, x, term)}
            Kept == Sliced(rows, term, limit)
            Left == Before(r) \ Kept
            K == {q \in Kept : Precedes(q, r, term)}
 <1>1. IsFiniteSet(rows) BY SrAssumption, FS_Subset
 <1>2. \A x : IsFiniteSet(Before(x)) /\ Cardinality(Before(x)) \in Nat
  <2> TAKE x
  <2>1. Before(x) \subseteq rows OBVIOUS
  <2> HIDE DEF Before
  <2> QED BY <2>1, <1>1, FS_Subset, FS_CardinalityType
 <1>3. \A x \in rows : x \in Kept <=> Cardinality(Before(x)) < limit BY DEF Sliced
 <1>4. Kept \subseteq rows BY DEF Sliced
 <1>5. IsFiniteSet(Kept) BY <1>1, <1>4, FS_Subset
 <1>6. K = Before(r) \cap Kept BY <1>4
 <1>7. IsFiniteSet(K) /\ Cardinality(K) \in Nat
  <2> HIDE DEF K, Kept
  <2> QED BY <1>2, <1>6, FS_Intersection, FS_CardinalityType
 <1>8. Cardinality(Before(r)) >= limit
  <2> HIDE DEF Before, Kept
  <2> QED BY <1>2, <1>3 DEF Kept
 <1>9. ASSUME Cardinality(K) < limit PROVE FALSE
  <2>1. Left # {}
   <3> SUFFICES ASSUME Left = {} PROVE FALSE OBVIOUS
   <3>1. Before(r) = K BY <1>6
   <3> HIDE DEF Before, K
   <3> QED BY <3>1, <1>2, <1>7, <1>8, <1>9
  <2> DEFINE Sizes == {Cardinality(Before(x)) : x \in Left}
  <2>2. Sizes \in SUBSET Nat /\ Sizes # {}
   <3> HIDE DEF Before, Left
   <3> QED BY <1>2, <2>1
  <2>3. PICK n \in Sizes : \A u \in Sizes : n <= u
   <3> HIDE DEF Sizes
   <3> QED BY <2>2, LeastSize
  <2>4. PICK x \in Left : n = Cardinality(Before(x)) BY <2>3
  <2>5. x \in rows /\ x \in Before(r) /\ x \notin Kept BY <2>4
  <2>6. Before(x) \subseteq Before(r) \ {x} BY <2>5, PrecedesIsAnOrder
  <2>7. Before(x) \subseteq Kept
   <3> SUFFICES ASSUME NEW z \in Before(x), z \notin Kept PROVE FALSE OBVIOUS
   <3>1. z \in Left BY <2>6
   <3>2. z \in rows /\ Before(z) \subseteq Before(x) /\ z \notin Before(z) BY <2>5, PrecedesIsAnOrder
   <3>3. Cardinality(Before(x)) <= Cardinality(Before(z)) BY <2>3, <2>4, <3>1
   <3> HIDE DEF Before
   <3> QED BY <1>2, <3>2, <3>3, FS_Subset
  <2>8. Before(x) \subseteq K BY <2>6, <2>7, <1>6
  <2>9. Cardinality(Before(x)) <= Cardinality(K)
   <3> HIDE DEF Before, K
   <3> QED BY <1>7, <2>8, FS_Subset
  <2> HIDE DEF Before, Kept, K
  <2> QED BY <1>2, <1>3, <1>7, <1>9, <2>5, <2>9
 <1> HIDE DEF K
 <1>10. Cardinality(K) >= limit BY <1>7, <1>9
 <1> QED BY <1>5, <1>10 DEF K

(* What a searcher looks for, and what the answer is made of. *)
Matching(searcher, term, rows) == {r \in rows : SearcherOf(r) = searcher /\ RowMatches(r, term)}
Gathered == UNION {srFound[s] : s \in Searchers}

NotAllJoined(term) == ByPhone(term) /\ Cardinality(PhoneAccounts(term, srStored)) > SrPhoneUsers

SrTyped ==
  /\ SrTypeOK
  /\ \A r \in srStored : SrRows[r].of \subseteq srStored
  /\ \A r \in srBefore : SrRows[r].of \subseteq srBefore
  /\ srpc # "idle" => Cardinality(srStored \ srBefore) <= srInserts
  /\ srFound \in [Searchers -> SUBSET srStored]
  /\ srLimit \in Nat /\ srTruncated \in BOOLEAN
  /\ \A term \in srTerm : term \in DOMAIN SrTerms /\ TermIsClassified(term) /\ srTerm = {term}

SearchFits ==
  \A term \in srTerm : \A s \in Searchers :
    /\ srFound[s] \subseteq Matching(s, term, srStored)
    /\ s \in srPending => srFound[s] = {}
    /\ s \notin srPending =>
         \/ Cardinality(srFound[s]) = SrPerType
         \/ Matching(s, term, srBefore) \subseteq srFound[s]
         \/ s = "orders" /\ NotAllJoined(term)

AnswerFits ==
  /\ srpc # "answered" => srAnswer = {}
  /\ srpc = "answered" =>
       /\ srTruncated <=> Truncated(srFound)
       /\ \A term \in srTerm : srAnswer = Sliced(Gathered, term, srLimit)

SrInv == SrTyped /\ SearchFits /\ AnswerFits

LEMMA SrInvInit == SrInit => SrInv
 <1> SUFFICES ASSUME SrInit PROVE SrInv OBVIOUS
 <1>1. SrTyped
  <2>1. srStored \subseteq DOMAIN SrRows BY SrAssumption DEF SrInit
  <2>2. SrTypeOK BY <2>1, SrAssumption DEF SrInit, SrTypeOK
  <2>3. srFound \in [Searchers -> SUBSET srStored] BY DEF SrInit
  <2>4. srLimit \in Nat /\ srTruncated \in BOOLEAN /\ srTerm = {} BY DEF SrInit
  <2>5. srpc = "idle" /\ srBefore = {} /\ \A r \in srStored : SrRows[r].of \subseteq srStored
    BY SrAssumption DEF SrInit
  <2> QED BY <2>2, <2>3, <2>4, <2>5 DEF SrTyped
 <1>2. SearchFits BY DEF SrInit, SearchFits
 <1>3. AnswerFits BY DEF SrInit, AnswerFits
 <1> QED BY <1>1, <1>2, <1>3 DEF SrInv

(* Each query returns a full page, or everything that matches. *)
LEMMA PageOrAll ==
  ASSUME NEW searcher, NEW rows \in SUBSET DOMAIN SrRows, NEW page \in PagesOf(searcher, rows)
  PROVE  /\ page \subseteq rows
         /\ Cardinality(page) = SrPerType \/ page = rows
 <1>1. IsFiniteSet(rows) BY SrAssumption, FS_Subset
 <1>2. page \subseteq rows BY DEF PagesOf
 <1>3. Cardinality(page) = IF Cardinality(rows) < SrPerType THEN Cardinality(rows) ELSE SrPerType
   BY DEF PagesOf
 <1>4. Cardinality(page) = Cardinality(rows) => page = rows BY <1>1, <1>2, FS_Subset
 <1> QED BY <1>2, <1>3, <1>4

(* The answer is written with the last row that arrives. *)
LEMMA AnswerWritten ==
  ASSUME SrInv, NEW left, srpc = "searching", srTerm' = srTerm, UNCHANGED srLimit,
         Finish(srFound', left), srFound' \in [Searchers -> SUBSET srStored], UNCHANGED srStored
  PROVE  /\ AnswerFits'
         /\ srAnswer' \subseteq srStored /\ srTruncated' \in BOOLEAN
         /\ srpc' \in {"searching", "answered"}
 <1>1. CASE left # {}
  <2>1. UNCHANGED <<srpc, srAnswer, srTruncated>> BY <1>1 DEF Finish
  <2> QED BY <2>1 DEF SrInv, SrTyped, SrTypeOK, AnswerFits
 <1>2. CASE left = {}
  <2> DEFINE G == UNION {srFound'[s] : s \in Searchers}
  <2>1. /\ srpc' = "answered" /\ srTruncated' = Truncated(srFound')
        /\ srAnswer' = UNION {Sliced(G, term, srLimit) : term \in srTerm}
    BY <1>2 DEF Finish
  <2>2. G \subseteq srStored OBVIOUS
  <2>3. G = Gathered' BY DEF Gathered
  <2>4. srAnswer' \subseteq srStored
   <3> HIDE DEF G
   <3> QED BY <2>1, <2>2 DEF Sliced
  <2>5. ASSUME NEW term \in srTerm PROVE srAnswer' = Sliced(G, term, srLimit)
   <3>1. srTerm = {term} BY DEF SrInv, SrTyped
   <3> HIDE DEF G
   <3> QED BY <2>1, <3>1
  <2>6. srTruncated' \in BOOLEAN BY <2>1 DEF Truncated
  <2>7. AnswerFits'
   <3> HIDE DEF G
   <3>1. srTruncated' <=> Truncated(srFound') BY <2>1
   <3>2. \A term \in srTerm' : srAnswer' = Sliced(Gathered', term, srLimit') BY <2>3, <2>5
   <3> QED BY <2>1, <3>1, <3>2 DEF AnswerFits
  <2> QED BY <2>1, <2>4, <2>6, <2>7
 <1> QED BY <1>1, <1>2

(* A term that is a number has no other shape. *)
LEMMA NumberAlone ==
  ASSUME NEW term \in DOMAIN SrTerms, TermIsClassified(term), ByPhone(term)
  PROVE  \A i \in SrTerms[term].ids : i[1] = "phone"
 <1>1. PICK i \in SrTerms[term].ids : i[1] = "phone" BY DEF ByPhone
 <1> SUFFICES ASSUME NEW j \in SrTerms[term].ids, j # i PROVE FALSE BY <1>1
 <1>2. IsFiniteSet(SrTerms[term].ids) /\ Cardinality(SrTerms[term].ids) <= 1
   BY SrAssumption DEF TermIsClassified
 <1>3. IsFiniteSet({i}) /\ Cardinality({i}) = 1 BY FS_Singleton
 <1>4. Cardinality({i} \cup {j}) = 2 BY <1>3, FS_AddElement
 <1>5. {i} \cup {j} \subseteq SrTerms[term].ids BY <1>1
 <1>6. Cardinality({i} \cup {j}) <= Cardinality(SrTerms[term].ids) /\ Cardinality(SrTerms[term].ids) \in Nat
   BY <1>2, <1>5, FS_Subset, FS_CardinalityType
 <1> QED BY <1>2, <1>4, <1>6

(* Who has the number is what the accounts' searcher looks for too. *)
LEMMA NumbersAreMatched ==
  ASSUME NEW term \in DOMAIN SrTerms, TermIsClassified(term), ByPhone(term), NEW rows
  PROVE  PhoneAccounts(term, rows) \subseteq Matching("accounts", term, rows)
 <1> SUFFICES ASSUME NEW a \in PhoneAccounts(term, rows) PROVE a \in Matching("accounts", term, rows)
   OBVIOUS
 <1>1. a \in rows /\ SearcherOf(a) = "accounts" BY DEF PhoneAccounts
 <1>2. PICK i \in SrTerms[term].ids : i \in KnownBy(a) BY DEF PhoneAccounts
 <1>3. i[1] = "phone" BY NumberAlone
 <1>4. "phone" \in ClausesOf["accounts"] BY DEF ClausesOf
 <1>5. Identified(a, term) /\ HasClause("accounts", term) BY <1>1, <1>2, <1>3, <1>4 DEF Identified, HasClause
 <1> QED BY <1>1, <1>5 DEF Matching, RowMatches

(* An order that matches is one of an account that has the number. *)
LEMMA OrdersAreReached ==
  ASSUME SrInv, NEW term \in DOMAIN SrTerms, TermIsClassified(term),
         NEW s \in Searchers, NEW r \in Matching(s, term, srBefore)
  PROVE  Reached(r, term, PhoneAccounts(term, srStored))
 <1> SUFFICES ASSUME SearcherOf(r) = "orders", ByPhone(term)
              PROVE  SrRows[r].of \cap PhoneAccounts(term, srStored) # {}
   BY DEF Reached
 <1>1. /\ r \in srBefore /\ r \in DOMAIN SrRows /\ RowMatches(r, term)
       /\ SrRows[r].of \subseteq srBefore /\ srBefore \subseteq srStored
   BY DEF Matching, SrInv, SrTyped, SrTypeOK
 <1>2. SrRows[r].type = "ORDER" BY <1>1 DEF SearcherOf
 <1>3. HasClause("orders", term) BY DEF HasClause, ByPhone, ClausesOf
 <1>4. PICK i \in SrTerms[term].ids : i \in KnownBy(r) BY <1>1, <1>3 DEF RowMatches, Identified
 <1>5. i[1] = "phone" BY NumberAlone
 <1>6. i \notin SrRows[r].ids BY <1>1, <1>2, <1>5, SrAssumption
 <1>7. PICK a \in SrRows[r].of : i \in SrRows[a].ids BY <1>4, <1>6 DEF KnownBy
 <1>8. a \in DOMAIN SrRows /\ SrRows[a].type \in Owners BY <1>1, SrAssumption
 <1>9. SearcherOf(a) = "accounts" BY <1>8 DEF SearcherOf, Owners
 <1>10. a \in PhoneAccounts(term, srStored) BY <1>1, <1>4, <1>7, <1>9 DEF PhoneAccounts, KnownBy
 <1> QED BY <1>7, <1>10

LEMMA RunSearcherKept ==
  ASSUME SrInv, NEW searcher \in Searchers, RunSearcher(searcher)
  PROVE  SrInv'
 <1> DEFINE Asked(term, joined) ==
       {r \in srStored : /\ SearcherOf(r) = searcher /\ RowMatches(r, term)
                         /\ Reached(r, term, joined)}
 <1>1. /\ srpc = "searching" /\ searcher \in srPending /\ srPending' = srPending \ {searcher}
       /\ Finish(srFound', srPending')
       /\ UNCHANGED <<srStored, srTerm, srLimit, srBefore, srInserts>>
   BY DEF RunSearcher
 <1>2. PICK term \in srTerm : \E joined \in JoinsOf(term, srStored) :
         \E page \in PagesOf(searcher, Asked(term, joined)) : srFound' = [srFound EXCEPT ![searcher] = page]
   BY DEF RunSearcher
 <1>12. PICK joined \in JoinsOf(term, srStored) :
         \E page \in PagesOf(searcher, Asked(term, joined)) : srFound' = [srFound EXCEPT ![searcher] = page]
   BY <1>2
 <1>3. PICK page \in PagesOf(searcher, Asked(term, joined)) : srFound' = [srFound EXCEPT ![searcher] = page]
   BY <1>12
 <1>4. srTerm = {term} /\ term \in DOMAIN SrTerms /\ TermIsClassified(term) BY <1>2 DEF SrInv, SrTyped
 <1>5. Asked(term, joined) \in SUBSET DOMAIN SrRows BY DEF SrInv, SrTyped, SrTypeOK
 <1>6. /\ page \subseteq Asked(term, joined)
       /\ Cardinality(page) = SrPerType \/ page = Asked(term, joined)
  <2> HIDE DEF Asked
  <2> QED BY <1>3, <1>5, PageOrAll
 <1>13. Asked(term, joined) \subseteq Matching(searcher, term, srStored) BY DEF Matching
 <1>14. joined = PhoneAccounts(term, srStored) \/ Cardinality(PhoneAccounts(term, srStored)) > SrPhoneUsers
  <2> DEFINE users == PhoneAccounts(term, srStored)
  <2>1. /\ joined \in SUBSET users
        /\ Cardinality(joined) = IF Cardinality(users) < SrPhoneUsers THEN Cardinality(users) ELSE SrPhoneUsers
    BY <1>12 DEF JoinsOf
  <2>2. users \subseteq DOMAIN SrRows BY DEF PhoneAccounts, SrInv, SrTyped, SrTypeOK
  <2> HIDE DEF users
  <2>3. IsFiniteSet(users) /\ Cardinality(users) \in Nat BY <2>2, SrAssumption, FS_Subset, FS_CardinalityType
  <2>4. Cardinality(joined) = Cardinality(users) => joined = users BY <2>1, <2>3, FS_Subset
  <2>5. SrPhoneUsers \in Nat BY SrAssumption
  <2>6. joined = users \/ Cardinality(users) > SrPhoneUsers BY <2>1, <2>3, <2>4, <2>5
  <2> QED BY <2>6 DEF users
 <1>7. \/ Matching(searcher, term, srBefore) \subseteq Asked(term, joined)
       \/ searcher = "orders" /\ NotAllJoined(term)
  <2>1. CASE searcher = "orders" /\ ByPhone(term)
   <3>1. CASE Cardinality(PhoneAccounts(term, srStored)) > SrPhoneUsers BY <2>1, <3>1 DEF NotAllJoined
   <3>2. CASE joined = PhoneAccounts(term, srStored)
     BY <3>2, <1>4, OrdersAreReached DEF Matching, SrInv, SrTyped, SrTypeOK
   <3> QED BY <3>1, <3>2, <1>14
  <2>2. CASE ~(searcher = "orders" /\ ByPhone(term))
   <3>1. \A r \in Matching(searcher, term, srBefore) : Reached(r, term, joined)
     BY <2>2 DEF Matching, Reached
   <3> QED BY <3>1 DEF Matching, SrInv, SrTyped, SrTypeOK
  <2> QED BY <2>1, <2>2
 <1>8. srFound' \in [Searchers -> SUBSET srStored]
  <2>1. page \subseteq srStored BY <1>6
  <2> QED BY <1>3, <2>1 DEF SrInv, SrTyped
 <1>9. AnswerFits' /\ srAnswer' \subseteq srStored /\ srTruncated' \in BOOLEAN
       /\ srpc' \in {"searching", "answered"}
   BY <1>1, <1>8, AnswerWritten
 <1>10. SrTyped' BY <1>1, <1>8, <1>9 DEF SrInv, SrTyped, SrTypeOK
 <1> HIDE DEF Asked
 <1>11. SearchFits'
  <2>3. NotAllJoined(term)' <=> NotAllJoined(term) BY <1>1 DEF NotAllJoined, PhoneAccounts
  <2> SUFFICES ASSUME NEW s \in Searchers
               PROVE  /\ srFound'[s] \subseteq Matching(s, term, srStored)
                      /\ s \in srPending' => srFound'[s] = {}
                      /\ s \notin srPending' =>
                           \/ Cardinality(srFound'[s]) = SrPerType
                           \/ Matching(s, term, srBefore) \subseteq srFound'[s]
                           \/ s = "orders" /\ NotAllJoined(term)
    BY <1>1, <1>4, <2>3 DEF SearchFits, Matching
  <2>1. CASE s = searcher
   <3>1. srFound'[s] = page /\ s \notin srPending' BY <1>1, <1>3, <2>1 DEF SrInv, SrTyped
   <3> QED BY <2>1, <3>1, <1>6, <1>7, <1>13
  <2>2. CASE s # searcher
   <3>1. srFound'[s] = srFound[s] /\ (s \in srPending' <=> s \in srPending)
     BY <1>1, <1>3, <2>2 DEF SrInv, SrTyped
   <3> QED BY <3>1, <1>2 DEF SrInv, SearchFits
  <2> QED BY <2>1, <2>2
 <1> QED BY <1>9, <1>10, <1>11 DEF SrInv

LEMMA SrInvNext == SrInv /\ [SrNext]_srVars => SrInv'
 <1> SUFFICES ASSUME SrInv, [SrNext]_srVars PROVE SrInv' OBVIOUS
 <1>1. ASSUME NEW term \in DOMAIN SrTerms, NEW limit \in SrLimits, BeginSearch(term, limit) PROVE SrInv'
  <2>1. /\ TermIsClassified(term) /\ srpc' = "searching" /\ srTerm' = {term} /\ srLimit' = limit
        /\ srFound' = [s \in Searchers |-> {}] /\ srPending' = Searchers
        /\ srBefore' = srStored /\ srAnswer' = {} /\ srTruncated' = FALSE
        /\ UNCHANGED <<srStored, srInserts>>
    BY <1>1 DEF BeginSearch
  <2>5. Cardinality(srStored' \ srBefore') <= srInserts'
   <3>1. srStored' \ srBefore' = {} BY <2>1
   <3>2. Cardinality(srStored' \ srBefore') = 0 BY <3>1, FS_EmptySet
   <3>3. srInserts' = srInserts /\ srInserts \in Int /\ srInserts >= 0
     BY <2>1, SrAssumption DEF SrInv, SrTyped, SrTypeOK
   <3> QED BY <3>2, <3>3
  <2>2. SrTyped' BY <2>1, <2>5, SrAssumption DEF SrInv, SrTyped, SrTypeOK
  <2>3. SearchFits' BY <2>1 DEF SearchFits
  <2>4. AnswerFits' BY <2>1 DEF AnswerFits
  <2> QED BY <2>2, <2>3, <2>4 DEF SrInv
 <1>2. ASSUME NEW s \in Searchers, RunSearcher(s) PROVE SrInv' BY <1>2, RunSearcherKept
 <1>3. ASSUME FailTheRest PROVE SrInv'
  <2>1. /\ srpc = "searching" /\ Finish(srFound', {})
        /\ UNCHANGED <<srStored, srTerm, srLimit, srFound, srPending, srBefore, srInserts>>
    BY <1>3 DEF FailTheRest
  <2>2. AnswerFits' /\ srAnswer' \subseteq srStored /\ srTruncated' \in BOOLEAN
        /\ srpc' \in {"searching", "answered"}
   <3>1. srFound' \in [Searchers -> SUBSET srStored] BY <2>1 DEF SrInv, SrTyped
   <3> QED BY <2>1, <3>1, AnswerWritten
  <2>3. SrTyped' BY <2>1, <2>2 DEF SrInv, SrTyped, SrTypeOK
  <2>4. SearchFits' BY <2>1 DEF SrInv, SearchFits, Matching, NotAllJoined, PhoneAccounts
  <2> QED BY <2>2, <2>3, <2>4 DEF SrInv
 <1>4. ASSUME CloseSearch PROVE SrInv'
  <2>1. /\ srpc' = "idle" /\ srTerm' = {} /\ srLimit' = 0
        /\ srFound' = [s \in Searchers |-> {}] /\ srPending' = {} /\ srAnswer' = {} /\ srTruncated' = FALSE
        /\ srBefore' = {}
        /\ UNCHANGED <<srStored, srInserts>>
    BY <1>4 DEF CloseSearch
  <2>2. SrTyped' BY <2>1 DEF SrInv, SrTyped, SrTypeOK
  <2>3. SearchFits' BY <2>1 DEF SearchFits
  <2>4. AnswerFits' BY <2>1 DEF AnswerFits
  <2> QED BY <2>2, <2>3, <2>4 DEF SrInv
 <1>5. ASSUME NEW row \in DOMAIN SrRows, InsertRow(row) PROVE SrInv'
  <2>1. /\ srInserts < SrMostInserts /\ SrRows[row].of \subseteq srStored
        /\ srStored' = srStored \cup {row} /\ srInserts' = srInserts + 1
        /\ UNCHANGED <<srpc, srTerm, srLimit, srFound, srPending, srAnswer, srTruncated, srBefore>>
    BY <1>5 DEF InsertRow
  <2>2. SrTyped'
   <3>1. srInserts' \in 0..SrMostInserts BY <2>1, SrAssumption DEF SrInv, SrTyped, SrTypeOK
   <3>2. srFound' \in [Searchers -> SUBSET srStored'] BY <2>1 DEF SrInv, SrTyped
   <3>3. \A r \in srStored' : SrRows[r].of \subseteq srStored' BY <2>1 DEF SrInv, SrTyped
   <3>4. srpc # "idle" => Cardinality(srStored' \ srBefore) <= srInserts'
    <4> SUFFICES ASSUME srpc # "idle" PROVE Cardinality(srStored' \ srBefore) <= srInserts' OBVIOUS
    <4> DEFINE new == srStored \ srBefore
    <4>1. new \subseteq DOMAIN SrRows BY DEF SrInv, SrTyped, SrTypeOK
    <4>2. srStored' \ srBefore \subseteq new \cup {row} BY <2>1
    <4>3. Cardinality(new) <= srInserts /\ srInserts \in Int
      BY SrAssumption DEF SrInv, SrTyped, SrTypeOK
    <4> HIDE DEF new
    <4>4. IsFiniteSet(new) /\ Cardinality(new) \in Nat BY <4>1, SrAssumption, FS_Subset, FS_CardinalityType
    <4>5. /\ IsFiniteSet(new \cup {row}) /\ Cardinality(new \cup {row}) \in Nat
          /\ Cardinality(new \cup {row}) <= Cardinality(new) + 1
      BY <4>4, FS_AddElement, FS_CardinalityType
    <4>6. IsFiniteSet(srStored' \ srBefore)
          /\ Cardinality(srStored' \ srBefore) <= Cardinality(new \cup {row})
          /\ Cardinality(srStored' \ srBefore) \in Nat
      BY <4>2, <4>5, FS_Subset, FS_CardinalityType
    <4> QED BY <2>1, <4>3, <4>4, <4>5, <4>6
   <3> QED BY <2>1, <3>1, <3>2, <3>3, <3>4 DEF SrInv, SrTyped, SrTypeOK
  <2>5. \A term : NotAllJoined(term) => NotAllJoined(term)'
   <3> TAKE term
   <3> DEFINE now == PhoneAccounts(term, srStored)
              next == PhoneAccounts(term, srStored')
   <3>1. now \subseteq next /\ next \subseteq DOMAIN SrRows
     BY <2>1 DEF PhoneAccounts, SrInv, SrTyped, SrTypeOK
   <3> HIDE DEF now, next
   <3>2. IsFiniteSet(next) BY <3>1, SrAssumption, FS_Subset
   <3>3. Cardinality(now) <= Cardinality(next) /\ Cardinality(now) \in Nat /\ Cardinality(next) \in Nat
     BY <3>1, <3>2, FS_Subset, FS_CardinalityType
   <3>4. SrPhoneUsers \in Nat BY SrAssumption
   <3>5. Cardinality(now) > SrPhoneUsers => Cardinality(next) > SrPhoneUsers BY <3>3, <3>4
   <3> QED BY <3>5 DEF NotAllJoined, now, next
  <2>3. SearchFits'
   <3>1. \A s, term : Matching(s, term, srStored) \subseteq Matching(s, term, srStored') BY <2>1 DEF Matching
   <3>2. \A s, term : Matching(s, term, srBefore)' = Matching(s, term, srBefore) BY <2>1 DEF Matching
   <3>3. \A s, term : Matching(s, term, srStored)' = Matching(s, term, srStored') BY DEF Matching
   <3> QED BY <2>1, <2>5, <3>1, <3>2, <3>3 DEF SrInv, SearchFits
  <2>4. AnswerFits' BY <2>1 DEF SrInv, AnswerFits, Gathered
  <2> QED BY <2>2, <2>3, <2>4 DEF SrInv
 <1>6. ASSUME UNCHANGED srVars PROVE SrInv'
  <2>1. UNCHANGED <<srStored, srpc, srTerm, srLimit, srFound, srPending, srAnswer, srTruncated, srBefore, srInserts>>
    BY <1>6 DEF srVars
  <2>2. SrTyped' BY <2>1 DEF SrInv, SrTyped, SrTypeOK
  <2>3. SearchFits' BY <2>1 DEF SrInv, SearchFits, Matching, NotAllJoined, PhoneAccounts
  <2>4. AnswerFits' BY <2>1 DEF SrInv, AnswerFits, Gathered
  <2> QED BY <2>2, <2>3, <2>4 DEF SrInv
 <1> QED BY <1>1, <1>2, <1>3, <1>4, <1>5, <1>6 DEF SrNext

(* What a finished search holds, for the one term it is of. *)
LEMMA FinishedSearch ==
  ASSUME SrInv, NEW term \in srTerm, Answering(term)
  PROVE  /\ term \in DOMAIN SrTerms /\ TermIsClassified(term)
         /\ Gathered \in SUBSET srStored /\ Gathered \in SUBSET DOMAIN SrRows
         /\ IsFiniteSet(srStored)
         /\ srAnswer = Sliced(Gathered, term, srLimit) /\ srAnswer \subseteq srStored
         /\ srLimit \in Nat /\ SrPerType \in Nat
         /\ \A s \in Searchers : srFound[s] \in SUBSET srStored /\ srFound[s] \in SUBSET Gathered
         /\ \A r \in srBefore : r \in srStored /\ r \in DOMAIN SrRows
 <1>1. srFound \in [Searchers -> SUBSET srStored] /\ srLimit \in Nat BY DEF SrInv, SrTyped
 <1>2. Gathered \in SUBSET srStored BY <1>1 DEF Gathered
 <1>3. srStored \in SUBSET DOMAIN SrRows BY DEF SrInv, SrTyped, SrTypeOK
 <1>4. IsFiniteSet(srStored) BY <1>3, SrAssumption, FS_Subset
 <1>5. \A s \in Searchers : srFound[s] \in SUBSET srStored /\ srFound[s] \in SUBSET Gathered
   BY <1>1 DEF Gathered
 <1>6. srAnswer = Sliced(Gathered, term, srLimit) BY DEF SrInv, AnswerFits, Answering
 <1>7. term \in DOMAIN SrTerms /\ TermIsClassified(term) BY DEF SrInv, SrTyped
 <1>8. srAnswer \subseteq srStored /\ srBefore \subseteq srStored BY DEF SrInv, SrTyped, SrTypeOK
 <1> QED BY <1>1, <1>2, <1>3, <1>4, <1>5, <1>6, <1>7, <1>8, SrAssumption

LEMMA ExactFound == SrInv => ExactIsFound
 <1> SUFFICES ASSUME SrInv, NEW term \in srTerm, Answering(term), NEW r \in srBefore \ srAnswer,
                     Identified(r, term), SearcherOf(r) \notin srPending
              PROVE  \/ Cardinality({q \in srStored : SearcherOf(q) = SearcherOf(r) /\ Carries(q, term)}) > SrPerType
                     \/ Cardinality({q \in srAnswer : Carries(q, term)}) >= srLimit
                     \/ SearcherOf(r) = "orders" /\ NotAllJoined(term)
   BY DEF ExactIsFound, NotAllJoined
 <1> DEFINE Alike == {q \in srStored : SearcherOf(q) = SearcherOf(r) /\ Carries(q, term)}
            Carrying == {q \in srAnswer : Carries(q, term)}
 <1>1. /\ term \in DOMAIN SrTerms /\ TermIsClassified(term)
       /\ Gathered \in SUBSET srStored /\ Gathered \in SUBSET DOMAIN SrRows
       /\ IsFiniteSet(srStored)
       /\ srAnswer = Sliced(Gathered, term, srLimit) /\ srAnswer \subseteq srStored
       /\ srLimit \in Nat /\ SrPerType \in Nat
       /\ r \in srStored /\ r \in DOMAIN SrRows
   BY FinishedSearch
 <1>2. SearcherOf(r) \in Searchers /\ HasClause(SearcherOf(r), term) /\ Carries(r, term)
   BY <1>1, RanksApart
 <1>3. IsFiniteSet(Alike) /\ IsFiniteSet(Carrying) /\ IsFiniteSet(srAnswer)
  <2>1. Alike \subseteq srStored /\ Carrying \subseteq srStored BY <1>1
  <2> HIDE DEF Alike, Carrying
  <2> QED BY <2>1, <1>1, FS_Subset
 <1>4. Cardinality(Alike) \in Nat /\ Cardinality(Carrying) \in Nat
  <2> HIDE DEF Alike, Carrying
  <2> QED BY <1>3, FS_CardinalityType
 <1>5. CASE r \in srFound[SearcherOf(r)]
  <2>1. r \in Gathered BY <1>2, <1>5 DEF Gathered
  <2> DEFINE K == {q \in Sliced(Gathered, term, srLimit) : Precedes(q, r, term)}
  <2>2. Cardinality(K) >= srLimit BY <1>1, <2>1, CutKeepsTheFirst
  <2>3. K \subseteq Carrying
   <3> SUFFICES ASSUME NEW q \in K PROVE q \in srAnswer /\ Carries(q, term) OBVIOUS
   <3>1. q \in srAnswer /\ Precedes(q, r, term) BY <1>1
   <3>2. q \in DOMAIN SrRows BY <3>1, <1>1 DEF Sliced
   <3>3. Identified(q, term) BY <3>1, <3>2, <1>1, PrecedesIsAnOrder
   <3> QED BY <3>1, <3>2, <3>3, <1>1, RanksApart
  <2> HIDE DEF K, Carrying
  <2>4. Cardinality(K) <= Cardinality(Carrying) /\ Cardinality(K) \in Nat
    BY <2>3, <1>3, FS_Subset, FS_CardinalityType
  <2>5. Cardinality(Carrying) >= srLimit BY <2>2, <2>4, <1>4, <1>1
  <2> QED BY <2>5 DEF Carrying
 <1>6. CASE r \notin srFound[SearcherOf(r)] /\ ~(SearcherOf(r) = "orders" /\ NotAllJoined(term))
  <2> DEFINE f == srFound[SearcherOf(r)]
  <2>1. r \in Matching(SearcherOf(r), term, srBefore) BY <1>2 DEF Matching, RowMatches
  <2>2. Cardinality(f) = SrPerType BY <1>2, <1>6, <2>1 DEF SrInv, SearchFits
  <2>3. f \subseteq Matching(SearcherOf(r), term, srStored) BY <1>2 DEF SrInv, SearchFits
  <2>4. f \cup {r} \subseteq Alike
   <3> SUFFICES ASSUME NEW q \in f PROVE q \in Alike BY <1>1, <1>2
   <3>1. q \in srStored /\ SearcherOf(q) = SearcherOf(r) /\ RowMatches(q, term) BY <2>3 DEF Matching
   <3>2. Identified(q, term) BY <3>1, <1>2 DEF RowMatches
   <3> QED BY <3>1, <3>2 DEF Identified, Carries
  <2> HIDE DEF f, Alike
  <2>5. IsFiniteSet(f) BY <2>4, <1>3, FS_Subset
  <2>6. Cardinality(f \cup {r}) = Cardinality(f) + 1
   <3>1. r \notin f BY <1>6 DEF f
   <3> QED BY <3>1, <2>5, FS_AddElement
  <2>7. Cardinality(f \cup {r}) <= Cardinality(Alike) BY <2>4, <1>3, FS_Subset
  <2>8. Cardinality(Alike) > SrPerType BY <2>2, <2>6, <2>7, <1>4, <1>1
  <2> QED BY <2>8 DEF Alike
 <1> QED BY <1>5, <1>6

LEMMA IdentifiersFirst == SrInv => IdentifiersBeforeNames
 <1> SUFFICES ASSUME SrInv, NEW term \in srTerm, Answering(term), NEW s \in Searchers, NEW r \in srFound[s],
                     Identified(r, term), r \notin srAnswer, NEW q \in srAnswer, ~Identified(q, term)
              PROVE  FALSE
   BY DEF IdentifiersBeforeNames
 <1> DEFINE Before(x) == {y \in Gathered : Precedes(y, x, term)}
 <1>1. /\ term \in DOMAIN SrTerms /\ TermIsClassified(term)
       /\ Gathered \in SUBSET srStored /\ Gathered \in SUBSET DOMAIN SrRows
       /\ IsFiniteSet(srStored)
       /\ srAnswer = Sliced(Gathered, term, srLimit)
       /\ srLimit \in Nat
       /\ srFound[s] \in SUBSET Gathered
   BY FinishedSearch
 <1>2. q \in Gathered /\ Cardinality(Before(q)) < srLimit BY <1>1 DEF Sliced
 <1>3. r \in Gathered BY <1>1
 <1>4. ~(Cardinality(Before(r)) < srLimit) BY <1>1, <1>3 DEF Sliced
 <1>5. r \in DOMAIN SrRows /\ q \in DOMAIN SrRows BY <1>1, <1>2, <1>3
 <1>6. Precedes(r, q, term) BY <1>1, <1>5, PrecedesIsAnOrder
 <1>7. Before(r) \subseteq Before(q)
  <2> SUFFICES ASSUME NEW z \in Before(r) PROVE Precedes(z, q, term) OBVIOUS
  <2>1. z \in DOMAIN SrRows /\ Precedes(z, r, term) BY <1>1
  <2> QED BY <2>1, <1>1, <1>5, <1>6, PrecedesIsAnOrder
 <1>8. Before(q) \subseteq srStored BY <1>1
 <1> HIDE DEF Before
 <1>9. IsFiniteSet(Before(q)) BY <1>1, <1>8, FS_Subset
 <1>10. IsFiniteSet(Before(r)) /\ Cardinality(Before(r)) <= Cardinality(Before(q)) BY <1>7, <1>9, FS_Subset
 <1>11. Cardinality(Before(r)) \in Nat /\ Cardinality(Before(q)) \in Nat BY <1>9, <1>10, FS_CardinalityType
 <1> QED BY <1>1, <1>2, <1>4, <1>10, <1>11

(* Four searchers with less than a page each find less than four pages. *)
LEMMA FourPages ==
  ASSUME SrInv, NEW term \in srTerm, Answering(term), ~Truncated(srFound)
  PROVE  /\ IsFiniteSet(Gathered)
         /\ Cardinality(Gathered) < 4 * SrPerType
 <1>1. \A s \in Searchers : IsFiniteSet(srFound[s]) /\ Cardinality(srFound[s]) \in Nat
   BY FinishedSearch, FS_Subset, FS_CardinalityType
 <1>2. SrPerType \in Nat BY SrAssumption
 <1>3. \A s \in Searchers : Cardinality(srFound[s]) < SrPerType BY <1>1, <1>2 DEF Truncated
 <1> DEFINE A == srFound["accounts"]
            B == srFound["branches"]
            C == srFound["orders"]
            D == srFound["tickets"]
 <1>4. /\ IsFiniteSet(A) /\ IsFiniteSet(B) /\ IsFiniteSet(C) /\ IsFiniteSet(D)
       /\ Cardinality(A) \in Nat /\ Cardinality(A) < SrPerType
       /\ Cardinality(B) \in Nat /\ Cardinality(B) < SrPerType
       /\ Cardinality(C) \in Nat /\ Cardinality(C) < SrPerType
       /\ Cardinality(D) \in Nat /\ Cardinality(D) < SrPerType
   BY <1>1, <1>3 DEF Searchers
 <1>5. Gathered = (A \cup B) \cup (C \cup D) BY DEF Gathered, Searchers
 <1> HIDE DEF A, B, C, D
 <1>6. ASSUME NEW S, NEW T, IsFiniteSet(S), IsFiniteSet(T)
       PROVE  /\ IsFiniteSet(S \cup T) /\ Cardinality(S \cup T) \in Nat
              /\ Cardinality(S \cup T) <= Cardinality(S) + Cardinality(T)
  <2>1. IsFiniteSet(S \cup T) /\ IsFiniteSet(S \cap T) BY <1>6, FS_Union, FS_Intersection
  <2>2. Cardinality(S \cup T) = Cardinality(S) + Cardinality(T) - Cardinality(S \cap T) BY <1>6, FS_Union
  <2>3. /\ Cardinality(S \cup T) \in Nat /\ Cardinality(S \cap T) \in Nat
        /\ Cardinality(S) \in Nat /\ Cardinality(T) \in Nat
    BY <1>6, <2>1, FS_CardinalityType
  <2> QED BY <2>1, <2>2, <2>3
 <1>7. /\ IsFiniteSet(A \cup B) /\ Cardinality(A \cup B) \in Nat
       /\ Cardinality(A \cup B) <= Cardinality(A) + Cardinality(B)
   BY <1>4, <1>6
 <1>8. /\ IsFiniteSet(C \cup D) /\ Cardinality(C \cup D) \in Nat
       /\ Cardinality(C \cup D) <= Cardinality(C) + Cardinality(D)
   BY <1>4, <1>6
 <1>9. /\ IsFiniteSet(Gathered) /\ Cardinality(Gathered) \in Nat
       /\ Cardinality(Gathered) <= Cardinality(A \cup B) + Cardinality(C \cup D)
   BY <1>5, <1>6, <1>7, <1>8
 <1> QED BY <1>2, <1>4, <1>7, <1>8, <1>9

(* When more accounts have a number than are joined, those that had it when
   the search began are more than a page. *)
LEMMA AccountsFillTheirPage ==
  ASSUME SrInv, NEW term \in srTerm, Answering(term), srPending = {}, NotAllJoined(term)
  PROVE  Truncated(srFound)
 <1> DEFINE now == PhoneAccounts(term, srStored)
            then == PhoneAccounts(term, srBefore)
            new == srStored \ srBefore
            f == srFound["accounts"]
 <1>1. /\ term \in DOMAIN SrTerms /\ TermIsClassified(term) /\ ByPhone(term)
       /\ IsFiniteSet(srStored) /\ SrPerType \in Nat /\ "accounts" \in Searchers
       /\ f \subseteq srStored
   BY FinishedSearch DEF NotAllJoined, Searchers
 <1>2. now \subseteq then \cup new BY DEF PhoneAccounts
 <1>3. then \subseteq srStored /\ new \subseteq srStored BY DEF PhoneAccounts, SrInv, SrTyped, SrTypeOK
 <1>4. Cardinality(new) <= srInserts /\ srInserts \in 0..SrMostInserts
   BY DEF SrInv, SrTyped, SrTypeOK, Answering
 <1>5. Cardinality(now) > SrPhoneUsers BY DEF NotAllJoined
 <1>6. then \subseteq Matching("accounts", term, srBefore) BY <1>1, NumbersAreMatched
 <1>7. Cardinality(f) = SrPerType \/ Matching("accounts", term, srBefore) \subseteq f
   BY <1>1 DEF SrInv, SearchFits
 <1>8. then \subseteq f \/ Cardinality(f) = SrPerType BY <1>6, <1>7
 <1> HIDE DEF now, then, new, f
 <1>9. IsFiniteSet(then) /\ IsFiniteSet(new) /\ IsFiniteSet(f) BY <1>1, <1>3, FS_Subset
 <1>10. /\ Cardinality(then) \in Nat /\ Cardinality(new) \in Nat /\ Cardinality(f) \in Nat
   BY <1>9, FS_CardinalityType
 <1>11. /\ IsFiniteSet(then \cup new) /\ Cardinality(then \cup new) \in Nat
        /\ Cardinality(then \cup new) <= Cardinality(then) + Cardinality(new)
  <2>1. IsFiniteSet(then \cup new) /\ IsFiniteSet(then \cap new) BY <1>9, FS_Union, FS_Intersection
  <2>2. Cardinality(then \cup new) = Cardinality(then) + Cardinality(new) - Cardinality(then \cap new)
    BY <1>9, FS_Union
  <2>3. Cardinality(then \cup new) \in Nat /\ Cardinality(then \cap new) \in Nat
    BY <2>1, FS_CardinalityType
  <2> QED BY <2>1, <2>2, <2>3, <1>10
 <1>12. Cardinality(now) <= Cardinality(then \cup new) /\ Cardinality(now) \in Nat
   BY <1>2, <1>11, FS_Subset, FS_CardinalityType
 <1>13. Cardinality(then) > SrPerType
  <2>1. /\ SrPhoneUsers \in Nat /\ SrMostInserts \in Nat
        /\ SrPerType + SrMostInserts <= SrPhoneUsers
    BY SrAssumption
  <2> QED BY <2>1, <1>1, <1>4, <1>5, <1>10, <1>11, <1>12
 <1>14. Cardinality(f) >= SrPerType
  <2>1. then \subseteq f => Cardinality(then) <= Cardinality(f) BY <1>9, FS_Subset
  <2> QED BY <2>1, <1>1, <1>8, <1>10, <1>13
 <1> QED BY <1>1, <1>14 DEF Truncated, f

LEMMA NothingLeftOut == SrInv => CompleteUnlessSaid
 <1> SUFFICES ASSUME SrInv, NEW term \in srTerm, Answering(term), ~srTruncated, srPending = {},
                     srLimit >= 4 * SrPerType, NEW r \in srBefore,
                     Identified(r, term) \/ (NameStrength(r, term) # "NONE" /\ ~HasClause(SearcherOf(r), term))
              PROVE  r \in srAnswer
   BY DEF CompleteUnlessSaid
 <1>1. /\ term \in DOMAIN SrTerms /\ TermIsClassified(term)
       /\ Gathered \in SUBSET srStored
       /\ srAnswer = Sliced(Gathered, term, srLimit)
       /\ srLimit \in Nat /\ SrPerType \in Nat
       /\ r \in srStored /\ r \in DOMAIN SrRows
   BY FinishedSearch
 <1>2. ~Truncated(srFound) BY DEF SrInv, AnswerFits, Answering
 <1>3. SearcherOf(r) \in Searchers /\ (Identified(r, term) => HasClause(SearcherOf(r), term))
   BY <1>1, RanksApart
 <1>4. RowMatches(r, term) BY <1>3 DEF RowMatches
 <1>5. r \in srFound[SearcherOf(r)]
  <2>1. Cardinality(srFound[SearcherOf(r)]) # SrPerType BY <1>1, <1>2, <1>3 DEF Truncated
  <2>4. ~(ByPhone(term) /\ NotAllJoined(term)) BY <1>2, AccountsFillTheirPage
  <2>2. Matching(SearcherOf(r), term, srBefore) \subseteq srFound[SearcherOf(r)]
    BY <1>3, <2>1, <2>4 DEF SrInv, SearchFits, NotAllJoined
  <2>3. r \in Matching(SearcherOf(r), term, srBefore) BY <1>4 DEF Matching
  <2> QED BY <2>2, <2>3
 <1>6. r \in Gathered BY <1>3, <1>5 DEF Gathered
 <1>7. IsFiniteSet(Gathered) /\ Cardinality(Gathered) < 4 * SrPerType BY <1>2, FourPages
 <1> DEFINE Before == {q \in Gathered : Precedes(q, r, term)}
 <1>8. Cardinality(Before) < srLimit
  <2>1. Before \subseteq Gathered OBVIOUS
  <2> HIDE DEF Before
  <2>2. IsFiniteSet(Before) /\ Cardinality(Before) <= Cardinality(Gathered) BY <2>1, <1>7, FS_Subset
  <2>3. Cardinality(Before) \in Nat /\ Cardinality(Gathered) \in Nat BY <2>2, <1>7, FS_CardinalityType
  <2> QED BY <2>2, <2>3, <1>1, <1>7
 <1> QED BY <1>1, <1>6, <1>8 DEF Sliced

LEMMA SrInvSays ==
  SrInv => SrTypeOK /\ ExactIsFound /\ IdentifiersBeforeNames /\ CompleteUnlessSaid
 <1> QED BY ExactFound, IdentifiersFirst, NothingLeftOut DEF SrInv, SrTyped

(* What the operators' pages and search put together from several sources is
   honest, for any number of records, branches, accounts, rows and terms: no
   late item is missing from a page that does not say it was cut (work-queue,
   PER_SOURCE_LIMIT), no variance is shown that is none, or missed of the
   wallets that were read, at a branch where no money moved meanwhile, a role
   reads through these pages only what it may list elsewhere, no token goes
   unrecorded, what carries the identifier typed is left out of an answer
   only for a page or a limit of rows that carry it too, or more accounts
   with a number than are joined to the orders (searchOrders), and an answer
   that is not truncated is complete. *)
THEOREM PagesSound == BvSpec /\ SrSpec => []PagesAreHonest
 <1>1. BvInv /\ SrInv => PagesAreHonest BY BvInvSays, SrInvSays DEF PagesAreHonest
 <1> QED BY <1>1, BvInvInit, BvInvNext, SrInvInit, SrInvNext, PTL DEF BvSpec, SrSpec

-----------------------------------------------------------------------------
(* The composition. *)
(* A step of the back office is a step of the component in focus, and leaves
   the variables of every other one alone. *)
LEMMA OneComponentMoves ==
  ASSUME [Next]_composedVars
  PROVE  /\ [KycNext]_kycVars
         /\ [DeviceNext]_deviceVars
         /\ [SelfieNext]_selfieVars
         /\ [AcNext]_acVars
         /\ [RgNext]_rgVars
         /\ [MgNext]_mgVars
         /\ [EmNext]_emVars
         /\ [BvNext]_bvVars
         /\ [BioNext]_bioVars
         /\ [SrNext]_srVars
 <1>1. CASE KycMoves BY <1>1 DEF KycMoves
 <1>2. CASE DeviceMoves BY <1>2 DEF DeviceMoves
 <1>3. CASE SelfieMoves BY <1>3 DEF SelfieMoves
 <1>4. CASE AcMoves BY <1>4 DEF AcMoves
 <1>5. CASE RgMoves BY <1>5 DEF RgMoves
 <1>6. CASE MgMoves BY <1>6 DEF MgMoves
 <1>7. CASE EmMoves BY <1>7 DEF EmMoves
 <1>8. CASE BvMoves BY <1>8 DEF BvMoves
 <1>9. CASE BioMoves BY <1>9 DEF BioMoves
 <1>10. CASE SrMoves BY <1>10 DEF SrMoves
 <1>11. CASE UNCHANGED composedVars BY <1>11 DEF composedVars
 <1> QED BY <1>1, <1>2, <1>3, <1>4, <1>5, <1>6, <1>7, <1>8, <1>9, <1>10, <1>11 DEF Next

(* BackOffice.tla composes its components without changing any: each behaves
   in it as its own specification allows, so that what is proved of one is
   proved of the composition that is model-checked. *)
THEOREM BackOfficeRunsItsComponents ==
  Spec => /\ KycSpec /\ DeviceSpec /\ SelfieSpec /\ AcSpec /\ RgSpec
          /\ MgSpec /\ EmSpec /\ BvSpec /\ BioSpec /\ SrSpec
 <1>1. Init => KycInit /\ DeviceInit /\ SelfieInit /\ AcInit /\ RgInit
               /\ MgInit /\ EmInit /\ BvInit /\ BioInit /\ SrInit
   BY DEF Init
 <1> QED BY <1>1, OneComponentMoves, PTL
         DEF Spec, KycSpec, DeviceSpec, SelfieSpec, AcSpec, RgSpec, MgSpec, EmSpec, BvSpec, BioSpec, SrSpec

(* The properties above, of the composition. *)
THEOREM BackOfficeSound ==
  Spec => [](/\ SessionsAreSound /\ GateAndFaceAgree /\ LoginsAreSound
             /\ MigrationsKeepMeaning /\ PagesAreHonest)
 <1> QED BY BackOfficeRunsItsComponents, DevicesSound, SelfiesSound, LoginsSound, MeaningKept,
            PagesSound, PTL

=============================================================================
