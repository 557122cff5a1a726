---------------------------- MODULE Registration ----------------------------
(* How an account comes to be.  A person signs up with Firebase and then
   registers; a merchant invites staff and an administrator invites back-
   office colleagues, whose logins the server makes for them.  An account
   is a login kept by Firebase and a user document kept in the database,
   and for a home washer also a shop: branch, profile and wallet.

   Registering writes everything in one transaction.  Inviting cannot: the
   login is made first, the document second, the e-mail last, and a
   failure undoes what was done. *)
EXTENDS Naturals, FiniteSets

CONSTANTS
  RgUids,          \* identities Firebase can hand out
  RgEmails,        \* e-mail addresses
  RgRequests,      \* requests in progress
  RgMostCalls,     \* bound: requests ever made
  RgMostMishaps    \* bound: processes lost, logins removed from outside

NoEmail == "none"

ASSUME RgAssumption ==
  NoEmail \notin RgEmails /\ RgMostCalls \in Nat /\ RgMostMishaps \in Nat

RgKinds == {"none", "customer", "washer", "staff", "admin"}
RgParts == {"consents", "branch", "profile", "wallet"}

VARIABLES
  rgLogin,                     \* Firebase: the e-mail of each identity
  rgUser, rgKind, rgParts,     \* users; consents, branches, profiles, wallets
  rgpc, rguid, rgmail, rgrole, rgtwice, rgstaged,      \* a request in progress
  rgCalls, rgMishaps,
  rgSelf,        \* history: identities that signed up themselves
  rgInvited,     \* history: identities an invitation was sent to
  rgReported,    \* history: back-office accounts reported as created
  rgCut          \* history: identities a lost process, an outside removal, a
                 \* failed undo or a staff invitation's half undo left behind,
                 \* or invited again while their invitation was being made

rgStored == <<rgLogin, rgUser, rgKind, rgParts>>
rgRequest == <<rgpc, rguid, rgmail, rgrole, rgtwice, rgstaged>>
rgBounds == <<rgCalls, rgMishaps>>
rgHistory == <<rgSelf, rgInvited, rgReported, rgCut>>
rgVars == <<rgStored, rgRequest, rgBounds, rgHistory>>

RgInit ==
  /\ rgLogin = [u \in RgUids |-> NoEmail]
  /\ rgUser = [u \in RgUids |-> NoEmail]
  /\ rgKind = [u \in RgUids |-> "none"]
  /\ rgParts = [u \in RgUids |-> {}]
  /\ rgpc = [h \in RgRequests |-> "idle"]
  /\ rguid = [h \in RgRequests |-> {}]
  /\ rgmail = [h \in RgRequests |-> NoEmail]
  /\ rgrole = [h \in RgRequests |-> "none"]
  /\ rgtwice = [h \in RgRequests |-> FALSE]
  /\ rgstaged = [h \in RgRequests |-> {}]
  /\ rgCalls = 0 /\ rgMishaps = 0
  /\ rgSelf = {} /\ rgInvited = {} /\ rgReported = {} /\ rgCut = {}

-----------------------------------------------------------------------------
LoginTaken(e) == \E u \in RgUids : rgLogin[u] = e
EmailTaken(e) == \E u \in RgUids : rgUser[u] = e
Working(u) == \E h \in RgRequests : u \in rguid[h]
FreshUid(u) ==
  /\ rgLogin[u] = NoEmail /\ rgUser[u] = NoEmail /\ ~Working(u)
  /\ u \notin rgSelf \cup rgCut \cup rgInvited

RgGoto(h, at) ==
  /\ rgpc' = [rgpc EXCEPT ![h] = at]
  /\ UNCHANGED <<rguid, rgmail, rgrole, rgtwice>>

RgDone(h) ==
  /\ rgpc' = [rgpc EXCEPT ![h] = "idle"]
  /\ rguid' = [rguid EXCEPT ![h] = {}]
  /\ rgmail' = [rgmail EXCEPT ![h] = NoEmail]
  /\ rgrole' = [rgrole EXCEPT ![h] = "none"]
  /\ rgtwice' = [rgtwice EXCEPT ![h] = FALSE]
  /\ rgstaged' = [rgstaged EXCEPT ![h] = {}]

RgBegin(h, at, u, e, role, twice) ==
  /\ rgpc[h] = "idle" /\ rgCalls < RgMostCalls /\ rgCalls' = rgCalls + 1
  /\ rgpc' = [rgpc EXCEPT ![h] = at]
  /\ rguid' = [rguid EXCEPT ![h] = {u}]
  /\ rgmail' = [rgmail EXCEPT ![h] = e]
  /\ rgrole' = [rgrole EXCEPT ![h] = role]
  /\ rgtwice' = [rgtwice EXCEPT ![h] = twice]

(* Firebase's own sign-up, one login to an address; outside this program. *)
SignUp(u, e) ==
  /\ FreshUid(u) /\ ~LoginTaken(e)
  /\ rgLogin' = [rgLogin EXCEPT ![u] = e]
  /\ rgSelf' = rgSelf \cup {u}
  /\ UNCHANGED <<rgUser, rgKind, rgParts, rgRequest, rgBounds,
                 rgInvited, rgReported, rgCut>>

(* A login disappears behind the program's back. *)
LoginVanishes(u) ==
  /\ rgLogin[u] # NoEmail /\ u \in rgSelf
  /\ rgMishaps < RgMostMishaps /\ rgMishaps' = rgMishaps + 1
  /\ rgLogin' = [rgLogin EXCEPT ![u] = NoEmail]
  /\ rgCut' = rgCut \cup {u}
  /\ UNCHANGED <<rgUser, rgKind, rgParts, rgRequest, rgCalls,
                 rgSelf, rgInvited, rgReported>>

-----------------------------------------------------------------------------
(* register, by whoever can sign in.  A repeat by the same identity is
   answered with what exists; a list of consents that misses a mandatory one
   is refused. *)
BeginRegister(h, u, role, twice) ==
  /\ rgLogin[u] # NoEmail /\ rgUser[u] = NoEmail
  /\ u \in rgSelf \cup rgInvited \cup rgCut
  /\ RgBegin(h, "email", u, rgLogin[u], role, twice)
  /\ UNCHANGED <<rgStored, rgstaged, rgMishaps, rgHistory>>

CheckEmail(h) ==
  /\ rgpc[h] = "email"
  /\ IF EmailTaken(rgmail[h]) THEN RgDone(h)
     ELSE RgGoto(h, "user") /\ UNCHANGED rgstaged
  /\ UNCHANGED <<rgStored, rgBounds, rgHistory>>

(* The unique keys hold between open transactions too: the later one waits,
   and fails when the earlier one commits. *)
StageUser(h) ==
  /\ rgpc[h] = "user"
  /\ \A g \in RgRequests \ {h} :
       rgstaged[g] # {} => rgmail[g] # rgmail[h] /\ rguid[g] # rguid[h]
  /\ IF EmailTaken(rgmail[h]) \/ (\E u \in rguid[h] : rgUser[u] # NoEmail)
     THEN RgDone(h)
     ELSE /\ rgstaged' = [rgstaged EXCEPT ![h] = {"user"}]
          /\ RgGoto(h, "consents")
  /\ UNCHANGED <<rgStored, rgBounds, rgHistory>>

(* A consent listed twice breaks the unique index, and a statement that
   fails takes its transaction with it, whatever the caller catches. *)
StageConsents(h) ==
  /\ rgpc[h] = "consents"
  /\ IF rgtwice[h] THEN RgDone(h)
     ELSE /\ rgstaged' = [rgstaged EXCEPT ![h] = @ \cup {"consents"}]
          /\ RgGoto(h, IF rgrole[h] = "washer" THEN "shop" ELSE "commit")
  /\ UNCHANGED <<rgStored, rgBounds, rgHistory>>

StageShop(h) ==
  /\ rgpc[h] = "shop"
  /\ rgstaged' = [rgstaged EXCEPT ![h] = @ \cup {"branch", "profile", "wallet"}]
  /\ RgGoto(h, "commit")
  /\ UNCHANGED <<rgStored, rgBounds, rgHistory>>

CommitRegistration(h) ==
  /\ rgpc[h] = "commit"
  /\ \E u \in rguid[h] :
       /\ rgUser' = [rgUser EXCEPT ![u] = rgmail[h]]
       /\ rgKind' = [rgKind EXCEPT ![u] = rgrole[h]]
       /\ rgParts' = [rgParts EXCEPT ![u] = @ \cup (rgstaged[h] \ {"user"})]
  /\ RgDone(h)
  /\ UNCHANGED <<rgLogin, rgBounds, rgHistory>>

-----------------------------------------------------------------------------
(* createStaff and createAdminUser: a login with a password nobody holds. *)
BeginInvite(h, u, e, role) ==
  /\ FreshUid(u) /\ ~LoginTaken(e)
  /\ RgBegin(h, "save", u, e, role, FALSE)
  /\ rgLogin' = [rgLogin EXCEPT ![u] = e]
  /\ UNCHANGED <<rgUser, rgKind, rgParts, rgstaged, rgMishaps, rgHistory>>

SaveInvited(h) ==
  /\ rgpc[h] = "save"
  /\ IF EmailTaken(rgmail[h])
     THEN /\ RgGoto(h, IF rgrole[h] = "admin" THEN "undo" ELSE "unlog")
          /\ UNCHANGED <<rgUser, rgKind>>
     ELSE /\ RgGoto(h, "invite")
          /\ \E u \in rguid[h] :
               /\ rgUser' = [rgUser EXCEPT ![u] = rgmail[h]]
               /\ rgKind' = [rgKind EXCEPT ![u] = rgrole[h]]
  /\ UNCHANGED <<rgLogin, rgParts, rgstaged, rgBounds, rgHistory>>

(* The set-your-password mail of a back-office account is its only way in:
   if it cannot be sent the call fails. *)
InviteAdmin(h, sent) ==
  /\ rgpc[h] = "invite" /\ rgrole[h] = "admin"
  /\ IF sent THEN /\ rgInvited' = rgInvited \cup rguid[h]
                  /\ rgReported' = rgReported \cup rguid[h]
                  /\ RgDone(h)
     ELSE RgGoto(h, "undo") /\ UNCHANGED <<rgstaged, rgInvited, rgReported>>
  /\ UNCHANGED <<rgStored, rgBounds, rgSelf, rgCut>>

(* Making the reset link can fail the call; the mail itself never does, sent
   or not. *)
InviteStaff(h, linked, sent) ==
  /\ rgpc[h] = "invite" /\ rgrole[h] = "staff"
  /\ IF linked THEN /\ rgInvited' = IF sent THEN rgInvited \cup rguid[h] ELSE rgInvited
                    /\ RgDone(h)
     ELSE RgGoto(h, "unlog") /\ UNCHANGED <<rgstaged, rgInvited>>
  /\ UNCHANGED <<rgStored, rgBounds, rgSelf, rgReported, rgCut>>

(* Mutant: only the login is undone, as it once was. *)
UndoNothing(h, works) ==
  /\ rgpc[h] = "undo" /\ works
  /\ RgGoto(h, "unlog")
  /\ UNCHANGED <<rgStored, rgstaged, rgBounds, rgHistory>>

(* rollbackAdminUser: the document, then the login, each tried once. *)
UndoAccount(h, works) ==
  /\ rgpc[h] = "undo"
  /\ \E u \in rguid[h] :
       IF works THEN /\ rgUser' = [rgUser EXCEPT ![u] = NoEmail]
                     /\ rgKind' = [rgKind EXCEPT ![u] = "none"]
                     /\ UNCHANGED rgCut
       ELSE rgCut' = rgCut \cup {u} /\ UNCHANGED <<rgUser, rgKind>>
  /\ RgGoto(h, "unlog")
  /\ UNCHANGED <<rgLogin, rgParts, rgstaged, rgBounds, rgSelf, rgInvited, rgReported>>

(* The end of both undos.  A staff member's document is not removed. *)
UndoLogin(h, works) ==
  /\ rgpc[h] = "unlog"
  /\ \E u \in rguid[h] :
       IF works THEN /\ rgLogin' = [rgLogin EXCEPT ![u] = NoEmail]
                     /\ rgCut' = IF rgKind[u] = "staff" THEN rgCut \cup {u} ELSE rgCut
       ELSE rgCut' = rgCut \cup {u} /\ UNCHANGED rgLogin
  /\ RgDone(h)
  /\ UNCHANGED <<rgUser, rgKind, rgParts, rgBounds, rgSelf, rgInvited, rgReported>>

(* The mail goes to the address, whatever login is behind it. *)
ResendAdminInvite(u) ==
  /\ rgKind[u] = "admin" /\ u \notin rgInvited
  /\ rgInvited' = rgInvited \cup {u}
  /\ rgCut' = IF Working(u) THEN rgCut \cup {u} ELSE rgCut
  /\ UNCHANGED <<rgStored, rgRequest, rgBounds, rgSelf, rgReported>>

-----------------------------------------------------------------------------
(* The process or the database is lost: an open transaction leaves nothing,
   an invitation leaves what it wrote. *)
RegistrationLost(h) ==
  /\ rgpc[h] # "idle"
  /\ rgMishaps < RgMostMishaps /\ rgMishaps' = rgMishaps + 1
  /\ rgCut' = IF rgrole[h] \in {"staff", "admin"} THEN rgCut \cup rguid[h] ELSE rgCut
  /\ RgDone(h)
  /\ UNCHANGED <<rgStored, rgCalls, rgSelf, rgInvited, rgReported>>

RgNext ==
  \/ \E u \in RgUids : LoginVanishes(u) \/ ResendAdminInvite(u)
  \/ \E u \in RgUids, e \in RgEmails :
       \/ SignUp(u, e)
       \/ \E h \in RgRequests, role \in {"staff", "admin"} : BeginInvite(h, u, e, role)
  \/ \E h \in RgRequests :
       \/ \E u \in RgUids, role \in {"customer", "washer"}, twice \in BOOLEAN :
            BeginRegister(h, u, role, twice)
       \/ CheckEmail(h) \/ StageUser(h) \/ StageConsents(h) \/ StageShop(h)
       \/ CommitRegistration(h)
       \/ SaveInvited(h)
       \/ \E ok \in BOOLEAN : InviteAdmin(h, ok) \/ UndoAccount(h, ok) \/ UndoLogin(h, ok)
       \/ \E linked \in BOOLEAN, sent \in BOOLEAN : InviteStaff(h, linked, sent)
       \/ RegistrationLost(h)

RgSpec == RgInit /\ [][RgNext]_rgVars

-----------------------------------------------------------------------------
(* Every variable has its type. *)
RgTypeOK ==
  /\ rgLogin \in [RgUids -> RgEmails \cup {NoEmail}]
  /\ rgUser \in [RgUids -> RgEmails \cup {NoEmail}]
  /\ rgKind \in [RgUids -> RgKinds]
  /\ rgParts \in [RgUids -> SUBSET RgParts]
  /\ rgpc \in [RgRequests -> {"idle", "email", "user", "consents", "shop", "commit",
                              "save", "invite", "undo", "unlog"}]
  /\ rguid \in [RgRequests -> SUBSET RgUids]
  /\ rgmail \in [RgRequests -> RgEmails \cup {NoEmail}]
  /\ rgrole \in [RgRequests -> RgKinds]
  /\ rgtwice \in [RgRequests -> BOOLEAN]
  /\ rgstaged \in [RgRequests -> SUBSET (RgParts \cup {"user"})]
  /\ rgCalls \in 0..RgMostCalls /\ rgMishaps \in 0..RgMostMishaps
  /\ rgSelf \subseteq RgUids /\ rgInvited \subseteq RgUids
  /\ rgReported \subseteq RgUids /\ rgCut \subseteq RgUids

(* Once a request has ended, its account has a login behind it: an invitation
   that fails strands no document whose address then reads as taken.  Left
   out are the identities of rgCut. *)
EveryAccountHasALogin ==
  \A u \in RgUids :
    rgUser[u] # NoEmail /\ ~Working(u) => rgLogin[u] # NoEmail \/ u \in rgCut

(* And a login the program made has its account, so its address is never lost
   to an invitation nobody can repeat. *)
EveryLoginHasAnAccount ==
  \A u \in RgUids :
    rgLogin[u] # NoEmail /\ ~Working(u) /\ u \notin rgSelf \cup rgCut
      => rgUser[u] # NoEmail

(* An account appears with all that belongs to its role or not at all: a
   washer with her branch, profile and wallet, and consents with everyone who
   registers. *)
RegisteredWhole ==
  \A u \in RgUids :
    rgParts[u] = CASE rgKind[u] = "washer" -> RgParts
                   [] rgKind[u] = "customer" -> {"consents"}
                   [] OTHER -> {}

(* A back-office account that was reported as created had its mail sent. *)
ReportedIsInvited == rgReported \subseteq rgInvited

(* An account goes only with the failure of the invitation that made it. *)
AccountsStay ==
  \A u \in RgUids :
    rgUser[u] # NoEmail /\ rgUser'[u] # rgUser[u]
      => \E h \in RgRequests : u \in rguid[h] /\ rgpc[h] = "undo"

(* A registration, an invitation or a deletion that fails anywhere leaves no
   half behind - a login without its account, an account without its login, a
   washer without her shop - and its roll-back takes nobody else's account
   away. *)
AccountsAreWhole ==
  [][rgVars' # rgVars =>
       /\ (RgTypeOK /\ EveryAccountHasALogin /\ EveryLoginHasAnAccount /\ RegisteredWhole
            /\ ReportedIsInvited)'
       /\ AccountsStay]_rgVars

=============================================================================
