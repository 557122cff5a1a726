--------------------------- MODULE AccessControl ---------------------------
(* The guards every request passes: the sign-in check with its gates, the
   role, and the permission on the branch of the caller's device.  One
   account of any kind goes through everything that locks it out, next to
   one back-office account that stays in service. *)
EXTENDS AccessTable, Integers, FiniteSets

CONSTANTS AcBranches,    \* branches of the shop
          AcGroupForms,  \* what the owner may tick for a branch
          AcOldLists,    \* permission lists sent by builds before the groups
          AcFragile,     \* the permission whose row may be deleted, or renamed
          AcKinds,       \* kinds of account that are checked
          AcMostRows,    \* bound: rows ever made for AcFragile
          AcMostCalls    \* bound: calls answered

VARIABLES acRole,      \* the account's role
          acActive,    \* User.isActive
          acLeaving,   \* accountStatus is DELETION_PENDING
          acSelfie,    \* User.selfieStatus of a courier
          acLocked,    \* User.washerStatus is SUSPENDED
          acSuspended, \* WasherProfile.status is SUSPENDED
          acDevice,    \* branch of the approved device, or "none"
          acAccess,    \* User.branchAccess: branch -> permission rows
          acMirror,    \* User.branchIds and User.permissionIds
          acRow,       \* current row of AcFragile, 0 while it has none
          acMade,      \* rows made for it so far
          acConfig,    \* the maintenance configuration
          acWindow,    \* now lies in the scheduled window
          acSlow,      \* a request between its read and its write
          acCalls,     \* calls answered
          acPartial,   \* an old list, or a lost row, left part of a group
          acCrossed,   \* branches granted anew behind a reassignment's read
          acTorn       \* a status change stopped, or crossed, between writes

acVars == <<acRole, acActive, acLeaving, acSelfie, acLocked, acSuspended, acDevice, acAccess, acMirror,
            acRow, acMade, acConfig, acWindow, acSlow, acCalls, acPartial, acCrossed, acTorn>>

-----------------------------------------------------------------------------
(* Permissions, groups and rows *)

PERMISSION_GROUP_MEMBERS ==
  [ORDERS    |-> {"order_create", "order_apply_discount", "order_cancel",
                  "order_confirm_pickup", "order_update_status"},
   INVENTORY |-> {"inventory_create", "inventory_edit", "inventory_archive",
                  "product_create", "product_update", "product_archive"},
   SERVICES  |-> {"service_create", "service_edit", "service_archive"},
   OTHERS    |-> {"report_view", "report_export", "log_view",
                  "costing_read", "costing_create", "costing_update"}]

PermissionGroups == DOMAIN PERMISSION_GROUP_MEMBERS
PERMISSION_CATALOGUE == UNION {PERMISSION_GROUP_MEMBERS[g] : g \in PermissionGroups}
OwnerFloor == PERMISSION_CATALOGUE   \* OWNER_DEFAULT_PERMISSION_NAMES

ASSUME AcAssumption ==
  /\ "none" \notin AcBranches /\ AcKinds \subseteq AllRoles
  /\ AcGroupForms \subseteq SUBSET PermissionGroups /\ AcOldLists \subseteq SUBSET PERMISSION_CATALOGUE
  /\ AcMostRows \in Nat \ {0} /\ AcMostCalls \in Nat

ExpandGroups(groups) == UNION {PERMISSION_GROUP_MEMBERS[g] : g \in groups}
GroupsFromNames(names) == {g \in PermissionGroups : PERMISSION_GROUP_MEMBERS[g] \cap names # {}}

\* A row is a name with the generation of its _id.
RowGeneration(n) == IF n = AcFragile THEN acRow ELSE 1
RowsOf(names) == {<<n, RowGeneration(n)>> : n \in {m \in names : RowGeneration(m) # 0}}
NamesOf(rows) == {n \in PERMISSION_CATALOGUE : <<n, RowGeneration(n)>> \in rows}
GroupsShown(b) == GroupsFromNames(NamesOf(acAccess[b]))

EntriesFromGroups(form) == [b \in DOMAIN form |-> RowsOf(ExpandGroups(form[b]))]

-----------------------------------------------------------------------------
(* Maintenance *)

Modes == {"off", "EMERGENCY", "SCHEDULED"}
NoBlock == [global |-> FALSE, customer |-> "off", partner |-> "off", contact |-> FALSE, bypass |-> FALSE]
Configs == [global : BOOLEAN, customer : Modes, partner : Modes, contact : BOOLEAN, bypass : BOOLEAN]

Blocking(c) == c.global \/ c.customer # "off" \/ c.partner # "off"
InForce(mode) == mode = "EMERGENCY" \/ (mode = "SCHEDULED" /\ acWindow)
ReachableWhileBlocked(c) == Blocking(c) => c.contact

BlockedFor(role) ==
  /\ role \notin BackOffice
  /\ ~acConfig.bypass
  /\ \/ acConfig.global
     \/ role = "customer" /\ InForce(acConfig.customer)
     \/ role \in {"merchant", "staff", "washer", "courier"} /\ InForce(acConfig.partner)

-----------------------------------------------------------------------------
(* The guards of an operation o, for the account *)

\* The decorator that lets an operation past a gate; nothing lets a washer past a suspension.
Gates == [device |-> "AllowUnregisteredDevice", selfie |-> "AllowUnverifiedCourier",
          maintenance |-> "AllowDuringMaintenance", suspended |-> "-"]

GatesShut ==
  {r \in DOMAIN Gates :
     \/ r = "device" /\ acRole = "staff" /\ acDevice = "none"
     \/ r = "selfie" /\ acRole = "courier" /\ acSelfie # "ACTIVE"
     \/ r = "suspended" /\ acRole = "washer" /\ acLocked
     \/ r = "maintenance" /\ BlockedFor(acRole)}

SignInRefusals(o) ==
  IF o.public \/ (~acActive /\ acLeaving /\ "AllowDeletionPending" \in o.allows) THEN {}
  ELSE IF ~acActive THEN {IF acLeaving THEN "leaving" ELSE "deactivated"}
  ELSE {r \in DOMAIN Gates : r \in GatesShut /\ Gates[r] \notin o.allows}

HoldsOnBranch(b, needs) == b \in DOMAIN acAccess /\ needs \cap NamesOf(acAccess[b]) # {}

PermissionsPass(o) ==
  \/ o.needs = {}
  \/ acRole = "merchant" /\ o.needs \subseteq OwnerFloor
  \/ /\ acRole = "staff"
     /\ acDevice # "none" /\ "AllowUnregisteredDevice" \notin o.allows
     /\ HoldsOnBranch(acDevice, o.needs)

RolePasses(o) == o.public \/ acRole \in o.roles
Admitted(o) == SignInRefusals(o) = {} /\ RolePasses(o) /\ PermissionsPass(o)

Operation == [n \in {o.name : o \in Operations} |-> CHOOSE o \in Operations : o.name = n]

\* The back-office account: in service, never asked for a device or a selfie.
BossMay(n) == "admin" \in Operation[n].roles /\ ~BlockedFor("admin")

-----------------------------------------------------------------------------
(* Calls *)

NoRequest == [kind |-> "none"]

AcTypeOK ==
  /\ acRole \in AllRoles
  /\ acSelfie \in {"NONE", "ACTIVE", "REVOKED"}
  /\ {acActive, acLeaving, acLocked, acSuspended, acPartial, acTorn} \subseteq BOOLEAN
  /\ acDevice \in AcBranches \cup {"none"}
  /\ DOMAIN acAccess \subseteq AcBranches
  /\ \A b \in DOMAIN acAccess : acAccess[b] \subseteq PERMISSION_CATALOGUE \X (1..AcMostRows)
  /\ acRow \in 0..AcMostRows /\ acMade \in 1..AcMostRows
  /\ acConfig \in Configs /\ acWindow \in BOOLEAN
  /\ acCalls \in 0..AcMostCalls

StoreInput(entries) ==
  /\ acAccess' = entries
  /\ acMirror' = <<DOMAIN entries, acMirror[2]>>

\* What deriveGrantFields writes: the entries and the two fields that follow from them.
StoreGrants(entries) ==
  /\ acAccess' = entries
  /\ acMirror' = <<DOMAIN entries, UNION {entries[b] : b \in DOMAIN entries}>>

AcInit ==
  /\ acRole \in AcKinds
  /\ acActive = TRUE /\ acLeaving = FALSE
  /\ acSelfie = "NONE"
  /\ acLocked = FALSE /\ acSuspended = FALSE
  /\ acDevice = "none"
  /\ acAccess = <<>> /\ acMirror = <<{}, {}>>
  /\ acRow = 1 /\ acMade = 1
  /\ acConfig = NoBlock /\ acWindow = FALSE
  /\ acSlow = NoRequest
  /\ acCalls = 0
  /\ acPartial = FALSE /\ acCrossed = {} /\ acTorn = FALSE

Answer == acCalls < AcMostCalls /\ acCalls' = acCalls + 1

\* requestAccountDeletion, once nothing blocks it.
RequestDeletion ==
  /\ acRole \notin BackOffice /\ ~acLeaving
  /\ Admitted(Operation["requestAccountDeletion"])
  /\ Answer
  /\ acActive' = FALSE /\ acLeaving' = TRUE
  /\ UNCHANGED <<acRole, acSelfie, acLocked, acSuspended, acDevice, acAccess, acMirror, acRow,
                 acMade, acConfig, acWindow, acSlow, acPartial, acCrossed, acTorn>>

CancelDeletion ==
  /\ acLeaving /\ Admitted(Operation["cancelAccountDeletion"])
  /\ Answer
  /\ acActive' = TRUE /\ acLeaving' = FALSE
  /\ UNCHANGED <<acRole, acSelfie, acLocked, acSuspended, acDevice, acAccess, acMirror, acRow,
                 acMade, acConfig, acWindow, acSlow, acPartial, acCrossed, acTorn>>

\* deactivateUser and reactivateUser: isActive alone, whatever the deletion says.
SetActive(active) ==
  /\ BossMay(IF active THEN "reactivateUser" ELSE "deactivateUser")
  /\ acActive # active
  /\ Answer
  /\ acActive' = active
  /\ UNCHANGED <<acLeaving, acRole, acSelfie, acLocked, acSuspended, acDevice, acAccess, acMirror, acRow,
                 acMade, acConfig, acWindow, acSlow, acPartial, acCrossed, acTorn>>

\* The back office sends the whole form: nothing is patched.
UpdateMaintenance ==
  \E c \in Configs :
    /\ BossMay("updateMaintenanceConfig")
    /\ c # acConfig /\ ReachableWhileBlocked(c)
    /\ Answer
    /\ acConfig' = c
    /\ UNCHANGED <<acRole, acActive, acLeaving, acSelfie, acLocked, acSuspended, acDevice, acAccess,
                   acMirror, acRow, acMade, acWindow, acSlow, acPartial, acCrossed, acTorn>>

\* A scheduled window opens, and ends.
WindowPasses ==
  /\ {acConfig.customer, acConfig.partner} \cap {"SCHEDULED"} # {}
  /\ acWindow' = ~acWindow
  /\ UNCHANGED <<acRole, acActive, acLeaving, acSelfie, acLocked, acSuspended, acDevice, acAccess,
                 acMirror, acRow, acMade, acConfig, acSlow, acCalls, acPartial, acCrossed, acTorn>>

-----------------------------------------------------------------------------
(* Couriers and washers *)

SubmitSelfie ==
  /\ Admitted(Operation["submitCourierSelfie"])
  /\ Answer
  /\ acSelfie' = "ACTIVE"
  /\ UNCHANGED <<acRole, acActive, acLeaving, acLocked, acSuspended, acDevice, acAccess, acMirror, acRow,
                 acMade, acConfig, acWindow, acSlow, acPartial, acCrossed, acTorn>>

RevokeSelfie ==
  /\ acRole = "courier" /\ acSelfie = "ACTIVE"
  /\ BossMay("revokeCourierSelfie")
  /\ Answer
  /\ acSelfie' = "REVOKED"
  /\ UNCHANGED <<acRole, acActive, acLeaving, acLocked, acSuspended, acDevice, acAccess, acMirror, acRow,
                 acMade, acConfig, acWindow, acSlow, acPartial, acCrossed, acTorn>>

\* setStatus writes the profile, then the user; another change may fall between.
BeginStatus(suspend) ==
  /\ acRole = "washer" /\ acSlow = NoRequest /\ acSuspended # suspend
  /\ BossMay(IF suspend THEN "suspendWasher" ELSE "reactivateWasher")
  /\ Answer
  /\ acSuspended' = suspend
  /\ acSlow' = [kind |-> "status", suspend |-> suspend]
  /\ UNCHANGED <<acRole, acActive, acLeaving, acSelfie, acLocked, acDevice, acAccess, acMirror, acRow,
                 acMade, acConfig, acWindow, acPartial, acCrossed, acTorn>>

SetWasherStatus ==
  /\ acSlow.kind = "status"
  /\ acLocked' = acSlow.suspend
  /\ acSlow' = NoRequest
  /\ UNCHANGED <<acRole, acActive, acLeaving, acSelfie, acSuspended, acDevice, acAccess, acMirror, acRow,
                 acMade, acConfig, acWindow, acCalls, acPartial, acCrossed, acTorn>>

\* A second change, begun and finished while the first is between its writes.
WholeStatus(suspend) ==
  /\ acSlow.kind = "status" /\ acSuspended # suspend
  /\ Answer
  /\ acSuspended' = suspend /\ acLocked' = suspend
  /\ acTorn' = TRUE
  /\ UNCHANGED <<acRole, acActive, acLeaving, acSelfie, acDevice, acAccess, acMirror, acRow, acMade,
                 acConfig, acWindow, acSlow, acPartial, acCrossed>>

\* The process is lost: what was written stays.
AcLose ==
  /\ acSlow # NoRequest
  /\ acTorn' = (acTorn \/ acSlow.kind = "status")
  /\ acSlow' = NoRequest /\ acCrossed' = {}
  /\ UNCHANGED <<acRole, acActive, acLeaving, acSelfie, acLocked, acSuspended, acDevice, acAccess,
                 acMirror, acRow, acMade, acConfig, acWindow, acCalls, acPartial>>

-----------------------------------------------------------------------------
(* Staff: devices, grants and the rows behind them *)

ApproveDevice(b) ==
  /\ acRole = "staff" /\ acDevice # b
  /\ Answer
  /\ acDevice' = b
  /\ UNCHANGED <<acRole, acActive, acLeaving, acSelfie, acLocked, acSuspended, acAccess, acMirror, acRow,
                 acMade, acConfig, acWindow, acSlow, acPartial, acCrossed, acTorn>>

BlockDevice ==
  /\ acDevice # "none"
  /\ Answer
  /\ acDevice' = "none"
  /\ UNCHANGED <<acRole, acActive, acLeaving, acSelfie, acLocked, acSuspended, acAccess, acMirror, acRow,
                 acMade, acConfig, acWindow, acSlow, acPartial, acCrossed, acTorn>>

\* The three shapes of updateStaff: groups, an old list, or branches alone.
ByGroups == {[shape |-> "groups", form |-> f] : f \in UNION {[B -> AcGroupForms] : B \in SUBSET AcBranches}}
ByList == {[shape |-> "list", names |-> l] : l \in AcOldLists}
ByBranches == {[shape |-> "branches", branches |-> B] : B \in SUBSET AcBranches}

Surviving(B) == [b \in B |-> IF b \in DOMAIN acAccess THEN acAccess[b] ELSE {}]

ResolveGrantEntries(i) ==
  IF i.shape = "groups" THEN EntriesFromGroups(i.form)
  ELSE IF i.shape = "list" THEN [b \in DOMAIN acAccess |-> RowsOf(i.names)]
  ELSE Surviving(i.branches)

LeavesPartOfAGroup(i) ==
  IF i.shape = "list" THEN TRUE ELSE i.shape = "groups" /\ acRow = 0

BeginUpdate(i) ==
  /\ acRole = "staff" /\ acSlow = NoRequest
  /\ Answer
  /\ acSlow' = [kind |-> "update", shape |-> i.shape, entries |-> ResolveGrantEntries(i)]
  /\ acPartial' = (acPartial \/ LeavesPartOfAGroup(i))
  /\ UNCHANGED <<acRole, acActive, acLeaving, acSelfie, acLocked, acSuspended, acDevice, acAccess,
                 acMirror, acRow, acMade, acConfig, acWindow, acCrossed, acTorn>>

FinishUpdate ==
  /\ acSlow.kind = "update"
  /\ StoreGrants(acSlow.entries)
  /\ acSlow' = NoRequest /\ acCrossed' = {}
  /\ UNCHANGED <<acRole, acActive, acLeaving, acSelfie, acLocked, acSuspended, acDevice, acRow, acMade,
                 acConfig, acWindow, acCalls, acPartial, acTorn>>

\* Another update, read and written while the first is between its read and its write.
WholeUpdate(i) ==
  /\ acSlow.kind = "update"
  /\ Answer
  /\ StoreGrants(ResolveGrantEntries(i))
  /\ acPartial' = (acPartial \/ LeavesPartOfAGroup(i))
  /\ acCrossed' = acCrossed \cup AcBranches
  /\ UNCHANGED <<acRole, acActive, acLeaving, acSelfie, acLocked, acSuspended, acDevice, acRow, acMade,
                 acConfig, acWindow, acSlow, acTorn>>

\* deletePermission, or updatePermission giving the row another name.
LoseRow ==
  /\ acRole = "staff" /\ acRow # 0
  /\ BossMay("deletePermission")
  /\ Answer
  /\ acRow' = 0
  /\ acPartial' = TRUE
  /\ UNCHANGED <<acRole, acActive, acLeaving, acSelfie, acLocked, acSuspended, acDevice, acAccess,
                 acMirror, acMade, acConfig, acWindow, acSlow, acCrossed, acTorn>>

\* The next start puts back what the catalogue names, under a new _id.
SeedRows ==
  /\ acRow = 0 /\ acMade < AcMostRows
  /\ acRow' = acMade + 1 /\ acMade' = acMade + 1
  /\ UNCHANGED <<acRole, acActive, acLeaving, acSelfie, acLocked, acSuspended, acDevice, acAccess,
                 acMirror, acConfig, acWindow, acSlow, acCalls, acPartial, acCrossed, acTorn>>

AcNext ==
  \/ RequestDeletion \/ CancelDeletion
  \/ \E active \in BOOLEAN : SetActive(active)
  \/ UpdateMaintenance \/ WindowPasses
  \/ SubmitSelfie \/ RevokeSelfie
  \/ \E suspend \in BOOLEAN : BeginStatus(suspend) \/ WholeStatus(suspend)
  \/ SetWasherStatus \/ AcLose
  \/ \E b \in AcBranches : ApproveDevice(b)
  \/ BlockDevice
  \/ \E i \in ByGroups \cup ByList \cup ByBranches : BeginUpdate(i) \/ WholeUpdate(i)
  \/ FinishUpdate \/ LoseRow \/ SeedRows

AcSpec == AcInit /\ [][AcNext]_acVars

-----------------------------------------------------------------------------
(* Properties *)

\* A call that opens the lock can be made now, by the account or by the back office.
HasKey(r) ==
  CASE r = "leaving"     -> Admitted(Operation["cancelAccountDeletion"])
    [] r = "deactivated" -> BossMay("reactivateUser")
    [] r = "device"      -> Admitted(Operation["registerDevice"])
    [] r = "selfie"      -> Admitted(Operation["submitCourierSelfie"])
    [] r = "suspended"   -> BossMay("reactivateWasher") /\ (acSuspended \/ acTorn \/ acSlow # NoRequest)
    [] r = "maintenance" -> BossMay("updateMaintenanceConfig")

Ordinary == [name |-> "any", roles |-> AllRoles, needs |-> {}, allows |-> {}, public |-> FALSE]

\* Whatever keeps the account out of an ordinary operation, some lock can be opened at once: nobody is locked out behind
\* a gate whose key lies behind another gate (gql-auth.guard with the Allow decorators).
EveryLockHasAKey == SignInRefusals(Ordinary) # {} => \E r \in SignInRefusals(Ordinary) : HasKey(r)

\* "A block must always leave people somewhere to turn": over every way a configuration follows
\* another, no app is blocked without a contact (maintenance.service assertReachableWhileBlocked).
BlockedCanReachUs == \A role \in AllRoles : BlockedFor(role) => acConfig.contact

\* The three grant fields say the same, whatever shapes of update follow one another
\* (branch-access.util deriveGrantFields).
MirrorsAgree ==
  /\ acMirror[1] = DOMAIN acAccess
  /\ acMirror[2] = UNION {acAccess[b] : b \in DOMAIN acAccess}

\* A reassignment by branches alone keeps what the branches that stay had, unless another
\* update was stored behind its read (staff.service resolveGrantEntries, clause 3).
ReassignmentKeepsGrants ==
  (/\ acSlow.kind = "update" /\ acSlow' = NoRequest /\ acAccess' # acAccess
   /\ acSlow.shape = "branches" /\ acCrossed = {})
  => \A b \in DOMAIN acAccess \cap DOMAIN acAccess' : acAccess'[b] = acAccess[b]

\* A group the owner sees switched on at the branch of the device lets its holder through every
\* operation that asks for a permission of the group, and a group she sees switched off at that
\* branch lets nobody through, whatever is held elsewhere.  Old lists and lost rows leave part
\* of a group (permission-groups groupsFromNames, branch-permission-check holdsOnBranch).
SwitchesMeanWhatTheySay ==
  (acRole = "staff" /\ acDevice \in DOMAIN acAccess) =>
    \A g \in PermissionGroups : \A n \in PERMISSION_GROUP_MEMBERS[g] :
      LET passes == PermissionsPass([Ordinary EXCEPT !.needs = {n}])
      IN /\ passes => g \in GroupsShown(acDevice)
         /\ g \in GroupsShown(acDevice) => (passes \/ acPartial)

\* Between calls the sign-in check and discovery agree on a suspension: the user is locked
\* exactly while the profile is suspended, unless a change stopped or crossed another between
\* its two writes (washer.service setStatus, users.service setWasherStatus).
SuspensionIsWhole == (acSlow = NoRequest /\ ~acTorn) => (acLocked <=> acSuspended)

(* Who is let in, after whatever calls in whatever order: every lock has a key
   that is not behind another, blocked apps keep a contact, the grant fields
   agree, the switches of a group mean what they say, a suspension is in both
   collections, and a reassignment keeps what stays. *)
AccessIsSound ==
  [][acVars' # acVars =>
       /\ (AcTypeOK /\ EveryLockHasAKey /\ BlockedCanReachUs /\ MirrorsAgree
            /\ SwitchesMeanWhatTheySay /\ SuspensionIsWhole)'
       /\ ReassignmentKeepsGrants]_acVars

=============================================================================
