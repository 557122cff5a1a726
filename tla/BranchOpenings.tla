-------------------------- MODULE BranchOpenings --------------------------
(* Branches of one merchant (branches.service): names are checked and then
   written, with no unique index behind them, and a branch's wallet is
   opened after the branch is stored.  Requests interleave and their
   process may be lost between two writes. *)
EXTENDS Naturals, FiniteSets

CONSTANTS
  BrIds,               \* branch ids, handed out by the database
  BrNames, BrFolded,   \* spellings; the same trimmed and in lower case
  BrFirst,             \* branches the merchant may start with: id -> name
  BrRequests,
  BrMostCalls          \* bound

(* A merchant starts with branches whose names differ. *)
ASSUME BranchesFit ==
  /\ IsFiniteSet(BrIds) /\ IsFiniteSet(BrNames) /\ BrMostCalls \in Nat
  /\ \A first \in BrFirst :
       /\ DOMAIN first \subseteq BrIds /\ \A b \in DOMAIN first : first[b] \in BrNames
       /\ \A a, b \in DOMAIN first : a # b => BrFolded[first[a]] # BrFolded[first[b]]

VARIABLES
  brRow,        \* stored branches: id -> [name, active]
  brWallets,    \* branches that have a wallet
  brpc, brBatch, brOpening, brTarget,   \* requests: names, branches stored, branch renamed
  brCalls,
  brCrossed,    \* history: names written between another request's check and write
  brLost        \* history: branches whose creation was lost with its process

brVars == <<brRow, brWallets, brpc, brBatch, brOpening, brTarget, brCalls, brCrossed, brLost>>

BrInit ==
  /\ \E first \in BrFirst :
       /\ brRow = [b \in DOMAIN first |-> [name |-> first[b], active |-> TRUE]]
       /\ brWallets = DOMAIN first
  /\ brpc = [h \in BrRequests |-> "idle"] /\ brBatch = [h \in BrRequests |-> {}]
  /\ brOpening = [h \in BrRequests |-> {}] /\ brTarget = [h \in BrRequests |-> {}]
  /\ brCalls = 0 /\ brCrossed = {} /\ brLost = {}

BrCalled == brCalls < BrMostCalls /\ brCalls' = brCalls + 1

\* exactMatchInsensitive
ExactMatchInsensitive(name, stored) == BrFolded[name] = BrFolded[stored]

NameTaken(name, others) == \E b \in others : ExactMatchInsensitive(name, brRow[b].name)

\* create, up to its query: the batch repeats no name, and none is taken.
BeginCreateBranches(h, names) ==
  /\ brpc[h] = "idle" /\ BrCalled
  /\ Cardinality({BrFolded[n] : n \in names}) = Cardinality(names)
  /\ \A n \in names : ~NameTaken(n, DOMAIN brRow)
  /\ brpc' = [brpc EXCEPT ![h] = "insert"] /\ brBatch' = [brBatch EXCEPT ![h] = names]
  /\ UNCHANGED <<brRow, brWallets, brOpening, brTarget, brCrossed, brLost>>

Overtaken(h, names) ==
  {BrFolded[n] : n \in names} \cap
    UNION {{BrFolded[n] : n \in brBatch[g]} : g \in {k \in BrRequests \ {h} : brpc[k] \in {"insert", "rename"}}}

InsertBranches(h) ==
  /\ brpc[h] = "insert"
  /\ \E ids \in SUBSET (BrIds \ DOMAIN brRow) :
       /\ Cardinality(ids) = Cardinality(brBatch[h])
       /\ LET named == CHOOSE f \in [ids -> brBatch[h]] : {f[b] : b \in ids} = brBatch[h] IN
          brRow' = [b \in DOMAIN brRow \cup ids |->
                      IF b \in ids THEN [name |-> named[b], active |-> TRUE] ELSE brRow[b]]
       /\ brOpening' = [brOpening EXCEPT ![h] = ids]
  /\ brCrossed' = brCrossed \cup Overtaken(h, brBatch[h])
  /\ brpc' = [brpc EXCEPT ![h] = "open"] /\ brBatch' = [brBatch EXCEPT ![h] = {}]
  /\ UNCHANGED <<brWallets, brTarget, brCalls, brLost>>

\* Mutant: the first branch stands for the batch.
OpenFirst(h, b) == brWallets' = brWallets \cup {b} /\ brOpening' = [brOpening EXCEPT ![h] = {}]
\* createWallet, an upsert, once for every branch of Promise.all.
OpenWallet(h, b) ==
  brWallets' = brWallets \cup {b} /\ brOpening' = [brOpening EXCEPT ![h] = @ \ {b}]

OpenWallets(h) ==
  /\ brpc[h] = "open"
  /\ \E b \in brOpening[h] : OpenWallet(h, b)
  /\ brpc' = [brpc EXCEPT ![h] = IF brOpening'[h] = {} THEN "idle" ELSE "open"]
  /\ UNCHANGED <<brRow, brBatch, brTarget, brCalls, brCrossed, brLost>>

\* initializeTopUp opens the wallet that is missing.
TopUpOpensWallet(b) ==
  /\ b \in DOMAIN brRow \ brWallets /\ BrCalled
  /\ brWallets' = brWallets \cup {b}
  /\ UNCHANGED <<brRow, brpc, brBatch, brOpening, brTarget, brCrossed, brLost>>

\* update with a name: the branch may keep its own.
BeginRename(h, b, name) ==
  /\ brpc[h] = "idle" /\ BrCalled /\ ~NameTaken(name, DOMAIN brRow \ {b})
  /\ brpc' = [brpc EXCEPT ![h] = "rename"] /\ brBatch' = [brBatch EXCEPT ![h] = {name}]
  /\ brTarget' = [brTarget EXCEPT ![h] = {b}]
  /\ UNCHANGED <<brRow, brWallets, brOpening, brCrossed, brLost>>

WriteRename(h) ==
  /\ brpc[h] = "rename"
  /\ \E b \in brTarget[h], name \in brBatch[h] : brRow' = [brRow EXCEPT ![b].name = name]
  /\ brCrossed' = brCrossed \cup Overtaken(h, brBatch[h])
  /\ brpc' = [brpc EXCEPT ![h] = "idle"] /\ brBatch' = [brBatch EXCEPT ![h] = {}]
  /\ brTarget' = [brTarget EXCEPT ![h] = {}]
  /\ UNCHANGED <<brWallets, brOpening, brCalls, brLost>>

\* archive and restore; an archived branch keeps its name.
SetBranchActive(b, active) ==
  /\ brRow[b].active # active /\ BrCalled
  /\ brRow' = [brRow EXCEPT ![b].active = active]
  /\ UNCHANGED <<brWallets, brpc, brBatch, brOpening, brTarget, brCrossed, brLost>>

LoseBranchRequest(h) ==
  /\ brpc[h] # "idle"
  /\ brLost' = brLost \cup brOpening[h]
  /\ brpc' = [brpc EXCEPT ![h] = "idle"] /\ brBatch' = [brBatch EXCEPT ![h] = {}]
  /\ brOpening' = [brOpening EXCEPT ![h] = {}] /\ brTarget' = [brTarget EXCEPT ![h] = {}]
  /\ UNCHANGED <<brRow, brWallets, brCalls, brCrossed>>

BrNext ==
  \/ \E h \in BrRequests :
       \/ \E names \in SUBSET BrNames \ {{}} : BeginCreateBranches(h, names)
       \/ InsertBranches(h) \/ OpenWallets(h) \/ WriteRename(h) \/ LoseBranchRequest(h)
       \/ \E b \in DOMAIN brRow, name \in BrNames : BeginRename(h, b, name)
  \/ \E b \in DOMAIN brRow : TopUpOpensWallet(b) \/ \E active \in BOOLEAN : SetBranchActive(b, active)

BrSpec == BrInit /\ [][BrNext]_brVars

-----------------------------------------------------------------------------
BrTypeOK ==
  /\ DOMAIN brRow \subseteq BrIds /\ \A b \in DOMAIN brRow : brRow[b].name \in BrNames
  /\ brWallets \subseteq DOMAIN brRow /\ brCalls \in 0..BrMostCalls
  /\ brpc \in [BrRequests -> {"idle", "insert", "open", "rename"}]

\* A merchant's branches, archived ones too, never share a name whatever its case, through
\* any order of creations, renames and restores, unless two requests checked the name before
\* either wrote it (create and update, no unique index behind them).
NamesDiffer ==
  \A a, b \in DOMAIN brRow :
    (a # b /\ BrFolded[brRow[a].name] = BrFolded[brRow[b].name]) => BrFolded[brRow[a].name] \in brCrossed

\* Every branch of every batch has its wallet once its creation has ended, unless its process
\* was lost on the way; a first top-up opens that one (create, createWallet).
EveryBranchHasItsWallet ==
  \A b \in DOMAIN brRow \ UNION {brOpening[h] : h \in BrRequests} : b \in brWallets \/ b \in brLost

(* Branches opened in batches that cross, or whose process is lost, have names
   of their own and a wallet each. *)
BranchesAreSound ==
  /\ BrTypeOK
  /\ NamesDiffer
  /\ EveryBranchHasItsWallet

=============================================================================
