---------------------------- MODULE PlatformFees ----------------------------
(* The platform's commission: rules published version by version, the one
   in force on a day, and the snapshot every order takes of it.

   Nothing runs in a transaction and nothing is updated in place: each
   change reads the newest version, inserts the next one and then marks
   the version it read.  The unique index on (ruleKey, version) is the
   only guard between two administrators.

   All rules here are commissions of one kind of provider.  Minimum,
   maximum, split and tax of a rule are left out; what a percentage comes
   to is calculatePlatformFee in PriceList. *)
EXTENDS Integers, FiniteSets

CONSTANTS
  FeeKeys,          \* rule keys
  Rates,            \* percentages, above 0
  LegacyRates,      \* percentages of the configuration before the rules
  FeeRequests,      \* requests of administrators in progress
  NoKey,
  MaxFeeDay,        \* bound: the last day
  MaxFeeVersion,    \* bound: versions of a rule
  MaxFeeCalls,      \* bound: requests ever made, and mishaps
  MaxFeeMishaps,    \* bound: server processes lost
  MaxQuotes         \* bound: orders priced

(* A key names a rule; a percentage is a number above zero. *)
ASSUME FeeConstantsFit ==
  /\ NoKey \notin FeeKeys /\ Rates \cup LegacyRates \subseteq Nat \ {0}
  /\ MaxFeeDay \in Nat /\ MaxFeeVersion \in Nat \ {0}

VARIABLES
  rules,            \* platform_fee_rules
  legacyRate,       \* platform_fee_config, its newest row
  quotes,           \* the snapshots on the orders
  feeDay,
  fpc, fkey, fread, finput, fseed,   \* a request in progress
  feeCalls, feeMishaps,
  overtaken,        \* history: toggles that copied a version no longer newest
  unmarked          \* history: versions whose publisher was lost

feeRequest == <<fpc, fkey, fread, finput, fseed>>
feeBounds == <<feeCalls, feeMishaps>>
feeHistory == <<overtaken, unmarked>>
feeVars == <<rules, legacyRate, quotes, feeDay, feeRequest, feeBounds, feeHistory>>

Fixed == 0        \* the rate of a rule that is a fixed amount
Never == MaxFeeDay + 2
FeeDays == 0..MaxFeeDay
DEFAULT_COMMISSION_PERCENT == 10

(* What an administrator submits; validateRule wants the end after the start. *)
FeeInputs == {i \in [from : FeeDays, until : {1, Never}, active : BOOLEAN, rate : Rates \cup {Fixed}] :
                i.until > i.from}
NoInput == [from |-> 0, until |-> Never, active |-> FALSE, rate |-> Fixed]

FeeRow(k, v, i) ==
  [key |-> k, ver |-> v, from |-> i.from, until |-> i.until, active |-> i.active,
   rate |-> i.rate, sup |-> 0]

VersionsOf(k) == {r \in rules : r.key = k}
NewestOf(k) == CHOOSE r \in VersionsOf(k) : \A s \in VersionsOf(k) : s.ver <= r.ver

FeeInit ==
  /\ rules = {} /\ legacyRate = DEFAULT_COMMISSION_PERCENT /\ quotes = {} /\ feeDay = 0
  /\ fpc = [h \in FeeRequests |-> "idle"]
  /\ fkey = [h \in FeeRequests |-> NoKey]
  /\ fread = [h \in FeeRequests |-> 0]
  /\ finput = [h \in FeeRequests |-> NoInput]
  /\ fseed = [h \in FeeRequests |-> {}]
  /\ feeCalls = 0 /\ feeMishaps = 0 /\ overtaken = {} /\ unmarked = {}

-----------------------------------------------------------------------------
FeeBegin(h, at, k, i) ==
  /\ fpc[h] = "idle" /\ feeCalls < MaxFeeCalls /\ feeCalls' = feeCalls + 1
  /\ fpc' = [fpc EXCEPT ![h] = at]
  /\ fkey' = [fkey EXCEPT ![h] = k]
  /\ finput' = [finput EXCEPT ![h] = i]
  /\ UNCHANGED feeMishaps

FeeDone(h) ==
  /\ fpc' = [fpc EXCEPT ![h] = "idle"]
  /\ fkey' = [fkey EXCEPT ![h] = NoKey]
  /\ fread' = [fread EXCEPT ![h] = 0]
  /\ finput' = [finput EXCEPT ![h] = NoInput]
  /\ fseed' = [fseed EXCEPT ![h] = {}]

(* createRule: a key that exists is refused; version 1 follows. *)
CreateRule(h, k, i) ==
  /\ VersionsOf(k) = {}
  /\ FeeBegin(h, "insert", k, i)
  /\ UNCHANGED <<rules, legacyRate, quotes, feeDay, fread, fseed, feeHistory>>

(* updateRule: validates the draft and reads the newest version. *)
UpdateRule(h, k, i) ==
  /\ VersionsOf(k) # {}
  /\ FeeBegin(h, "insert", k, i)
  /\ fread' = [fread EXCEPT ![h] = NewestOf(k).ver]
  /\ UNCHANGED <<rules, legacyRate, quotes, feeDay, fseed, feeHistory>>

(* A stored version as input again: its terms, from today on, on or off. *)
CopyOf(r, active) ==
  [from |-> feeDay, until |-> r.until, active |-> active, rate |-> r.rate]

(* Mutant: the first version is copied, not the newest. *)
CopyOfFirst(h, k, active) ==
  LET r == CHOOSE s \in VersionsOf(k) : s.ver = 1 IN
  /\ VersionsOf(k) # {} /\ r.until > feeDay
  /\ FeeBegin(h, "republish", k, CopyOf(r, active))
  /\ fread' = [fread EXCEPT ![h] = NewestOf(k).ver]
  /\ UNCHANGED <<rules, legacyRate, quotes, feeDay, fseed, feeHistory>>

(* setRuleActive: copies the newest version, from today on, and hands it to
   updateRule, which reads the newest version again. *)
SetRuleActive(h, k, active) ==
  LET r == NewestOf(k) IN
  /\ VersionsOf(k) # {} /\ r.until > feeDay
  /\ FeeBegin(h, "republish", k, CopyOf(r, active))
  /\ fread' = [fread EXCEPT ![h] = r.ver]
  /\ UNCHANGED <<rules, legacyRate, quotes, feeDay, fseed, feeHistory>>

Republish(h) ==
  LET newest == NewestOf(fkey[h]).ver IN
  /\ fpc[h] = "republish"
  /\ fpc' = [fpc EXCEPT ![h] = "insert toggled"]
  /\ fread' = [fread EXCEPT ![h] = newest]
  /\ overtaken' = IF newest = fread[h] THEN overtaken
                  ELSE overtaken \cup {<<fkey[h], newest + 1>>}
  /\ UNCHANGED <<rules, legacyRate, quotes, feeDay, fkey, finput, fseed, feeBounds, unmarked>>

(* The next version is inserted; the index lets one of two publishers pass. *)
Taken(k, v) == \E r \in rules : r.key = k /\ r.ver = v

InsertVersion(h) ==
  LET k == fkey[h] v == fread[h] + 1 IN
  /\ fpc[h] \in {"insert", "insert toggled"} /\ v <= MaxFeeVersion
  /\ IF Taken(k, v) THEN FeeDone(h) /\ UNCHANGED rules
     ELSE /\ rules' = rules \cup {FeeRow(k, v, finput[h])}
          /\ IF fread[h] = 0 THEN FeeDone(h)
             ELSE /\ fpc' = [fpc EXCEPT ![h] = "mark"]
                  /\ finput' = [finput EXCEPT ![h] = NoInput]
                  /\ UNCHANGED <<fkey, fread, fseed>>
  /\ UNCHANGED <<legacyRate, quotes, feeDay, feeBounds, feeHistory>>

MarkSuperseded(h) ==
  /\ fpc[h] = "mark"
  /\ rules' = {IF r.key = fkey[h] /\ r.ver = fread[h]
               THEN [r EXCEPT !.sup = fread[h] + 1] ELSE r : r \in rules}
  /\ FeeDone(h)
  /\ UNCHANGED <<legacyRate, quotes, feeDay, feeBounds, feeHistory>>

(* seedDefaultRules: each default key in turn, at the legacy rate, unless it
   is there; run again after a crash it goes on where it stopped. *)
BeginSeed(h) ==
  /\ FeeBegin(h, "seed", NoKey, [NoInput EXCEPT !.from = feeDay, !.active = TRUE, !.rate = legacyRate])
  /\ fseed' = [fseed EXCEPT ![h] = FeeKeys]
  /\ UNCHANGED <<rules, legacyRate, quotes, feeDay, fread, feeHistory>>

SeedKey(h, k) ==
  /\ fpc[h] = "seed" /\ k \in fseed[h]
  /\ fseed' = [fseed EXCEPT ![h] = @ \ {k}]
  /\ IF VersionsOf(k) = {} THEN fpc' = [fpc EXCEPT ![h] = "seed insert"] /\ fkey' = [fkey EXCEPT ![h] = k]
     ELSE UNCHANGED <<fpc, fkey>>
  /\ UNCHANGED <<rules, legacyRate, quotes, feeDay, fread, finput, feeBounds, feeHistory>>

(* A key that appeared in between makes the insert, and the seeding, fail. *)
SeedInsert(h) ==
  /\ fpc[h] = "seed insert"
  /\ IF Taken(fkey[h], 1) THEN FeeDone(h) /\ UNCHANGED rules
     ELSE /\ rules' = rules \cup {FeeRow(fkey[h], 1, finput[h])}
          /\ fpc' = [fpc EXCEPT ![h] = "seed"] /\ fkey' = [fkey EXCEPT ![h] = NoKey]
          /\ UNCHANGED <<fread, finput, fseed>>
  /\ UNCHANGED <<legacyRate, quotes, feeDay, feeBounds, feeHistory>>

SeedDone(h) ==
  /\ fpc[h] = "seed" /\ fseed[h] = {}
  /\ FeeDone(h)
  /\ UNCHANGED <<rules, legacyRate, quotes, feeDay, feeBounds, feeHistory>>

(* setFeePercent, of the configuration before the rules. *)
SetFeePercent(rate) ==
  /\ feeCalls < MaxFeeCalls /\ feeCalls' = feeCalls + 1
  /\ legacyRate' = rate
  /\ UNCHANGED <<rules, quotes, feeDay, feeRequest, feeMishaps, feeHistory>>

-----------------------------------------------------------------------------
isRuleInEffect(r, day) == r.active /\ r.from <= day /\ day < r.until

(* Of the versions that have begun, the last to begin stands for its rule. *)
Precedes(r, s) == r.from > s.from \/ (r.from = s.from /\ r.ver > s.ver)
Begun(k, day) == {r \in VersionsOf(k) : r.from <= day}

StandsFor(k, day) == {r \in Begun(k, day) : \A s \in Begun(k, day) \ {r} : Precedes(r, s)}

(* resolveRule: of the rules whose standing version is in effect, the one
   whose version began last; a tie between two keys is the database's choice. *)
ResolveRule(day) ==
  LET standing == {r \in UNION {StandsFor(k, day) : k \in FeeKeys} : isRuleInEffect(r, day)} IN
  {r \in standing : \A s \in standing : ~(Precedes(s, r) /\ s.key # r.key)}

(* resolveCommissionSnapshot: a rule that is a fixed amount has no percentage;
   the legacy rate stands in for it, as for a missing rule. *)
LegacySnapshot == [key |-> NoKey, ver |-> 0, rate |-> legacyRate, day |-> feeDay]
SnapshotOf(r) ==
  IF r.rate = Fixed THEN LegacySnapshot
  ELSE [key |-> r.key, ver |-> r.ver, rate |-> r.rate, day |-> feeDay]

CommissionSnapshots ==
  LET inForce == ResolveRule(feeDay) IN
  IF inForce = {} THEN {LegacySnapshot} ELSE {SnapshotOf(r) : r \in inForce}

(* createOrder and the reprice keep the snapshot with the order. *)
PriceOrder ==
  /\ Cardinality(quotes) < MaxQuotes
  /\ \E q \in CommissionSnapshots : quotes' = quotes \cup {q}
  /\ UNCHANGED <<rules, legacyRate, feeDay, feeRequest, feeBounds, feeHistory>>

FeeDayPasses ==
  /\ feeDay < MaxFeeDay /\ feeDay' = feeDay + 1
  /\ UNCHANGED <<rules, legacyRate, quotes, feeRequest, feeBounds, feeHistory>>

(* The server process is lost. *)
LoseFeeRequest(h) ==
  /\ fpc[h] # "idle"
  /\ feeMishaps < MaxFeeMishaps /\ feeMishaps' = feeMishaps + 1
  /\ feeCalls < MaxFeeCalls /\ feeCalls' = feeCalls + 1
  /\ unmarked' = IF fpc[h] = "mark" THEN unmarked \cup {<<fkey[h], fread[h]>>} ELSE unmarked
  /\ FeeDone(h)
  /\ UNCHANGED <<rules, legacyRate, quotes, feeDay, overtaken>>

FeeNext ==
  \/ \E h \in FeeRequests :
       \/ \E k \in FeeKeys :
            \/ \E i \in FeeInputs : CreateRule(h, k, i) \/ UpdateRule(h, k, i)
            \/ \E active \in BOOLEAN : SetRuleActive(h, k, active)
            \/ SeedKey(h, k)
       \/ Republish(h) \/ InsertVersion(h) \/ MarkSuperseded(h)
       \/ BeginSeed(h) \/ SeedInsert(h) \/ SeedDone(h) \/ LoseFeeRequest(h)
  \/ \E rate \in LegacyRates : SetFeePercent(rate)
  \/ PriceOrder \/ FeeDayPasses

FeeSpec == FeeInit /\ [][FeeNext]_feeVars

-----------------------------------------------------------------------------
FeeTypeOK ==
  /\ rules \subseteq [key : FeeKeys, ver : 1..MaxFeeVersion, from : FeeDays, until : 0..Never,
                      active : BOOLEAN, rate : Rates \cup LegacyRates \cup {Fixed, DEFAULT_COMMISSION_PERCENT},
                      sup : 0..MaxFeeVersion]
  /\ quotes \subseteq [key : FeeKeys \cup {NoKey}, ver : 0..MaxFeeVersion,
                       rate : Rates \cup LegacyRates \cup {DEFAULT_COMMISSION_PERCENT}, day : FeeDays]

(* An order can be explained ever after: the version its snapshot names is
   there, was active and had begun on the day, at the rate the order was given. *)
SnapshotsExplain ==
  \A q \in quotes : q.key # NoKey =>
    \E r \in rules : /\ r.key = q.key /\ r.ver = q.ver
                     /\ r.rate = q.rate /\ isRuleInEffect(r, q.day)

(* The versions of a rule count up without a gap, and each but the newest
   names its successor, unless its publisher is still at it or was lost. *)
HistoryIsAChain ==
  \A r \in rules :
    /\ Cardinality({s \in rules : s.key = r.key /\ s.ver = r.ver}) = 1
    /\ r.ver > 1 => Taken(r.key, r.ver - 1)
    /\ \/ r.sup = IF Taken(r.key, r.ver + 1) THEN r.ver + 1 ELSE 0
       \/ <<r.key, r.ver>> \in unmarked
       \/ \E h \in FeeRequests : fpc[h] = "mark" /\ fkey[h] = r.key /\ fread[h] = r.ver

(* Switching a rule off or on changes no rate, unless another version was
   published while the switch was under way, which it then silently undoes. *)
SwitchKeepsTheRate ==
  \A h \in FeeRequests :
    fpc[h] = "insert toggled" /\ rules' # rules /\ fread[h] > 0 /\ fpc'[h] # fpc[h] =>
      \/ <<fkey[h], fread[h] + 1>> \in overtaken
      \/ \E r \in rules : r.key = fkey[h] /\ r.ver = fread[h] /\ r.rate = finput[h].rate

(* A rule that was switched off charges nobody: no order is priced by a
   version when a later one, begun no earlier, says the rule is off. *)
SwitchedOffStaysOff ==
  \A q \in quotes' \ quotes : \A r, s \in rules :
    r.key = q.key /\ r.ver = q.ver /\ s.key = q.key /\ s.ver > r.ver
      /\ s.from <= feeDay /\ s.from >= r.from => s.active

(* What orders are charged can be explained and foretold: versions form a
   chain, snapshots name one that was in force, a switch changes no rate, and
   what is off stays off. *)
FeesAreSound ==
  [][feeVars' # feeVars =>
       /\ (FeeTypeOK /\ SnapshotsExplain /\ HistoryIsAChain)'
       /\ SwitchKeepsTheRate
       /\ SwitchedOffStaysOff]_feeVars

=============================================================================
