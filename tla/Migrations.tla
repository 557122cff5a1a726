----------------------------- MODULE Migrations -----------------------------
(* The data migrations, run by hand beside the live program.  Each finds
   the documents an older program wrote and rewrites them one at a time;
   it may be stopped anywhere, run again, or run twice at once, while the
   program goes on writing the same documents.  mgTask says which
   migration a behaviour is about.

   A document is a record of the fields its migration reads; an optional
   field is a set of at most one value.  mgMeant is what the document says
   to the program in a behaviour without migrations: what it said when
   found, or what the program last wrote into it. *)
EXTENDS Naturals, FiniteSets

CONSTANTS
  MgDocs,          \* documents of the migrated collection
  MgRuns,          \* processes running the migration
  MgMostRuns,      \* bound: runs ever started
  MgMostEdits      \* bound: writes of the program beside them

ASSUME MgAssumption == MgMostRuns \in Nat /\ MgMostEdits \in Nat

VARIABLES
  mgTask,                     \* which migration
  mgDoc, mgMeant,             \* the documents, and what each should say
  mgpc, mgtodo, mgsaw,        \* a run: <<statement, document>> left, as read
  mgRuns, mgEdits,
  mgClean,     \* history: a run has ended by itself
  mgFresh,     \* history: documents the program itself wrote for the filter
  mgCrossed    \* history: documents written between being read and rewritten,
               \* or given back what the program had taken from them

mgStored == <<mgDoc, mgMeant>>
mgRun == <<mgpc, mgtodo, mgsaw>>
mgVars == <<mgTask, mgStored, mgRun, mgRuns, mgEdits, mgClean, mgFresh, mgCrossed>>

-----------------------------------------------------------------------------
(* branch-access-backfill: the permissions a staff member holds.  confirm is
   of the floor every staff member used to have without it being stored. *)
Groups == {{"confirm", "cancel"}, {"stock"}}
Floor == {"confirm"}
Expanded(s) == UNION {g \in Groups : g \cap s # {}}
HeldNow(v) == IF v.grants = {} THEN v.old \cup Floor ELSE UNION v.grants

Backfilled(v) == [v EXCEPT !.grants = {Expanded(v.old \cup Floor)}]

(* split-fulfillment-legs: one switch becomes two; dayFulfillmentOf reads both. *)
Else(opt, default) == IF opt = {} THEN default ELSE opt
LegsRead(v) == <<Else(Else(v.pickup, v.both), {TRUE}),
                 Else(Else(v.delivery, v.both), {TRUE})>>
SplitOf(v) == [both |-> {},
               pickup |-> Else(v.pickup, Else(v.both, {TRUE})),
               delivery |-> Else(v.delivery, Else(v.both, {TRUE}))]

(* storage-host-rewrite: the host of a stored address, never its key. *)
OnHost(v) == [v EXCEPT !.host = "new"]

(* scheduled-pickup-day-only: a window without a day is left as it is. *)
DayOnly(v) == IF v.dated THEN [v EXCEPT !.window = FALSE] ELSE v

(* washer-store-name-backfill: her branch, her first name, or neither. *)
Named(v) == [v EXCEPT !.name = "derived"]

(* clear-washer-capacity-requests *)
Uncapped(v) == [v EXCEPT !.asked = {}]

(* washer-map-location-repair *)
PinCleared(v) == [v EXCEPT !.pin = "none"]

(* hot-path-indexes: made where neither the name nor the key is there yet; one
   of that name with another key is left alone. *)
Indexed(v) == [v EXCEPT !.named = "so"]

(* kyc-required-set-audit: the badge is not touched. *)
Stamped(v) == [v EXCEPT !.stamped = TRUE]

(* legacy-on-delivery: four statements, one after the other.  A live order
   that still owes says so; any other was paid at pickup; a derived status
   that was stored is replaced; a fee that was taken is written as taken. *)
Owes(v) == ~v.collected /\ v.ended = "no"
Deferred == {"on_delivery", "at_final_handover"}
Retimed(k, v) ==
  CASE k = 1 -> [v EXCEPT !.timing = "at_final_handover"]
    [] k = 2 -> [v EXCEPT !.timing = "on_pickup"]
    [] k = 3 -> [v EXCEPT !.stale = FALSE]
    [] k = 4 -> [v EXCEPT !.fee = {"taken"}]

-----------------------------------------------------------------------------
Tasks == {"grants", "legs", "host", "day", "name", "capacity", "pin", "stamp", "timing",
          "index"}

Legs == [both : {{}, {TRUE}, {FALSE}}, pickup : {{}, {FALSE}}, delivery : {{}, {TRUE}}]

(* What an older program, or this one, left in the collection. *)
FoundBy(t) ==
  CASE t = "grants" -> [old : SUBSET {"confirm", "stock"}, grants : {{}, {{"stock"}}}]
    [] t = "legs" -> Legs
    [] t = "host" -> [host : {"old", "new"}, key : {1}]
    [] t = "day" -> [dated : BOOLEAN, window : BOOLEAN]
    [] t = "name" -> [name : {"none", "hers"}]
    [] t = "capacity" -> [washer : BOOLEAN, asked : {{}, {1}}]
    [] t = "pin" -> [pin : {"none", "whole", "half"}]
    [] t = "stamp" -> [approved : BOOLEAN, complete : BOOLEAN, stamped : {FALSE}]
    [] t = "timing" -> {v \in [timing : {"on_delivery", "on_pickup"}, collected : BOOLEAN,
                               ended : {"no", "abandoned", "final"}, back : {FALSE},
                               fee : {{}}, stale : BOOLEAN] :
                          v.timing = "on_pickup" => v.collected /\ ~v.stale}
    [] t = "index" -> [named : {"no", "so", "otherwise"}, keyed : BOOLEAN]

(* A migration is one statement but for the last-named. *)
Statements(t) == IF t = "timing" THEN 1..4 ELSE {1}

(* The filter of a statement. *)
Matches(t, k, v) ==
  CASE t = "grants" -> v.grants = {}
    [] t = "legs" -> v.both # {}
    [] t = "host" -> v.host = "old"
    [] t = "day" -> v.window /\ v.dated
    [] t = "name" -> v.name = "none"
    [] t = "capacity" -> v.washer /\ v.asked # {}
    [] t = "pin" -> v.pin = "half"
    [] t = "stamp" -> v.approved /\ ~v.complete /\ ~v.stamped
    [] t = "timing" -> \/ k = 1 /\ v.timing = "on_delivery" /\ Owes(v)
                       \/ k = 2 /\ v.timing = "on_delivery" /\ ~Owes(v)
                       \/ k = 3 /\ v.stale
                       \/ k = 4 /\ v.collected /\ v.fee = {}
    [] t = "index" -> v.named = "no" /\ ~v.keyed

Found(t, v) == \E k \in Statements(t) : Matches(t, k, v)

RewriteOf(t, k, v) ==
  CASE t = "grants" -> Backfilled(v)
    [] t = "legs" -> SplitOf(v)
    [] t = "host" -> OnHost(v)
    [] t = "day" -> DayOnly(v)
    [] t = "name" -> Named(v)
    [] t = "capacity" -> Uncapped(v)
    [] t = "pin" -> PinCleared(v)
    [] t = "stamp" -> Stamped(v)
    [] t = "timing" -> Retimed(k, v)
    [] t = "index" -> Indexed(v)

(* The migrations whose write repeats its filter, so that it goes by the
   document as it is then.  The others write what they made of their read. *)
Rechecks == {"name", "capacity", "pin", "timing", "index"}

(* Written(t, k, was, is): the document was read as was and is now is.
   Mutant: the read decides for every migration. *)
WrittenAsRead(t, k, was, is) == IF Matches(t, k, was) THEN RewriteOf(t, k, was) ELSE is
Written(t, k, was, is) ==
  IF t \notin Rechecks THEN RewriteOf(t, k, was)
  ELSE IF Matches(t, k, is) THEN RewriteOf(t, k, is) ELSE is

(* An order on delivery: paid or deferred at pickup, paid at its handover,
   ended, abandoned, and put back from there by support. *)
OrderEdits(v) ==
  LET atPickup == Owes(v) /\ ~v.back IN
  {w \in {[v EXCEPT !.timing = "on_pickup", !.collected = TRUE, !.fee = {"taken"}],
          [v EXCEPT !.timing = "at_final_handover", !.fee = {"taken"}]} : atPickup}
  \cup {w \in {[v EXCEPT !.collected = TRUE, !.fee = {"taken"}]} : Owes(v)}
  \cup {w \in {[v EXCEPT !.ended = e] : e \in {"abandoned", "final"}} : v.ended = "no"}
  \cup {w \in {[v EXCEPT !.ended = "no", !.back = TRUE]} : v.ended = "abandoned"}

(* What the running program may write into a document it finds as v. *)
EditsOf(t, v) ==
  CASE t = "grants" -> {[v EXCEPT !.grants = {s}] : s \in {{}, {"confirm", "cancel"}}}
    [] t = "legs" -> {[both |-> {}, pickup |-> {a}, delivery |-> {~a}] : a \in BOOLEAN}
    [] t = "host" -> {[host |-> "new", key |-> 2]}
    [] t = "day" -> {}
    [] t = "name" -> {[name |-> "hers"], [name |-> "none"]}
    [] t = "capacity" -> {[v EXCEPT !.asked = {3}]}
    [] t = "pin" -> {[pin |-> "whole"], [pin |-> "none"]}
    [] t = "stamp" -> {[v EXCEPT !.approved = FALSE]}
    [] t = "timing" -> OrderEdits(v)
    [] t = "index" -> {}

(* What the document is to the program, migrated or not. *)
Says(t, v) ==
  CASE t = "grants" -> HeldNow(v)
    [] t = "legs" -> LegsRead(v)
    [] t = "host" -> v.key
    [] t = "day" -> v.dated
    [] t = "name" -> v.name
    [] t = "capacity" -> IF v.washer THEN {} ELSE v.asked
    [] t = "pin" -> v.pin = "whole"
    [] t = "stamp" -> v.approved
    [] t = "timing" -> Owes(v)
    [] t = "index" -> <<v.named = "otherwise", v.keyed>>

Keeps(t, meant, v) ==
  CASE t = "grants" -> meant \subseteq HeldNow(v) /\ HeldNow(v) \subseteq Expanded(meant)
    [] t = "name" -> meant = "none" \/ v.name = meant
    [] t = "timing" -> /\ meant = Owes(v)
                       /\ Owes(v) => v.back \/ v.timing \in Deferred
    [] OTHER -> meant = Says(t, v)

-----------------------------------------------------------------------------
MgInit ==
  /\ mgTask \in Tasks
  /\ mgDoc \in [MgDocs -> FoundBy(mgTask)]
  /\ mgMeant = [d \in MgDocs |-> Says(mgTask, mgDoc[d])]
  /\ mgpc = [r \in MgRuns |-> "idle"]
  /\ mgtodo = [r \in MgRuns |-> {}]
  /\ mgsaw = [r \in MgRuns |-> [d \in MgDocs |-> {}]]
  /\ mgRuns = 0 /\ mgEdits = 0
  /\ mgClean = FALSE /\ mgFresh = {} /\ mgCrossed = {}

(* Some write every document that matches by then in one statement, two of
   them only if something matched before: the first two statements of timing
   count together. *)
AtOnce == {"capacity", "pin", "timing"}
CountedWith(t, k) == IF t = "timing" /\ k \in {1, 2} THEN {1, 2} ELSE {k}
Planned(t, k, doc) ==
  LET found == {d \in MgDocs : Matches(t, k, doc[d])}
      some == \E j \in CountedWith(t, k), d \in MgDocs : Matches(t, j, doc[d])
  IN IF t \in AtOnce /\ (t = "capacity" \/ some) THEN MgDocs ELSE found

(* A dry run stops here: it lists what matches and writes nothing. *)
FindDocuments(r) ==
  /\ mgpc[r] = "idle" /\ mgRuns < MgMostRuns
  /\ mgRuns' = mgRuns + 1
  /\ mgtodo' = [mgtodo EXCEPT ![r] =
       {w \in Statements(mgTask) \X MgDocs : w[2] \in Planned(mgTask, w[1], mgDoc)}]
  /\ mgsaw' = [mgsaw EXCEPT ![r] = [d \in MgDocs |-> {mgDoc[d]}]]
  /\ mgpc' = [mgpc EXCEPT ![r] = "rewrite"]
  /\ UNCHANGED <<mgTask, mgStored, mgEdits, mgClean, mgFresh, mgCrossed>>

(* A statement is over before the next one begins. *)
RewriteOne(r, k, d) ==
  /\ mgpc[r] = "rewrite" /\ <<k, d>> \in mgtodo[r]
  /\ \A w \in mgtodo[r] : k <= w[1]
  /\ \E was \in mgsaw[r][d] :
       /\ mgDoc' = [mgDoc EXCEPT ![d] = Written(mgTask, k, was, @)]
       /\ mgCrossed' = IF mgTask \notin Rechecks /\ mgDoc[d] # was
                       THEN mgCrossed \cup {d} ELSE mgCrossed
  /\ mgtodo' = [mgtodo EXCEPT ![r] = @ \ {<<k, d>>}]
  /\ UNCHANGED <<mgTask, mgMeant, mgpc, mgsaw, mgRuns, mgEdits, mgClean, mgFresh>>

FinishRun(r) ==
  /\ mgpc[r] = "rewrite" /\ mgtodo[r] = {}
  /\ mgpc' = [mgpc EXCEPT ![r] = "idle"]
  /\ mgsaw' = [mgsaw EXCEPT ![r] = [d \in MgDocs |-> {}]]
  /\ mgClean' = TRUE
  /\ UNCHANGED <<mgTask, mgStored, mgtodo, mgRuns, mgEdits, mgFresh, mgCrossed>>

StopRun(r) ==
  /\ mgpc[r] = "rewrite" /\ mgtodo[r] # {}
  /\ mgpc' = [mgpc EXCEPT ![r] = "idle"]
  /\ mgtodo' = [mgtodo EXCEPT ![r] = {}]
  /\ mgsaw' = [mgsaw EXCEPT ![r] = [d \in MgDocs |-> {}]]
  /\ UNCHANGED <<mgTask, mgStored, mgRuns, mgEdits, mgClean, mgFresh, mgCrossed>>

ProgramWrites(d, v) ==
  /\ mgEdits < MgMostEdits
  /\ v \in EditsOf(mgTask, mgDoc[d])
  /\ mgEdits' = mgEdits + 1
  /\ mgDoc' = [mgDoc EXCEPT ![d] = v]
  /\ mgMeant' = [mgMeant EXCEPT ![d] = Says(mgTask, v)]
  /\ mgFresh' = IF Found(mgTask, v) THEN mgFresh \cup {d} ELSE mgFresh
  /\ UNCHANGED <<mgTask, mgRun, mgRuns, mgClean, mgCrossed>>

MgNext ==
  \/ \E r \in MgRuns :
       \/ FindDocuments(r) \/ FinishRun(r) \/ StopRun(r)
       \/ \E k \in Statements(mgTask), d \in MgDocs : RewriteOne(r, k, d)
  \/ \E d \in MgDocs : \E v \in EditsOf(mgTask, mgDoc[d]) : ProgramWrites(d, v)

MgSpec == MgInit /\ [][MgNext]_mgVars

-----------------------------------------------------------------------------
(* Every variable has its type; a document keeps the fields of its task. *)
MgTypeOK ==
  /\ mgTask \in Tasks
  /\ \A d \in MgDocs : \E v \in FoundBy(mgTask) : DOMAIN mgDoc[d] = DOMAIN v
  /\ mgpc \in [MgRuns -> {"idle", "rewrite"}]
  /\ mgtodo \in [MgRuns -> SUBSET (Statements(mgTask) \X MgDocs)]
  /\ \A r \in MgRuns : \A w \in mgtodo[r] : Cardinality(mgsaw[r][w[2]]) = 1
  /\ mgRuns \in 0..MgMostRuns /\ mgEdits \in 0..MgMostEdits
  /\ mgClean \in BOOLEAN /\ mgFresh \subseteq MgDocs /\ mgCrossed \subseteq MgDocs

(* Wherever a migration is, and however often it was stopped and repeated, a
   document says what it said: nobody gains or loses access but by a switch
   that shows it, no leg is turned off, no name, pin or badge is lost, and a
   live order that owes is not said to be paid.  Left out are the documents a
   run overwrote with an old read, and the orders support put back: what was
   abandoned the migration takes for over, so one that comes back and owes
   may say that it was paid at pickup. *)
MigrationKeepsMeaning ==
  \A d \in MgDocs : Keeps(mgTask, mgMeant[d], mgDoc[d]) \/ d \in mgCrossed

(* A run that ended by itself leaves nothing for the next one to find, except
   what the program wrote there since. *)
SecondRunMatchesNothing ==
  mgClean => \A d \in MgDocs \ (mgFresh \cup mgCrossed) : ~Found(mgTask, mgDoc[d])

-----------------------------------------------------------------------------
(* A washer's certification evidence.  It used to be kept in the public
   bucket, one address per file; a migration copies each file into the
   private store, while she may hand in new evidence that replaces all of
   it, or have her account erased. *)

CONSTANTS
  EmFiles,         \* files of evidence, old and new
  EmRuns,          \* processes running the migration
  EmMostRuns,      \* bound: runs ever started
  EmMostWrites     \* bound: submissions and erasures

ASSUME EmAssumption ==
  IsFiniteSet(EmRuns) /\ EmMostRuns \in Nat /\ EmMostWrites \in Nat

VARIABLES
  emPublic, emKeys, emRetired,    \* certProofUrls, certProofObjectKeys, legacy
  empc, emtodo, emcopied,         \* a run: addresses left, the one copied
  emSent,                         \* a submission: files uploaded, not yet saved
  emRuns, emWrites,
  emCurrent,     \* history: the files she last handed in
  emCrossed      \* history: a run wrote an address the profile no longer had

emProfile == <<emPublic, emKeys, emRetired>>
emRun == <<empc, emtodo, emcopied>>
emVars == <<emProfile, emRun, emSent, emRuns, emWrites, emCurrent, emCrossed>>

EmInit ==
  /\ emPublic \in SUBSET EmFiles /\ emCurrent = emPublic
  /\ emKeys = [f \in EmFiles |-> 0] /\ emRetired = {}
  /\ empc = [r \in EmRuns |-> "idle"]
  /\ emtodo = [r \in EmRuns |-> {}] /\ emcopied = [r \in EmRuns |-> {}]
  /\ emSent = {} /\ emRuns = 0 /\ emWrites = 0 /\ emCrossed = FALSE

(* certificationProofUrls: what its reader is shown. *)
Shown == emPublic \cup {f \in EmFiles : emKeys[f] > 0}

-----------------------------------------------------------------------------
FindProofs(r) ==
  /\ empc[r] = "idle" /\ emRuns < EmMostRuns /\ emPublic # {}
  /\ emRuns' = emRuns + 1
  /\ empc' = [empc EXCEPT ![r] = "copy"]
  /\ emtodo' = [emtodo EXCEPT ![r] = emPublic]
  /\ UNCHANGED <<emProfile, emcopied, emSent, emWrites, emCurrent, emCrossed>>

(* Fetched and stored, or left in its place for the next run. *)
CopyProof(r, f, works) ==
  /\ empc[r] = "copy" /\ f \in emtodo[r]
  /\ emtodo' = [emtodo EXCEPT ![r] = @ \ {f}]
  /\ IF works THEN /\ empc' = [empc EXCEPT ![r] = "retire"]
                   /\ emcopied' = [emcopied EXCEPT ![r] = {f}]
     ELSE UNCHANGED <<empc, emcopied>>
  /\ UNCHANGED <<emProfile, emSent, emRuns, emWrites, emCurrent, emCrossed>>

(* One update moves the address and lists the copy. *)
RetireProof(r) ==
  /\ empc[r] = "retire"
  /\ emPublic' = emPublic \ emcopied[r]
  /\ emKeys' = [f \in EmFiles |-> IF f \in emcopied[r] THEN emKeys[f] + 1 ELSE emKeys[f]]
  /\ emRetired' = emRetired \cup emcopied[r]
  /\ emCrossed' = (emCrossed \/ ~(emcopied[r] \subseteq emPublic))
  /\ empc' = [empc EXCEPT ![r] = "copy"]
  /\ emcopied' = [emcopied EXCEPT ![r] = {}]
  /\ UNCHANGED <<emtodo, emSent, emRuns, emWrites, emCurrent>>

(* Every address seen, or the process stopped: a copy not yet listed is lost. *)
EndMove(r) ==
  /\ empc[r] # "idle"
  /\ empc' = [empc EXCEPT ![r] = "idle"]
  /\ emtodo' = [emtodo EXCEPT ![r] = {}] /\ emcopied' = [emcopied EXCEPT ![r] = {}]
  /\ UNCHANGED <<emProfile, emSent, emRuns, emWrites, emCurrent, emCrossed>>

-----------------------------------------------------------------------------
(* submitCertificationProof: the files go up, then one write replaces what
   the profile lists. *)
SendProofs(files) ==
  /\ emSent = {} /\ files # {} /\ emWrites < EmMostWrites
  /\ files \cap (emCurrent \cup emRetired) = {}
  /\ emWrites' = emWrites + 1
  /\ emSent' = files
  /\ UNCHANGED <<emProfile, emRun, emRuns, emCurrent, emCrossed>>

SaveProofs ==
  /\ emSent # {}
  /\ emKeys' = [f \in EmFiles |-> IF f \in emSent THEN 1 ELSE 0]
  /\ emPublic' = {}
  /\ emCurrent' = emSent /\ emSent' = {}
  /\ UNCHANGED <<emRetired, emRun, emRuns, emWrites, emCrossed>>

(* The erasure of her account empties all three lists. *)
EraseProofs ==
  /\ emWrites < EmMostWrites /\ emCurrent # {}
  /\ emWrites' = emWrites + 1
  /\ emPublic' = {} /\ emRetired' = {} /\ emKeys' = [f \in EmFiles |-> 0]
  /\ emCurrent' = {}
  /\ UNCHANGED <<emRun, emSent, emRuns, emCrossed>>

EmNext ==
  \/ \E r \in EmRuns :
       \/ FindProofs(r) \/ RetireProof(r) \/ EndMove(r)
       \/ \E f \in EmFiles, works \in BOOLEAN : CopyProof(r, f, works)
  \/ \E files \in SUBSET EmFiles : SendProofs(files)
  \/ SaveProofs \/ EraseProofs

EmSpec == EmInit /\ [][EmNext]_emVars

-----------------------------------------------------------------------------
(* Every variable has its type. *)
EmTypeOK ==
  /\ emPublic \subseteq EmFiles /\ emRetired \subseteq EmFiles
  /\ emKeys \in [EmFiles -> 0..EmMostRuns + 1]
  /\ empc \in [EmRuns -> {"idle", "copy", "retire"}]
  /\ emtodo \in [EmRuns -> SUBSET EmFiles]
  /\ emcopied \in [EmRuns -> SUBSET EmFiles]
  /\ emSent \subseteq EmFiles
  /\ emRuns \in 0..EmMostRuns /\ emWrites \in 0..EmMostWrites
  /\ emCurrent \subseteq EmFiles /\ emCrossed \in BOOLEAN

(* Stopped or failing anywhere, the move loses no evidence: what she handed
   in last can still be shown to a reviewer. *)
EvidenceStaysReachable == emCurrent \subseteq Shown

(* Nothing she replaced or had erased is shown, and nothing twice, unless a
   run wrote on an address that was gone from the profile. *)
OnlyCurrentIsShown ==
  emCrossed \/ /\ Shown \subseteq emCurrent
               /\ \A f \in EmFiles : emKeys[f] < 2 /\ (f \in emPublic => emKeys[f] = 0)

=============================================================================
