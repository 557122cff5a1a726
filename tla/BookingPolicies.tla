-------------------------- MODULE BookingPolicies ---------------------------
(* The platform's booking rules: the one live policy, the milestones, the
   campaigns, and the daily capacity they grant to a home washer.

   No operation runs in a transaction.  Publishing archives the live row
   before it inserts the next one, because a partial unique index allows
   one live row; whoever reads the policy in between finds none and seeds
   version 1 with the defaults of the code.

   A policy is its base capacity and its safety limit; the other limits,
   the week and the wording are left out. *)
EXTENDS Naturals, FiniteSets, Sequences

CONSTANTS
  Milestones, MilestoneRank, MilestoneCapacity, MinOrders, NoMilestone,
  Capacities,          \* numbers an administrator enters
  SeedTerms,           \* POLICY_SEED, as a record of base and safety
  PolicyRequests,      \* requests in progress, of administrators and bookings
  CompletedOrders,     \* what a washer has behind her
  MaxPolicies,         \* bound: rows ever inserted
  MaxPolicyCalls,      \* bound: requests ever made
  MaxPolicyMishaps     \* bound: processes lost, inserts the database refuses

(* Capacities and orders are counted, and milestones are ranked by numbers. *)
ASSUME PolicyNumbersFit ==
  /\ IsFiniteSet(Milestones) /\ MaxPolicies \in Nat \ {0} /\ Capacities \subseteq Nat
  /\ SeedTerms \in [base : Capacities, safety : Capacities]
  /\ \A k \in Milestones : MilestoneRank[k] \in Nat /\ MilestoneCapacity[k] \in Nat

VARIABLES
  policies,            \* booking_policies, in the order of their inserts
  milestones, defaults, targets,  \* milestones there are, default ones, and
                                  \* those that an enabled campaign targets
  bonus,               \* the campaign: what it multiplies capacity by
  plPc, plRow, plTerms, plKey,     \* a request in progress
  grantedCap,          \* the newest capacity given out, with the policy it used
  policyCalls, policyMishaps,
  seededAgain,         \* history: seeds inserted after the first policy
  publisherLost,       \* history: a publisher was lost after it archived
  gapTaken,            \* history: a publisher of an older version used the gap of a newer one
  floorMoved,          \* history: two changes of the default crossed, or one was cut short
  floorSet,            \* history: there has been a default milestone
  strayTargets         \* history: milestones targeted while one removed them

policyRequest == <<plPc, plRow, plTerms, plKey>>
policyBounds == <<policyCalls, policyMishaps>>
publishHistory == <<seededAgain, publisherLost, gapTaken>>
policyHistory == <<publishHistory, floorMoved, floorSet, strayTargets>>
milestoneRows == <<milestones, defaults, targets, bonus>>
policyVars == <<policies, milestoneRows, policyRequest, grantedCap, policyBounds, policyHistory>>

PolicyTerms == [base : Capacities, safety : Capacities]
Coherent(t) == t.base <= t.safety
PolicyRow(v, t) == [ver |-> v, live |-> TRUE, terms |-> t]

LiveRows == {i \in DOMAIN policies : policies[i].live}
LivePolicy == CHOOSE i \in LiveRows : TRUE

PolicyInit ==
  /\ policies = <<PolicyRow(1, SeedTerms)>>
  /\ milestones = {} /\ defaults = {} /\ targets = {} /\ bonus = 1
  /\ plPc = [h \in PolicyRequests |-> "idle"]
  /\ plRow = [h \in PolicyRequests |-> 0]
  /\ plTerms = [h \in PolicyRequests |-> SeedTerms]
  /\ plKey = [h \in PolicyRequests |-> NoMilestone]
  /\ grantedCap = <<0, 1>>
  /\ policyCalls = 0 /\ policyMishaps = 0
  /\ seededAgain = 0 /\ publisherLost = FALSE /\ gapTaken = FALSE
  /\ floorMoved = FALSE /\ floorSet = FALSE /\ strayTargets = {}

-----------------------------------------------------------------------------
PolicyBegin(h, at) ==
  /\ plPc[h] = "idle" /\ policyCalls < MaxPolicyCalls /\ policyCalls' = policyCalls + 1
  /\ plPc' = [plPc EXCEPT ![h] = at]
  /\ UNCHANGED policyMishaps

PolicyDone(h) ==
  /\ plPc' = [plPc EXCEPT ![h] = "idle"]
  /\ plRow' = [plRow EXCEPT ![h] = 0]
  /\ plTerms' = [plTerms EXCEPT ![h] = SeedTerms]
  /\ plKey' = [plKey EXCEPT ![h] = NoMilestone]

PolicyGoto(h, at) == plPc' = [plPc EXCEPT ![h] = at] /\ UNCHANGED <<plRow, plTerms, plKey>>

(* The unique index on the live row. *)
Insertable == LiveRows = {} /\ Len(policies) < MaxPolicies

(* current: the live policy, or one made from the seed.  Every booking and
   every quote asks for it. *)
AskPolicy(h) ==
  /\ LiveRows = {}
  /\ PolicyBegin(h, "seed")
  /\ UNCHANGED <<policies, milestoneRows, plRow, plTerms, plKey, grantedCap, policyHistory>>

SeedPolicy(h) ==
  /\ plPc[h] = "seed"
  /\ IF Insertable
     THEN /\ policies' = Append(policies, PolicyRow(1, SeedTerms))
          /\ seededAgain' = seededAgain + 1
     ELSE UNCHANGED <<policies, seededAgain>>
  /\ PolicyDone(h)
  /\ UNCHANGED <<milestoneRows, grantedCap, policyBounds, publisherLost, gapTaken,
                 floorMoved, floorSet, strayTargets>>

(* publish: a section is laid over the live policy and checked. *)
BeginPublish(h, section, n) ==
  LET live == policies[LivePolicy]
      merged == [live.terms EXCEPT ![section] = n] IN
  /\ LiveRows # {} /\ merged # live.terms /\ Coherent(merged)
  /\ PolicyBegin(h, "archive")
  /\ plRow' = [plRow EXCEPT ![h] = LivePolicy]
  /\ plTerms' = [plTerms EXCEPT ![h] = merged]
  /\ UNCHANGED <<policies, milestoneRows, plKey, grantedCap, policyHistory>>

ArchivePolicy(h) ==
  /\ plPc[h] = "archive"
  /\ policies' = [policies EXCEPT ![plRow[h]].live = FALSE]
  /\ PolicyGoto(h, "insert")
  /\ UNCHANGED <<milestoneRows, grantedCap, policyBounds, policyHistory>>

InsertPolicy(h) ==
  /\ plPc[h] = "insert"
  /\ IF Insertable
     THEN /\ policies' = Append(policies, PolicyRow(policies[plRow[h]].ver + 1, plTerms[h]))
          /\ gapTaken' = (gapTaken \/ plRow[h] # Len(policies))
          /\ PolicyDone(h)
     ELSE PolicyGoto(h, "restore") /\ UNCHANGED <<policies, gapTaken>>
  /\ UNCHANGED <<milestoneRows, grantedCap, policyBounds, seededAgain, publisherLost,
                 floorMoved, floorSet, strayTargets>>

(* A mishap takes the room of a request, so that the bounds are shared. *)
PolicyMishap ==
  /\ policyMishaps < MaxPolicyMishaps /\ policyMishaps' = policyMishaps + 1
  /\ policyCalls < MaxPolicyCalls /\ policyCalls' = policyCalls + 1

(* The database refuses the insert for a reason of its own. *)
RefuseInsert(h) ==
  /\ plPc[h] = "insert"
  /\ PolicyMishap
  /\ PolicyGoto(h, "restore")
  /\ UNCHANGED <<policies, milestoneRows, grantedCap, policyHistory>>

(* Mutant: nothing is restored. *)
RestoreNothing(h) ==
  /\ plPc[h] = "restore"
  /\ PolicyDone(h)
  /\ UNCHANGED <<policies, milestoneRows, grantedCap, policyBounds, policyHistory>>

(* The old row is made live again, unless another one is: then the index
   refuses this write too, and the error of this write is what is thrown. *)
RestorePolicy(h) ==
  /\ plPc[h] = "restore"
  /\ policies' = IF LiveRows = {} THEN [policies EXCEPT ![plRow[h]].live = TRUE] ELSE policies
  /\ gapTaken' = (gapTaken \/ (LiveRows = {} /\ plRow[h] # Len(policies)))
  /\ PolicyDone(h)
  /\ UNCHANGED <<milestoneRows, grantedCap, policyBounds, seededAgain, publisherLost,
                 floorMoved, floorSet, strayTargets>>

-----------------------------------------------------------------------------
(* upsertMilestone: a new default first takes the flag from all others. *)
BeginMilestone(h, k, default) ==
  /\ PolicyBegin(h, IF default THEN "clear" ELSE "milestone")
  /\ plKey' = [plKey EXCEPT ![h] = k]
  /\ floorMoved' = (floorMoved \/ (~default /\ k \in defaults))
  /\ UNCHANGED <<policies, milestoneRows, plRow, plTerms, grantedCap, publishHistory, floorSet, strayTargets>>

Flooring(g) == plPc[g] \in {"clear", "default"}

ClearDefaults(h) ==
  /\ plPc[h] = "clear"
  /\ defaults' = defaults \cap {plKey[h]}
  /\ PolicyGoto(h, "default")
  /\ floorMoved' = (floorMoved \/ \E g \in PolicyRequests \ {h} : Flooring(g))
  /\ UNCHANGED <<policies, milestones, targets, bonus, grantedCap, policyBounds,
                 publishHistory, floorSet, strayTargets>>

WriteMilestone(h) ==
  LET k == plKey[h] IN
  /\ plPc[h] \in {"milestone", "default"}
  /\ milestones' = milestones \cup {k}
  /\ defaults' = IF plPc[h] = "default" THEN defaults \cup {k} ELSE defaults \ {k}
  /\ floorSet' = (floorSet \/ plPc[h] = "default")
  /\ floorMoved' = (floorMoved \/ (plPc[h] = "milestone" /\ k \in defaults))
  /\ PolicyDone(h)
  /\ UNCHANGED <<policies, targets, bonus, grantedCap, policyBounds, publishHistory, strayTargets>>

(* removeMilestone: not the default, and not one that a campaign targets. *)
BeginRemove(h, k) ==
  /\ k \in milestones \ defaults
  /\ PolicyBegin(h, "count")
  /\ plKey' = [plKey EXCEPT ![h] = k]
  /\ UNCHANGED <<policies, milestoneRows, plRow, plTerms, grantedCap, policyHistory>>

CountCampaigns(h) ==
  /\ plPc[h] = "count"
  /\ IF plKey[h] \in targets THEN PolicyDone(h) ELSE PolicyGoto(h, "delete")
  /\ UNCHANGED <<policies, milestoneRows, grantedCap, policyBounds, policyHistory>>

DeleteMilestone(h) ==
  LET k == plKey[h] IN
  /\ plPc[h] = "delete"
  /\ milestones' = milestones \ {k} /\ defaults' = defaults \ {k}
  /\ floorMoved' = (floorMoved \/ k \in defaults)
  /\ PolicyDone(h)
  /\ UNCHANGED <<policies, targets, bonus, grantedCap, policyBounds, publishHistory, floorSet, strayTargets>>

(* upsertCampaign and removeCampaign: nobody asks whether the target is there. *)
SaveCampaign(k, factor) ==
  /\ policyCalls < MaxPolicyCalls /\ policyCalls' = policyCalls + 1
  /\ targets' = IF k = NoMilestone THEN {} ELSE {k}
  /\ bonus' = factor
  /\ strayTargets' = IF k = NoMilestone THEN {}
                     ELSE IF k \in milestones /\ \A h \in PolicyRequests : ~(plPc[h] = "delete" /\ plKey[h] = k)
                          THEN {} ELSE {k}
  /\ UNCHANGED <<policies, milestones, defaults, policyRequest, grantedCap, policyMishaps,
                 publishHistory, floorMoved, floorSet>>

-----------------------------------------------------------------------------
(* resolveMilestone: the highest that is earned, else the default, else the
   lowest. *)
Earned(orders) == {k \in milestones \ defaults : orders >= MinOrders[k]}
Highest(S) == CHOOSE k \in S : \A m \in S : MilestoneRank[m] <= MilestoneRank[k]
Lowest(S) == CHOOSE k \in S : \A m \in S : MilestoneRank[m] >= MilestoneRank[k]

ResolveMilestone(orders) ==
  IF Earned(orders) # {} THEN Highest(Earned(orders))
  ELSE IF defaults # {} THEN Lowest(defaults)
  ELSE IF milestones # {} THEN Lowest(milestones) ELSE NoMilestone

CampaignApplies(k) == targets = {} \/ k \in targets
Least(a, b) == IF a < b THEN a ELSE b

(* resolveEntitlement: a milestone replaces the base, campaigns multiply, the
   safety limit comes last. *)
DailyCapacity(orders, t) ==
  LET k == ResolveMilestone(orders)
      own == IF k = NoMilestone THEN t.base ELSE MilestoneCapacity[k]
      raised == own * (IF CampaignApplies(k) THEN bonus ELSE 1) IN
  Least(raised, t.safety)

(* entitlementFor, on behalf of a booking. *)
GrantCapacity(orders) ==
  /\ LiveRows # {}
  /\ grantedCap' = <<DailyCapacity(orders, policies[LivePolicy].terms), LivePolicy>>
  /\ UNCHANGED <<policies, milestoneRows, policyRequest, policyBounds, policyHistory>>

(* The server process is lost. *)
LosePolicyRequest(h) ==
  /\ plPc[h] \in {"insert", "restore", "default"}
  /\ PolicyMishap
  /\ floorMoved' = (floorMoved \/ plPc[h] = "default")
  /\ publisherLost' = (publisherLost \/ plPc[h] # "default")
  /\ PolicyDone(h)
  /\ UNCHANGED <<policies, milestoneRows, grantedCap, seededAgain, gapTaken, floorSet, strayTargets>>

PolicyNext ==
  \/ \E h \in PolicyRequests :
       \/ AskPolicy(h) \/ SeedPolicy(h)
       \/ \E section \in {"base", "safety"}, n \in Capacities : BeginPublish(h, section, n)
       \/ ArchivePolicy(h) \/ InsertPolicy(h) \/ RefuseInsert(h) \/ RestorePolicy(h)
       \/ \E k \in Milestones : BeginRemove(h, k) \/ \E d \in BOOLEAN : BeginMilestone(h, k, d)
       \/ ClearDefaults(h) \/ WriteMilestone(h) \/ CountCampaigns(h) \/ DeleteMilestone(h)
       \/ LosePolicyRequest(h)
  \/ \E k \in Milestones \cup {NoMilestone}, factor \in {1, 2} : SaveCampaign(k, factor)
  \/ \E orders \in CompletedOrders : GrantCapacity(orders)

PolicySpec == PolicyInit /\ [][PolicyNext]_policyVars

-----------------------------------------------------------------------------
PolicyTypeOK ==
  /\ \A i \in DOMAIN policies : policies[i].terms \in PolicyTerms /\ policies[i].ver \in 1..MaxPolicies
  /\ Cardinality(LiveRows) <= 1
  /\ defaults \subseteq milestones /\ milestones \subseteq Milestones
  /\ targets \subseteq Milestones /\ grantedCap[2] \in DOMAIN policies

Publishing == \E h \in PolicyRequests : plPc[h] \in {"archive", "insert", "restore"}

(* Two administrators who publish different sections do not undo each other:
   every published version differs from the one before it in one section.  The
   exceptions: a row was seeded, or one who had read an older version published
   it in the gap that the publication of a newer one leaves. *)
SectionsAreKept ==
  seededAgain = 0 /\ ~gapTaken =>
    \A i \in 2..Len(policies) :
      LET was == policies[i - 1].terms now == policies[i].terms IN
      policies[i].ver = policies[i - 1].ver + 1 /\ (was.base = now.base \/ was.safety = now.safety)

(* The platform always has its newest policy live: while nobody is publishing,
   no publisher was lost and no gap was used by another, the last row is the
   live one, also after the database refused an insert. *)
NewestPolicyIsLive ==
  ~Publishing /\ ~publisherLost /\ ~gapTaken /\ seededAgain = 0 => LiveRows = {Len(policies)}

(* Every provider has one floor: there is one default milestone once there was
   any, unless two changes of it crossed, one was cut short, or an
   administrator took the flag away. *)
OneFloor ==
  floorSet /\ ~floorMoved /\ (\A h \in PolicyRequests : ~Flooring(h)) => Cardinality(defaults) = 1

(* A campaign does not apply to nobody: the milestone it targets is there,
   unless the campaign was saved while, or after, it was being removed. *)
TargetedMilestonesStay == targets \subseteq milestones \cup strayTargets

(* No washer is granted more in a day than the safety limit of the policy that
   was read for her, whatever milestone and campaign raise it. *)
SafetyBoundsGrant == grantedCap[1] <= policies[grantedCap[2]].terms.safety

(* Through publications, restores, rejected inserts and lost processes, one
   policy is in force with every section that was published, milestones that
   campaigns target stay, there is one floor, and no grant exceeds the safety
   cap. *)
PoliciesAreSound ==
  /\ PolicyTypeOK
  /\ SectionsAreKept
  /\ NewestPolicyIsLive
  /\ OneFloor
  /\ TargetedMilestonesStay
  /\ SafetyBoundsGrant

=============================================================================
