------------------------------- MODULE Ratings -------------------------------
(* The reviews of one provider and the aggregate kept beside them: the
   customer submits and edits, a moderator takes down and restores.

   Each operation loads the review, and then runs a transaction that saves
   it and writes the aggregate.  Two transactions over one provider
   conflict, and the later one is run again: the deltas still come from
   the review as it was loaded, and a document that the first attempt
   saved has nothing left to save in the second.

   An average is kept as the sum it stands for (applyAggregateDelta
   multiplies it back).  One score stands for the five dimensions, which
   are treated alike; comments, answers and reports are left out. *)
EXTENDS Naturals, Integers, FiniteSets, FiniteSetsExt

CONSTANTS
  RatedOrders,       \* completed orders of the provider, by their customers
  RatingRequests,    \* requests in progress
  Scores,
  MaxRatingCalls     \* bound: requests ever made

ASSUME ScoresAssumption == Scores \subseteq Nat
ASSUME RatedOrdersAreFinite == IsFiniteSet(RatedOrders)

VARIABLES
  ratingState, ratingScore,    \* ratings: none, live or removed
  aggCount, aggSum,            \* ratingAggregate of the branch or washer
  rpc, rorder, rseen, rnew,    \* a request in progress
  rtired,                      \* requests whose first attempt was aborted
  ratingCalls,
  rmuddled                     \* history: see AggregateMatches

ratingRows == <<ratingState, ratingScore>>
ratingAggregate == <<aggCount, aggSum>>
ratingRequest == <<rpc, rorder, rseen, rnew>>
ratingVars == <<ratingRows, ratingAggregate, ratingRequest, rtired, ratingCalls, rmuddled>>

RatingInit ==
  /\ ratingState = [o \in RatedOrders |-> "none"]
  /\ ratingScore = [o \in RatedOrders |-> 0]
  /\ aggCount = 0 /\ aggSum = 0
  /\ rpc = [h \in RatingRequests |-> "idle"]
  /\ rorder = [h \in RatingRequests |-> "none"]
  /\ rseen = [h \in RatingRequests |-> <<"none", 0>>]
  /\ rnew = [h \in RatingRequests |-> 0]
  /\ rtired = {} /\ ratingCalls = 0 /\ rmuddled = FALSE

-----------------------------------------------------------------------------
LoadRating(h, op, o, score) ==
  /\ rpc[h] = "idle" /\ ratingCalls < MaxRatingCalls /\ ratingCalls' = ratingCalls + 1
  /\ rpc' = [rpc EXCEPT ![h] = op]
  /\ rorder' = [rorder EXCEPT ![h] = o]
  /\ rseen' = [rseen EXCEPT ![h] = <<ratingState[o], ratingScore[o]>>]
  /\ rnew' = [rnew EXCEPT ![h] = score]
  /\ UNCHANGED <<ratingRows, ratingAggregate, rtired, rmuddled>>

RatingDone(h) ==
  /\ rpc' = [rpc EXCEPT ![h] = "idle"]
  /\ rorder' = [rorder EXCEPT ![h] = "none"]
  /\ rseen' = [rseen EXCEPT ![h] = <<"none", 0>>]
  /\ rnew' = [rnew EXCEPT ![h] = 0]
  /\ rtired' = rtired \ {h}
  /\ UNCHANGED ratingCalls

(* applyAggregateDelta: no review left, no average. *)
ApplyDelta(count, sum) ==
  /\ aggCount' = aggCount + count
  /\ aggSum' = IF aggCount + count > 0 THEN aggSum + sum ELSE 0

(* The review, unless the first attempt already saved it: a document with no
   changed path is not written, although the first attempt was undone. *)
SaveRating(h, state, score) ==
  LET o == rorder[h] IN
  IF h \in rtired THEN UNCHANGED ratingRows
  ELSE /\ ratingState' = [ratingState EXCEPT ![o] = state]
       /\ ratingScore' = [ratingScore EXCEPT ![o] = score]

(* What was loaded no longer holds, or the save is lost to a second attempt. *)
Muddle(h) ==
  rmuddled' = \/ rmuddled \/ h \in rtired
              \/ rseen[h] # <<ratingState[rorder[h]], ratingScore[rorder[h]]>>

-----------------------------------------------------------------------------
(* submitRating: the order is completed and has no review; a unique index over
   orderId refuses a second one, and a second attempt creates it anew. *)
Submit(h, o, score) == ratingState[o] = "none" /\ LoadRating(h, "submit", o, score)

CommitSubmit(h) ==
  LET o == rorder[h] IN
  /\ rpc[h] = "submit"
  /\ IF ratingState[o] = "none"
     THEN /\ ratingState' = [ratingState EXCEPT ![o] = "live"]
          /\ ratingScore' = [ratingScore EXCEPT ![o] = rnew[h]]
          /\ ApplyDelta(1, rnew[h])
     ELSE UNCHANGED <<ratingRows, ratingAggregate>>
  /\ RatingDone(h)
  /\ UNCHANGED rmuddled

(* updateRating looks at the customer and the edit window, and not whether the
   review was removed, so that it may move an average it is no part of. *)
CommitUpdate(h) ==
  LET o == rorder[h] IN
  /\ rpc[h] = "update"
  /\ SaveRating(h, ratingState[o], rnew[h])
  /\ ApplyDelta(0, rnew[h] - rseen[h][2])
  /\ rmuddled' = \/ rmuddled \/ h \in rtired \/ ratingState[o] = "removed"
                 \/ rseen[h] # <<ratingState[o], ratingScore[o]>>
  /\ RatingDone(h)

Edit(h, o, score) == ratingState[o] # "none" /\ LoadRating(h, "update", o, score)

(* moderateTakedown and restoreRating answer at once when nothing would change. *)
Moderate(h, o) == 
  /\ ratingState[o] # "none"
  /\ LoadRating(h, IF ratingState[o] = "live" THEN "takedown" ELSE "restore", o, 0)

CommitTakedown(h) ==
  LET o == rorder[h] IN
  /\ rpc[h] = "takedown"
  /\ SaveRating(h, "removed", ratingScore[o])
  /\ ApplyDelta(-1, 0 - rseen[h][2])
  /\ Muddle(h)
  /\ RatingDone(h)

(* Mutant: a review comes back and the average is not told. *)
CommitFlagOnly(h) ==
  LET o == rorder[h] IN
  /\ rpc[h] = "restore"
  /\ SaveRating(h, "live", ratingScore[o])
  /\ Muddle(h)
  /\ RatingDone(h)
  /\ UNCHANGED ratingAggregate

CommitRestore(h) ==
  LET o == rorder[h] IN
  /\ rpc[h] = "restore"
  /\ SaveRating(h, "live", ratingScore[o])
  /\ ApplyDelta(1, rseen[h][2])
  /\ Muddle(h)
  /\ RatingDone(h)

(* Another transaction over the provider commits first: the attempt is undone. *)
RunAgain(h) ==
  /\ rpc[h] # "idle" /\ h \notin rtired
  /\ \E g \in RatingRequests \ {h} : rpc[g] # "idle"
  /\ rtired' = rtired \cup (IF rpc[h] = "submit" THEN {} ELSE {h})
  /\ UNCHANGED <<ratingRows, ratingAggregate, ratingRequest, ratingCalls, rmuddled>>

RatingNext ==
  \E h \in RatingRequests :
    \/ \E o \in RatedOrders : \/ \E score \in Scores : Submit(h, o, score) \/ Edit(h, o, score)
                              \/ Moderate(h, o)
    \/ CommitSubmit(h) \/ CommitUpdate(h) \/ CommitTakedown(h) \/ CommitRestore(h)
    \/ RunAgain(h)

RatingSpec == RatingInit /\ [][RatingNext]_ratingVars

-----------------------------------------------------------------------------
RatingTypeOK ==
  /\ ratingState \in [RatedOrders -> {"none", "live", "removed"}]
  /\ ratingScore \in [RatedOrders -> Scores \cup {0}]
  /\ aggCount \in Int /\ aggSum \in Int
  /\ rtired \subseteq RatingRequests

LiveRatings == {o \in RatedOrders : ratingState[o] = "live"}

(* The average that customers see is that of the reviews they can read.  It
   drifts for good when an edit or a moderation rests on a review that changed
   since it was loaded, when a moderation has to run twice, and, with nobody
   else about, when the customer edits a review that was removed. *)
AggregateMatches ==
  ~rmuddled =>
    /\ aggCount = Cardinality(LiveRatings)
    /\ aggSum = SumFunctionOnSet(ratingScore, LiveRatings)

(* The public score of a provider is that of the ratings shown, through
   takedowns and restores that are retried, refused or cross. *)
RatingsAreSound ==
  /\ RatingTypeOK
  /\ AggregateMatches

=============================================================================
