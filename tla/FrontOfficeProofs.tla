------------------------ MODULE FrontOfficeProofs ------------------------
(* What TLAPS proves of the front office, for any number of requests,
   accounts, phones and rows: the till (PointOfSale), the aggregate of a
   provider's ratings (Ratings), support tickets (SupportDesk),
   conversations (ChatThreads), the feed of notifications and the
   broadcasts (NotificationFeed), campaigns (CampaignShowings), and that
   the composition (FrontOffice) runs each of its components as that
   component's own specification allows. *)
EXTENDS FrontOffice, FiniteSetTheorems, WellFoundedInduction, TLAPS

(* Sums over a finite set.  SumFunctionOnSet chooses a function that is
   equal to its own recursive definition; that there is one on a finite
   set, and only one, is argued by a smallest subset where it would fail. *)
Chosen(s) == CHOOSE x \in s : TRUE
IsSum(g, F, S) ==
  g = [s \in SUBSET S |-> IF s = {} THEN 0 ELSE F[Chosen(s)] + g[s \ {Chosen(s)}]]

LEMMA SumIsIts ==
  ASSUME NEW F, NEW S
  PROVE  SumFunctionOnSet(F, S) = (CHOOSE g : IsSum(g, F, S))[S]
  BY DEF SumFunctionOnSet, FoldFunctionOnSet, MapThenFoldSet, IsSum, Chosen

(* A family of subsets of a finite set has a smallest member. *)
LEMMA SmallestSet ==
  ASSUME NEW S, IsFiniteSet(S), NEW B, B \subseteq SUBSET S, B # {}
  PROVE  \E w \in B : \A u \in B : u \subseteq w => u = w
 <1>1. IsWellFoundedOn(StrictSubsetOrdering(S), SUBSET S)
   BY FS_StrictSubsetOrderingWellFounded, FS_FiniteSubsetsOfFinite
 <1>2. PICK w \in B : \A u \in B : <<u, w>> \notin StrictSubsetOrdering(S) BY <1>1, WFMin
 <1>3. \A u \in B : u \subseteq w => u = w
  <2> SUFFICES ASSUME NEW u \in B, u \subseteq w, u # w PROVE FALSE OBVIOUS
  <2>1. <<u, w>> \in (SUBSET S) \X (SUBSET S) OBVIOUS
  <2>2. <<u, w>> \in StrictSubsetOrdering(S) BY <2>1 DEF StrictSubsetOrdering
  <2> QED BY <1>2, <2>2
 <1> QED BY <1>3

LEMMA SumAt ==
  ASSUME NEW F, NEW S, NEW g, IsSum(g, F, S), NEW w \in SUBSET S
  PROVE  /\ w = {} => g[w] = 0
         /\ w # {} => Chosen(w) \in w /\ g[w] = F[Chosen(w)] + g[w \ {Chosen(w)}]
 <1>1. g[w] = IF w = {} THEN 0 ELSE F[Chosen(w)] + g[w \ {Chosen(w)}] BY DEF IsSum
 <1>2. w # {} => Chosen(w) \in w BY DEF Chosen
 <1> QED BY <1>1, <1>2

LEMMA SumsAgree ==
  ASSUME NEW F, NEW S, IsFiniteSet(S), NEW T, NEW g, NEW h, IsSum(g, F, S), IsSum(h, F, T),
         NEW v \in SUBSET (S \cap T)
  PROVE  g[v] = h[v]
 <1> DEFINE B == {w \in SUBSET (S \cap T) : g[w] # h[w]}
 <1>1. ASSUME B # {} PROVE FALSE
  <2>1. B \subseteq SUBSET S OBVIOUS
  <2> HIDE DEF B
  <2>2. PICK w \in B : \A u \in B : u \subseteq w => u = w BY <1>1, <2>1, SmallestSet
  <2> USE DEF B
  <2>3. w \in SUBSET S /\ w \in SUBSET T /\ g[w] # h[w] OBVIOUS
  <2>4. w # {} BY <2>3, SumAt
  <2>5. /\ Chosen(w) \in w
        /\ g[w] = F[Chosen(w)] + g[w \ {Chosen(w)}]
        /\ h[w] = F[Chosen(w)] + h[w \ {Chosen(w)}]
    BY <2>3, <2>4, SumAt
  <2>6. g[w \ {Chosen(w)}] # h[w \ {Chosen(w)}] BY <2>3, <2>5
  <2>7. w \ {Chosen(w)} \in B BY <2>3, <2>6
  <2> QED BY <2>2, <2>5, <2>7
 <1> QED BY <1>1

LEMMA SumExists ==
  ASSUME NEW F, NEW S, IsFiniteSet(S)
  PROVE  \E g : IsSum(g, F, S)
 <1> DEFINE B == {s \in SUBSET S : ~\E g : IsSum(g, F, s)}
            Sum(u) == CHOOSE g : IsSum(g, F, u)
 <1>1. ASSUME B # {} PROVE FALSE
  <2>1. B \subseteq SUBSET S OBVIOUS
  <2> HIDE DEF B
  <2>2. PICK s \in B : \A u \in B : u \subseteq s => u = s BY <1>1, <2>1, SmallestSet
  <2> USE DEF B
  <2>3. \A u \in SUBSET s : u # s => IsSum(Sum(u), F, u)
   <3> SUFFICES ASSUME NEW u \in SUBSET s, u # s PROVE IsSum(Sum(u), F, u) OBVIOUS
   <3>1. \E g : IsSum(g, F, u) BY <2>2
   <3> QED BY <3>1
  <2>4. \A u \in SUBSET s : IsFiniteSet(u) BY FS_Subset
  <2> DEFINE g == [w \in SUBSET s |->
                     IF w = {} THEN 0 ELSE F[Chosen(w)] + Sum(w \ {Chosen(w)})[w \ {Chosen(w)}]]
  <2>5. ASSUME NEW w \in SUBSET s, w # {}
        PROVE  g[w \ {Chosen(w)}] = Sum(w \ {Chosen(w)})[w \ {Chosen(w)}]
   <3>1. Chosen(w) \in w BY <2>5 DEF Chosen
   <3> DEFINE v == w \ {Chosen(w)}
   <3>2. v \in SUBSET s /\ v # s BY <3>1
   <3>3. IsSum(Sum(v), F, v) BY <2>3, <3>2
   <3>4. CASE v = {}
    <4>1. Sum(v)[v] = 0 BY <3>3, <3>4, SumAt
    <4> QED BY <3>4, <4>1
   <3>5. CASE v # {}
    <4> DEFINE x == v \ {Chosen(v)}
    <4>1. Chosen(v) \in v /\ Sum(v)[v] = F[Chosen(v)] + Sum(v)[x]
     <5>1. v \in SUBSET v OBVIOUS
     <5> HIDE DEF Sum, v
     <5> QED BY <3>3, <3>5, <5>1, SumAt DEF x
    <4>2. x \in SUBSET s /\ x # s /\ x \in SUBSET (v \cap x) BY <3>2, <4>1
    <4>3. IsSum(Sum(x), F, x) BY <2>3, <4>2
    <4>4. IsFiniteSet(v) BY <2>4, <3>2
    <4> HIDE DEF v, x, Sum
    <4>5. Sum(v)[x] = Sum(x)[x] BY <3>3, <4>2, <4>3, <4>4, SumsAgree
    <4>6. g[v] = F[Chosen(v)] + Sum(x)[x] BY <3>2, <3>5 DEF x
    <4> QED BY <4>1, <4>5, <4>6 DEF v
   <3> QED BY <3>4, <3>5
  <2>6. IsSum(g, F, s)
   <3>1. \A w \in SUBSET s :
           g[w] = IF w = {} THEN 0 ELSE F[Chosen(w)] + g[w \ {Chosen(w)}]
    <4> SUFFICES ASSUME NEW w \in SUBSET s
                 PROVE  g[w] = IF w = {} THEN 0 ELSE F[Chosen(w)] + g[w \ {Chosen(w)}]
      OBVIOUS
    <4>1. CASE w = {} BY <4>1
    <4>2. CASE w # {}
     <5>1. g[w \ {Chosen(w)}] = Sum(w \ {Chosen(w)})[w \ {Chosen(w)}] BY <4>2, <2>5
     <5>2. g[w] = F[Chosen(w)] + Sum(w \ {Chosen(w)})[w \ {Chosen(w)}] BY <4>2
     <5> HIDE DEF g, Sum
     <5> QED BY <4>2, <5>1, <5>2
    <4> QED BY <4>1, <4>2
   <3> HIDE DEF Sum
   <3>2. g = [w \in SUBSET s |-> g[w]] OBVIOUS
   <3> HIDE DEF g
   <3> QED BY <3>1, <3>2 DEF IsSum
  <2> QED BY <2>2, <2>6
 <1>2. B = {} BY <1>1
 <1>3. S \in SUBSET S OBVIOUS
 <1> QED BY <1>2, <1>3

LEMMA SumOfNone == ASSUME NEW F PROVE SumFunctionOnSet(F, {}) = 0
 <1>1. IsFiniteSet({}) BY FS_EmptySet
 <1>2. PICK g : g = CHOOSE h : IsSum(h, F, {}) OBVIOUS
 <1>3. IsSum(g, F, {}) BY <1>1, <1>2, SumExists
 <1> QED BY <1>2, <1>3, SumIsIts, SumAt

LEMMA SumTakesOne ==
  ASSUME NEW F, NEW S, IsFiniteSet(S), S # {}
  PROVE  /\ Chosen(S) \in S
         /\ SumFunctionOnSet(F, S) = F[Chosen(S)] + SumFunctionOnSet(F, S \ {Chosen(S)})
 <1> DEFINE T == S \ {Chosen(S)}
 <1>1. Chosen(S) \in S BY DEF Chosen
 <1>2. IsFiniteSet(T) BY FS_Subset
 <1>3. PICK g : g = CHOOSE h : IsSum(h, F, S) OBVIOUS
 <1>4. PICK k : k = CHOOSE h : IsSum(h, F, T) OBVIOUS
 <1>5. IsSum(g, F, S) /\ IsSum(k, F, T) BY <1>2, <1>3, <1>4, SumExists
 <1>6. g[S] = F[Chosen(S)] + g[T]
  <2>1. S \in SUBSET S OBVIOUS
  <2> QED BY <1>5, <2>1, SumAt
 <1>7. g[T] = k[T]
  <2>1. T \in SUBSET (S \cap T) OBVIOUS
  <2> HIDE DEF T
  <2> QED BY <1>5, <2>1, SumsAgree
 <1>8. SumFunctionOnSet(F, S) = g[S] BY <1>3, SumIsIts
 <1>9. SumFunctionOnSet(F, T) = k[T] BY <1>4, SumIsIts
 <1> HIDE DEF T
 <1>10. SumFunctionOnSet(F, S) = F[Chosen(S)] + SumFunctionOnSet(F, T) BY <1>6, <1>7, <1>8, <1>9
 <1> QED BY <1>1, <1>10 DEF T

LEMMA SumIsInt ==
  ASSUME NEW F, NEW S, IsFiniteSet(S), \A x \in S : F[x] \in Int
  PROVE  SumFunctionOnSet(F, S) \in Int
 <1> DEFINE B == {s \in SUBSET S : SumFunctionOnSet(F, s) \notin Int}
 <1>1. ASSUME B # {} PROVE FALSE
  <2>1. B \subseteq SUBSET S OBVIOUS
  <2> HIDE DEF B
  <2>2. PICK s \in B : \A u \in B : u \subseteq s => u = s BY <1>1, <2>1, SmallestSet
  <2> USE DEF B
  <2>3. IsFiniteSet(s) BY FS_Subset
  <2>4. s # {} BY SumOfNone
  <2>5. /\ Chosen(s) \in s
        /\ SumFunctionOnSet(F, s) = F[Chosen(s)] + SumFunctionOnSet(F, s \ {Chosen(s)})
    BY <2>3, <2>4, SumTakesOne
  <2>6. SumFunctionOnSet(F, s \ {Chosen(s)}) \notin Int BY <2>5
  <2>7. s \ {Chosen(s)} \in B BY <2>6
  <2> QED BY <2>2, <2>5, <2>7
 <1> QED BY <1>1

(* The sum of a set and one more is the sum of the set, and the one. *)
LEMMA SumWithOneMore ==
  ASSUME NEW F, NEW S, IsFiniteSet(S), NEW x, x \notin S, \A y \in S \cup {x} : F[y] \in Int
  PROVE  SumFunctionOnSet(F, S \cup {x}) = F[x] + SumFunctionOnSet(F, S)
 <1> DEFINE U == S \cup {x}
            Adds(s, y) == SumFunctionOnSet(F, s \cup {y}) = F[y] + SumFunctionOnSet(F, s)
            B == {s \in SUBSET U : \E y \in U \ s : ~Adds(s, y)}
 <1>1. IsFiniteSet(U) BY FS_AddElement
 <1>2. ASSUME B # {} PROVE FALSE
  <2>1. B \subseteq SUBSET U OBVIOUS
  <2> HIDE DEF B
  <2>2. PICK s \in B : \A u \in B : u \subseteq s => u = s BY <1>1, <1>2, <2>1, SmallestSet
  <2> USE DEF B
  <2>3. PICK y \in U \ s : ~Adds(s, y) OBVIOUS
  <2>4. s \subseteq U OBVIOUS
  <2>5. \A u \in SUBSET U : IsFiniteSet(u) BY <1>1, FS_Subset
  <2>6. ASSUME NEW u \in SUBSET s, NEW z \in U \ u, u # s PROVE Adds(u, z)
   <3> SUFFICES ASSUME ~Adds(u, z) PROVE FALSE OBVIOUS
   <3> HIDE DEF Adds, U
   <3>1. u \in SUBSET U BY <2>4
   <3>2. \E e \in U \ u : ~Adds(u, e) OBVIOUS
   <3>3. u \in B BY <3>1, <3>2, Zenon DEF B
   <3> QED BY <2>2, <2>6, <3>3
  <2> HIDE DEF B, U
  <2> DEFINE T == s \cup {y} c == Chosen(T)
  <2>7. T \in SUBSET U /\ T # {} BY <2>3, <2>4
  <2>8. c \in T /\ SumFunctionOnSet(F, T) = F[c] + SumFunctionOnSet(F, T \ {c})
    BY <2>5, <2>7, SumTakesOne
  <2>9. \A u \in SUBSET U : SumFunctionOnSet(F, u) \in Int
   <3> SUFFICES ASSUME NEW u \in SUBSET U PROVE SumFunctionOnSet(F, u) \in Int OBVIOUS
   <3>1. \A z \in u : F[z] \in Int BY DEF U
   <3> QED BY <2>5, <3>1, SumIsInt
  <2>10. c # y
   <3> SUFFICES ASSUME c = y PROVE FALSE OBVIOUS
   <3>1. T \ {c} = s BY <2>3
   <3> QED BY <2>3, <2>8, <3>1
  <2> DEFINE r == s \ {c}
  <2>11. c \in s BY <2>8, <2>10
  <2>12. T \ {c} = r \cup {y} BY <2>10
  <2>13. s = r \cup {c} BY <2>11
  <2>14. r \in SUBSET s /\ r # s /\ y \in U \ r /\ c \in U \ r BY <2>3, <2>4, <2>11
  <2>15. Adds(r, y) BY <2>6, <2>14
  <2>16. Adds(r, c) BY <2>6, <2>14
  <2>17. /\ F[y] \in Int /\ F[c] \in Int /\ SumFunctionOnSet(F, r) \in Int
    BY <2>3, <2>4, <2>9, <2>11, <2>14 DEF U
  <2>18. SumFunctionOnSet(F, T) = F[c] + (F[y] + SumFunctionOnSet(F, r)) BY <2>8, <2>12, <2>15
  <2>19. SumFunctionOnSet(F, s) = F[c] + SumFunctionOnSet(F, r) BY <2>13, <2>16
  <2>20. SumFunctionOnSet(F, T) = F[y] + SumFunctionOnSet(F, s)
   <3> HIDE DEF T, c, r
   <3> QED BY <2>17, <2>18, <2>19
  <2> QED BY <2>3, <2>20
 <1>3. S \in SUBSET U /\ x \in U \ S OBVIOUS
 <1> QED BY <1>2, <1>3

LEMMA SumOfTheSame ==
  ASSUME NEW F, NEW G, NEW S, IsFiniteSet(S), \A x \in S : F[x] = G[x]
  PROVE  SumFunctionOnSet(F, S) = SumFunctionOnSet(G, S)
 <1> DEFINE B == {s \in SUBSET S : SumFunctionOnSet(F, s) # SumFunctionOnSet(G, s)}
 <1>1. ASSUME B # {} PROVE FALSE
  <2>1. B \subseteq SUBSET S OBVIOUS
  <2> HIDE DEF B
  <2>2. PICK s \in B : \A u \in B : u \subseteq s => u = s BY <1>1, <2>1, SmallestSet
  <2> USE DEF B
  <2>3. IsFiniteSet(s) BY FS_Subset
  <2>4. s # {} BY SumOfNone
  <2>5. /\ Chosen(s) \in s
        /\ SumFunctionOnSet(F, s) = F[Chosen(s)] + SumFunctionOnSet(F, s \ {Chosen(s)})
        /\ SumFunctionOnSet(G, s) = G[Chosen(s)] + SumFunctionOnSet(G, s \ {Chosen(s)})
    BY <2>3, <2>4, SumTakesOne
  <2>6. SumFunctionOnSet(F, s \ {Chosen(s)}) # SumFunctionOnSet(G, s \ {Chosen(s)}) BY <2>5
  <2>7. s \ {Chosen(s)} \in B BY <2>6
  <2> QED BY <2>2, <2>5, <2>7
 <1> QED BY <1>1

-----------------------------------------------------------------------------
(* Ratings and their aggregate. *)
RatingRead == {"none", "live", "removed"} \X (Scores \cup {0})

RatingShaped ==
  /\ RatingTypeOK
  /\ rpc \in [RatingRequests -> {"idle", "submit", "update", "takedown", "restore"}]
  /\ DOMAIN rorder = RatingRequests
  /\ rseen \in [RatingRequests -> RatingRead]
  /\ rnew \in [RatingRequests -> Scores \cup {0}]
  /\ rmuddled \in BOOLEAN
  /\ \A h \in RatingRequests : rpc[h] # "idle" => rorder[h] \in RatedOrders

(* A request was begun on a review that its operation makes sense for. *)
RatingAsked(h) ==
  /\ rpc[h] = "update" => rseen[h][1] # "none"
  /\ rpc[h] = "takedown" => rseen[h][1] = "live"
  /\ rpc[h] = "restore" => rseen[h][1] = "removed"

RatingInv ==
  /\ RatingShaped
  /\ \A h \in RatingRequests : RatingAsked(h)
  /\ AggregateMatches

LEMMA RatingInvInit == RatingInit => RatingInv
 <1> SUFFICES ASSUME RatingInit PROVE RatingInv OBVIOUS
 <1>1. RatingShaped
  <2>1. RatingTypeOK BY DEF RatingInit, RatingTypeOK
  <2> QED BY <2>1 DEF RatingInit, RatingShaped, RatingRead
 <1>2. \A h \in RatingRequests : RatingAsked(h) BY DEF RatingInit, RatingAsked
 <1>3. AggregateMatches
  <2>1. LiveRatings = {} BY DEF RatingInit, LiveRatings
  <2> QED BY <2>1, FS_EmptySet, SumOfNone DEF RatingInit, AggregateMatches
 <1> QED BY <1>1, <1>2, <1>3 DEF RatingInv

(* Whose review it was, and what a commit leaves of the request. *)
LEMMA RatingDoneFits ==
  ASSUME RatingInv, NEW h \in RatingRequests, RatingDone(h), RatingTypeOK', rmuddled' \in BOOLEAN
  PROVE  RatingShaped' /\ \A g \in RatingRequests : RatingAsked(g)'
 <1>1. RatingShaped'
  <2>1. /\ rpc' \in [RatingRequests -> {"idle", "submit", "update", "takedown", "restore"}]
        /\ DOMAIN rorder' = RatingRequests
        /\ rseen' \in [RatingRequests -> RatingRead]
        /\ rnew' \in [RatingRequests -> Scores \cup {0}]
   <3>1. <<"none", 0>> \in RatingRead BY DEF RatingRead
   <3> QED BY <3>1 DEF RatingInv, RatingShaped, RatingDone
  <2>2. \A g \in RatingRequests : rpc'[g] # "idle" => rorder'[g] \in RatedOrders
    BY DEF RatingInv, RatingShaped, RatingDone
  <2> QED BY <2>1, <2>2 DEF RatingShaped
 <1>2. \A g \in RatingRequests : RatingAsked(g)'
   BY DEF RatingInv, RatingShaped, RatingAsked, RatingDone
 <1> QED BY <1>1, <1>2

LEMMA RatingLoads ==
  ASSUME RatingInv, NEW h \in RatingRequests, NEW o \in RatedOrders, NEW score \in Scores \cup {0},
         NEW op \in {"submit", "update", "takedown", "restore"}, LoadRating(h, op, o, score),
         op = "update" => ratingState[o] # "none",
         op = "takedown" => ratingState[o] = "live",
         op = "restore" => ratingState[o] = "removed"
  PROVE  RatingInv'
 <1>1. RatingTypeOK' BY DEF RatingInv, RatingShaped, RatingTypeOK, LoadRating, ratingRows, ratingAggregate
 <1>2. RatingShaped'
  <2>1. <<ratingState[o], ratingScore[o]>> \in RatingRead
    BY DEF RatingInv, RatingShaped, RatingTypeOK, RatingRead
  <2>2. /\ rpc' \in [RatingRequests -> {"idle", "submit", "update", "takedown", "restore"}]
        /\ DOMAIN rorder' = RatingRequests
        /\ rseen' \in [RatingRequests -> RatingRead]
        /\ rnew' \in [RatingRequests -> Scores \cup {0}]
        /\ rmuddled' \in BOOLEAN
    BY <2>1 DEF RatingInv, RatingShaped, LoadRating
  <2>3. \A g \in RatingRequests : rpc'[g] # "idle" => rorder'[g] \in RatedOrders
    BY DEF RatingInv, RatingShaped, LoadRating
  <2> QED BY <1>1, <2>2, <2>3 DEF RatingShaped
 <1>3. \A g \in RatingRequests : RatingAsked(g)'
   BY DEF RatingInv, RatingShaped, RatingAsked, LoadRating
 <1>4. AggregateMatches'
   BY DEF RatingInv, AggregateMatches, LiveRatings, LoadRating, ratingRows, ratingAggregate
 <1> QED BY <1>2, <1>3, <1>4 DEF RatingInv

LEMMA ScoreIsInt ==
  ASSUME NEW x \in Scores \cup {0}
  PROVE  x \in Int
 <1>1. Scores \subseteq Nat BY ScoresAssumption
 <1>2. CASE x \in Scores
  <2>1. x \in Nat BY <1>1, <1>2
  <2> QED BY <2>1
 <1>3. CASE x = 0 BY <1>3
 <1> QED BY <1>2, <1>3

LEMMA ScoresAreInts ==
  ASSUME NEW F \in [RatedOrders -> Scores \cup {0}], NEW o \in RatedOrders
  PROVE  F[o] \in Int
 <1>1. PICK x \in Scores \cup {0} : x = F[o] OBVIOUS
 <1> QED BY <1>1, ScoreIsInt

(* One review more, one less, and one with another score, counted and summed. *)
LEMMA OneMoreLive ==
  ASSUME RatingTypeOK, RatingTypeOK', NEW o \in RatedOrders,
         ratingState[o] # "live", ratingState' = [ratingState EXCEPT ![o] = "live"],
         \A q \in RatedOrders \ {o} : ratingScore'[q] = ratingScore[q]
  PROVE  /\ Cardinality(LiveRatings') = Cardinality(LiveRatings) + 1
         /\ Cardinality(LiveRatings) \in Nat
         /\ SumFunctionOnSet(ratingScore', LiveRatings')
              = SumFunctionOnSet(ratingScore, LiveRatings) + ratingScore'[o]
         /\ SumFunctionOnSet(ratingScore, LiveRatings) \in Int
 <1>1. LiveRatings' = LiveRatings \cup {o} /\ o \notin LiveRatings /\ LiveRatings \subseteq RatedOrders
   BY DEF LiveRatings, RatingTypeOK
 <1>2. IsFiniteSet(LiveRatings) BY <1>1, RatedOrdersAreFinite, FS_Subset
 <1>3. /\ \A x \in LiveRatings \cup {o} : ratingScore'[x] \in Int
       /\ \A x \in LiveRatings : ratingScore[x] \in Int /\ ratingScore'[x] = ratingScore[x]
   BY <1>1, ScoresAreInts DEF RatingTypeOK
 <1>4. PICK L : L = LiveRatings OBVIOUS
 <1>5. PICK F, G : F = ratingScore /\ G = ratingScore' OBVIOUS
 <1>6. Cardinality(L \cup {o}) = Cardinality(L) + 1 /\ Cardinality(L) \in Nat
   BY <1>1, <1>2, <1>4, FS_AddElement, FS_CardinalityType
 <1>7. SumFunctionOnSet(G, L \cup {o}) = G[o] + SumFunctionOnSet(G, L)
   BY <1>1, <1>2, <1>3, <1>4, <1>5, SumWithOneMore
 <1>8. SumFunctionOnSet(G, L) = SumFunctionOnSet(F, L) /\ SumFunctionOnSet(F, L) \in Int
   BY <1>2, <1>3, <1>4, <1>5, SumOfTheSame, SumIsInt
 <1>9. G[o] \in Int BY <1>3, <1>5
 <1> QED BY <1>1, <1>4, <1>5, <1>6, <1>7, <1>8, <1>9

LEMMA OneLessLive ==
  ASSUME RatingTypeOK, RatingTypeOK', NEW o \in RatedOrders,
         ratingState[o] = "live", ratingState' = [ratingState EXCEPT ![o] = "removed"],
         \A q \in RatedOrders \ {o} : ratingScore'[q] = ratingScore[q]
  PROVE  /\ Cardinality(LiveRatings') = Cardinality(LiveRatings) - 1
         /\ Cardinality(LiveRatings') \in Nat /\ Cardinality(LiveRatings) \in Nat
         /\ SumFunctionOnSet(ratingScore', LiveRatings')
              = SumFunctionOnSet(ratingScore, LiveRatings) - ratingScore[o]
         /\ SumFunctionOnSet(ratingScore, LiveRatings) \in Int
         /\ Cardinality(LiveRatings') = 0 => SumFunctionOnSet(ratingScore', LiveRatings') = 0
 <1>1. PICK L, K : L = LiveRatings /\ K = LiveRatings' OBVIOUS
 <1>2. L = K \cup {o} /\ o \notin K /\ L \subseteq RatedOrders BY <1>1 DEF LiveRatings, RatingTypeOK
 <1>3. IsFiniteSet(K) BY <1>2, RatedOrdersAreFinite, FS_Subset
 <1>4. PICK F, G : F = ratingScore /\ G = ratingScore' OBVIOUS
 <1>5. /\ \A x \in K \cup {o} : F[x] \in Int
       /\ \A x \in K : G[x] = F[x]
   BY <1>2, <1>4, ScoresAreInts DEF RatingTypeOK
 <1>6. Cardinality(L) = Cardinality(K) + 1 /\ Cardinality(K) \in Nat
   BY <1>2, <1>3, FS_AddElement, FS_CardinalityType
 <1>7. SumFunctionOnSet(F, L) = F[o] + SumFunctionOnSet(F, K) BY <1>2, <1>3, <1>5, SumWithOneMore
 <1>8. SumFunctionOnSet(G, K) = SumFunctionOnSet(F, K) /\ SumFunctionOnSet(F, K) \in Int
   BY <1>3, <1>5, SumOfTheSame, SumIsInt
 <1>9. F[o] \in Int BY <1>5
 <1>10. Cardinality(K) = 0 => SumFunctionOnSet(G, K) = 0 BY <1>3, FS_EmptySet, SumOfNone
 <1>11. Cardinality(K) = Cardinality(L) - 1 /\ Cardinality(L) \in Nat BY <1>6
 <1>12. SumFunctionOnSet(G, K) = SumFunctionOnSet(F, L) - F[o] /\ SumFunctionOnSet(F, L) \in Int
   BY <1>7, <1>8, <1>9
 <1> QED BY <1>1, <1>4, <1>6, <1>10, <1>11, <1>12

LEMMA OneRescored ==
  ASSUME RatingTypeOK, RatingTypeOK', NEW o \in RatedOrders, ratingState[o] = "live",
         ratingState' = ratingState,
         \A q \in RatedOrders \ {o} : ratingScore'[q] = ratingScore[q]
  PROVE  /\ LiveRatings' = LiveRatings /\ Cardinality(LiveRatings) \in Nat
         /\ Cardinality(LiveRatings) > 0
         /\ SumFunctionOnSet(ratingScore', LiveRatings)
              = SumFunctionOnSet(ratingScore, LiveRatings) + ratingScore'[o] - ratingScore[o]
         /\ SumFunctionOnSet(ratingScore, LiveRatings) \in Int
 <1>1. PICK K : K = LiveRatings \ {o} OBVIOUS
 <1>2. LiveRatings = K \cup {o} /\ o \notin K /\ LiveRatings \subseteq RatedOrders
   BY <1>1 DEF LiveRatings, RatingTypeOK
 <1>3. IsFiniteSet(K) BY <1>2, RatedOrdersAreFinite, FS_Subset
 <1>4. PICK F, G : F = ratingScore /\ G = ratingScore' OBVIOUS
 <1>5. /\ \A x \in K \cup {o} : F[x] \in Int /\ G[x] \in Int
       /\ \A x \in K : G[x] = F[x]
   BY <1>2, <1>4, ScoresAreInts DEF RatingTypeOK
 <1>6. Cardinality(LiveRatings) = Cardinality(K) + 1 /\ Cardinality(K) \in Nat
   BY <1>2, <1>3, FS_AddElement, FS_CardinalityType
 <1>7. /\ SumFunctionOnSet(F, K \cup {o}) = F[o] + SumFunctionOnSet(F, K)
       /\ SumFunctionOnSet(G, K \cup {o}) = G[o] + SumFunctionOnSet(G, K)
   BY <1>2, <1>3, <1>5, SumWithOneMore
 <1>8. SumFunctionOnSet(G, K) = SumFunctionOnSet(F, K) /\ SumFunctionOnSet(F, K) \in Int
   BY <1>3, <1>5, SumOfTheSame, SumIsInt
 <1>9. F[o] \in Int /\ G[o] \in Int BY <1>5
 <1>10. LiveRatings' = LiveRatings BY DEF LiveRatings
 <1> QED BY <1>2, <1>4, <1>6, <1>7, <1>8, <1>9, <1>10

(* Each commit: what it adds to the aggregate is what its review adds to the
   sum, when the review is as it was read and the attempt is the first. *)
LEMMA RatingSubmitted ==
  ASSUME RatingInv, NEW h \in RatingRequests, CommitSubmit(h)
  PROVE  RatingInv'
 <1>1. PICK o \in RatedOrders : o = rorder[h] BY DEF CommitSubmit, RatingInv, RatingShaped
 <1>2. RatingTypeOK /\ rnew[h] \in Scores \cup {0} /\ rnew[h] \in Int
   BY ScoreIsInt DEF RatingInv, RatingShaped
 <1>3. RatingTypeOK'
   BY <1>1, <1>2 DEF CommitSubmit, RatingTypeOK, ApplyDelta, ratingRows, ratingAggregate, RatingDone
 <1>4. AggregateMatches'
  <2>1. CASE ratingState[o] = "none"
   <3> SUFFICES ASSUME ~rmuddled' PROVE
          aggCount' = Cardinality(LiveRatings') /\ aggSum' = SumFunctionOnSet(ratingScore', LiveRatings')
     BY DEF AggregateMatches
   <3>1. /\ ratingState' = [ratingState EXCEPT ![o] = "live"]
         /\ ratingScore' = [ratingScore EXCEPT ![o] = rnew[h]]
         /\ aggCount' = aggCount + 1
         /\ aggSum' = IF aggCount + 1 > 0 THEN aggSum + rnew[h] ELSE 0
     BY <1>1, <2>1 DEF CommitSubmit, ApplyDelta
   <3>2. /\ ratingScore'[o] = rnew[h]
         /\ \A q \in RatedOrders \ {o} : ratingScore'[q] = ratingScore[q]
     BY <3>1, <1>2 DEF RatingTypeOK
   <3>3. ~rmuddled BY DEF CommitSubmit
   <3>4. aggCount = Cardinality(LiveRatings) /\ aggSum = SumFunctionOnSet(ratingScore, LiveRatings)
     BY <3>3 DEF RatingInv, AggregateMatches
   <3>5. /\ Cardinality(LiveRatings') = Cardinality(LiveRatings) + 1
         /\ Cardinality(LiveRatings) \in Nat
         /\ SumFunctionOnSet(ratingScore', LiveRatings')
              = SumFunctionOnSet(ratingScore, LiveRatings) + ratingScore'[o]
     BY <1>2, <1>3, <2>1, <3>1, <3>2, OneMoreLive
   <3> QED BY <3>1, <3>2, <3>4, <3>5
  <2>2. CASE ratingState[o] # "none"
    BY <1>1, <2>2 DEF RatingInv, AggregateMatches, LiveRatings, CommitSubmit, ratingRows, ratingAggregate
  <2> QED BY <2>1, <2>2
 <1>5. RatingDone(h) /\ rmuddled' \in BOOLEAN BY DEF CommitSubmit, RatingInv, RatingShaped
 <1> QED BY <1>3, <1>4, <1>5, RatingDoneFits DEF RatingInv

LEMMA RatingUpdated ==
  ASSUME RatingInv, NEW h \in RatingRequests, CommitUpdate(h)
  PROVE  RatingInv'
 <1>1. PICK o \in RatedOrders : o = rorder[h] BY DEF CommitUpdate, RatingInv, RatingShaped
 <1>2. /\ RatingTypeOK /\ rnew[h] \in Scores \cup {0} /\ rnew[h] \in Int
       /\ rseen[h] \in RatingRead /\ rseen[h][2] \in Int /\ rseen[h][1] # "none"
   BY ScoresAssumption DEF RatingInv, RatingShaped, RatingRead, RatingAsked, CommitUpdate
 <1>3. RatingTypeOK'
   BY <1>1, <1>2 DEF CommitUpdate, RatingTypeOK, SaveRating, ApplyDelta, ratingRows, RatingDone
 <1>4. AggregateMatches'
  <2> SUFFICES ASSUME ~rmuddled' PROVE
         aggCount' = Cardinality(LiveRatings') /\ aggSum' = SumFunctionOnSet(ratingScore', LiveRatings')
    BY DEF AggregateMatches
  <2>1. /\ ~rmuddled /\ h \notin rtired /\ ratingState[o] # "removed"
        /\ rseen[h] = <<ratingState[o], ratingScore[o]>>
    BY <1>1 DEF CommitUpdate
  <2>2. ratingState[o] = "live" /\ rseen[h][2] = ratingScore[o] BY <1>2, <2>1 DEF RatingTypeOK
  <2>3. /\ ratingState' = [ratingState EXCEPT ![o] = ratingState[o]]
        /\ ratingScore' = [ratingScore EXCEPT ![o] = rnew[h]]
        /\ aggCount' = aggCount + 0
        /\ aggSum' = IF aggCount + 0 > 0 THEN aggSum + (rnew[h] - rseen[h][2]) ELSE 0
    BY <1>1, <2>1 DEF CommitUpdate, SaveRating, ApplyDelta
  <2>4. /\ ratingState' = ratingState /\ ratingScore'[o] = rnew[h]
        /\ \A q \in RatedOrders \ {o} : ratingScore'[q] = ratingScore[q]
    BY <2>3, <1>2 DEF RatingTypeOK
  <2>5. aggCount = Cardinality(LiveRatings) /\ aggSum = SumFunctionOnSet(ratingScore, LiveRatings)
    BY <2>1 DEF RatingInv, AggregateMatches
  <2>6. /\ LiveRatings' = LiveRatings /\ Cardinality(LiveRatings) \in Nat
        /\ Cardinality(LiveRatings) > 0
        /\ SumFunctionOnSet(ratingScore', LiveRatings)
             = SumFunctionOnSet(ratingScore, LiveRatings) + ratingScore'[o] - ratingScore[o]
        /\ SumFunctionOnSet(ratingScore, LiveRatings) \in Int
    BY <1>2, <1>3, <2>2, <2>4, OneRescored
  <2>7. PICK c, d, x, y : c = aggCount /\ d = aggSum /\ x = rnew[h] /\ y = ratingScore[o] OBVIOUS
  <2>8. x \in Int /\ y \in Int BY <1>2, <2>2, <2>7
  <2>9. c \in Nat /\ c > 0 /\ d \in Int BY <2>5, <2>6, <2>7
  <2>10. aggCount' = c + 0 /\ aggSum' = IF c + 0 > 0 THEN d + (x - y) ELSE 0 BY <2>2, <2>3, <2>7
  <2>11. Cardinality(LiveRatings') = c /\ SumFunctionOnSet(ratingScore', LiveRatings') = d + x - y
    BY <2>4, <2>5, <2>6, <2>7
  <2> QED BY <2>8, <2>9, <2>10, <2>11
 <1>5. RatingDone(h) /\ rmuddled' \in BOOLEAN BY DEF CommitUpdate, RatingInv, RatingShaped
 <1> QED BY <1>3, <1>4, <1>5, RatingDoneFits DEF RatingInv

LEMMA RatingTakenDown ==
  ASSUME RatingInv, NEW h \in RatingRequests, CommitTakedown(h)
  PROVE  RatingInv'
 <1>1. PICK o \in RatedOrders : o = rorder[h] BY DEF CommitTakedown, RatingInv, RatingShaped
 <1>2. /\ RatingTypeOK
       /\ rseen[h] \in RatingRead /\ rseen[h][2] \in Int /\ rseen[h][1] = "live"
   BY ScoresAssumption DEF RatingInv, RatingShaped, RatingRead, RatingAsked, CommitTakedown
 <1>3. RatingTypeOK'
   BY <1>1, <1>2 DEF CommitTakedown, RatingTypeOK, SaveRating, ApplyDelta, ratingRows, RatingDone
 <1>4. AggregateMatches'
  <2> SUFFICES ASSUME ~rmuddled' PROVE
         aggCount' = Cardinality(LiveRatings') /\ aggSum' = SumFunctionOnSet(ratingScore', LiveRatings')
    BY DEF AggregateMatches
  <2>1. ~rmuddled /\ h \notin rtired /\ rseen[h] = <<ratingState[o], ratingScore[o]>>
    BY <1>1 DEF CommitTakedown, Muddle
  <2>2. ratingState[o] = "live" /\ rseen[h][2] = ratingScore[o] BY <1>2, <2>1
  <2>3. /\ ratingState' = [ratingState EXCEPT ![o] = "removed"]
        /\ ratingScore' = [ratingScore EXCEPT ![o] = ratingScore[o]]
        /\ aggCount' = aggCount + (-1)
        /\ aggSum' = IF aggCount + (-1) > 0 THEN aggSum + (0 - rseen[h][2]) ELSE 0
    BY <1>1, <2>1 DEF CommitTakedown, SaveRating, ApplyDelta
  <2>4. \A q \in RatedOrders \ {o} : ratingScore'[q] = ratingScore[q] BY <2>3, <1>2 DEF RatingTypeOK
  <2>5. aggCount = Cardinality(LiveRatings) /\ aggSum = SumFunctionOnSet(ratingScore, LiveRatings)
    BY <2>1 DEF RatingInv, AggregateMatches
  <2>6. ratingScore[o] \in Int BY <1>2, <2>2
  <2>7. /\ Cardinality(LiveRatings') = Cardinality(LiveRatings) - 1
        /\ Cardinality(LiveRatings') \in Nat /\ Cardinality(LiveRatings) \in Nat
        /\ SumFunctionOnSet(ratingScore', LiveRatings')
             = SumFunctionOnSet(ratingScore, LiveRatings) - ratingScore[o]
        /\ SumFunctionOnSet(ratingScore, LiveRatings) \in Int
        /\ Cardinality(LiveRatings') = 0 => SumFunctionOnSet(ratingScore', LiveRatings') = 0
    BY <1>2, <1>3, <2>2, <2>3, <2>4, OneLessLive
  <2>8. PICK c, d, y : c = aggCount /\ d = aggSum /\ y = ratingScore[o] OBVIOUS
  <2>9. y \in Int /\ c \in Nat /\ d \in Int BY <2>5, <2>6, <2>7, <2>8
  <2>10. aggCount' = c + (-1) /\ aggSum' = IF c + (-1) > 0 THEN d + (0 - y) ELSE 0
    BY <2>2, <2>3, <2>8
  <2>11. Cardinality(LiveRatings') = c - 1 /\ SumFunctionOnSet(ratingScore', LiveRatings') = d - y
    BY <2>5, <2>7, <2>8
  <2>12. c - 1 \in Nat /\ (c - 1 = 0 => d - y = 0) BY <2>7, <2>11
  <2> QED BY <2>9, <2>10, <2>11, <2>12
 <1>5. RatingDone(h) /\ rmuddled' \in BOOLEAN BY DEF CommitTakedown, Muddle, RatingInv, RatingShaped
 <1> QED BY <1>3, <1>4, <1>5, RatingDoneFits DEF RatingInv

LEMMA RatingRestored ==
  ASSUME RatingInv, NEW h \in RatingRequests, CommitRestore(h)
  PROVE  RatingInv'
 <1>1. PICK o \in RatedOrders : o = rorder[h] BY DEF CommitRestore, RatingInv, RatingShaped
 <1>2. /\ RatingTypeOK
       /\ rseen[h] \in RatingRead /\ rseen[h][2] \in Int /\ rseen[h][1] = "removed"
   BY ScoresAssumption DEF RatingInv, RatingShaped, RatingRead, RatingAsked, CommitRestore
 <1>3. RatingTypeOK'
   BY <1>1, <1>2 DEF CommitRestore, RatingTypeOK, SaveRating, ApplyDelta, ratingRows, RatingDone
 <1>4. AggregateMatches'
  <2> SUFFICES ASSUME ~rmuddled' PROVE
         aggCount' = Cardinality(LiveRatings') /\ aggSum' = SumFunctionOnSet(ratingScore', LiveRatings')
    BY DEF AggregateMatches
  <2>1. ~rmuddled /\ h \notin rtired /\ rseen[h] = <<ratingState[o], ratingScore[o]>>
    BY <1>1 DEF CommitRestore, Muddle
  <2>2. ratingState[o] = "removed" /\ rseen[h][2] = ratingScore[o] BY <1>2, <2>1
  <2>3. /\ ratingState' = [ratingState EXCEPT ![o] = "live"]
        /\ ratingScore' = [ratingScore EXCEPT ![o] = ratingScore[o]]
        /\ aggCount' = aggCount + 1
        /\ aggSum' = IF aggCount + 1 > 0 THEN aggSum + rseen[h][2] ELSE 0
    BY <1>1, <2>1 DEF CommitRestore, SaveRating, ApplyDelta
  <2>4. /\ ratingScore'[o] = ratingScore[o]
        /\ \A q \in RatedOrders \ {o} : ratingScore'[q] = ratingScore[q]
    BY <2>3, <1>2 DEF RatingTypeOK
  <2>5. aggCount = Cardinality(LiveRatings) /\ aggSum = SumFunctionOnSet(ratingScore, LiveRatings)
    BY <2>1 DEF RatingInv, AggregateMatches
  <2>6. /\ Cardinality(LiveRatings') = Cardinality(LiveRatings) + 1
        /\ Cardinality(LiveRatings) \in Nat
        /\ SumFunctionOnSet(ratingScore', LiveRatings')
             = SumFunctionOnSet(ratingScore, LiveRatings) + ratingScore'[o]
    BY <1>2, <1>3, <2>2, <2>3, <2>4, OneMoreLive
  <2> QED BY <2>2, <2>3, <2>4, <2>5, <2>6
 <1>5. RatingDone(h) /\ rmuddled' \in BOOLEAN BY DEF CommitRestore, Muddle, RatingInv, RatingShaped
 <1> QED BY <1>3, <1>4, <1>5, RatingDoneFits DEF RatingInv

LEMMA RatingInvNext == RatingInv /\ [RatingNext]_ratingVars => RatingInv'
 <1> SUFFICES ASSUME RatingInv, [RatingNext]_ratingVars PROVE RatingInv' OBVIOUS
 <1>1. ASSUME NEW h \in RatingRequests, NEW o \in RatedOrders, NEW score \in Scores, Submit(h, o, score)
       PROVE  RatingInv'
   BY <1>1, RatingLoads DEF Submit
 <1>2. ASSUME NEW h \in RatingRequests, NEW o \in RatedOrders, NEW score \in Scores, Edit(h, o, score)
       PROVE  RatingInv'
   BY <1>2, RatingLoads DEF Edit
 <1>3. ASSUME NEW h \in RatingRequests, NEW o \in RatedOrders, Moderate(h, o)
       PROVE  RatingInv'
  <2>1. CASE ratingState[o] = "live" BY <1>3, <2>1, RatingLoads DEF Moderate
  <2>2. CASE ratingState[o] # "live"
   <3>1. ratingState[o] = "removed" BY <1>3, <2>2 DEF Moderate, RatingInv, RatingShaped, RatingTypeOK
   <3> QED BY <1>3, <2>2, <3>1, RatingLoads DEF Moderate
  <2> QED BY <2>1, <2>2
 <1>4. ASSUME NEW h \in RatingRequests, RunAgain(h) PROVE RatingInv'
  <2>1. RatingShaped'
    BY <1>4 DEF RunAgain, RatingInv, RatingShaped, RatingTypeOK, ratingRows, ratingAggregate, ratingRequest
  <2>2. \A g \in RatingRequests : RatingAsked(g)'
    BY <1>4 DEF RunAgain, RatingInv, RatingAsked, ratingRequest
  <2>3. AggregateMatches'
    BY <1>4 DEF RunAgain, RatingInv, AggregateMatches, LiveRatings, ratingRows, ratingAggregate
  <2> QED BY <2>1, <2>2, <2>3 DEF RatingInv
 <1>5. CASE UNCHANGED ratingVars
   BY <1>5 DEF ratingVars, ratingRows, ratingAggregate, ratingRequest, RatingInv, RatingShaped,
               RatingTypeOK, RatingAsked, AggregateMatches, LiveRatings
 <1> QED BY <1>1, <1>2, <1>3, <1>4, <1>5, RatingSubmitted, RatingUpdated, RatingTakenDown, RatingRestored
         DEF RatingNext

(* What customers see of a provider (applyAggregateDelta): while every edit
   and moderation rests on the review as it is and commits at its first
   attempt, count and sum of the aggregate are those of the live reviews, for
   any reviews, scores and requests. *)
THEOREM RatingsSound == RatingSpec => []RatingsAreSound
 <1>1. RatingInv => RatingsAreSound BY DEF RatingInv, RatingShaped, RatingsAreSound
 <1> QED BY <1>1, RatingInvInit, RatingInvNext, PTL DEF RatingSpec

-----------------------------------------------------------------------------
(* Support tickets. *)
DeskShaped ==
  /\ DeskTypeOK
  /\ kpcT \in [DeskRequests -> {"idle", "stamp", "noted", "status", "event", "assign"}]
  /\ DOMAIN ktick = DeskRequests /\ DOMAIN kold = DeskRequests
  /\ DOMAIN kto = DeskRequests /\ DOMAIN kreason = DeskRequests
  /\ deskMishaps \in Nat

(* What a request in progress carries. *)
DeskAsked(h) ==
  /\ kpcT[h] # "idle" => ktick[h] \in Tickets
  /\ kpcT[h] = "status" => kold[h] \in TicketStatus \ {"none"} /\ kto[h] \in TicketStatus \ {"none"}
  /\ kpcT[h] = "event" => kold[h] \in TicketStatus /\ kto[h] \in TicketStatus \ {"none"}
  /\ kpcT[h] = "assign" =>
       /\ kto[h] \in Agents \cup {NoAgent}
       /\ kto[h] # NoAgent /\ kold[h] \notin {NoAgent, kto[h]} => kreason[h]

(* The clock: an answer is stamped, or about to be; and only an answer, or
   what she wrote herself, has it stopped. *)
ClockExplained(t) ==
  /\ t \in tkAnswered => tkFirst[t] \/ \E h \in DeskRequests : kpcT[h] = "stamp" /\ ktick[h] = t
  /\ tkFirst[t] => t \in tkAnswered \cup tkSelf \/ deskMishaps > 0
  /\ \A h \in DeskRequests : kpcT[h] = "stamp" /\ ktick[h] = t =>
       t \in tkAnswered \cup tkSelf \/ deskMishaps > 0

(* The trail: its newest event tells the status, or is being written. *)
TrailFollows(t) ==
  t \notin tkCrossed =>
    /\ tkResolvedAt[t] <=> tkStatus[t] = "RESOLVED"
    /\ \A h \in DeskRequests : kpcT[h] = "event" /\ ktick[h] = t => kto[h] = tkStatus[t]
    /\ tkStatus[t] # "none" =>
         \/ tkTrail[t][1] = tkStatus[t]
         \/ \E h \in DeskRequests : kpcT[h] = "event" /\ ktick[h] = t

DeskInv ==
  /\ DeskShaped
  /\ \A h \in DeskRequests : DeskAsked(h)
  /\ \A t \in Tickets : ClockExplained(t)
  /\ \A t \in Tickets : TrailFollows(t)

LEMMA DeskInvGivesRest ==
  DeskInv => DeskTypeOK /\ ClockStopsOnAnswer /\ TrailExplainsTicket
 <1> SUFFICES ASSUME DeskInv PROVE DeskTypeOK /\ ClockStopsOnAnswer /\ TrailExplainsTicket OBVIOUS
 <1>1. DeskTypeOK BY DEF DeskInv, DeskShaped
 <1>2. ClockStopsOnAnswer BY DEF DeskInv, ClockExplained, ClockStopsOnAnswer, TicketAtRest
 <1>3. TrailExplainsTicket BY DEF DeskInv, TrailFollows, TrailExplainsTicket, TicketAtRest
 <1> QED BY <1>1, <1>2, <1>3

LEMMA DeskInvInit == DeskInit => DeskInv
 <1> SUFFICES ASSUME DeskInit PROVE DeskInv OBVIOUS
 <1>1. DeskShaped BY DEF DeskInit, DeskShaped, DeskTypeOK, TicketStatus, StatusEvent, NoTrail
 <1>2. \A h \in DeskRequests : DeskAsked(h) BY DEF DeskInit, DeskAsked
 <1>3. \A t \in Tickets : ClockExplained(t) BY DEF DeskInit, ClockExplained
 <1>4. \A t \in Tickets : TrailFollows(t) BY DEF DeskInit, TrailFollows
 <1> QED BY <1>1, <1>2, <1>3, <1>4 DEF DeskInv

(* A request that begins, and one that ends, touch no other. *)
LEMMA DeskBegins ==
  ASSUME DeskInv, NEW h \in DeskRequests, NEW t \in Tickets,
         NEW at \in {"stamp", "noted", "status", "event", "assign"}, NEW old, NEW to, NEW reason,
         DeskBegin(h, at, t, old, to, reason), DeskTypeOK',
         at = "status" => old \in TicketStatus \ {"none"} /\ to \in TicketStatus \ {"none"},
         at = "event" => old \in TicketStatus /\ to \in TicketStatus \ {"none"},
         at = "assign" =>
           /\ to \in Agents \cup {NoAgent}
           /\ to # NoAgent /\ old \notin {NoAgent, to} => reason
  PROVE  /\ DeskShaped' /\ \A g \in DeskRequests : DeskAsked(g)'
         /\ kpcT[h] = "idle" /\ kpcT'[h] = at /\ ktick'[h] = t /\ kto'[h] = to
         /\ \A g \in DeskRequests \ {h} : kpcT'[g] = kpcT[g] /\ ktick'[g] = ktick[g] /\ kto'[g] = kto[g]
 <1>1. DeskShaped' BY DEF DeskInv, DeskShaped, DeskBegin
 <1>2. /\ kpcT[h] = "idle" /\ kpcT'[h] = at /\ ktick'[h] = t /\ kto'[h] = to
       /\ kold'[h] = old /\ kreason'[h] = reason
       /\ \A g \in DeskRequests \ {h} : kpcT'[g] = kpcT[g] /\ ktick'[g] = ktick[g] /\ kto'[g] = kto[g]
                                        /\ kold'[g] = kold[g] /\ kreason'[g] = kreason[g]
   BY DEF DeskInv, DeskShaped, DeskBegin
 <1>3. \A g \in DeskRequests : DeskAsked(g)'
  <2>1. DeskAsked(h)' BY <1>2 DEF DeskAsked
  <2>2. \A g \in DeskRequests \ {h} : DeskAsked(g)' BY <1>2 DEF DeskInv, DeskAsked
  <2> QED BY <2>1, <2>2
 <1> QED BY <1>1, <1>2, <1>3

LEMMA DeskEnds ==
  ASSUME DeskInv, NEW h \in DeskRequests, DeskDone(h), DeskTypeOK', deskMishaps' \in Nat
  PROVE  /\ DeskShaped' /\ \A g \in DeskRequests : DeskAsked(g)'
         /\ kpcT'[h] = "idle"
         /\ \A g \in DeskRequests \ {h} : kpcT'[g] = kpcT[g] /\ ktick'[g] = ktick[g] /\ kto'[g] = kto[g]
 <1>1. DeskShaped' BY DEF DeskInv, DeskShaped, DeskDone
 <1>2. /\ kpcT'[h] = "idle"
       /\ \A g \in DeskRequests \ {h} : kpcT'[g] = kpcT[g] /\ ktick'[g] = ktick[g] /\ kto'[g] = kto[g]
                                        /\ kold'[g] = kold[g] /\ kreason'[g] = kreason[g]
   BY DEF DeskInv, DeskShaped, DeskDone
 <1>3. \A g \in DeskRequests : DeskAsked(g)' BY <1>2 DEF DeskInv, DeskAsked
 <1> QED BY <1>1, <1>2, <1>3

LEMMA TicketCreated ==
  ASSUME DeskInv, NEW h \in DeskRequests, NEW t \in Tickets, CreateTicket(h, t)
  PROVE  DeskInv'
 <1>1. DeskTypeOK' BY DEF DeskInv, DeskShaped, DeskTypeOK, CreateTicket, TicketStatus, ACTIVE
 <1>2. /\ DeskShaped' /\ \A g \in DeskRequests : DeskAsked(g)'
       /\ kpcT[h] = "idle" /\ kpcT'[h] = "event" /\ ktick'[h] = t /\ kto'[h] = "OPEN"
       /\ \A g \in DeskRequests \ {h} : kpcT'[g] = kpcT[g] /\ ktick'[g] = ktick[g] /\ kto'[g] = kto[g]
  <2>1. "none" \in TicketStatus /\ "OPEN" \in TicketStatus \ {"none"} BY DEF TicketStatus, ACTIVE
  <2> QED BY <1>1, <2>1, DeskBegins DEF CreateTicket
 <1>3. \A u \in Tickets : ClockExplained(u)'
   BY <1>2 DEF DeskInv, ClockExplained, CreateTicket, DeskBegin, deskHistory
 <1>4. /\ tkStatus[t] = "none" /\ tkStatus'[t] = "OPEN" /\ \A u \in Tickets \ {t} : tkStatus'[u] = tkStatus[u]
       /\ tkResolvedAt' = tkResolvedAt /\ tkTrail' = tkTrail /\ tkCrossed' = tkCrossed
   BY DEF DeskInv, DeskShaped, DeskTypeOK, CreateTicket, deskHistory
 <1>5. TrailFollows(t)'
  <2>1. t \notin tkCrossed => \A g \in DeskRequests : ~(kpcT[g] = "event" /\ ktick[g] = t)
    BY <1>4 DEF DeskInv, TrailFollows, DeskAsked
  <2> QED BY <1>2, <1>4, <2>1 DEF DeskInv, TrailFollows
 <1>6. \A u \in Tickets \ {t} : TrailFollows(u)' BY <1>2, <1>4 DEF DeskInv, TrailFollows
 <1> QED BY <1>2, <1>3, <1>5, <1>6 DEF DeskInv

LEMMA NoteAdded ==
  ASSUME DeskInv, NEW h \in DeskRequests, NEW t \in Tickets, NEW visible \in BOOLEAN, NEW own \in BOOLEAN,
         AddNote(h, t, visible, own)
  PROVE  DeskInv'
 <1>1. DeskTypeOK' BY DEF DeskInv, DeskShaped, DeskTypeOK, AddNote, ticketRows
 <1> DEFINE at == IF visible /\ ClockRuns(t) THEN "stamp" ELSE "noted"
 <1>2. /\ DeskShaped' /\ \A g \in DeskRequests : DeskAsked(g)'
       /\ kpcT[h] = "idle" /\ kpcT'[h] = at /\ ktick'[h] = t
       /\ \A g \in DeskRequests \ {h} : kpcT'[g] = kpcT[g] /\ ktick'[g] = ktick[g] /\ kto'[g] = kto[g]
  <2>1. at \in {"stamp", "noted"} OBVIOUS
  <2>2. DeskBegin(h, at, t, "none", "none", own) BY DEF AddNote
  <2> HIDE DEF at
  <2> QED BY <1>1, <2>1, <2>2, DeskBegins
 <1>3. \A u \in Tickets : ClockExplained(u)'
  <2>1. /\ tkFirst' = tkFirst /\ deskMishaps' = deskMishaps
        /\ tkAnswered' = IF visible /\ ~own THEN tkAnswered \cup {t} ELSE tkAnswered
        /\ tkSelf' = IF own THEN tkSelf \cup {t} ELSE tkSelf
        /\ own => visible
    BY DEF AddNote, DeskBegin, ticketRows
  <2>2. ClockExplained(t)' BY <1>2, <2>1 DEF DeskInv, ClockExplained, ClockRuns
  <2>3. \A u \in Tickets \ {t} : ClockExplained(u)' BY <1>2, <2>1 DEF DeskInv, ClockExplained
  <2> QED BY <2>2, <2>3
 <1>4. \A u \in Tickets : TrailFollows(u)' BY <1>2 DEF DeskInv, TrailFollows, AddNote, ticketRows
 <1> QED BY <1>2, <1>3, <1>4 DEF DeskInv

LEMMA FirstResponseStamped ==
  ASSUME DeskInv, NEW h \in DeskRequests, StampFirstResponse(h)
  PROVE  DeskInv'
 <1>1. PICK t \in Tickets : t = ktick[h] BY DEF DeskInv, DeskAsked, StampFirstResponse
 <1>2. DeskTypeOK' BY <1>1 DEF DeskInv, DeskShaped, DeskTypeOK, StampFirstResponse
 <1>3. deskMishaps' = deskMishaps BY DEF StampFirstResponse, deskBounds
 <1>4. /\ DeskShaped' /\ \A g \in DeskRequests : DeskAsked(g)'
       /\ kpcT'[h] = "idle"
       /\ \A g \in DeskRequests \ {h} : kpcT'[g] = kpcT[g] /\ ktick'[g] = ktick[g] /\ kto'[g] = kto[g]
   BY <1>2, <1>3, DeskEnds DEF StampFirstResponse, DeskInv, DeskShaped
 <1>5. /\ tkAnswered' = tkAnswered /\ tkSelf' = tkSelf /\ tkCrossed' = tkCrossed
       /\ kpcT[h] = "noted" => tkFirst' = tkFirst
       /\ kpcT[h] = "stamp" => tkFirst'[t] /\ \A u \in Tickets \ {t} : tkFirst'[u] = tkFirst[u]
       /\ kpcT[h] \in {"noted", "stamp"}
   BY <1>1 DEF StampFirstResponse, deskHistory, DeskInv, DeskShaped, DeskTypeOK
 <1>6. ClockExplained(t)' BY <1>1, <1>3, <1>4, <1>5 DEF DeskInv, ClockExplained
 <1>7. \A u \in Tickets \ {t} : ClockExplained(u)' BY <1>1, <1>3, <1>4, <1>5 DEF DeskInv, ClockExplained
 <1>8. \A u \in Tickets : TrailFollows(u)'
   BY <1>4, <1>5 DEF DeskInv, TrailFollows, StampFirstResponse
 <1> QED BY <1>4, <1>6, <1>7, <1>8 DEF DeskInv

LEMMA StatusLoaded ==
  ASSUME DeskInv, NEW h \in DeskRequests, NEW t \in Tickets, NEW to \in TicketStatus \ {"none"},
         NEW reason \in BOOLEAN, LoadStatus(h, t, to, reason)
  PROVE  DeskInv'
 <1>1. DeskTypeOK' BY DEF DeskInv, DeskShaped, DeskTypeOK, LoadStatus, ticketRows
 <1>2. tkStatus[t] \in TicketStatus \ {"none"} BY DEF DeskInv, DeskShaped, DeskTypeOK, LoadStatus
 <1>3. /\ DeskShaped' /\ \A g \in DeskRequests : DeskAsked(g)'
       /\ kpcT[h] = "idle" /\ kpcT'[h] = "status" /\ ktick'[h] = t
       /\ \A g \in DeskRequests \ {h} : kpcT'[g] = kpcT[g] /\ ktick'[g] = ktick[g] /\ kto'[g] = kto[g]
  <2>1. DeskBegin(h, "status", t, tkStatus[t], to, FALSE) BY DEF LoadStatus
  <2> QED BY <1>1, <1>2, <2>1, DeskBegins
 <1>4. \A u \in Tickets : ClockExplained(u)'
   BY <1>3 DEF DeskInv, ClockExplained, LoadStatus, DeskBegin, ticketRows, deskHistory
 <1>5. \A u \in Tickets : TrailFollows(u)'
   BY <1>3 DEF DeskInv, TrailFollows, LoadStatus, ticketRows, deskHistory
 <1> QED BY <1>3, <1>4, <1>5 DEF DeskInv

LEMMA AssignmentLoaded ==
  ASSUME DeskInv, NEW h \in DeskRequests, NEW t \in Tickets, NEW a \in Agents \cup {NoAgent},
         NEW reason \in BOOLEAN, LoadAssignment(h, t, a, reason)
  PROVE  DeskInv'
 <1>1. DeskTypeOK' BY DEF DeskInv, DeskShaped, DeskTypeOK, LoadAssignment, ticketRows
 <1>2. a # NoAgent /\ tkAssignee[t] \notin {NoAgent, a} => reason BY DEF LoadAssignment
 <1>3. /\ DeskShaped' /\ \A g \in DeskRequests : DeskAsked(g)'
       /\ kpcT[h] = "idle" /\ kpcT'[h] = "assign" /\ ktick'[h] = t
       /\ \A g \in DeskRequests \ {h} : kpcT'[g] = kpcT[g] /\ ktick'[g] = ktick[g] /\ kto'[g] = kto[g]
  <2>1. DeskBegin(h, "assign", t, tkAssignee[t], a, reason) BY DEF LoadAssignment
  <2> QED BY <1>1, <1>2, <2>1, DeskBegins
 <1>4. \A u \in Tickets : ClockExplained(u)'
   BY <1>3 DEF DeskInv, ClockExplained, LoadAssignment, DeskBegin, ticketRows, deskHistory
 <1>5. \A u \in Tickets : TrailFollows(u)'
   BY <1>3 DEF DeskInv, TrailFollows, LoadAssignment, ticketRows, deskHistory
 <1> QED BY <1>3, <1>4, <1>5 DEF DeskInv

LEMMA StatusWritten ==
  ASSUME DeskInv, NEW h \in DeskRequests, WriteStatusOf(h)
  PROVE  DeskInv'
 <1>1. PICK t \in Tickets : t = ktick[h] BY DEF DeskInv, DeskAsked, WriteStatusOf
 <1>2. kold[h] \in TicketStatus \ {"none"} /\ kto[h] \in TicketStatus \ {"none"}
   BY DEF DeskInv, DeskAsked, WriteStatusOf
 <1>3. DeskShaped'
  <2>1. DeskTypeOK' BY <1>1, <1>2 DEF DeskInv, DeskShaped, DeskTypeOK, WriteStatusOf
  <2> QED BY <2>1 DEF DeskInv, DeskShaped, WriteStatusOf, DeskGoto, deskBounds
 <1>4. /\ kpcT[h] = "status" /\ kpcT'[h] = "event" /\ ktick' = ktick /\ kto' = kto /\ kold' = kold
       /\ kreason' = kreason /\ \A g \in DeskRequests \ {h} : kpcT'[g] = kpcT[g]
   BY DEF DeskInv, DeskShaped, WriteStatusOf, DeskGoto
 <1>5. \A g \in DeskRequests : DeskAsked(g)'
  <2>1. DeskAsked(h)' BY <1>1, <1>2, <1>4 DEF DeskAsked
  <2>2. \A g \in DeskRequests \ {h} : DeskAsked(g)' BY <1>4 DEF DeskInv, DeskAsked
  <2> QED BY <2>1, <2>2
 <1>6. \A u \in Tickets : ClockExplained(u)'
   BY <1>4 DEF DeskInv, ClockExplained, WriteStatusOf, deskBounds
 <1>7. /\ tkStatus'[t] = kto[h] /\ \A u \in Tickets \ {t} : tkStatus'[u] = tkStatus[u]
       /\ tkResolvedAt'[t] = (IF kto[h] = "RESOLVED" THEN TRUE
                              ELSE IF kold[h] = "RESOLVED" THEN FALSE ELSE tkResolvedAt[t])
       /\ \A u \in Tickets \ {t} : tkResolvedAt'[u] = tkResolvedAt[u]
       /\ tkTrail' = tkTrail
   BY <1>1 DEF DeskInv, DeskShaped, DeskTypeOK, WriteStatusOf
 <1>8. /\ tkCrossed \subseteq tkCrossed'
       /\ t \notin tkCrossed' =>
            /\ t \notin tkCrossed /\ tkStatus[t] = kold[h]
            /\ \A g \in DeskRequests : ktick[g] = t => kpcT[g] # "event"
   BY <1>1 DEF WriteStatusOf
 <1>9. TrailFollows(t)' BY <1>1, <1>4, <1>7, <1>8 DEF DeskInv, TrailFollows
 <1>10. \A u \in Tickets \ {t} : TrailFollows(u)'
   BY <1>1, <1>4, <1>7, <1>8 DEF DeskInv, TrailFollows
 <1> QED BY <1>3, <1>5, <1>6, <1>9, <1>10 DEF DeskInv

LEMMA EventRecorded ==
  ASSUME DeskInv, NEW h \in DeskRequests, RecordEvent(h)
  PROVE  DeskInv'
 <1>1. PICK t \in Tickets : t = ktick[h] BY DEF DeskInv, DeskAsked, RecordEvent
 <1>2. kold[h] \in TicketStatus /\ kto[h] \in TicketStatus \ {"none"}
   BY DEF DeskInv, DeskAsked, RecordEvent
 <1>3. DeskTypeOK'
  <2>1. EventOf(kold[h], kto[h]) \in StatusEvent BY DEF EventOf, StatusEvent
  <2> QED BY <1>1, <1>2, <2>1 DEF DeskInv, DeskShaped, DeskTypeOK, RecordEvent, ticketRows
 <1>4. deskMishaps' = deskMishaps BY DEF RecordEvent, deskBounds
 <1>5. /\ DeskShaped' /\ \A g \in DeskRequests : DeskAsked(g)'
       /\ kpcT'[h] = "idle"
       /\ \A g \in DeskRequests \ {h} : kpcT'[g] = kpcT[g] /\ ktick'[g] = ktick[g] /\ kto'[g] = kto[g]
   BY <1>3, <1>4, DeskEnds DEF RecordEvent, DeskInv, DeskShaped
 <1>6. \A u \in Tickets : ClockExplained(u)'
   BY <1>4, <1>5 DEF DeskInv, ClockExplained, RecordEvent, ticketRows, deskHistory
 <1>7. /\ tkTrail'[t][1] = kto[h] /\ \A u \in Tickets \ {t} : tkTrail'[u] = tkTrail[u]
       /\ kpcT[h] = "event" /\ tkStatus' = tkStatus /\ tkResolvedAt' = tkResolvedAt /\ tkCrossed' = tkCrossed
   BY <1>1 DEF DeskInv, DeskShaped, DeskTypeOK, RecordEvent, ticketRows, deskHistory
 <1>8. TrailFollows(t)' BY <1>1, <1>5, <1>7 DEF DeskInv, TrailFollows
 <1>9. \A u \in Tickets \ {t} : TrailFollows(u)' BY <1>1, <1>5, <1>7 DEF DeskInv, TrailFollows
 <1> QED BY <1>5, <1>6, <1>8, <1>9 DEF DeskInv

LEMMA AssignmentWritten ==
  ASSUME DeskInv, NEW h \in DeskRequests, WriteAssignment(h)
  PROVE  DeskInv'
 <1>1. PICK t \in Tickets : t = ktick[h] BY DEF DeskInv, DeskAsked, WriteAssignment
 <1>2. DeskTypeOK' BY <1>1 DEF DeskInv, DeskShaped, DeskTypeOK, DeskAsked, WriteAssignment
 <1>3. deskMishaps' = deskMishaps BY DEF WriteAssignment, deskBounds
 <1>4. /\ DeskShaped' /\ \A g \in DeskRequests : DeskAsked(g)'
       /\ kpcT'[h] = "idle"
       /\ \A g \in DeskRequests \ {h} : kpcT'[g] = kpcT[g] /\ ktick'[g] = ktick[g] /\ kto'[g] = kto[g]
   BY <1>2, <1>3, DeskEnds DEF WriteAssignment, DeskInv, DeskShaped
 <1>5. \A u \in Tickets : ClockExplained(u)'
   BY <1>3, <1>4 DEF DeskInv, ClockExplained, WriteAssignment
 <1>6. \A u \in Tickets : TrailFollows(u)' BY <1>4 DEF DeskInv, TrailFollows, WriteAssignment
 <1> QED BY <1>4, <1>5, <1>6 DEF DeskInv

LEMMA DeskRequestLost ==
  ASSUME DeskInv, NEW h \in DeskRequests, LoseDeskRequest(h)
  PROVE  DeskInv'
 <1>1. PICK t \in Tickets : t = ktick[h] BY DEF DeskInv, DeskAsked, LoseDeskRequest
 <1>2. DeskTypeOK' BY DEF DeskInv, DeskShaped, DeskTypeOK, LoseDeskRequest, ticketRows
 <1>3. deskMishaps' \in Nat /\ deskMishaps' > 0 BY DEF LoseDeskRequest, DeskInv, DeskShaped
 <1>4. /\ DeskShaped' /\ \A g \in DeskRequests : DeskAsked(g)'
       /\ kpcT'[h] = "idle"
       /\ \A g \in DeskRequests \ {h} : kpcT'[g] = kpcT[g] /\ ktick'[g] = ktick[g] /\ kto'[g] = kto[g]
   BY <1>2, <1>3, DeskEnds DEF LoseDeskRequest
 <1>5. /\ kpcT[h] \in {"stamp", "event"} /\ tkFirst' = tkFirst /\ tkStatus' = tkStatus
       /\ tkResolvedAt' = tkResolvedAt /\ tkTrail' = tkTrail
       /\ tkAnswered' = IF kpcT[h] = "stamp" THEN tkAnswered \ {t} ELSE tkAnswered
       /\ tkCrossed' = IF kpcT[h] = "event" THEN tkCrossed \cup {t} ELSE tkCrossed
   BY <1>1 DEF LoseDeskRequest, ticketRows
 <1>6. \A u \in Tickets : ClockExplained(u)' BY <1>1, <1>3, <1>4, <1>5 DEF DeskInv, ClockExplained
 <1>7. \A u \in Tickets : TrailFollows(u)' BY <1>1, <1>4, <1>5 DEF DeskInv, TrailFollows
 <1> QED BY <1>4, <1>6, <1>7 DEF DeskInv

LEMMA DeskInvNext == DeskInv /\ [DeskNext]_deskVars => DeskInv'
 <1> SUFFICES ASSUME DeskInv, [DeskNext]_deskVars PROVE DeskInv' OBVIOUS
 <1>1. CASE UNCHANGED deskVars
   BY <1>1 DEF deskVars, ticketRows, deskRequest, deskBounds, deskHistory, DeskInv, DeskShaped,
               DeskTypeOK, DeskAsked, ClockExplained, TrailFollows
 <1>2. CASE DeskNext
   BY <1>2, TicketCreated, NoteAdded, FirstResponseStamped, StatusLoaded, AssignmentLoaded,
      StatusWritten, EventRecorded, AssignmentWritten, DeskRequestLost DEF DeskNext
 <1> QED BY <1>1, <1>2

(* Only a written assignment moves a ticket, and it was asked for with a
   reason unless the ticket was another's by then. *)
LEMMA TakeoversAreSaid == DeskInv /\ [DeskNext]_deskVars => NoSilentTakeover
 <1> SUFFICES ASSUME DeskInv, [DeskNext]_deskVars, NEW t \in Tickets,
                     tkAssignee[t] # NoAgent, tkAssignee'[t] \notin {NoAgent, tkAssignee[t]}
              PROVE  \/ t \in tkTaken'
                     \/ \E h \in DeskRequests : kpcT[h] = "assign" /\ ktick[h] = t /\ kreason[h]
   BY DEF NoSilentTakeover
 <1>1. PICK h \in DeskRequests : WriteAssignment(h)
  <2>1. tkAssignee' # tkAssignee OBVIOUS
  <2>2. DeskNext BY <2>1 DEF deskVars, ticketRows
  <2> QED BY <2>1, <2>2, ZenonT(60) DEF DeskNext, CreateTicket, AddNote, LoadStatus, LoadAssignment,
          StampFirstResponse, WriteStatusOf, RecordEvent, LoseDeskRequest, ticketRows
 <1>2. ktick[h] \in Tickets BY <1>1 DEF DeskInv, DeskAsked, WriteAssignment
 <1>3. ktick[h] = t /\ tkAssignee'[t] = kto[h]
   BY <1>1, <1>2 DEF DeskInv, DeskShaped, DeskTypeOK, WriteAssignment
 <1>4. CASE tkAssignee[t] = kold[h] BY <1>1, <1>3, <1>4 DEF DeskInv, DeskAsked, WriteAssignment
 <1>5. CASE tkAssignee[t] # kold[h] BY <1>1, <1>3, <1>5 DEF WriteAssignment
 <1> QED BY <1>4, <1>5

(* Tickets, over agents and a requester who work on one ticket at a time
   (support.service, addNote, changeStatus, assign): the clock of the first
   answer stops once an agent answered and runs until then, the newest event
   tells the status unless two changes overlapped, and nobody loses a ticket
   without a reason, for any tickets, agents and requests. *)
THEOREM TicketsSound == DeskSpec => TicketsAreSound
 <1>1. ASSUME DeskInv, [DeskNext]_deskVars
       PROVE  deskVars' # deskVars =>
                /\ (DeskTypeOK /\ ClockStopsOnAnswer /\ TrailExplainsTicket)'
                /\ NoSilentTakeover
  <2>1. DeskInv' BY <1>1, DeskInvNext
  <2>2. (DeskTypeOK /\ ClockStopsOnAnswer /\ TrailExplainsTicket)' BY <2>1, DeskInvGivesRest, PTL
  <2> QED BY <1>1, <2>2, TakeoversAreSaid
 <1> QED BY <1>1, DeskInvInit, DeskInvNext, PTL DEF DeskSpec, TicketsAreSound

-----------------------------------------------------------------------------
(* Conversations. *)
MessageShape ==
  [thread : ChatThreadIds \cup {NoThread}, from : Sides \cup {"support", "none"},
   counted : BOOLEAN, seen : SUBSET Sides]

ChatShaped ==
  /\ chLeg \in [Legs -> [rider : ChatCouriers \cup {NoCourier}, done : BOOLEAN]]
  /\ threads \subseteq ChatThreadIds
  /\ unread \in [ChatThreadIds -> [Sides -> Nat]]
  /\ messages \in [MessageIds -> MessageShape]
  /\ chPc \in [ChatRequests -> {"idle", "create", "store", "count", "clear", "fetch"}]
  /\ chThread \in [ChatRequests -> ChatThreadIds \cup {NoThread}]
  /\ DOMAIN chUser = ChatRequests
  /\ chSaw \in [ChatRequests -> BOOLEAN]

ChatAsked(h) ==
  /\ chPc[h] # "idle" => chThread[h] \in ChatThreadIds
  /\ chSaw[h] => chPc[h] = "fetch"

(* The messages of a conversation that a side was counted for, and those of
   them that it has not been shown. *)
Heard(t, s) ==
  {i \in MessageIds : messages[i].thread = t /\ messages[i].counted /\ s \in Hears(messages[i].from)}
Unseen(t, s) ==
  {i \in MessageIds : /\ messages[i].thread = t /\ messages[i].counted
                      /\ s \in Hears(messages[i].from) \ messages[i].seen}
BadgeBehind(t, s) ==
  \/ \E h \in ChatRequests : chSaw[h] /\ chThread[h] = t /\ ChatSide(chUser[h]) = s
  \/ <<t, s>> \in readsLost

BadgeFits(t, s) ==
  /\ unread[t][s] <= Cardinality(Heard(t, s))
  /\ BadgeBehind(t, s) \/ Cardinality(Unseen(t, s)) <= unread[t][s]

(* A leg that is assigned or ridden is not handed over. *)
LegsInOrder == \A l \in Legs : chStage = l \/ LegLive(l) => ~chLeg[l].done

ChatInv ==
  /\ ChatShaped
  /\ \A h \in ChatRequests : ChatAsked(h)
  /\ \A t \in ChatThreadIds, s \in Sides : BadgeFits(t, s)
  /\ LegsInOrder

LEMMA MessagesAreFinite ==
  ASSUME NEW M, M \subseteq MessageIds
  PROVE  IsFiniteSet(M) /\ Cardinality(M) \in Nat /\ Cardinality(M) <= MaxMessages
 <1>1. IsFiniteSet(1..MaxMessages) /\ Cardinality(1..MaxMessages) = MaxMessages
  <2>1. Cardinality(1..MaxMessages) = IF 1 > MaxMessages THEN 0 ELSE MaxMessages - 1 + 1
    BY ChatBoundAssumption, FS_Interval
  <2> QED BY <2>1, ChatBoundAssumption, FS_Interval
 <1>2. IsFiniteSet(M) /\ Cardinality(M) <= Cardinality(1..MaxMessages)
   BY <1>1, FS_Subset DEF MessageIds
 <1> QED BY <1>1, <1>2, FS_CardinalityType

LEMMA ChatInvGivesRest == ChatInv => ChatTypeOK /\ BadgeCoversUnseen
 <1> SUFFICES ASSUME ChatInv PROVE ChatTypeOK /\ BadgeCoversUnseen OBVIOUS
 <1>1. ChatTypeOK
  <2>1. unread \in [ChatThreadIds -> [Sides -> 0..MaxMessages]]
   <3>1. \A t \in ChatThreadIds, s \in Sides : unread[t][s] \in 0..MaxMessages
    <4> SUFFICES ASSUME NEW t \in ChatThreadIds, NEW s \in Sides PROVE unread[t][s] \in 0..MaxMessages
      OBVIOUS
    <4>1. PICK n \in Nat : n = unread[t][s] BY DEF ChatInv, ChatShaped
    <4>2. PICK m : m = Cardinality(Heard(t, s)) OBVIOUS
    <4>3. n <= m BY <4>1, <4>2 DEF ChatInv, BadgeFits
    <4>4. m \in Nat /\ m <= MaxMessages
     <5>1. Heard(t, s) \subseteq MessageIds BY DEF Heard
     <5> QED BY <4>2, <5>1, MessagesAreFinite
    <4> QED BY <4>1, <4>3, <4>4, ChatBoundAssumption
   <3>2. \A t \in ChatThreadIds : unread[t] \in [Sides -> 0..MaxMessages]
     BY <3>1 DEF ChatInv, ChatShaped
   <3> QED BY <3>2 DEF ChatInv, ChatShaped
  <2> QED BY <2>1 DEF ChatInv, ChatShaped, ChatTypeOK
 <1>2. BadgeCoversUnseen
  <2> SUFFICES ASSUME NEW t \in ChatThreadIds, NEW s \in Sides
               PROVE  BadgeBehind(t, s) \/ unread[t][s] >= Cardinality(Unseen(t, s))
    BY DEF BadgeCoversUnseen, BadgeBehind, Unseen
  <2>1. Cardinality(Unseen(t, s)) \in Nat
   <3>1. Unseen(t, s) \subseteq MessageIds BY DEF Unseen
   <3> QED BY <3>1, MessagesAreFinite
  <2>2. unread[t][s] \in Nat BY DEF ChatInv, ChatShaped
  <2> QED BY <2>1, <2>2 DEF ChatInv, BadgeFits
 <1> QED BY <1>1, <1>2

LEMMA ChatInvInit == ChatInit => ChatInv
 <1> SUFFICES ASSUME ChatInit PROVE ChatInv OBVIOUS
 <1>1. ChatShaped
  <2>1. NoMessage \in MessageShape BY DEF NoMessage, MessageShape
  <2> QED BY <2>1 DEF ChatInit, ChatShaped
 <1>2. \A h \in ChatRequests : ChatAsked(h) BY DEF ChatInit, ChatAsked
 <1>3. \A t \in ChatThreadIds, s \in Sides : BadgeFits(t, s)
  <2> SUFFICES ASSUME NEW t \in ChatThreadIds, NEW s \in Sides PROVE BadgeFits(t, s) OBVIOUS
  <2>1. Heard(t, s) = {} /\ Unseen(t, s) = {} BY DEF ChatInit, NoMessage, Heard, Unseen
  <2>2. unread[t][s] = 0 BY DEF ChatInit
  <2> QED BY <2>1, <2>2, FS_EmptySet DEF BadgeFits
 <1>4. LegsInOrder BY DEF ChatInit, LegsInOrder, Legs, LegLive
 <1> QED BY <1>1, <1>2, <1>3, <1>4 DEF ChatInv

(* The badges of a step that touches neither messages nor counters, and takes
   no excuse away. *)
LEMMA BadgesStay ==
  ASSUME ChatInv, UNCHANGED <<messages, unread>>,
         \A t \in ChatThreadIds, s \in Sides : BadgeBehind(t, s) => BadgeBehind(t, s)'
  PROVE  \A t \in ChatThreadIds, s \in Sides : BadgeFits(t, s)'
 <1> SUFFICES ASSUME NEW t \in ChatThreadIds, NEW s \in Sides PROVE BadgeFits(t, s)' OBVIOUS
 <1>1. Heard(t, s)' = Heard(t, s) /\ Unseen(t, s)' = Unseen(t, s) BY DEF Heard, Unseen
 <1> QED BY <1>1 DEF ChatInv, BadgeFits

LEMMA LegsStay ==
  ASSUME ChatInv, UNCHANGED chatOrder
  PROVE  LegsInOrder'
  BY DEF ChatInv, LegsInOrder, LegLive, chatOrder

LEMMA ChatBegins ==
  ASSUME ChatInv, NEW h \in ChatRequests, NEW u, NEW t \in ChatThreadIds,
         NEW at \in {"create", "store", "clear", "fetch"}, BeginChat(h, u, t, at),
         UNCHANGED <<chatOrder, threads, unread, messages, chSaw, readsLost>>
  PROVE  ChatInv'
 <1>1. ChatShaped' BY DEF ChatInv, ChatShaped, BeginChat, chatOrder
 <1>2. /\ chPc[h] = "idle" /\ chPc'[h] = at /\ chThread'[h] = t /\ ~chSaw[h] /\ chSaw' = chSaw
       /\ \A g \in ChatRequests \ {h} :
            chPc'[g] = chPc[g] /\ chThread'[g] = chThread[g] /\ chUser'[g] = chUser[g]
   BY DEF ChatInv, ChatShaped, ChatAsked, BeginChat
 <1>3. \A g \in ChatRequests : ChatAsked(g)'
  <2>1. ChatAsked(h)' BY <1>2 DEF ChatAsked
  <2>2. \A g \in ChatRequests \ {h} : ChatAsked(g)' BY <1>2 DEF ChatInv, ChatAsked
  <2> QED BY <2>1, <2>2
 <1>4. \A q \in ChatThreadIds, s \in Sides : BadgeBehind(q, s) => BadgeBehind(q, s)'
   BY <1>2 DEF BadgeBehind, ChatSide
 <1> QED BY <1>1, <1>3, <1>4, BadgesStay, LegsStay DEF ChatInv

LEMMA ChatEnds ==
  ASSUME ChatInv, NEW h \in ChatRequests, EndChat(h)
  PROVE  /\ chPc' \in [ChatRequests -> {"idle", "create", "store", "count", "clear", "fetch"}]
         /\ chThread' \in [ChatRequests -> ChatThreadIds \cup {NoThread}]
         /\ DOMAIN chUser' = ChatRequests
         /\ chSaw' \in [ChatRequests -> BOOLEAN]
         /\ \A g \in ChatRequests : ChatAsked(g)'
         /\ \A g \in ChatRequests \ {h} :
              chSaw'[g] = chSaw[g] /\ chThread'[g] = chThread[g] /\ chUser'[g] = chUser[g]
         /\ chPc'[h] = "idle"
  BY DEF ChatInv, ChatShaped, ChatAsked, EndChat

LEMMA BehindStays ==
  ASSUME ChatInv, NEW h \in ChatRequests, EndChat(h), readsLost \subseteq readsLost',
         NEW t \in ChatThreadIds, NEW s \in Sides, BadgeBehind(t, s),
         \/ ~chSaw[h]
         \/ <<t, s>> \in readsLost'
         \/ <<t, s>> # <<chThread[h], ChatSide(chUser[h])>>
  PROVE  BadgeBehind(t, s)'
 <1>1. CASE <<t, s>> \in readsLost BY <1>1 DEF BadgeBehind
 <1>2. CASE <<t, s>> \notin readsLost
  <2>1. PICK g \in ChatRequests : chSaw[g] /\ chThread[g] = t /\ ChatSide(chUser[g]) = s
    BY <1>2 DEF BadgeBehind
  <2>2. CASE g = h BY <2>1, <2>2 DEF BadgeBehind
  <2>3. CASE g # h
   <3>1. chSaw'[g] = chSaw[g] /\ chThread'[g] = chThread[g] /\ chUser'[g] = chUser[g]
     BY <2>3, ChatEnds
   <3> QED BY <2>1, <3>1 DEF BadgeBehind, ChatSide
  <2> QED BY <2>2, <2>3
 <1> QED BY <1>1, <1>2

LEMMA OrderMoves ==
  ASSUME ChatInv, LegChange, LegsInOrder',
         chLeg' \in [Legs -> [rider : ChatCouriers \cup {NoCourier}, done : BOOLEAN]]
  PROVE  ChatInv'
 <1>1. ChatShaped' BY DEF ChatInv, ChatShaped, LegChange, chatRequest
 <1>2. \A h \in ChatRequests : ChatAsked(h)' BY DEF ChatInv, ChatAsked, LegChange, chatRequest
 <1>3. \A t \in ChatThreadIds, s \in Sides : BadgeBehind(t, s) => BadgeBehind(t, s)'
   BY DEF BadgeBehind, ChatSide, LegChange, chatRequest
 <1>4. UNCHANGED <<messages, unread>> BY DEF LegChange
 <1> QED BY <1>1, <1>2, <1>3, <1>4, BadgesStay DEF ChatInv

LEMMA OrderMovesWell ==
  ASSUME ChatInv, NEW l \in Legs,
         (\E r \in ChatCouriers : AssignLeg(l, r)) \/ StartLeg(l) \/ HandOverLeg(l) \/ FailLeg(l)
  PROVE  ChatInv'
 <1>0. l = "pickup" \/ l = "return" BY DEF Legs
 <1>1. ASSUME NEW r \in ChatCouriers, AssignLeg(l, r) PROVE ChatInv'
  <2>1. chLeg' \in [Legs -> [rider : ChatCouriers \cup {NoCourier}, done : BOOLEAN]]
    BY <1>1 DEF AssignLeg, ChatInv, ChatShaped
  <2>2. chStage' = l /\ ~chLeg'[l].done BY <1>1 DEF AssignLeg, ChatInv, ChatShaped
  <2>3. LegsInOrder' BY <1>0, <2>2 DEF LegsInOrder, LegLive, Legs
  <2> QED BY <1>1, <2>1, <2>3, OrderMoves DEF AssignLeg
 <1>2. CASE StartLeg(l)
  <2>1. chLeg' = chLeg /\ chStage = l
        /\ chStage' = (IF l = "pickup" THEN "pickup_live" ELSE "return_live")
    BY <1>2 DEF StartLeg
  <2>2. ~chLeg[l].done BY <2>1 DEF ChatInv, LegsInOrder
  <2>3. LegsInOrder' BY <1>0, <2>1, <2>2 DEF LegsInOrder, LegLive, Legs
  <2> QED BY <1>2, <2>1, <2>3, OrderMoves DEF StartLeg, ChatInv, ChatShaped
 <1>3. CASE HandOverLeg(l)
  <2>1. chLeg' \in [Legs -> [rider : ChatCouriers \cup {NoCourier}, done : BOOLEAN]]
    BY <1>3 DEF HandOverLeg, ChatInv, ChatShaped
  <2>2. chStage' \in {"at_shop", "concluded"} BY <1>3 DEF HandOverLeg
  <2>3. LegsInOrder' BY <2>2 DEF LegsInOrder, LegLive, Legs
  <2> QED BY <1>3, <2>1, <2>3, OrderMoves DEF HandOverLeg
 <1>4. CASE FailLeg(l)
  <2>1. chLeg' = chLeg /\ chStage' \in {"accepted", "at_shop"} BY <1>4 DEF FailLeg
  <2>2. LegsInOrder' BY <2>1 DEF LegsInOrder, LegLive, Legs
  <2> QED BY <1>4, <2>1, <2>2, OrderMoves DEF FailLeg, ChatInv, ChatShaped
 <1> QED BY <1>1, <1>2, <1>3, <1>4

LEMMA OrderCancelled ==
  ASSUME ChatInv, ChatCancelOrder
  PROVE  ChatInv'
 <1>1. chStage' = "concluded" /\ chLeg' = chLeg BY DEF ChatCancelOrder
 <1>2. LegsInOrder' BY <1>1 DEF LegsInOrder, LegLive, Legs
 <1> QED BY <1>1, <1>2, OrderMoves DEF ChatCancelOrder, ChatInv, ChatShaped

LEMMA ThreadCreated ==
  ASSUME ChatInv, NEW h \in ChatRequests, CreateThread(h)
  PROVE  ChatInv'
 <1>1. ~chSaw[h] /\ chThread[h] \in ChatThreadIds BY DEF CreateThread, ChatInv, ChatAsked
 <1>2. ChatShaped' BY <1>1, ChatEnds DEF CreateThread, ChatInv, ChatShaped, chatOrder
 <1>3. \A t \in ChatThreadIds, s \in Sides : BadgeBehind(t, s) => BadgeBehind(t, s)'
   BY <1>1, BehindStays DEF CreateThread
 <1> QED BY <1>2, <1>3, ChatEnds, BadgesStay, LegsStay DEF ChatInv, CreateThread

LEMMA MessageStored ==
  ASSUME ChatInv, NEW h \in ChatRequests, StoreMessage(h)
  PROVE  ChatInv'
 <1>1. chThread[h] \in ChatThreadIds /\ chPc[h] = "store" /\ ~chSaw[h]
   BY DEF StoreMessage, ChatInv, ChatAsked
 <1>2. PICK i \in MessageIds, from \in {"support", "customer", "provider"} :
         /\ messages[i] = NoMessage
         /\ messages' = [messages EXCEPT ![i] =
              [thread |-> chThread[h], counted |-> FALSE, seen |-> {}, from |-> from]]
   BY DEF StoreMessage, ChatSide
 <1>3. /\ ~messages[i].counted /\ ~messages'[i].counted
       /\ \A j \in MessageIds \ {i} : messages'[j] = messages[j]
       /\ messages' \in [MessageIds -> MessageShape]
  <2>1. [thread |-> chThread[h], counted |-> FALSE, seen |-> {}, from |-> from] \in MessageShape
    BY <1>1 DEF MessageShape, Sides
  <2> QED BY <1>2, <2>1 DEF NoMessage, ChatInv, ChatShaped
 <1>4. ChatShaped' BY <1>3 DEF ChatInv, ChatShaped, StoreMessage, chatOrder
 <1>5. /\ chPc'[h] = "count" /\ \A g \in ChatRequests \ {h} : chPc'[g] = chPc[g]
       /\ UNCHANGED <<chUser, chThread, chSaw, readsLost, unread, chatOrder>>
   BY DEF StoreMessage, ChatInv, ChatShaped
 <1>6. \A g \in ChatRequests : ChatAsked(g)' BY <1>1, <1>5 DEF ChatInv, ChatAsked
 <1>7. ASSUME NEW t \in ChatThreadIds, NEW s \in Sides PROVE BadgeFits(t, s)'
  <2>1. Heard(t, s)' = Heard(t, s) /\ Unseen(t, s)' = Unseen(t, s) BY <1>3 DEF Heard, Unseen
  <2>2. BadgeBehind(t, s)' <=> BadgeBehind(t, s) BY <1>5 DEF BadgeBehind, ChatSide
  <2> QED BY <1>5, <2>1, <2>2 DEF ChatInv, BadgeFits
 <1> QED BY <1>4, <1>5, <1>6, <1>7, LegsStay DEF ChatInv

LEMMA MessageCounted ==
  ASSUME ChatInv, NEW h \in ChatRequests, CountMessage(h)
  PROVE  ChatInv'
 <1>1. PICK t0 \in ChatThreadIds : t0 = chThread[h] BY DEF CountMessage, ChatInv, ChatAsked
 <1>2. ~chSaw[h] BY DEF CountMessage, ChatInv, ChatAsked
 <1>3. PICK i \in MessageIds :
         /\ messages[i].thread = t0 /\ ~messages[i].counted
         /\ messages' = [messages EXCEPT ![i].counted = TRUE]
         /\ unread' = [unread EXCEPT ![t0] =
              [s \in Sides |-> IF s \in Hears(messages[i].from) THEN @[s] + 1 ELSE @[s]]]
   BY <1>1 DEF CountMessage, Uncounted
 <1>4. PICK m \in MessageShape : m = messages[i] BY DEF ChatInv, ChatShaped
 <1>5. /\ messages'[i] = [m EXCEPT !.counted = TRUE]
       /\ \A j \in MessageIds \ {i} : messages'[j] = messages[j]
   BY <1>3, <1>4 DEF ChatInv, ChatShaped
 <1>6. messages' \in [MessageIds -> MessageShape]
  <2>1. [m EXCEPT !.counted = TRUE] \in MessageShape BY DEF MessageShape
  <2> QED BY <1>3, <1>4, <2>1 DEF ChatInv, ChatShaped
 <1>7. /\ \A s \in Sides : unread'[t0][s] = IF s \in Hears(m.from) THEN unread[t0][s] + 1 ELSE unread[t0][s]
       /\ \A t \in ChatThreadIds \ {t0} : unread'[t] = unread[t]
       /\ unread' \in [ChatThreadIds -> [Sides -> Nat]]
   BY <1>3, <1>4 DEF ChatInv, ChatShaped
 <1>8. ChatShaped' BY <1>6, <1>7, ChatEnds DEF CountMessage, ChatInv, ChatShaped, chatOrder
 <1>9. ASSUME NEW t \in ChatThreadIds, NEW s \in Sides PROVE BadgeFits(t, s)'
  <2>1. BadgeBehind(t, s) => BadgeBehind(t, s)' BY <1>2, BehindStays DEF CountMessage
  <2>2. PICK n \in Nat : n = unread[t][s] BY DEF ChatInv, ChatShaped
  <2>3. /\ IsFiniteSet(Heard(t, s)) /\ Cardinality(Heard(t, s)) \in Nat
        /\ IsFiniteSet(Unseen(t, s)) /\ Cardinality(Unseen(t, s)) \in Nat
   <3>1. Heard(t, s) \subseteq MessageIds /\ Unseen(t, s) \subseteq MessageIds BY DEF Heard, Unseen
   <3> QED BY <3>1, MessagesAreFinite
  <2>4. n <= Cardinality(Heard(t, s)) /\ (BadgeBehind(t, s) \/ Cardinality(Unseen(t, s)) <= n)
    BY <2>2 DEF ChatInv, BadgeFits
  <2>5. CASE t = t0 /\ s \in Hears(m.from)
   <3>1. Heard(t, s)' = Heard(t, s) \cup {i} /\ i \notin Heard(t, s)
     BY <1>3, <1>4, <1>5, <2>5 DEF Heard, MessageShape
   <3>2. Unseen(t, s)' = Unseen(t, s) \cup {i} \/ Unseen(t, s)' = Unseen(t, s)
     BY <1>3, <1>4, <1>5, <2>5 DEF Unseen, MessageShape
   <3>3. i \notin Unseen(t, s) BY <1>3 DEF Unseen
   <3>4. Cardinality(Heard(t, s)') = Cardinality(Heard(t, s)) + 1 BY <2>3, <3>1, FS_AddElement
   <3>5. \/ Cardinality(Unseen(t, s)') = Cardinality(Unseen(t, s)) + 1
         \/ Cardinality(Unseen(t, s)') = Cardinality(Unseen(t, s))
     BY <2>3, <3>2, <3>3, FS_AddElement
   <3>6. unread'[t][s] = n + 1 BY <1>7, <2>2, <2>5
   <3> QED BY <2>1, <2>3, <2>4, <3>4, <3>5, <3>6 DEF BadgeFits
  <2>6. CASE ~(t = t0 /\ s \in Hears(m.from))
   <3>1. Heard(t, s)' = Heard(t, s) /\ Unseen(t, s)' = Unseen(t, s)
     BY <1>3, <1>4, <1>5, <2>6 DEF Heard, Unseen, MessageShape
   <3>2. unread'[t][s] = n BY <1>7, <2>2, <2>6
   <3> QED BY <2>1, <2>4, <3>1, <3>2 DEF BadgeFits
  <2> QED BY <2>5, <2>6
 <1> QED BY <1>8, <1>9, ChatEnds, LegsStay DEF ChatInv, CountMessage

LEMMA UnreadCleared ==
  ASSUME ChatInv, NEW h \in ChatRequests, ClearUnread(h)
  PROVE  ChatInv'
 <1>1. PICK t0 \in ChatThreadIds, s0 \in Sides : t0 = chThread[h] /\ s0 = ChatSide(chUser[h])
   BY DEF ClearUnread, ChatInv, ChatAsked, ChatSide, Sides
 <1>2. /\ unread' \in [ChatThreadIds -> [Sides -> Nat]]
       /\ unread'[t0][s0] = 0
       /\ \A t \in ChatThreadIds, s \in Sides : <<t, s>> # <<t0, s0>> => unread'[t][s] = unread[t][s]
   BY <1>1 DEF ClearUnread, ChatInv, ChatShaped
 <1>3. /\ chPc'[h] = "fetch" /\ chSaw'[h]
       /\ \A g \in ChatRequests \ {h} : chPc'[g] = chPc[g] /\ chSaw'[g] = chSaw[g]
       /\ UNCHANGED <<messages, chUser, chThread, readsLost, chatOrder>>
       /\ chPc[h] = "clear"
   BY DEF ClearUnread, ChatInv, ChatShaped
 <1>4. ChatShaped' BY <1>2 DEF ClearUnread, ChatInv, ChatShaped, chatOrder
 <1>5. \A g \in ChatRequests : ChatAsked(g)' BY <1>3 DEF ChatInv, ChatAsked
 <1>6. ASSUME NEW t \in ChatThreadIds, NEW s \in Sides PROVE BadgeFits(t, s)'
  <2>1. Heard(t, s)' = Heard(t, s) /\ Unseen(t, s)' = Unseen(t, s) BY <1>3 DEF Heard, Unseen
  <2>2. CASE <<t, s>> = <<t0, s0>>
   <3>1. BadgeBehind(t, s)' BY <1>1, <1>3, <2>2 DEF BadgeBehind, ChatSide
   <3>2. Cardinality(Heard(t, s)) \in Nat
    <4>1. Heard(t, s) \subseteq MessageIds BY DEF Heard
    <4> QED BY <4>1, MessagesAreFinite
   <3>3. unread'[t][s] = 0 BY <1>2, <2>2
   <3> QED BY <2>1, <3>1, <3>2, <3>3 DEF BadgeFits
  <2>3. CASE <<t, s>> # <<t0, s0>>
   <3>1. BadgeBehind(t, s) => BadgeBehind(t, s)' BY <1>3 DEF BadgeBehind, ChatSide, ChatInv, ChatAsked
   <3>2. unread'[t][s] = unread[t][s] BY <1>2, <2>3
   <3> QED BY <2>1, <3>1, <3>2 DEF ChatInv, BadgeFits
  <2> QED BY <2>2, <2>3
 <1> QED BY <1>3, <1>4, <1>5, <1>6, LegsStay DEF ChatInv

LEMMA MessagesFetched ==
  ASSUME ChatInv, NEW h \in ChatRequests, FetchMessages(h)
  PROVE  ChatInv'
 <1>1. PICK t0 \in ChatThreadIds, s0 \in Sides : t0 = chThread[h] /\ s0 = ChatSide(chUser[h])
   BY DEF FetchMessages, ChatInv, ChatAsked, ChatSide, Sides
 <1>2. messages' = [i \in MessageIds |->
         IF messages[i].thread = t0 THEN [messages[i] EXCEPT !.seen = @ \cup {s0}] ELSE messages[i]]
   BY <1>1 DEF FetchMessages
 <1>3. \A i \in MessageIds :
         /\ messages'[i] \in MessageShape
         /\ messages'[i].thread = messages[i].thread
         /\ messages'[i].counted = messages[i].counted
         /\ messages'[i].from = messages[i].from
         /\ messages'[i].seen = messages[i].seen \cup (IF messages[i].thread = t0 THEN {s0} ELSE {})
  <2> SUFFICES ASSUME NEW i \in MessageIds
               PROVE  /\ messages'[i] \in MessageShape
                      /\ messages'[i].thread = messages[i].thread
                      /\ messages'[i].counted = messages[i].counted
                      /\ messages'[i].from = messages[i].from
                      /\ messages'[i].seen = messages[i].seen \cup (IF messages[i].thread = t0 THEN {s0} ELSE {})
    OBVIOUS
  <2>1. PICK m \in MessageShape : m = messages[i] BY DEF ChatInv, ChatShaped
  <2> QED BY <1>2, <2>1 DEF MessageShape
 <1>4. messages' \in [MessageIds -> MessageShape] BY <1>2, <1>3
 <1>5. ChatShaped' BY <1>4, ChatEnds DEF FetchMessages, ChatInv, ChatShaped, chatOrder
 <1>6. ASSUME NEW t \in ChatThreadIds, NEW s \in Sides PROVE BadgeFits(t, s)'
  <2>1. Heard(t, s)' = Heard(t, s) BY <1>3 DEF Heard
  <2>2. CASE <<t, s>> = <<t0, s0>>
   <3>1. Unseen(t, s)' = {} BY <1>3, <2>2 DEF Unseen
   <3>2. unread'[t][s] = unread[t][s] /\ unread[t][s] \in Nat BY DEF FetchMessages, ChatInv, ChatShaped
   <3>3. Cardinality(Unseen(t, s)') = 0 BY <3>1, FS_EmptySet
   <3> QED BY <2>1, <3>2, <3>3 DEF ChatInv, BadgeFits
  <2>3. CASE <<t, s>> # <<t0, s0>>
   <3>1. Unseen(t, s)' = Unseen(t, s) BY <1>3, <2>3 DEF Unseen
   <3>2. BadgeBehind(t, s) => BadgeBehind(t, s)' BY <1>1, <2>3, BehindStays DEF FetchMessages
   <3> QED BY <2>1, <3>1, <3>2 DEF ChatInv, BadgeFits, FetchMessages
  <2> QED BY <2>2, <2>3
 <1> QED BY <1>5, <1>6, ChatEnds, LegsStay DEF ChatInv, FetchMessages

LEMMA ChatRequestLost ==
  ASSUME ChatInv, NEW h \in ChatRequests, LoseChatRequest(h)
  PROVE  ChatInv'
 <1>1. ChatShaped' BY ChatEnds DEF LoseChatRequest, ChatInv, ChatShaped, chatOrder
 <1>2. \A t \in ChatThreadIds, s \in Sides : BadgeBehind(t, s) => BadgeBehind(t, s)'
  <2> SUFFICES ASSUME NEW t \in ChatThreadIds, NEW s \in Sides, BadgeBehind(t, s)
               PROVE  BadgeBehind(t, s)'
    OBVIOUS
  <2>1. /\ EndChat(h) /\ readsLost \subseteq readsLost'
        /\ chSaw[h] => <<chThread[h], ChatSide(chUser[h])>> \in readsLost'
    BY DEF LoseChatRequest
  <2> QED BY <2>1, BehindStays
 <1> QED BY <1>1, <1>2, ChatEnds, BadgesStay, LegsStay DEF ChatInv, LoseChatRequest

LEMMA ChatInvNext == ChatInv /\ [ChatNext]_chatVars => ChatInv'
 <1> SUFFICES ASSUME ChatInv, [ChatNext]_chatVars PROVE ChatInv' OBVIOUS
 <1>1. CASE UNCHANGED chatVars
  <2>1. /\ ChatShaped' /\ \A h \in ChatRequests : ChatAsked(h)'
    BY <1>1 DEF chatVars, chatOrder, chatRequest, ChatInv, ChatShaped, ChatAsked
  <2>2. \A t \in ChatThreadIds, s \in Sides : BadgeBehind(t, s) => BadgeBehind(t, s)'
    BY <1>1 DEF chatVars, chatRequest, BadgeBehind, ChatSide
  <2> QED BY <1>1, <2>1, <2>2, BadgesStay, LegsStay DEF chatVars, ChatInv
 <1>2. ASSUME NEW h \in ChatRequests, BeginProviderThread(h) PROVE ChatInv'
  <2>1. ProviderThread \in ChatThreadIds BY DEF ChatThreadIds
  <2> QED BY <1>2, <2>1, ChatBegins DEF BeginProviderThread
 <1>3. ASSUME NEW h \in ChatRequests, NEW t \in CourierThreads, NEW u \in ChatUsers, BeginCourierThread(h, u, t)
       PROVE  ChatInv'
  <2>1. t \in ChatThreadIds BY DEF ChatThreadIds
  <2> QED BY <1>3, <2>1, ChatBegins DEF BeginCourierThread
 <1>4. ASSUME NEW h \in ChatRequests, NEW t \in ChatThreadIds, NEW u \in ChatUsers,
              BeginSend(h, u, t) \/ BeginRead(h, u, t) \/ BeginSupport(h, t)
       PROVE  ChatInv'
  <2>1. CASE BeginSend(h, u, t) BY <2>1, ChatBegins DEF BeginSend
  <2>2. CASE BeginSupport(h, t) BY <2>2, ChatBegins DEF BeginSupport
  <2>3. CASE BeginRead(h, u, t)
   <3>1. CASE unread[t][ChatSide(u)] > 0 BY <2>3, <3>1, ChatBegins DEF BeginRead
   <3>2. CASE ~(unread[t][ChatSide(u)] > 0) BY <2>3, <3>2, ChatBegins DEF BeginRead
   <3> QED BY <3>1, <3>2
  <2> QED BY <1>4, <2>1, <2>2, <2>3
 <1>5. ASSUME NEW h \in ChatRequests, NEW t \in ChatThreadIds, BeginSupport(h, t) PROVE ChatInv'
   BY <1>5, ChatBegins DEF BeginSupport
 <1> QED BY <1>1, <1>2, <1>3, <1>4, <1>5, OrderMovesWell, OrderCancelled, ThreadCreated, MessageStored,
            MessageCounted, UnreadCleared, MessagesFetched, ChatRequestLost DEF ChatNext

(* No one begins to send on a thread that is over. *)
LEMMA OverIsSilent ==
  ASSUME ChatInv, [ChatNext]_chatVars
  PROVE  SilentOnceOver
 <1> SUFFICES ASSUME NEW t \in ChatThreadIds, SessionOver(t), NEW g \in ChatRequests,
                     chPc'[g] = "store", chThread'[g] = t, chUser'[g] # SupportAgent
              PROVE  chPc[g] = "store" /\ chThread[g] = t /\ chUser[g] # SupportAgent
   BY DEF SilentOnceOver, InFlight
 <1>0. /\ t \in CourierThreads => t.leg \in Legs /\ t.kind = "courier"
       /\ t \notin CourierThreads => t.kind = "provider"
   BY DEF CourierThreads, ChatThreadIds, ProviderThread
 <1>1. ASSUME NEW h \in ChatRequests, NEW q \in ChatThreadIds, NEW u \in ChatUsers, BeginSend(h, u, q)
       PROVE  g # h
  <2> SUFFICES ASSUME g = h PROVE FALSE OBVIOUS
  <2>1. q = t /\ u # SupportAgent BY <1>1 DEF BeginSend, BeginChat, ChatInv, ChatShaped
  <2>2. ~ThreadEnded(t, u) BY <1>1, <2>1 DEF BeginSend, MaySend
  <2>3. CASE chStage = "concluded"
   <3>1. t \in CourierThreads => ~LegLive(t.leg) BY <2>3 DEF LegLive
   <3> QED BY <1>0, <2>2, <2>3, <3>1 DEF ThreadEnded, CourierLegOver, CourierRidesLeg
  <2>4. CASE t \in CourierThreads /\ chLeg[t.leg].rider # t.with
    BY <1>0, <2>2, <2>4 DEF ThreadEnded, CourierLegOver, CourierRidesLeg
  <2>5. CASE t \in CourierThreads /\ chLeg[t.leg].done
   <3>1. ~LegLive(t.leg) BY <1>0, <2>5 DEF ChatInv, LegsInOrder
   <3> QED BY <1>0, <2>2, <2>5, <3>1 DEF ThreadEnded, CourierLegOver, CourierRidesLeg
  <2> QED BY <2>3, <2>4, <2>5 DEF SessionOver
 <1>2. ASSUME NEW h \in ChatRequests, NEW q \in ChatThreadIds, BeginSupport(h, q)
       PROVE  g # h
   BY <1>2 DEF BeginSupport, BeginChat, ChatInv, ChatShaped
 <1> DEFINE Kept == chPc[g] = "store" /\ chThread[g] = t /\ chUser[g] # SupportAgent
 <1>3. ASSUME NEW h \in ChatRequests, NEW u, NEW q, NEW at, BeginChat(h, u, q, at),
              at # "store" \/ g # h
       PROVE  Kept
   BY <1>3 DEF BeginChat, ChatInv, ChatShaped
 <1>4. ASSUME NEW h \in ChatRequests, EndChat(h) PROVE Kept BY <1>4 DEF EndChat, ChatInv, ChatShaped
 <1>5. CASE UNCHANGED chatRequest BY <1>5 DEF chatRequest
 <1>6. ASSUME NEW h \in ChatRequests, StoreMessage(h) \/ ClearUnread(h) PROVE Kept
   BY <1>6 DEF StoreMessage, ClearUnread, ChatInv, ChatShaped
 <1>7. CASE UNCHANGED chatVars BY <1>5, <1>7 DEF chatVars
 <1>8. CASE LegChange BY <1>5, <1>8 DEF LegChange
 <1>9. CASE ChatNext
  <2> HIDE DEF Kept
  <2>1. CASE ChatCancelOrder \/ \E l \in Legs : (\E r \in ChatCouriers : AssignLeg(l, r)) \/ StartLeg(l) \/ HandOverLeg(l) \/ FailLeg(l)
   <3>1. LegChange BY <2>1 DEF ChatCancelOrder, AssignLeg, StartLeg, HandOverLeg, FailLeg
   <3> QED BY <1>8, <3>1 DEF Kept
  <2>2. ASSUME NEW h \in ChatRequests, BeginProviderThread(h) PROVE Kept
    BY <1>3, <2>2 DEF BeginProviderThread
  <2>3. ASSUME NEW h \in ChatRequests, NEW q \in CourierThreads, NEW u \in ChatUsers, BeginCourierThread(h, u, q)
        PROVE  Kept
    BY <1>3, <2>3 DEF BeginCourierThread
  <2>4. ASSUME NEW h \in ChatRequests, NEW q \in ChatThreadIds, NEW u \in ChatUsers, BeginSend(h, u, q)
        PROVE  Kept
   <3>1. g # h BY <1>1, <2>4
   <3>2. BeginChat(h, u, q, "store") BY <2>4 DEF BeginSend
   <3> QED BY <1>3, <3>1, <3>2
  <2>5. ASSUME NEW h \in ChatRequests, NEW q \in ChatThreadIds, NEW u \in ChatUsers, BeginRead(h, u, q)
        PROVE  Kept
   <3>1. PICK at : at \in {"clear", "fetch"} /\ BeginChat(h, u, q, at) BY <2>5 DEF BeginRead
   <3> QED BY <1>3, <3>1
  <2>6. ASSUME NEW h \in ChatRequests, NEW q \in ChatThreadIds, BeginSupport(h, q) PROVE Kept
   <3>1. g # h BY <1>2, <2>6
   <3>2. BeginChat(h, SupportAgent, q, "store") BY <2>6 DEF BeginSupport
   <3> QED BY <1>3, <3>1, <3>2
  <2>7. ASSUME NEW h \in ChatRequests,
               CreateThread(h) \/ CountMessage(h) \/ FetchMessages(h) \/ LoseChatRequest(h)
        PROVE  Kept
    BY <1>4, <2>7 DEF CreateThread, CountMessage, FetchMessages, LoseChatRequest
  <2>8. Kept BY <1>6, <1>9, <2>1, <2>2, <2>3, <2>4, <2>5, <2>6, <2>7 DEF ChatNext, Kept
  <2> QED BY <2>8 DEF Kept
 <1> QED BY <1>7, <1>9

(* The conversations of an order (chat.service, sendMessage, messages): the
   badge of a side covers what it was not shown unless an answer is on its way
   or was lost, it counts no message twice, and nobody begins to write on a
   conversation that is over, for any couriers, requests and messages. *)
THEOREM ChatSound == ChatSpec => ChatIsSound
 <1>1. ASSUME ChatInv, [ChatNext]_chatVars
       PROVE  chatVars' # chatVars =>
                /\ (ChatTypeOK /\ BadgeCoversUnseen)'
                /\ SilentOnceOver
  <2>1. ChatInv' BY <1>1, ChatInvNext
  <2>2. (ChatTypeOK /\ BadgeCoversUnseen)' BY <2>1, ChatInvGivesRest, PTL
  <2> QED BY <1>1, <2>2, OverIsSilent
 <1> QED BY <1>1, ChatInvInit, ChatInvNext, PTL DEF ChatSpec, ChatIsSound

-----------------------------------------------------------------------------
(* The feed of notifications. *)
IsRow(m) ==
  m = [to |-> m.to, needs |-> m.needs, event |-> m.event, at |-> m.at,
       read |-> m.read, sent |-> m.sent, gone |-> m.gone]

RowShape(r) ==
  /\ IsRow(rows[r])
  /\ rows[r].to \in FeedAccounts \cup FeedBranches \cup {NoTarget}
  /\ rows[r].at \in 0..feedNow
  /\ rows[r].at = 0 => rows[r] = NoRow
  /\ rows[r].at > 0 => rows[r].to \in FeedAccounts \cup FeedBranches
  /\ rows[r].gone => Expired(r)

(* Rows are stored in the order of their ids, and one of an event that has an
   id only when the earlier ones of that event have expired. *)
SameEvent(q, r) == rows[q].event = rows[r].event /\ rows[r].event # NoEvent
RowsInOrder ==
  \A q, r \in RowIds : q < r /\ rows[r].at > 0 =>
    rows[q].at > 0 /\ (SameEvent(q, r) => rows[q].at + Retention <= rows[r].at)

FeedShaped ==
  /\ feedNow \in 1..MaxFeedTime
  /\ cursor \in [FeedAccounts -> 0..MaxFeedTime]
  /\ DOMAIN rows = RowIds
  /\ reads \in [FeedAccounts -> [RowIds -> 0..MaxFeedTime]]
  /\ pushed \in [FeedAccounts -> [RowIds -> Nat]]
  /\ fdPc \in [FeedTasks -> {"idle", "persist", "push", "mark", "read", "cursor", "sweep"}]
  /\ DOMAIN fdRow = FeedTasks /\ DOMAIN fdUser = FeedTasks
  /\ fdSince \in [FeedTasks -> 0..MaxFeedTime]

(* A task has its row, its account and its time. *)
FeedAsked(h) ==
  /\ fdPc[h] \in {"push", "mark", "read"} => fdRow[h] \in RowIds /\ rows[fdRow[h]].at > 0
  /\ fdPc[h] \in {"read", "cursor", "sweep"} => fdUser[h] \in FeedAccounts
  /\ fdPc[h] = "sweep" /\ fdUser[h] \notin crossedMarks => fdSince[h] <= cursor[fdUser[h]]

(* A mark is of a branch row, and not older than the row. *)
MarkFits(a, r) == reads[a][r] > 0 => ~Direct(r) /\ rows[r].at > 0 /\ rows[r].at <= reads[a][r]

(* A push went to who is to have it, once, and before that nobody had it. *)
PushFits(r) ==
  /\ \A a \in FeedAccounts :
       pushed[a][r] <= 1 /\ (pushed[a][r] > 0 => rows[r].at > 0 /\ a \in Recipients(r))
  /\ \A h \in FeedTasks : fdPc[h] = "push" /\ fdRow[h] = r =>
       /\ \A a \in FeedAccounts : pushed[a][r] = 0
       /\ \A g \in FeedTasks \ {h} : ~(fdPc[g] = "push" /\ fdRow[g] = r)

FeedInv ==
  /\ FeedShaped
  /\ \A r \in RowIds : RowShape(r)
  /\ RowsInOrder
  /\ \A h \in FeedTasks : FeedAsked(h)
  /\ \A a \in FeedAccounts, r \in RowIds : MarkFits(a, r)
  /\ \A r \in RowIds : PushFits(r)

LEMMA FeedInvGivesRest ==
  FeedInv => FeedTypeOK /\ BadgeAgreesWithFeed /\ PushedOncePerEvent /\ PushedMaySee
 <1> SUFFICES ASSUME FeedInv PROVE FeedTypeOK /\ BadgeAgreesWithFeed /\ PushedOncePerEvent /\ PushedMaySee
   OBVIOUS
 <1>1. FeedTypeOK BY DEF FeedInv, FeedShaped, RowShape, FeedTypeOK
 <1>2. BadgeAgreesWithFeed
  <2> SUFFICES ASSUME NEW a \in FeedAccounts, NEW r \in RowIds
               PROVE  CountedUnread(a, r) <=> ~ShownRead(a, r)
    BY DEF BadgeAgreesWithFeed
  <2>1. PICK n \in Nat : n = reads[a][r] BY DEF FeedInv, FeedShaped
  <2>2. PICK c \in Nat : c = cursor[a] BY DEF FeedInv, FeedShaped
  <2>3. PICK t \in Nat : t = rows[r].at
   <3>1. PICK now \in Nat : now = feedNow BY FeedAssumption DEF FeedInv, FeedShaped
   <3>2. PICK t \in 0..now : t = rows[r].at BY <3>1 DEF FeedInv, RowShape
   <3> QED BY <3>1, <3>2
  <2>4. n > 0 => ~Direct(r) BY <2>1 DEF FeedInv, MarkFits
  <2> QED BY <2>1, <2>2, <2>3, <2>4 DEF CountedUnread, ShownRead
 <1>3. PushedOncePerEvent BY DEF FeedInv, PushFits, RowsInOrder, SameEvent, PushedOncePerEvent
 <1>4. PushedMaySee
  <2> SUFFICES ASSUME NEW a \in FeedAccounts, NEW r \in RowIds, pushed[a][r] > 0, Fresh(r),
                      a \in Staffers => rows[r].to = standing[a]
               PROVE  \/ rows[r].to = a
                      \/ rows[r].to \in ScopeBranches(a) /\ Holds(a, rows[r].to, rows[r].needs)
                      \/ a = Owner /\ rows[r].to \in FeedBranches /\ rows[r].needs \notin ownerHolds
    BY DEF PushedMaySee, Visible
  <2>1. a \in Recipients(r) /\ rows[r].at > 0 BY DEF FeedInv, PushFits
  <2>2. CASE Direct(r) BY <2>1, <2>2 DEF Recipients
  <2>3. CASE ~Direct(r)
   <3>1. rows[r].to \in FeedBranches BY <2>1, <2>3 DEF FeedInv, RowShape, Direct
   <3>2. CASE a = Owner BY <3>1, <3>2 DEF ScopeBranches, Holds, Granted
   <3>3. CASE a # Owner BY <2>1, <2>3, <3>1, <3>3 DEF Recipients, ScopeBranches, Holds
   <3> QED BY <3>2, <3>3
  <2> QED BY <2>2, <2>3
 <1> QED BY <1>1, <1>2, <1>3, <1>4

LEMMA FeedInvInit == FeedInit => FeedInv
 <1> SUFFICES ASSUME FeedInit PROVE FeedInv OBVIOUS
 <1>1. FeedShaped BY FeedAssumption DEF FeedInit, FeedShaped
 <1>2. (\A r \in RowIds : RowShape(r)) /\ RowsInOrder
  <2>1. \A r \in RowIds : rows[r] = NoRow BY DEF FeedInit
  <2>2. IsRow(NoRow) /\ NoRow.at = 0 /\ NoRow.to = NoTarget /\ ~NoRow.gone BY DEF NoRow, IsRow
  <2>3. feedNow = 1 BY DEF FeedInit
  <2> QED BY <2>1, <2>2, <2>3 DEF RowShape, RowsInOrder
 <1>3. \A h \in FeedTasks : FeedAsked(h) BY DEF FeedInit, FeedAsked
 <1>4. \A a \in FeedAccounts, r \in RowIds : MarkFits(a, r) BY DEF FeedInit, MarkFits
 <1>5. \A r \in RowIds : PushFits(r) BY DEF FeedInit, PushFits
 <1> QED BY <1>1, <1>2, <1>3, <1>4, <1>5 DEF FeedInv

LEMMA RowTimes ==
  ASSUME FeedInv, NEW r \in RowIds
  PROVE  rows[r].at \in Nat /\ (rows[r].at > 0 \/ (rows[r].at = 0 /\ rows[r] = NoRow))
 <1>1. PICK now \in Nat : now = feedNow BY FeedAssumption DEF FeedInv, FeedShaped
 <1>2. PICK t \in 0..now : t = rows[r].at BY <1>1 DEF FeedInv, RowShape
 <1>3. CASE t = 0
  <2>1. rows[r].at = 0 BY <1>2, <1>3
  <2>2. RowShape(r) BY DEF FeedInv
  <2>3. rows[r] = NoRow BY <2>1, <2>2, Zenon DEF RowShape
  <2>4. rows[r].at \in Nat BY <2>1
  <2> QED BY <2>1, <2>3, <2>4, Zenon
 <1>4. CASE t > 0 BY <1>2, <1>4
 <1> QED BY <1>2, <1>3, <1>4

(* What a step does to the rows: nothing to those that are there, but marks of
   reading, of sending and of being gone; and a row may be stored. *)
RowStays(r) ==
  /\ rows'[r].to = rows[r].to /\ rows'[r].needs = rows[r].needs
  /\ rows'[r].event = rows[r].event /\ rows'[r].at = rows[r].at
  /\ rows[r].read => rows'[r].read
  /\ rows[r].gone => rows'[r].gone
  /\ rows'[r].gone => rows[r].gone \/ Expired(r)

RowStored(r) ==
  /\ rows'[r].to \in Addressed /\ rows'[r].at = feedNow /\ rows'[r].gone = FALSE
  /\ \A q \in RowIds : q < r =>
       /\ rows[q].at > 0
       /\ rows[q].event = rows'[r].event /\ rows'[r].event # NoEvent => rows[q].gone

RowsKept ==
  /\ feedNow \in 1..MaxFeedTime /\ feedNow' \in 1..MaxFeedTime /\ feedNow <= feedNow'
  /\ DOMAIN rows' = RowIds /\ ownerHolds' = ownerHolds
  /\ \A r \in RowIds :
       /\ IsRow(rows'[r])
       /\ rows[r].at > 0 => RowStays(r)
       /\ rows[r].at = 0 => rows'[r] = rows[r] \/ RowStored(r)

LEMMA RowsFit ==
  ASSUME FeedInv, RowsKept
  PROVE  \A r \in RowIds : RowShape(r)' /\ (rows[r].at > 0 => rows'[r].at > 0 /\ (Direct(r)' <=> Direct(r))
                                            /\ Recipients(r)' = Recipients(r))
 <1> SUFFICES ASSUME NEW r \in RowIds
              PROVE  RowShape(r)' /\ (rows[r].at > 0 => rows'[r].at > 0 /\ (Direct(r)' <=> Direct(r))
                                           /\ Recipients(r)' = Recipients(r))
   OBVIOUS
 <1>1. PICK now \in Nat, now2 \in Nat : now = feedNow /\ now2 = feedNow' /\ now <= now2 /\ now > 0
   BY FeedAssumption DEF RowsKept
 <1>2. PICK t \in 0..now : t = rows[r].at BY <1>1 DEF FeedInv, RowShape
 <1>3. CASE t > 0
  <2>1. RowStays(r) /\ IsRow(rows'[r]) BY <1>2, <1>3 DEF RowsKept
  <2>2. rows[r].to \in FeedAccounts \cup FeedBranches BY <1>2, <1>3 DEF FeedInv, RowShape
  <2>3. rows'[r].gone => Expired(r)'
   <3>1. rows'[r].gone => Expired(r) BY <2>1 DEF FeedInv, RowShape, RowStays
   <3> QED BY <1>1, <1>2, <2>1, <3>1, FeedAssumption DEF Expired, RowStays
  <2>4. rows'[r].to = rows[r].to /\ rows'[r].at = t BY <1>2, <2>1 DEF RowStays
  <2>5. rows'[r].at \in 0..feedNow' /\ ~(rows'[r].at = 0) BY <1>1, <1>2, <1>3, <2>4
  <2>6. RowShape(r)' BY <2>1, <2>2, <2>3, <2>4, <2>5 DEF RowShape
  <2>7. (Direct(r)' <=> Direct(r)) /\ Recipients(r)' = Recipients(r)
    BY <2>1 DEF Direct, Recipients, Holds, Granted, RowStays, RowsKept
  <2> QED BY <1>2, <1>3, <2>4, <2>6, <2>7
 <1>4. CASE t = 0
  <2>1. CASE rows'[r] = rows[r]
   <3>1. rows[r] = NoRow BY <1>2, <1>4 DEF FeedInv, RowShape
   <3> QED BY <1>1, <1>2, <1>4, <2>1, <3>1 DEF RowShape, IsRow, NoRow
  <2>2. CASE RowStored(r)
   <3>1. rows'[r].to \in FeedAccounts \cup FeedBranches BY <2>2, FeedAssumption DEF FeedAccounts, RowStored
   <3>2. rows'[r].at \in 0..feedNow' /\ rows'[r].at > 0 BY <1>1, <2>2 DEF RowStored
   <3>3. IsRow(rows'[r]) /\ ~rows'[r].gone BY <2>2 DEF RowsKept, RowStored
   <3>4. RowShape(r)' BY <3>1, <3>2, <3>3 DEF RowShape
   <3> QED BY <1>2, <1>4, <3>4
  <2> QED BY <1>2, <1>4, <2>1, <2>2 DEF RowsKept
 <1> QED BY <1>2, <1>3, <1>4

LEMMA RowsStayInOrder ==
  ASSUME FeedInv, RowsKept PROVE RowsInOrder'
 <1> SUFFICES ASSUME NEW q \in RowIds, NEW r \in RowIds, q < r, rows'[r].at > 0
              PROVE  /\ rows'[q].at > 0
                     /\ SameEvent(q, r)' => rows'[q].at + Retention <= rows'[r].at
   BY DEF RowsInOrder
 <1>1. PICK now \in Nat : now = feedNow BY FeedAssumption DEF RowsKept
 <1>2. PICK t \in Nat, u \in Nat : t = rows[q].at /\ u = rows[r].at /\ t <= now /\ u <= now
  <2>1. PICK t \in 0..now : t = rows[q].at BY <1>1 DEF FeedInv, RowShape
  <2>2. PICK u \in 0..now : u = rows[r].at BY <1>1 DEF FeedInv, RowShape
  <2> QED BY <2>1, <2>2
 <1>3. CASE u > 0
  <2>1. t > 0 /\ (SameEvent(q, r) => t + Retention <= u) BY <1>2, <1>3 DEF FeedInv, RowsInOrder
  <2>2. RowStays(q) /\ RowStays(r) BY <1>2, <1>3, <2>1 DEF RowsKept
  <2>3. rows'[q].at = t /\ rows'[r].at = u /\ (SameEvent(q, r)' => SameEvent(q, r))
    BY <1>2, <2>2 DEF RowStays, SameEvent
  <2> QED BY <2>1, <2>3
 <1>4. CASE u = 0
  <2>0. rows'[r] # rows[r]
   <3> SUFFICES ASSUME rows'[r] = rows[r] PROVE FALSE OBVIOUS
   <3>1. rows'[r].at = 0 BY <1>2, <1>4
   <3>2. ~(0 > 0) OBVIOUS
   <3> QED BY <3>1, <3>2
  <2>1. RowStored(r) BY <1>2, <1>4, <2>0 DEF RowsKept
  <2>2. t > 0 /\ rows'[r].at = now BY <1>1, <1>2, <2>1 DEF RowStored
  <2>3. RowStays(q) BY <1>2, <2>2 DEF RowsKept
  <2>4. rows'[q].at = t /\ rows'[q].event = rows[q].event BY <1>2, <2>3 DEF RowStays
  <2>5. ASSUME SameEvent(q, r)' PROVE t + Retention <= now
   <3>1. rows[q].event = rows'[r].event /\ rows'[r].event # NoEvent BY <2>4, <2>5 DEF SameEvent
   <3>2. rows[q].gone BY <2>1, <3>1 DEF RowStored
   <3> QED BY <1>1, <1>2, <3>2 DEF FeedInv, RowShape, Expired
  <2> QED BY <2>2, <2>4, <2>5
 <1> QED BY <1>2, <1>3, <1>4

(* Steps that leave rows, marks and pushes alone, of one task. *)
OneTask(h) ==
  /\ fdPc' \in [FeedTasks -> {"idle", "persist", "push", "mark", "read", "cursor", "sweep"}]
  /\ DOMAIN fdRow' = FeedTasks /\ DOMAIN fdUser' = FeedTasks
  /\ fdSince' \in [FeedTasks -> 0..MaxFeedTime]
  /\ \A g \in FeedTasks \ {h} :
       fdPc'[g] = fdPc[g] /\ fdRow'[g] = fdRow[g] /\ fdUser'[g] = fdUser[g] /\ fdSince'[g] = fdSince[g]

(* Nothing that was marked or pushed changes, and watermarks move back only
   with the history told. *)
MarksGrow ==
  \A a \in FeedAccounts, r \in RowIds :
    reads'[a][r] > 0 => reads'[a][r] = reads[a][r] \/ (~Direct(r) /\ rows[r].at > 0 /\ reads'[a][r] = feedNow)
CursorsKept ==
  /\ cursor' \in [FeedAccounts -> 0..MaxFeedTime]
  /\ crossedMarks \subseteq crossedMarks'
  /\ \A a \in FeedAccounts \ crossedMarks' : cursor[a] <= cursor'[a]

LEMMA OthersAsked ==
  ASSUME FeedInv, RowsKept, CursorsKept, NEW h, OneTask(h)
  PROVE  \A g \in FeedTasks \ {h} : FeedAsked(g)'
 <1> SUFFICES ASSUME NEW g \in FeedTasks \ {h} PROVE FeedAsked(g)' OBVIOUS
 <1>1. fdPc'[g] = fdPc[g] /\ fdRow'[g] = fdRow[g] /\ fdUser'[g] = fdUser[g] /\ fdSince'[g] = fdSince[g]
   BY DEF OneTask
 <1>2. FeedAsked(g) BY DEF FeedInv
 <1>3. \A r \in RowIds : rows[r].at > 0 => rows'[r].at > 0 BY RowsFit
 <1>4. ASSUME fdPc'[g] = "sweep", fdUser'[g] \notin crossedMarks'
       PROVE  fdSince'[g] <= cursor'[fdUser'[g]]
  <2>1. PICK u \in FeedAccounts : u = fdUser[g] BY <1>1, <1>2, <1>4 DEF FeedAsked
  <2>2. u \notin crossedMarks /\ u \notin crossedMarks' BY <1>1, <1>4, <2>1 DEF CursorsKept
  <2>3. PICK s \in 0..MaxFeedTime : s = fdSince[g] BY DEF FeedInv, FeedShaped
  <2>4. PICK c \in 0..MaxFeedTime, d \in 0..MaxFeedTime : c = cursor[u] /\ d = cursor'[u]
    BY DEF FeedInv, FeedShaped, CursorsKept
  <2>5. s <= c /\ c <= d BY <1>1, <1>2, <1>4, <2>1, <2>2, <2>3, <2>4 DEF FeedAsked, CursorsKept
  <2> QED BY <1>1, <2>1, <2>3, <2>4, <2>5, FeedAssumption
 <1> QED BY <1>1, <1>2, <1>3, <1>4 DEF FeedAsked

LEMMA MarksFit ==
  ASSUME FeedInv, RowsKept, MarksGrow
  PROVE  \A a \in FeedAccounts, r \in RowIds : MarkFits(a, r)'
 <1> SUFFICES ASSUME NEW a \in FeedAccounts, NEW r \in RowIds, reads'[a][r] > 0
              PROVE  ~Direct(r)' /\ rows'[r].at > 0 /\ rows'[r].at <= reads'[a][r]
   BY DEF MarkFits
 <1>1. ~Direct(r) /\ rows[r].at > 0 /\ rows[r].at <= reads'[a][r]
  <2>1. CASE reads'[a][r] = reads[a][r] BY <2>1 DEF FeedInv, MarkFits
  <2>2. CASE ~Direct(r) /\ rows[r].at > 0 /\ reads'[a][r] = feedNow
   <3>1. PICK now \in Nat : now = feedNow BY FeedAssumption DEF RowsKept
   <3>2. PICK t \in 0..now : t = rows[r].at BY <3>1 DEF FeedInv, RowShape
   <3> QED BY <2>2, <3>1, <3>2
  <2> QED BY <2>1, <2>2 DEF MarksGrow
 <1>2. rows'[r].at = rows[r].at BY <1>1 DEF RowsKept, RowStays
 <1> QED BY <1>1, <1>2, RowsFit

(* A step that pushes nothing, and sends no task to push a row that is there. *)
LEMMA PushesFit ==
  ASSUME FeedInv, RowsKept, NEW h, OneTask(h), pushed' = pushed,
         h \in FeedTasks /\ fdPc'[h] = "push" => fdRow'[h] \in RowIds /\ rows[fdRow'[h]].at = 0
  PROVE  \A r \in RowIds : PushFits(r)'
 <1> SUFFICES ASSUME NEW r \in RowIds PROVE PushFits(r)' OBVIOUS
 <1>1. \A a \in FeedAccounts :
         pushed'[a][r] <= 1 /\ (pushed'[a][r] > 0 => rows'[r].at > 0 /\ a \in Recipients(r)')
   BY RowsFit DEF FeedInv, PushFits
 <1>2. \A g \in FeedTasks : fdPc'[g] = "push" /\ fdRow'[g] = r =>
         /\ \A a \in FeedAccounts : pushed'[a][r] = 0
         /\ \A f \in FeedTasks \ {g} : ~(fdPc'[f] = "push" /\ fdRow'[f] = r)
  <2> SUFFICES ASSUME NEW g \in FeedTasks, fdPc'[g] = "push", fdRow'[g] = r
               PROVE  /\ \A a \in FeedAccounts : pushed'[a][r] = 0
                      /\ \A f \in FeedTasks \ {g} : ~(fdPc'[f] = "push" /\ fdRow'[f] = r)
    OBVIOUS
  <2>1. CASE g = h
   <3>1. rows[r].at = 0 BY <2>1
   <3>2. \A f \in FeedTasks : ~(fdPc[f] = "push" /\ fdRow[f] = r) BY <3>1 DEF FeedInv, FeedAsked
   <3>3. \A a \in FeedAccounts : pushed[a][r] = 0
    <4> SUFFICES ASSUME NEW a \in FeedAccounts PROVE pushed[a][r] = 0 OBVIOUS
    <4>1. PICK n \in Nat : n = pushed[a][r] BY DEF FeedInv, FeedShaped
    <4>2. ~(n > 0) BY <3>1, <4>1 DEF FeedInv, PushFits
    <4> QED BY <4>1, <4>2
   <3> QED BY <2>1, <3>2, <3>3 DEF OneTask
  <2>2. CASE g # h
   <3>1. fdPc[g] = "push" /\ fdRow[g] = r BY <2>2 DEF OneTask
   <3>2. rows[r].at > 0 BY <3>1 DEF FeedInv, FeedAsked
   <3>3. ~(h \in FeedTasks /\ fdPc'[h] = "push" /\ fdRow'[h] = r) BY <3>2
   <3> QED BY <2>2, <3>1, <3>3 DEF FeedInv, PushFits, OneTask
  <2> QED BY <2>1, <2>2
 <1> QED BY <1>1, <1>2 DEF PushFits

(* No mark is lost that the watermark does not stand for, but with its row. *)
MarksHold ==
  \A a \in FeedAccounts \ crossedMarks', r \in RowIds :
    reads[a][r] > 0 => reads'[a][r] > 0 \/ rows[r].at <= cursor'[a] \/ Expired(r)

LEMMA ReadKept ==
  ASSUME FeedInv, RowsKept, CursorsKept, MarksHold
  PROVE  ReadStaysRead
 <1> SUFFICES ASSUME NEW a \in FeedAccounts, NEW r \in RowIds, Stored(r), ShownRead(a, r), Fresh(r)',
                     a \notin crossedMarks'
              PROVE  ShownRead(a, r)'
   BY DEF ReadStaysRead
 <1>1. PICK now \in Nat, now2 \in Nat : now = feedNow /\ now2 = feedNow' /\ now <= now2
   BY FeedAssumption DEF RowsKept
 <1>2. PICK t \in 0..now : t = rows[r].at BY <1>1 DEF FeedInv, RowShape
 <1>3. t > 0 BY <1>2 DEF Stored
 <1>4. /\ rows'[r].at = t /\ (rows[r].read => rows'[r].read) /\ (Direct(r)' <=> Direct(r))
   BY <1>2, <1>3, RowsFit DEF RowsKept, RowStays
 <1>9. ~Expired(r) BY <1>1, <1>2, <1>4, FeedAssumption DEF Fresh, Expired
 <1>5. PICK c \in 0..MaxFeedTime, d \in 0..MaxFeedTime : c = cursor[a] /\ d = cursor'[a] /\ c <= d
   BY DEF FeedInv, FeedShaped, CursorsKept
 <1>6. CASE t <= c BY <1>2, <1>4, <1>5, <1>6, FeedAssumption DEF ShownRead
 <1>7. CASE ~(t <= c) /\ Direct(r) BY <1>2, <1>4, <1>5, <1>7 DEF ShownRead
 <1>8. CASE ~(t <= c) /\ ~Direct(r)
  <2>1. reads[a][r] > 0 BY <1>2, <1>5, <1>8 DEF ShownRead
  <2>2. reads'[a][r] > 0 \/ t <= d BY <1>2, <1>5, <1>9, <2>1 DEF MarksHold
  <2> QED BY <1>4, <1>5, <1>8, <2>2 DEF ShownRead
 <1> QED BY <1>6, <1>7, <1>8

(* How a step of one task keeps the invariant, its own part apart. *)
LEMMA FeedStepKeeps ==
  ASSUME FeedInv, RowsKept, CursorsKept, MarksGrow, MarksHold, NEW h \in FeedTasks, OneTask(h),
         pushed' = pushed, reads' \in [FeedAccounts -> [RowIds -> 0..MaxFeedTime]], FeedAsked(h)',
         fdPc'[h] = "push" => fdRow'[h] \in RowIds /\ rows[fdRow'[h]].at = 0
  PROVE  FeedInv' /\ ReadStaysRead
 <1>1. FeedShaped' BY DEF FeedInv, FeedShaped, RowsKept, CursorsKept, OneTask
 <1>2. \A g \in FeedTasks : FeedAsked(g)' BY OthersAsked
 <1> QED BY <1>1, <1>2, RowsFit, RowsStayInOrder, MarksFit, PushesFit, ReadKept DEF FeedInv

(* What a step leaves alone. *)
LEMMA RowsAlone ==
  ASSUME FeedInv, UNCHANGED <<rows, ownerHolds>>, feedNow' \in 1..MaxFeedTime, feedNow <= feedNow'
  PROVE  RowsKept
 <1> QED BY DEF FeedInv, FeedShaped, RowShape, RowStays, RowsKept

LEMMA TimeStands ==
  ASSUME FeedInv, feedNow' = feedNow PROVE feedNow' \in 1..MaxFeedTime /\ feedNow <= feedNow'
 <1>1. PICK now \in Nat : now = feedNow BY FeedAssumption DEF FeedInv, FeedShaped
 <1> QED BY <1>1 DEF FeedInv, FeedShaped

LEMMA MarksAlone ==
  ASSUME FeedInv, UNCHANGED reads
  PROVE  MarksGrow /\ MarksHold /\ reads' \in [FeedAccounts -> [RowIds -> 0..MaxFeedTime]]
  BY DEF FeedInv, FeedShaped, MarksGrow, MarksHold

LEMMA CursorsAlone ==
  ASSUME FeedInv, UNCHANGED <<cursor, crossedMarks>> PROVE CursorsKept
 <1> SUFFICES ASSUME NEW a \in FeedAccounts PROVE cursor[a] <= cursor[a]
   BY DEF CursorsKept, FeedInv, FeedShaped
 <1>1. PICK c \in 0..MaxFeedTime : c = cursor[a] BY DEF FeedInv, FeedShaped
 <1> QED BY <1>1, FeedAssumption

LEMMA TaskEnds ==
  ASSUME FeedInv, NEW h \in FeedTasks, FeedEnd(h)
  PROVE  OneTask(h) /\ FeedAsked(h)' /\ fdPc'[h] = "idle"
 <1>1. OneTask(h) /\ fdPc'[h] = "idle"
   BY FeedAssumption DEF FeedInv, FeedShaped, FeedEnd, FeedGoto, OneTask
 <1> QED BY <1>1 DEF FeedAsked

LEMMA FeedBegun ==
  ASSUME FeedInv, NEW h \in FeedTasks,
         \/ \E e \in FeedEvents \cup {NoEvent} : Report(h, e)
         \/ \E a \in FeedAccounts, r \in RowIds : BeginMarkRead(h, a, r)
         \/ \E a \in FeedAccounts : BeginMarkAll(h, a)
  PROVE  FeedInv' /\ ReadStaysRead
 <1>1. /\ UNCHANGED <<feedNow, rows, cursor, crossedMarks, reads, pushed>>
       /\ RowsKept /\ CursorsKept /\ MarksGrow /\ MarksHold
       /\ reads' \in [FeedAccounts -> [RowIds -> 0..MaxFeedTime]]
  <2>1. UNCHANGED <<feedNow, rows, ownerHolds, cursor, crossedMarks, reads, pushed>>
    BY DEF Report, BeginMarkRead, BeginMarkAll, feedRows, feedPeople
  <2> QED BY <2>1, TimeStands, RowsAlone, MarksAlone, CursorsAlone
 <1>2. ASSUME NEW e, Report(h, e) PROVE FeedInv' /\ ReadStaysRead
  <2>1. OneTask(h) /\ fdPc'[h] = "persist"
    BY <1>2 DEF Report, FeedBegin, FeedGoto, OneTask, FeedInv, FeedShaped
  <2>2. FeedAsked(h)' BY <2>1 DEF FeedAsked
  <2> QED BY <1>1, <2>1, <2>2, FeedStepKeeps
 <1>3. ASSUME NEW r \in RowIds, NEW a \in FeedAccounts, BeginMarkRead(h, a, r)
       PROVE  FeedInv' /\ ReadStaysRead
  <2>1. OneTask(h) /\ fdPc'[h] = "read" /\ fdRow'[h] = r /\ fdUser'[h] = a
    BY <1>3 DEF BeginMarkRead, FeedBegin, FeedGoto, OneTask, FeedInv, FeedShaped
  <2>2. rows'[r].at > 0 BY <1>1, <1>3 DEF BeginMarkRead, Visible, Fresh, Stored
  <2>3. FeedAsked(h)' BY <2>1, <2>2 DEF FeedAsked
  <2> QED BY <1>1, <2>1, <2>3, FeedStepKeeps
 <1>4. ASSUME NEW a \in FeedAccounts, BeginMarkAll(h, a) PROVE FeedInv' /\ ReadStaysRead
  <2>1. feedNow \in 0..MaxFeedTime BY FeedAssumption DEF FeedInv, FeedShaped
  <2>2. OneTask(h) /\ fdPc'[h] = "cursor" /\ fdUser'[h] = a
    BY <1>4, <2>1 DEF BeginMarkAll, FeedBegin, FeedGoto, OneTask, FeedInv, FeedShaped
  <2>3. FeedAsked(h)' BY <2>2 DEF FeedAsked
  <2> QED BY <1>1, <2>2, <2>3, FeedStepKeeps
 <1> QED BY <1>2, <1>3, <1>4

LEMMA FeedPersisted ==
  ASSUME FeedInv, NEW h \in FeedTasks, Persist(h)
  PROVE  FeedInv' /\ ReadStaysRead
 <1>2. /\ CursorsKept /\ MarksGrow /\ MarksHold /\ pushed' = pushed
       /\ feedNow' = feedNow /\ ownerHolds' = ownerHolds
       /\ reads' \in [FeedAccounts -> [RowIds -> 0..MaxFeedTime]]
   BY MarksAlone, CursorsAlone DEF Persist, feedPeople
 <1>3. CASE FeedDone(h) /\ UNCHANGED rows
  <2>1. FeedEnd(h) /\ rows' = rows BY <1>3 DEF FeedDone
  <2> QED BY <1>2, <2>1, TimeStands, RowsAlone, TaskEnds, FeedStepKeeps
 <1>4. CASE (\A r \in RowIds : ~Reported(fdRow[h], r)) /\ StoreRow(h)
  <2>1. PICK r \in RowIds, to \in Addressed, needs \in NeededGrants :
          /\ rows[r] = NoRow /\ \A q \in RowIds : q < r => rows[q] # NoRow
          /\ rows' = [rows EXCEPT ![r] =
                        [NoRow EXCEPT !.to = to, !.needs = needs, !.event = fdRow[h], !.at = feedNow]]
          /\ FeedGoto(h, "push") /\ fdRow' = [fdRow EXCEPT ![h] = r]
          /\ UNCHANGED <<fdUser, fdSince, feedCalls>>
    BY <1>4 DEF StoreRow
  <2>3. OneTask(h) /\ fdPc'[h] = "push" /\ fdRow'[h] = r
    BY <2>1 DEF OneTask, FeedInv, FeedShaped, FeedGoto
  <2>4. PICK now \in Nat : now = feedNow /\ now > 0 BY FeedAssumption DEF FeedInv, FeedShaped
  <2>5. /\ rows'[r] = [to |-> to, needs |-> needs, event |-> fdRow[h], at |-> feedNow,
                       read |-> FALSE, sent |-> FALSE, gone |-> FALSE]
        /\ \A q \in RowIds \ {r} : rows'[q] = rows[q]
        /\ DOMAIN rows' = RowIds
    BY <2>1 DEF NoRow, FeedInv, FeedShaped
  <2>6. rows[r].at = 0 BY <2>1 DEF NoRow
  <2>7. RowsKept
   <3>1. \A q \in RowIds \ {r} :
           IsRow(rows'[q]) /\ rows'[q] = rows[q] /\ (rows[q].at > 0 => RowStays(q))
     BY <2>5 DEF FeedInv, RowShape, RowStays
   <3>2. ASSUME NEW q \in RowIds, q < r
         PROVE  /\ rows[q].at > 0
                /\ rows[q].event = fdRow[h] /\ fdRow[h] # NoEvent => rows[q].gone
    <4>1. rows[q].at > 0 BY <2>1, <3>2, RowTimes
    <4> QED BY <1>4, <4>1 DEF Reported, Stored
   <3>3. IsRow(rows'[r]) /\ rows'[r].event = fdRow[h] BY <2>5 DEF IsRow
   <3>4. RowStored(r) BY <2>5, <3>2, <3>3 DEF RowStored
   <3>5. feedNow \in 1..MaxFeedTime /\ feedNow' \in 1..MaxFeedTime /\ feedNow <= feedNow'
     BY <1>2, TimeStands DEF FeedInv, FeedShaped
   <3>6. ~(rows[r].at > 0) BY <2>6
   <3> QED BY <1>2, <2>5, <3>1, <3>3, <3>4, <3>5, <3>6 DEF RowsKept
  <2>8. FeedAsked(h)'
   <3>1. rows'[r].at > 0 BY <2>4, <2>5
   <3> QED BY <2>3, <3>1 DEF FeedAsked
  <2> QED BY <1>2, <2>3, <2>6, <2>7, <2>8, FeedStepKeeps
 <1> QED BY <1>3, <1>4 DEF Persist

(* A row that is marked: read, sent or gone. *)
MarkedAs(m, n) ==
  \/ n = [m EXCEPT !.read = TRUE]
  \/ n = [m EXCEPT !.sent = TRUE]

LEMMA RowsMarked ==
  ASSUME FeedInv, feedNow' = feedNow, ownerHolds' = ownerHolds, DOMAIN rows' = RowIds,
         \A r \in RowIds : \/ rows'[r] = rows[r]
                           \/ rows[r].at > 0 /\ MarkedAs(rows[r], rows'[r])
                           \/ rows[r].at > 0 /\ Expired(r) /\ rows'[r] = [rows[r] EXCEPT !.gone = TRUE]
  PROVE  RowsKept
 <1>1. feedNow \in 1..MaxFeedTime /\ feedNow' \in 1..MaxFeedTime /\ feedNow <= feedNow'
   BY TimeStands DEF FeedInv, FeedShaped
 <1>2. ASSUME NEW r \in RowIds
       PROVE  /\ IsRow(rows'[r])
              /\ rows[r].at > 0 => RowStays(r)
              /\ rows[r].at = 0 => rows'[r] = rows[r]
  <2>1. PICK m : m = rows[r] /\ IsRow(m) BY DEF FeedInv, RowShape
  <2>2. m.at \in Nat BY <2>1, RowTimes
  <2>3. CASE rows'[r] = rows[r] BY <2>1, <2>3 DEF RowStays
  <2>4. CASE m.at > 0 /\ rows'[r] = [m EXCEPT !.read = TRUE]
   <3>1. rows'[r] = [to |-> m.to, needs |-> m.needs, event |-> m.event, at |-> m.at,
                     read |-> TRUE, sent |-> m.sent, gone |-> m.gone]
     BY <2>1, <2>4 DEF IsRow
   <3>2. IsRow(rows'[r]) /\ RowStays(r) BY <2>1, <3>1 DEF IsRow, RowStays
   <3> QED BY <2>1, <2>2, <2>4, <3>2
  <2>5. CASE m.at > 0 /\ rows'[r] = [m EXCEPT !.sent = TRUE]
   <3>1. rows'[r] = [to |-> m.to, needs |-> m.needs, event |-> m.event, at |-> m.at,
                     read |-> m.read, sent |-> TRUE, gone |-> m.gone]
     BY <2>1, <2>5 DEF IsRow
   <3>2. IsRow(rows'[r]) /\ RowStays(r) BY <2>1, <3>1 DEF IsRow, RowStays
   <3> QED BY <2>1, <2>2, <2>5, <3>2
  <2>6. CASE m.at > 0 /\ Expired(r) /\ rows'[r] = [m EXCEPT !.gone = TRUE]
   <3>1. rows'[r] = [to |-> m.to, needs |-> m.needs, event |-> m.event, at |-> m.at,
                     read |-> m.read, sent |-> m.sent, gone |-> TRUE]
     BY <2>1, <2>6 DEF IsRow
   <3>2. IsRow(rows'[r]) /\ RowStays(r) BY <2>1, <2>6, <3>1 DEF IsRow, RowStays
   <3> QED BY <2>1, <2>2, <2>6, <3>2
  <2> QED BY <2>1, <2>3, <2>4, <2>5, <2>6 DEF MarkedAs
 <1> QED BY <1>1, <1>2 DEF RowsKept

LEMMA FeedMarkedPushed ==
  ASSUME FeedInv, NEW h \in FeedTasks, MarkPushed(h)
  PROVE  FeedInv' /\ ReadStaysRead
 <1>1. PICK r \in RowIds : r = fdRow[h] /\ rows[r].at > 0 BY DEF FeedInv, FeedAsked, MarkPushed
 <1>2. /\ CursorsKept /\ MarksGrow /\ MarksHold /\ pushed' = pushed
       /\ feedNow' = feedNow /\ ownerHolds' = ownerHolds
       /\ reads' \in [FeedAccounts -> [RowIds -> 0..MaxFeedTime]]
   BY MarksAlone, CursorsAlone DEF MarkPushed, feedPeople
 <1>3. /\ DOMAIN rows' = RowIds
       /\ rows'[r] = rows[r] \/ MarkedAs(rows[r], rows'[r])
       /\ \A q \in RowIds \ {r} : rows'[q] = rows[q]
   BY <1>1 DEF MarkPushed, FeedInv, FeedShaped, MarkedAs
 <1>4. RowsKept BY <1>1, <1>2, <1>3, RowsMarked
 <1> QED BY <1>2, <1>4, TaskEnds, FeedStepKeeps DEF MarkPushed, FeedDone

LEMMA FeedMarkedRead ==
  ASSUME FeedInv, NEW h \in FeedTasks, MarkRead(h)
  PROVE  FeedInv' /\ ReadStaysRead
 <1>1. PICK r \in RowIds : r = fdRow[h] /\ rows[r].at > 0 BY DEF FeedInv, FeedAsked, MarkRead
 <1>2. PICK u \in FeedAccounts : u = fdUser[h] BY DEF FeedInv, FeedAsked, MarkRead
 <1>3. CursorsKept /\ pushed' = pushed /\ feedNow' = feedNow /\ ownerHolds' = ownerHolds
   BY CursorsAlone DEF MarkRead, feedPeople
 <1>4. OneTask(h) /\ FeedAsked(h)' /\ fdPc'[h] = "idle" BY TaskEnds DEF MarkRead, FeedDone
 <1>5. CASE Direct(r)
  <2>1. rows' = (IF Stored(r) THEN [rows EXCEPT ![r].read = TRUE] ELSE rows) /\ reads' = reads
    BY <1>1, <1>5 DEF MarkRead
  <2>2. /\ DOMAIN rows' = RowIds
        /\ rows'[r] = rows[r] \/ MarkedAs(rows[r], rows'[r])
        /\ \A q \in RowIds \ {r} : rows'[q] = rows[q]
    BY <2>1 DEF FeedInv, FeedShaped, MarkedAs
  <2>3. RowsKept BY <1>1, <1>3, <2>2, RowsMarked
  <2> QED BY <1>3, <1>4, <2>1, <2>3, MarksAlone, FeedStepKeeps
 <1>6. CASE ~Direct(r)
  <2>1. rows' = rows /\ reads' = [reads EXCEPT ![u][r] = IF @ = 0 THEN feedNow ELSE @]
    BY <1>1, <1>2, <1>6 DEF MarkRead
  <2>2. PICK now \in Nat : now = feedNow /\ now > 0 /\ now \in 0..MaxFeedTime
    BY FeedAssumption DEF FeedInv, FeedShaped
  <2>3. /\ reads' \in [FeedAccounts -> [RowIds -> 0..MaxFeedTime]]
        /\ reads'[u][r] = IF reads[u][r] = 0 THEN now ELSE reads[u][r]
        /\ \A a \in FeedAccounts, q \in RowIds : <<a, q>> # <<u, r>> => reads'[a][q] = reads[a][q]
    BY <2>1, <2>2 DEF FeedInv, FeedShaped
  <2>4. MarksGrow BY <1>1, <1>6, <2>2, <2>3 DEF MarksGrow
  <2>5. MarksHold BY <2>2, <2>3 DEF MarksHold
  <2> QED BY <1>3, <1>4, <2>1, <2>3, <2>4, <2>5, TimeStands, RowsAlone, FeedStepKeeps
 <1> QED BY <1>5, <1>6

LEMMA FeedCursorMoved ==
  ASSUME FeedInv, NEW h \in FeedTasks, MoveCursor(h)
  PROVE  FeedInv' /\ ReadStaysRead
 <1>1. PICK u \in FeedAccounts : u = fdUser[h] BY DEF FeedInv, FeedAsked, MoveCursor
 <1>2. PICK s \in 0..MaxFeedTime : s = fdSince[h] BY DEF FeedInv, FeedShaped
 <1>3. /\ RowsKept /\ MarksGrow /\ MarksHold /\ pushed' = pushed
       /\ reads' \in [FeedAccounts -> [RowIds -> 0..MaxFeedTime]]
   BY MarksAlone, TimeStands, RowsAlone DEF MoveCursor, feedPeople
 <1>4. /\ cursor' \in [FeedAccounts -> 0..MaxFeedTime] /\ cursor'[u] = s
       /\ \A a \in FeedAccounts \ {u} : cursor'[a] = cursor[a]
       /\ crossedMarks' = crossedMarks \cup (IF cursor[u] > s THEN {u} ELSE {})
   BY <1>1, <1>2 DEF MoveCursor, FeedInv, FeedShaped
 <1>5. CursorsKept
  <2>1. ASSUME NEW a \in FeedAccounts \ crossedMarks' PROVE cursor[a] <= cursor'[a]
   <3>1. PICK c \in 0..MaxFeedTime : c = cursor[a] BY DEF FeedInv, FeedShaped
   <3> QED BY <1>4, <2>1, <3>1, FeedAssumption
  <2> QED BY <1>4, <2>1 DEF CursorsKept
 <1>6. /\ OneTask(h) /\ fdPc'[h] = "sweep" /\ fdUser'[h] = u /\ fdSince'[h] = s
   BY <1>1, <1>2 DEF MoveCursor, FeedGoto, OneTask, FeedInv, FeedShaped
 <1>7. FeedAsked(h)' BY <1>4, <1>6, FeedAssumption DEF FeedAsked
 <1> QED BY <1>3, <1>5, <1>6, <1>7, FeedStepKeeps

LEMMA FeedSwept ==
  ASSUME FeedInv, NEW h \in FeedTasks, SweepMarks(h)
  PROVE  FeedInv' /\ ReadStaysRead
 <1>1. PICK u \in FeedAccounts : u = fdUser[h] BY DEF FeedInv, FeedAsked, SweepMarks
 <1>2. PICK s \in 0..MaxFeedTime : s = fdSince[h] BY DEF FeedInv, FeedShaped
 <1>3. /\ CursorsKept /\ pushed' = pushed /\ feedNow' = feedNow /\ cursor' = cursor
       /\ crossedMarks' = crossedMarks /\ ownerHolds' = ownerHolds
   BY CursorsAlone DEF SweepMarks, feedPeople
 <1>4. OneTask(h) /\ FeedAsked(h)' /\ fdPc'[h] = "idle" BY TaskEnds DEF SweepMarks, FeedDone
 <1>5. RowsKept
  <2>1. DOMAIN rows' = RowIds BY DEF SweepMarks
  <2>2. ASSUME NEW r \in RowIds
        PROVE  rows'[r] = rows[r] \/ (rows[r].at > 0 /\ MarkedAs(rows[r], rows'[r]))
    BY DEF SweepMarks, Stored, MarkedAs
  <2> QED BY <1>3, <2>1, <2>2, RowsMarked
 <1>6. /\ reads' \in [FeedAccounts -> [RowIds -> 0..MaxFeedTime]]
       /\ \A r \in RowIds : reads'[u][r] = IF reads[u][r] <= s THEN 0 ELSE reads[u][r]
       /\ \A a \in FeedAccounts \ {u} : reads'[a] = reads[a]
  <2>1. reads' = [reads EXCEPT ![u] = [r \in RowIds |-> IF reads[u][r] <= s THEN 0 ELSE reads[u][r]]]
    BY <1>1, <1>2 DEF SweepMarks
  <2>2. [r \in RowIds |-> IF reads[u][r] <= s THEN 0 ELSE reads[u][r]] \in [RowIds -> 0..MaxFeedTime]
    BY FeedAssumption DEF FeedInv, FeedShaped
  <2> QED BY <2>1, <2>2 DEF FeedInv, FeedShaped
 <1>7. MarksGrow BY <1>6 DEF MarksGrow
 <1>8. MarksHold
  <2> SUFFICES ASSUME NEW a \in FeedAccounts \ crossedMarks', NEW r \in RowIds, reads[a][r] > 0
               PROVE  reads'[a][r] > 0 \/ rows[r].at <= cursor'[a]
    BY DEF MarksHold
  <2>1. CASE a # u BY <1>6, <2>1
  <2>2. CASE a = u
   <3>1. PICK n \in 0..MaxFeedTime : n = reads[u][r] BY DEF FeedInv, FeedShaped
   <3>2. PICK c \in 0..MaxFeedTime : c = cursor[u] BY DEF FeedInv, FeedShaped
   <3>3. PICK now \in Nat : now = feedNow BY FeedAssumption DEF FeedInv, FeedShaped
   <3>4. PICK t \in 0..now : t = rows[r].at BY <3>3 DEF FeedInv, RowShape
   <3>5. t <= n BY <2>2, <3>1, <3>4 DEF FeedInv, MarkFits
   <3>6. s <= c BY <1>1, <1>2, <1>3, <2>2, <3>2 DEF SweepMarks, FeedInv, FeedAsked
   <3>7. CASE n <= s BY <1>3, <2>2, <3>2, <3>4, <3>5, <3>6, <3>7, FeedAssumption
   <3>8. CASE ~(n <= s) BY <1>6, <2>2, <3>1, <3>8
   <3> QED BY <3>7, <3>8
  <2> QED BY <2>1, <2>2
 <1> QED BY <1>3, <1>4, <1>5, <1>6, <1>7, <1>8, FeedStepKeeps

LEMMA FeedTaskLost ==
  ASSUME FeedInv, NEW h \in FeedTasks, LoseFeedTask(h)
  PROVE  FeedInv' /\ ReadStaysRead
 <1>1. UNCHANGED <<feedNow, rows, ownerHolds, cursor, crossedMarks, reads, pushed>>
   BY DEF LoseFeedTask, feedRows, feedPeople
 <1> QED BY <1>1, TimeStands, RowsAlone, MarksAlone, CursorsAlone, TaskEnds, FeedStepKeeps DEF LoseFeedTask

LEMMA FeedPushedOut ==
  ASSUME FeedInv, NEW h \in FeedTasks, Push(h)
  PROVE  FeedInv' /\ ReadStaysRead
 <1>1. PICK r \in RowIds : r = fdRow[h] /\ rows[r].at > 0 BY DEF FeedInv, FeedAsked, Push
 <1>2. /\ RowsKept /\ CursorsKept /\ MarksGrow /\ MarksHold /\ rows' = rows
       /\ reads' \in [FeedAccounts -> [RowIds -> 0..MaxFeedTime]]
   BY TimeStands, RowsAlone, MarksAlone, CursorsAlone DEF Push, feedRows, feedPeople
 <1>3. OneTask(h) /\ fdPc'[h] = "mark" /\ fdRow'[h] = r /\ fdPc[h] = "push"
   BY <1>1 DEF Push, FeedGoto, OneTask, FeedInv, FeedShaped
 <1>4. FeedAsked(h)' BY <1>1, <1>2, <1>3 DEF FeedAsked
 <1>5. \A a \in FeedAccounts : pushed[a][r] = 0 BY <1>1, <1>3 DEF FeedInv, PushFits
 <1>6. /\ pushed' \in [FeedAccounts -> [RowIds -> Nat]]
       /\ \A a \in FeedAccounts : pushed'[a][r] = IF a \in Recipients(r) THEN 1 ELSE 0
       /\ \A a \in FeedAccounts, q \in RowIds \ {r} : pushed'[a][q] = pushed[a][q]
  <2>1. pushed' = [a \in FeedAccounts |-> IF a \in Recipients(r)
                                          THEN [pushed[a] EXCEPT ![r] = @ + 1] ELSE pushed[a]]
    BY <1>1 DEF Push
  <2>2. \A a \in FeedAccounts : pushed[a] \in [RowIds -> Nat] BY DEF FeedInv, FeedShaped
  <2> HIDE DEF Recipients
  <2> QED BY <1>5, <2>1, <2>2
 <1>7. FeedShaped' BY <1>2, <1>3, <1>6 DEF FeedInv, FeedShaped, RowsKept, CursorsKept, OneTask
 <1>8. \A g \in FeedTasks : FeedAsked(g)' BY <1>2, <1>3, <1>4, OthersAsked
 <1>9. ASSUME NEW q \in RowIds PROVE PushFits(q)'
  <2>1. CASE q = r
   <3>1. \A g \in FeedTasks : ~(fdPc'[g] = "push" /\ fdRow'[g] = r)
     BY <1>1, <1>3 DEF FeedInv, PushFits, OneTask
   <3>2. Recipients(r)' = Recipients(r) /\ rows'[r].at > 0 BY <1>1, <1>2, RowsFit
   <3> QED BY <1>6, <2>1, <3>1, <3>2 DEF PushFits
  <2>2. CASE q # r
   <3>1. \A a \in FeedAccounts : pushed'[a][q] = pushed[a][q] BY <1>6, <2>2
   <3>2. \A g \in FeedTasks : fdPc'[g] = "push" /\ fdRow'[g] = q => fdPc[g] = "push" /\ fdRow[g] = q
     BY <1>3, <2>2 DEF OneTask
   <3>3. rows[q].at > 0 => rows'[q].at > 0 /\ Recipients(q)' = Recipients(q) BY <1>2, RowsFit
   <3>4. PushFits(q) BY DEF FeedInv
   <3> QED BY <3>1, <3>2, <3>3, <3>4 DEF PushFits
  <2> QED BY <2>1, <2>2
 <1> QED BY <1>2, <1>7, <1>8, <1>9, RowsFit, RowsStayInOrder, MarksFit, ReadKept DEF FeedInv

(* A step of no task: the clock, and what the database deletes. *)
LEMMA FeedAlone ==
  ASSUME FeedInv, RowsKept, MarksGrow, MarksHold, UNCHANGED <<cursor, pushed, feedTask, crossedMarks>>,
         reads' \in [FeedAccounts -> [RowIds -> 0..MaxFeedTime]]
  PROVE  FeedInv' /\ ReadStaysRead
 <1>1. UNCHANGED <<fdPc, fdRow, fdUser, fdSince>> BY DEF feedTask
 <1>2. FeedShaped' /\ CursorsKept BY <1>1, CursorsAlone DEF FeedInv, FeedShaped, RowsKept
 <1>3. \A h \in FeedTasks : FeedAsked(h)' BY <1>1, RowsFit DEF FeedInv, FeedAsked
 <1>4. ASSUME NEW r \in RowIds PROVE PushFits(r)'
  <2>1. rows[r].at > 0 => rows'[r].at > 0 /\ Recipients(r)' = Recipients(r) BY RowsFit
  <2> QED BY <1>1, <2>1 DEF FeedInv, PushFits
 <1> QED BY <1>2, <1>3, <1>4, RowsFit, RowsStayInOrder, MarksFit, ReadKept DEF FeedInv

LEMMA FeedReaped ==
  ASSUME FeedInv, \E r \in RowIds : ReapRow(r) \/ \E a \in FeedAccounts : ReapMark(a, r)
  PROVE  FeedInv' /\ ReadStaysRead
 <1>1. CASE \E r \in RowIds : ReapRow(r)
  <2>1. PICK r \in RowIds : ReapRow(r) BY <1>1
  <2>2. UNCHANGED <<feedNow, reads, cursor, ownerHolds, pushed, feedTask, crossedMarks>>
    BY <2>1 DEF ReapRow, feedPeople
  <2>3. /\ DOMAIN rows' = RowIds /\ rows[r].at > 0 /\ Expired(r)
        /\ rows'[r] = [rows[r] EXCEPT !.gone = TRUE]
        /\ \A q \in RowIds \ {r} : rows'[q] = rows[q]
    BY <2>1 DEF ReapRow, Stored, FeedInv, FeedShaped
  <2>4. RowsKept BY <2>2, <2>3, RowsMarked
  <2> QED BY <2>2, <2>4, MarksAlone, FeedAlone
 <1>2. CASE \E r \in RowIds, a \in FeedAccounts : ReapMark(a, r)
  <2>1. PICK r \in RowIds, a \in FeedAccounts : ReapMark(a, r) BY <1>2
  <2>2. UNCHANGED <<feedNow, rows, cursor, ownerHolds, pushed, feedTask, crossedMarks>> /\ Expired(r)
    BY <2>1 DEF ReapMark, feedPeople
  <2>3. /\ reads' \in [FeedAccounts -> [RowIds -> 0..MaxFeedTime]] /\ reads'[a][r] = 0
        /\ \A b \in FeedAccounts, q \in RowIds : <<b, q>> # <<a, r>> => reads'[b][q] = reads[b][q]
    BY <2>1, FeedAssumption DEF ReapMark, FeedInv, FeedShaped
  <2>4. MarksGrow BY <2>3 DEF MarksGrow
  <2>5. MarksHold BY <2>2, <2>3 DEF MarksHold
  <2>6. RowsKept BY <2>2, TimeStands, RowsAlone
  <2> QED BY <2>2, <2>3, <2>4, <2>5, <2>6, FeedAlone
 <1> QED BY <1>1, <1>2

LEMMA FeedInvNext == FeedInv /\ [FeedNext]_feedVars => FeedInv' /\ ReadStaysRead
 <1> SUFFICES ASSUME FeedInv, [FeedNext]_feedVars PROVE FeedInv' /\ ReadStaysRead OBVIOUS
 <1>0. PICK now \in Nat : now = feedNow /\ now \in 1..MaxFeedTime BY FeedAssumption DEF FeedInv, FeedShaped
 <1>1. CASE UNCHANGED feedVars
  <2>1. UNCHANGED <<feedNow, rows, reads, cursor, ownerHolds, pushed, feedTask, crossedMarks>>
    BY <1>1 DEF feedVars, feedRows, feedPeople
  <2> QED BY <2>1, TimeStands, RowsAlone, MarksAlone, FeedAlone
 <1>2. CASE FeedTick
  <2>1. UNCHANGED <<rows, reads, cursor, ownerHolds, pushed, feedTask, crossedMarks>>
    BY <1>2 DEF FeedTick, feedPeople
  <2>2. feedNow' \in 1..MaxFeedTime /\ feedNow <= feedNow' BY <1>0, <1>2, FeedAssumption DEF FeedTick
  <2> QED BY <2>1, <2>2, RowsAlone, MarksAlone, FeedAlone
 <1> QED BY <1>1, <1>2, FeedBegun, FeedPersisted, FeedMarkedPushed, FeedMarkedRead, FeedCursorMoved,
            FeedSwept, FeedTaskLost, FeedPushedOut, FeedReaped DEF FeedNext

-----------------------------------------------------------------------------
(* Broadcasts. *)
BcShaped ==
  /\ tokensOf \in [BcAccounts -> SUBSET Phones]
  /\ bcStatus \in [BcIds -> {"none", "SENDING", "SENT", "FAILED", "NO_RECIPIENTS"}]
  /\ delivered \in [Phones -> [BcIds -> Nat]]
  /\ bcPc \in [BcIds -> {"idle", "tokens", "record", "send", "close", "end"}]
  /\ DOMAIN bcAsked = BcIds /\ DOMAIN bcRecord = BcIds
  /\ bcUids \in [BcIds -> SUBSET BcAccounts]
  /\ bcQueue \in [BcIds -> SUBSET Phones]
  /\ bcDead \in [BcIds -> SUBSET (Phones \cap DeadPhones)]

(* What the roles of a broadcast come to, from the question to the record. *)
RolesFit(b) ==
  /\ bcPc[b] = "tokens" /\ bcAsked[b].roles \cap BcRoles = {} => bcUids[b] = {}
  /\ bcPc[b] = "record" /\ bcAsked[b].roles \cap BcRoles = {} => bcQueue[b] = {}

Recorded(b) ==
  bcStatus[b] # "none" /\ bcRecord[b].tokens > 0 /\ bcRecord[b].roles \cap BcRoles # {}

DeliveryFits(b) ==
  /\ bcPc[b] \in {"send", "close"} => Recorded(b)
  /\ \A f \in Phones :
       /\ delivered[f][b] <= 1
       /\ delivered[f][b] > 0 => Recorded(b) /\ bcPc[b] \notin {"idle", "tokens", "record"}
                                 /\ f \notin bcQueue[b]

BcInv ==
  /\ BcShaped
  /\ \A b \in BcIds : RolesFit(b)
  /\ \A b \in BcIds : DeliveryFits(b)

LEMMA BcInvGivesRest ==
  BcInv => BcTypeOK /\ DeliveredIsRecorded /\ ShownOnce /\ UnknownRolesReachNobody
 <1> SUFFICES ASSUME BcInv PROVE BcTypeOK /\ DeliveredIsRecorded /\ ShownOnce /\ UnknownRolesReachNobody
   OBVIOUS
 <1>1. BcTypeOK BY DEF BcInv, BcShaped, BcTypeOK
 <1>2. DeliveredIsRecorded BY DEF BcInv, DeliveryFits, Recorded, DeliveredIsRecorded
 <1>3. ShownOnce BY DEF BcInv, DeliveryFits, ShownOnce
 <1>4. UnknownRolesReachNobody
  <2> SUFFICES ASSUME NEW b \in BcIds, bcRecord[b].roles \cap BcRoles = {}, NEW f \in Phones
               PROVE  delivered[f][b] = 0
    BY DEF UnknownRolesReachNobody
  <2>1. PICK n \in Nat : n = delivered[f][b] BY DEF BcInv, BcShaped
  <2>2. ~(n > 0) BY <2>1 DEF BcInv, DeliveryFits, Recorded
  <2> QED BY <2>1, <2>2
 <1> QED BY <1>1, <1>2, <1>3, <1>4

LEMMA BcInvInit == BcInit => BcInv
 <1> SUFFICES ASSUME BcInit PROVE BcInv OBVIOUS
 <1>1. BcShaped BY DEF BcInit, BcShaped
 <1>2. \A b \in BcIds : RolesFit(b) BY DEF BcInit, RolesFit
 <1>3. \A b \in BcIds : DeliveryFits(b) BY DEF BcInit, DeliveryFits
 <1> QED BY <1>1, <1>2, <1>3 DEF BcInv

(* A step of one broadcast leaves the others as they were. *)
LEMMA OtherBroadcasts ==
  ASSUME BcInv, NEW b \in BcIds,
         \A c \in BcIds \ {b} :
           /\ bcPc'[c] = bcPc[c] /\ bcAsked'[c] = bcAsked[c] /\ bcUids'[c] = bcUids[c]
           /\ bcQueue'[c] = bcQueue[c] /\ bcStatus'[c] = bcStatus[c] /\ bcRecord'[c] = bcRecord[c]
           /\ \A f \in Phones : delivered'[f][c] = delivered[f][c]
  PROVE  \A c \in BcIds \ {b} : RolesFit(c)' /\ DeliveryFits(c)'
  BY DEF BcInv, RolesFit, DeliveryFits, Recorded

LEMMA BcAsks ==
  ASSUME BcInv, NEW b \in BcIds, NEW roles, NEW inactive \in BOOLEAN, BcAsk(b, roles, inactive)
  PROVE  BcInv'
 <1>1. bcUids' = [bcUids EXCEPT ![b] = AudienceUids(roles, inactive)]
       /\ AudienceUids(roles, inactive) \subseteq BcAccounts
   BY DEF BcAsk, AudienceUids
 <1>2. BcShaped' BY <1>1 DEF BcAsk, BcGoto, BcInv, BcShaped, bcAccountsVars
 <1>3. /\ bcPc[b] = "idle" /\ bcPc'[b] = "tokens" /\ bcAsked'[b].roles = roles
       /\ bcUids'[b] = AudienceUids(roles, inactive)
       /\ UNCHANGED <<bcStatus, bcRecord, bcQueue, delivered>>
       /\ \A c \in BcIds \ {b} : bcPc'[c] = bcPc[c] /\ bcAsked'[c] = bcAsked[c] /\ bcUids'[c] = bcUids[c]
   BY <1>1 DEF BcAsk, BcGoto, BcInv, BcShaped
 <1>4. RolesFit(b)'
  <2>1. roles \cap BcRoles = {} => AudienceUids(roles, inactive) = {} BY BcAssumption DEF AudienceUids
  <2> QED BY <1>3, <2>1 DEF RolesFit
 <1>5. DeliveryFits(b)' BY <1>3 DEF BcInv, DeliveryFits
 <1>6. \A c \in BcIds \ {b} : RolesFit(c)' /\ DeliveryFits(c)' BY <1>3, OtherBroadcasts
 <1> QED BY <1>2, <1>4, <1>5, <1>6 DEF BcInv

LEMMA BcTokensRead ==
  ASSUME BcInv, NEW b \in BcIds, BcTokens(b)
  PROVE  BcInv'
 <1>1. TokensFor(bcUids[b]) \subseteq Phones BY DEF TokensFor, BcInv, BcShaped
 <1>2. BcShaped' BY <1>1 DEF BcTokens, BcGoto, BcInv, BcShaped, bcAccountsVars
 <1>3. /\ bcPc[b] = "tokens" /\ bcPc'[b] = "record" /\ bcQueue'[b] = TokensFor(bcUids[b])
       /\ UNCHANGED <<bcStatus, bcRecord, bcAsked, bcUids, delivered>>
       /\ \A c \in BcIds \ {b} : bcPc'[c] = bcPc[c] /\ bcQueue'[c] = bcQueue[c]
   BY DEF BcTokens, BcGoto, BcInv, BcShaped
 <1>4. RolesFit(b)'
  <2>1. bcUids[b] = {} => TokensFor(bcUids[b]) = {} BY DEF TokensFor
  <2> QED BY <1>3, <2>1 DEF BcInv, RolesFit
 <1>5. DeliveryFits(b)' BY <1>3 DEF BcInv, DeliveryFits
 <1>6. \A c \in BcIds \ {b} : RolesFit(c)' /\ DeliveryFits(c)' BY <1>3, OtherBroadcasts
 <1> QED BY <1>2, <1>4, <1>5, <1>6 DEF BcInv

LEMMA Forgotten ==
  ASSUME BcInv, NEW b \in BcIds, BcForget(b)
  PROVE  /\ bcPc' \in [BcIds -> {"idle", "tokens", "record", "send", "close", "end"}]
         /\ DOMAIN bcAsked' = BcIds
         /\ bcUids' \in [BcIds -> SUBSET BcAccounts]
         /\ bcQueue' \in [BcIds -> SUBSET Phones]
         /\ bcDead' \in [BcIds -> SUBSET (Phones \cap DeadPhones)]
         /\ bcPc'[b] = "end" /\ bcQueue'[b] = {}
         /\ \A c \in BcIds \ {b} : /\ bcPc'[c] = bcPc[c] /\ bcAsked'[c] = bcAsked[c]
                                   /\ bcUids'[c] = bcUids[c] /\ bcQueue'[c] = bcQueue[c]
  BY DEF BcForget, BcGoto, BcInv, BcShaped

LEMMA BcRecords ==
  ASSUME BcInv, NEW b \in BcIds, BcRecord(b)
  PROVE  BcInv'
 <1>1. /\ bcPc[b] = "record" /\ UNCHANGED <<tokensOf, delivered>>
       /\ bcRecord'[b] = RecordOf(b) /\ DOMAIN bcRecord' = BcIds
       /\ \A c \in BcIds \ {b} : bcRecord'[c] = bcRecord[c]
   BY DEF BcRecord, BcInv, BcShaped, bcAccountsVars
 <1>2. \A f \in Phones : ~(delivered'[f][b] > 0) /\ delivered'[f][b] <= 1
   BY <1>1 DEF BcInv, DeliveryFits
 <1>3. CASE bcQueue[b] = {}
  <2>1. BcForget(b) /\ bcStatus' = [bcStatus EXCEPT ![b] = "NO_RECIPIENTS"] BY <1>3 DEF BcRecord
  <2>2. BcShaped' BY <1>1, <2>1, Forgotten DEF BcInv, BcShaped
  <2>3. \A c \in BcIds \ {b} : bcStatus'[c] = bcStatus[c] BY <2>1 DEF BcInv, BcShaped
  <2>4. \A c \in BcIds \ {b} : RolesFit(c)' /\ DeliveryFits(c)'
    BY <1>1, <2>1, <2>3, Forgotten, OtherBroadcasts
  <2>5. bcPc'[b] = "end" BY <2>1, Forgotten
  <2>6. RolesFit(b)' /\ DeliveryFits(b)' BY <1>2, <2>5 DEF RolesFit, DeliveryFits
  <2> QED BY <2>2, <2>4, <2>6 DEF BcInv
 <1>4. CASE bcQueue[b] # {}
  <2>1. /\ bcStatus' = [bcStatus EXCEPT ![b] = "SENDING"] /\ BcGoto(b, "send")
        /\ UNCHANGED <<bcAsked, bcUids, bcQueue, bcDead>>
    BY <1>4 DEF BcRecord
  <2>2. BcShaped' BY <1>1, <2>1 DEF BcGoto, BcInv, BcShaped
  <2>3. /\ bcStatus'[b] = "SENDING" /\ bcPc'[b] = "send"
        /\ \A c \in BcIds \ {b} : bcStatus'[c] = bcStatus[c] /\ bcPc'[c] = bcPc[c]
    BY <2>1 DEF BcGoto, BcInv, BcShaped
  <2>4. Recorded(b)'
   <3>1. Cardinality(bcQueue[b]) > 0
    <4>1. bcQueue[b] \subseteq Phones BY DEF BcInv, BcShaped
    <4>2. IsFiniteSet(bcQueue[b]) BY <4>1, BcAssumption, FS_Subset
    <4>3. Cardinality(bcQueue[b]) # 0 BY <1>4, <4>2, FS_EmptySet
    <4>4. Cardinality(bcQueue[b]) \in Nat BY <4>2, FS_CardinalityType
    <4> QED BY <4>3, <4>4
   <3>2. bcRecord'[b].tokens = Cardinality(bcQueue[b]) /\ bcRecord'[b].roles = bcAsked[b].roles
     BY <1>1 DEF RecordOf
   <3>3. bcAsked[b].roles \cap BcRoles # {} BY <1>1, <1>4 DEF BcInv, RolesFit
   <3> QED BY <2>3, <3>1, <3>2, <3>3 DEF Recorded
  <2>5. RolesFit(b)' /\ DeliveryFits(b)' BY <1>2, <2>3, <2>4 DEF RolesFit, DeliveryFits
  <2>6. \A c \in BcIds \ {b} : RolesFit(c)' /\ DeliveryFits(c)' BY <1>1, <2>1, <2>3, OtherBroadcasts
  <2> QED BY <2>2, <2>5, <2>6 DEF BcInv
 <1> QED BY <1>3, <1>4

LEMMA BcSends ==
  ASSUME BcInv, NEW b \in BcIds, BcSendChunk(b) \/ BcChunkFails(b)
  PROVE  BcInv'
 <1>1. PICK chunk \in SUBSET bcQueue[b] :
         /\ bcQueue' = [bcQueue EXCEPT ![b] = @ \ chunk]
         /\ \/ /\ delivered' = [f \in Phones |-> IF f \in chunk \ DeadPhones
                                        THEN [delivered[f] EXCEPT ![b] = @ + 1] ELSE delivered[f]]
               /\ bcDead' = [bcDead EXCEPT ![b] = @ \cup (chunk \cap DeadPhones)]
            \/ UNCHANGED <<delivered, bcDead>>
   BY DEF BcSendChunk, BcChunkFails
 <1>2. bcPc[b] = "send" /\ UNCHANGED <<tokensOf, bcStatus, bcRecord, bcPc, bcAsked, bcUids>>
   BY DEF BcSendChunk, BcChunkFails, bcAccountsVars
 <1>3. chunk \subseteq Phones BY <1>1 DEF BcInv, BcShaped
 <1>4. /\ bcQueue' \in [BcIds -> SUBSET Phones]
       /\ bcQueue'[b] = bcQueue[b] \ chunk /\ \A c \in BcIds \ {b} : bcQueue'[c] = bcQueue[c]
   BY <1>1 DEF BcInv, BcShaped
 <1>5. bcDead' \in [BcIds -> SUBSET (Phones \cap DeadPhones)] BY <1>1, <1>3 DEF BcInv, BcShaped
 <1>6. ASSUME NEW f \in Phones
       PROVE  /\ delivered'[f] \in [BcIds -> Nat]
              /\ \A c \in BcIds \ {b} : delivered'[f][c] = delivered[f][c]
              /\ \/ delivered'[f][b] = delivered[f][b]
                 \/ f \in chunk /\ delivered'[f][b] = 1
  <2>1. PICK d \in [BcIds -> Nat] : d = delivered[f] BY DEF BcInv, BcShaped
  <2>2. delivered'[f] = d \/ (f \in chunk /\ delivered'[f] = [d EXCEPT ![b] = @ + 1]) BY <1>1, <2>1
  <2>3. CASE delivered'[f] = d BY <2>1, <2>3
  <2>4. CASE f \in chunk /\ delivered'[f] = [d EXCEPT ![b] = @ + 1]
   <3>1. f \in bcQueue[b] BY <1>1, <2>4
   <3>2. ~(d[b] > 0) BY <2>1, <3>1 DEF BcInv, DeliveryFits
   <3>3. d[b] = 0 BY <3>2
   <3> QED BY <2>1, <2>4, <3>3
  <2> QED BY <2>2, <2>3, <2>4
 <1>7. BcShaped'
  <2>1. delivered' \in [Phones -> [BcIds -> Nat]]
   <3>1. DOMAIN delivered' = Phones BY <1>1 DEF BcInv, BcShaped
   <3>2. delivered' = [f \in Phones |-> delivered'[f]] BY <1>1 DEF BcInv, BcShaped
   <3> QED BY <1>6, <3>1, <3>2
  <2> QED BY <1>2, <1>4, <1>5, <2>1 DEF BcInv, BcShaped
 <1>8. DeliveryFits(b)'
  <2>1. Recorded(b)' BY <1>2 DEF BcInv, DeliveryFits, Recorded
  <2>2. \A f \in Phones : delivered'[f][b] <= 1 /\ (delivered'[f][b] > 0 => f \notin bcQueue'[b])
   <3> SUFFICES ASSUME NEW f \in Phones
                PROVE  delivered'[f][b] <= 1 /\ (delivered'[f][b] > 0 => f \notin bcQueue'[b])
     OBVIOUS
   <3>1. CASE f \in chunk /\ delivered'[f][b] = 1 BY <1>4, <3>1
   <3>2. CASE delivered'[f][b] = delivered[f][b] BY <1>4, <3>2 DEF BcInv, DeliveryFits
   <3> QED BY <1>6, <3>1, <3>2
  <2> QED BY <1>2, <2>1, <2>2 DEF DeliveryFits
 <1>9. RolesFit(b)' BY <1>2 DEF RolesFit
 <1>10. \A c \in BcIds \ {b} : RolesFit(c)' /\ DeliveryFits(c)' BY <1>2, <1>4, <1>6, OtherBroadcasts
 <1> QED BY <1>7, <1>8, <1>9, <1>10 DEF BcInv

LEMMA DeadPruned ==
  ASSUME BcInv, NEW b \in BcIds, PruneDead(b)
  PROVE  BcInv'
 <1>1. /\ bcPc[b] = "send" /\ bcPc' = [bcPc EXCEPT ![b] = "close"]
       /\ UNCHANGED <<bcStatus, bcRecord, bcAsked, bcUids, bcQueue, bcDead, delivered>>
       /\ tokensOf' \in [BcAccounts -> SUBSET Phones]
   BY DEF PruneDead, BcGoto, BcInv, BcShaped
 <1>2. BcShaped' BY <1>1 DEF BcInv, BcShaped
 <1>3. bcPc'[b] = "close" /\ \A c \in BcIds \ {b} : bcPc'[c] = bcPc[c] BY <1>1 DEF BcInv, BcShaped
 <1>4. RolesFit(b)' /\ DeliveryFits(b)' BY <1>1, <1>3 DEF BcInv, RolesFit, DeliveryFits, Recorded
 <1>5. \A c \in BcIds \ {b} : RolesFit(c)' /\ DeliveryFits(c)' BY <1>1, <1>3, OtherBroadcasts
 <1> QED BY <1>2, <1>4, <1>5 DEF BcInv

LEMMA BcEnds ==
  ASSUME BcInv, NEW b \in BcIds, BcClose(b) \/ BcFail(b) \/ LoseBroadcast(b)
  PROVE  BcInv'
 <1>1. BcForget(b) /\ UNCHANGED <<tokensOf, delivered>>
   BY DEF BcClose, BcFail, LoseBroadcast, bcAccountsVars
 <1>2. /\ bcStatus' \in [BcIds -> {"none", "SENDING", "SENT", "FAILED", "NO_RECIPIENTS"}]
       /\ bcStatus[b] # "none" => bcStatus'[b] # "none"
       /\ \A c \in BcIds \ {b} : bcStatus'[c] = bcStatus[c]
   BY DEF BcClose, BcFail, LoseBroadcast, BcInv, BcShaped
 <1>3. /\ DOMAIN bcRecord' = BcIds
       /\ \A c \in BcIds \ {b} : bcRecord'[c] = bcRecord[c]
       /\ Recorded(b) => bcRecord'[b].tokens = bcRecord[b].tokens /\ bcRecord'[b].roles = bcRecord[b].roles
  <2>1. CASE bcRecord' = bcRecord BY <2>1 DEF BcInv, BcShaped
  <2>2. CASE BcClose(b)
   <3>1. bcRecord' = [bcRecord EXCEPT ![b].dead = Cardinality(bcDead[b])] BY <2>2 DEF BcClose
   <3>2. /\ DOMAIN bcRecord' = BcIds
         /\ \A c \in BcIds \ {b} : bcRecord'[c] = bcRecord[c]
         /\ bcRecord'[b] = [bcRecord[b] EXCEPT !.dead = Cardinality(bcDead[b])]
     BY <3>1 DEF BcInv, BcShaped
   <3> QED BY <3>2
  <2> QED BY <2>1, <2>2 DEF BcFail, LoseBroadcast
 <1>4. BcShaped' BY <1>1, <1>2, <1>3, Forgotten DEF BcInv, BcShaped
 <1>5. bcPc'[b] = "end" /\ bcQueue'[b] = {} BY <1>1, Forgotten
 <1>6. DeliveryFits(b)'
  <2>1. Recorded(b) => Recorded(b)' BY <1>2, <1>3 DEF Recorded
  <2> QED BY <1>1, <1>5, <2>1 DEF BcInv, DeliveryFits
 <1>7. RolesFit(b)' BY <1>5 DEF RolesFit
 <1>8. \A c \in BcIds \ {b} : RolesFit(c)' /\ DeliveryFits(c)'
   BY <1>1, <1>2, <1>3, Forgotten, OtherBroadcasts
 <1> QED BY <1>4, <1>6, <1>7, <1>8 DEF BcInv

LEMMA BcInvNext == BcInv /\ [BcNext]_bcVars => BcInv'
 <1> SUFFICES ASSUME BcInv, [BcNext]_bcVars PROVE BcInv' OBVIOUS
 <1>1. CASE UNCHANGED bcVars
   BY <1>1 DEF bcVars, bcAccountsVars, bcRequest, BcInv, BcShaped, RolesFit, DeliveryFits, Recorded
 <1>2. ASSUME NEW a \in BcAccounts, NEW f \in Phones, SignOut(a, f) PROVE BcInv'
   BY <1>2 DEF SignOut, bcRequest, BcInv, BcShaped, RolesFit, DeliveryFits, Recorded
 <1> QED BY <1>1, <1>2, BcAsks, BcTokensRead, BcRecords, BcSends, DeadPruned, BcEnds DEF BcNext

LEMMA LivingTokensAreKept == BcInv /\ [BcNext]_bcVars => LivingTokensStay
 <1> SUFFICES ASSUME BcInv, [BcNext]_bcVars PROVE LivingTokensStay OBVIOUS
 <1> DEFINE Gone == {x \in BcAccounts \X (Phones \ DeadPhones) :
                       x[2] \in tokensOf[x[1]] /\ x[2] \notin tokensOf'[x[1]]}
 <1>1. ASSUME Gone = {} PROVE LivingTokensStay
  <2>1. Cardinality(Gone) = 0 BY <1>1, FS_EmptySet
  <2>2. Cardinality(Gone) <= 1
   <3> HIDE DEF Gone
   <3> QED BY <2>1
  <2> QED BY <2>2 DEF LivingTokensStay
 <1>2. CASE tokensOf' = tokensOf BY <1>1, <1>2
 <1>3. ASSUME NEW b \in BcIds, PruneDead(b) PROVE LivingTokensStay
  <2>1. bcDead[b] \subseteq DeadPhones BY DEF BcInv, BcShaped
  <2>2. Gone = {} BY <1>3, <2>1 DEF PruneDead
  <2> QED BY <1>1, <2>2
 <1>4. ASSUME NEW a \in BcAccounts, NEW f \in Phones, SignOut(a, f) PROVE LivingTokensStay
  <2>1. Gone \subseteq {<<a, f>>}
   <3> SUFFICES ASSUME NEW x \in Gone PROVE x = <<a, f>> OBVIOUS
   <3>1. PICK q \in BcAccounts, z \in Phones : x = <<q, z>> /\ z \in tokensOf[q] /\ z \notin tokensOf'[q]
     OBVIOUS
   <3>2. q = a /\ z = f BY <1>4, <3>1 DEF SignOut, BcInv, BcShaped
   <3> QED BY <3>1, <3>2
  <2>2. IsFiniteSet({<<a, f>>}) /\ Cardinality({<<a, f>>}) = 1 BY FS_Singleton
  <2>3. Cardinality(Gone) <= Cardinality({<<a, f>>})
   <3> HIDE DEF Gone
   <3> QED BY <2>1, <2>2, FS_Subset
  <2>4. Cardinality(Gone) <= 1 BY <2>2, <2>3, Zenon
  <2> QED BY <2>4 DEF LivingTokensStay
 <1>5. CASE BcNext /\ tokensOf' # tokensOf
  <2>1. \/ \E b \in BcIds : PruneDead(b)
        \/ \E a \in BcAccounts, f \in Phones : SignOut(a, f)
    BY <1>5 DEF BcNext, BcAsk, BcTokens, BcRecord, BcSendChunk, BcChunkFails, BcClose, BcFail,
                LoseBroadcast, bcAccountsVars
  <2> QED BY <1>3, <1>4, <2>1
 <1> QED BY <1>2, <1>5 DEF bcVars, bcAccountsVars

(* What is sent to people (notifications.service, broadcast.service): the
   badge agrees with the feed, a row or a broadcast reaches a phone once and
   an event that has an id not again while its row is kept, who is pushed a
   row sees it but for an owner without the permission, what a phone showed is
   on record, what was read stays read, and a living phone keeps its token,
   for any accounts, branches, grants, rows, phones and tasks. *)
THEOREM MessagesSound == FeedSpec /\ BcSpec => MessagesAreSound
 <1>1. ASSUME FeedInv, [FeedNext]_feedVars, BcInv, [BcNext]_bcVars
       PROVE  /\ (FeedTypeOK /\ BadgeAgreesWithFeed /\ PushedOncePerEvent /\ PushedMaySee)'
              /\ (BcTypeOK /\ DeliveredIsRecorded /\ ShownOnce /\ UnknownRolesReachNobody)'
              /\ ReadStaysRead
              /\ LivingTokensStay
  <2>1. FeedInv' /\ ReadStaysRead BY <1>1, FeedInvNext
  <2>2. BcInv' /\ LivingTokensStay BY <1>1, BcInvNext, LivingTokensAreKept
  <2>3. (FeedTypeOK /\ BadgeAgreesWithFeed /\ PushedOncePerEvent /\ PushedMaySee)'
    BY <2>1, FeedInvGivesRest, PTL
  <2>4. (BcTypeOK /\ DeliveredIsRecorded /\ ShownOnce /\ UnknownRolesReachNobody)'
    BY <2>2, BcInvGivesRest, PTL
  <2> QED BY <2>1, <2>2, <2>3, <2>4
 <1> QED BY <1>1, FeedInvInit, FeedInvNext, BcInvInit, BcInvNext, PTL
         DEF FeedSpec, BcSpec, MessagesAreSound

-----------------------------------------------------------------------------
(* Campaigns. *)
CmTyped ==
  /\ CmTypeOK
  /\ DOMAIN cmOften = CmRequests /\ DOMAIN cmSession = CmRequests /\ DOMAIN cmEdit = CmRequests
  /\ cmAt \in [CmRequests -> Nat] /\ cmLast \in [CmCampaigns -> Int]
  /\ DOMAIN cmCampaign = CmCampaigns
  /\ \A c \in CmCampaigns : DOMAIN cmCampaign[c] = CmFields /\ FieldsFit(cmCampaign[c])

(* A row tells the rule it was written by. *)
RowFits(r) ==
  /\ DOMAIN r = {"campaign", "period", "at", "expires", "clicked"}
  /\ \E often \in Frequencies : \E session :
       r.period \in PeriodKey(often, r.at, session) /\ r.expires = ImpressionExpiry(often, r.at)
  /\ <<r.campaign, r.period>> \in cmSeen

(* No request that is still alive can ask for this window. *)
WindowIsOver(key) ==
  \A at \in Nat : \A often \in Frequencies : \A session :
    key \in PeriodKey(often, at, session) => at + CmLongestRequest < cmNow

(* A showing is on record as long as a request can ask for its window, ... *)
SeenIsKept ==
  \A c, key : <<c, key>> \in cmSeen /\ key[1] # "login" =>
    (\E r \in cmRows : r.campaign = c /\ r.period = key) \/ WindowIsOver(key)

(* ... and longer than the floor. *)
LastIsKept ==
  \A c \in CmCampaigns : cmLast[c] >= 0 =>
    (\E r \in cmRows : r.campaign = c /\ r.at = cmLast[c]) \/ cmLast[c] + CmRetention <= cmNow

(* What a request for a showing carries; ... *)
AskingFits(h) ==
  cmpc[h] \in {"ask", "insert"} =>
    /\ cmList[h] # {} /\ cmList[h] \subseteq DOMAIN cmOften[h] /\ DOMAIN cmOften[h] \subseteq CmCampaigns
    /\ \A c \in DOMAIN cmOften[h] : cmOften[h][c] \in Frequencies
    /\ cmAt[h] <= cmNow /\ cmNow <= cmAt[h] + CmLongestRequest
    /\ \A c \in DOMAIN cmOften[h] \ cmList[h] : PassedOver(h, c)

(* ... when it is about to insert, the floor was kept, or another has inserted
   since; ... *)
InsertFits(h) ==
  cmpc[h] = "insert" =>
    LET c == MostImportant(cmList[h]) IN
    /\ PeriodKey(cmOften[h][c], cmAt[h], cmSession[h]) # {}
    /\ cmOften[h][c] = "EVERY_APP_OPEN" /\ h \notin cmCheckedPast =>
         ~(cmLast[c] >= 0 /\ cmLast[c] >= cmAt[h] - CmFloor)

(* ... and an edit may still be written unless another has crossed it. *)
EditFits(h) ==
  cmpc[h] = "edit" =>
    /\ cmEdit[h] \in CmInputs
    /\ \E c \in CmCampaigns : /\ cmList[h] = {c}
                              /\ c \notin cmExcused => EditAllowed(cmEdit[h], cmCampaign[c])

CmInv ==
  /\ CmTyped
  /\ \A r \in cmRows : RowFits(r)
  /\ SeenIsKept /\ LastIsKept
  /\ OneShowingPerWindow /\ OpeningsKeepTheFloor /\ ButtonsLeadSomewhere
  /\ \A h \in CmRequests : AskingFits(h) /\ InsertFits(h) /\ EditFits(h)

LEMMA CmInvInit == CmInit => CmInv
 <1> SUFFICES ASSUME CmInit PROVE CmInv OBVIOUS
 <1>1. CmTyped
   BY CmTimesAssumption, CmCampaignsAssumption
      DEF CmInit, CmTyped, CmTypeOK, FieldsFit, CmFields
 <1>2. ButtonsLeadSomewhere BY CmCampaignsAssumption DEF CmInit, ButtonsLeadSomewhere
 <1>3. SeenIsKept /\ LastIsKept /\ OneShowingPerWindow /\ OpeningsKeepTheFloor
   BY DEF CmInit, SeenIsKept, LastIsKept, OneShowingPerWindow, OpeningsKeepTheFloor
 <1>4. \A h \in CmRequests : AskingFits(h) /\ InsertFits(h) /\ EditFits(h)
   BY DEF CmInit, AskingFits, InsertFits, EditFits
 <1>5. \A r \in cmRows : RowFits(r) BY DEF CmInit
 <1> QED BY <1>1, <1>2, <1>3, <1>4, <1>5 DEF CmInv

(* A finite list has a most important campaign. *)
LEMMA MostImportantIs ==
  ASSUME NEW cs, cs \subseteq CmCampaigns, cs # {}
  PROVE  /\ MostImportant(cs) \in cs
         /\ \A d \in cs : CmImportance[d] <= CmImportance[MostImportant(cs)]
 <1>f. IsFiniteSet(cs) BY CmCampaignsAssumption, FS_Subset
 <1>i. CmImportance \in [CmCampaigns -> Int] BY CmCampaignsAssumption
 <1> DEFINE Above(c) == {d \in cs : CmImportance[d] >= CmImportance[c]}
            B == {Above(c) : c \in cs}
 <1>1. B \subseteq SUBSET cs /\ B # {} OBVIOUS
 <1>2. PICK w \in B : \A u \in B : u \subseteq w => u = w
  <2> HIDE DEF B
  <2> QED BY <1>1, <1>f, SmallestSet
 <1>3. PICK c \in cs : w = Above(c) OBVIOUS
 <1>4. ASSUME NEW d \in cs, CmImportance[d] > CmImportance[c] PROVE FALSE
  <2>1. CmImportance[d] \in Int /\ CmImportance[c] \in Int BY <1>i
  <2>2. c \in Above(c) /\ c \notin Above(d) BY <2>1, <1>4
  <2>3. Above(d) \subseteq Above(c)
   <3> SUFFICES ASSUME NEW e \in Above(d) PROVE e \in Above(c) OBVIOUS
   <3>1. CmImportance[e] \in Int BY <1>i
   <3> QED BY <2>1, <3>1, <1>4
  <2> QED BY <1>2, <1>3, <2>2, <2>3
 <1>5. \A d \in cs : CmImportance[d] <= CmImportance[c] BY <1>4, <1>i
 <1> QED BY <1>5 DEF MostImportant

(* Two times of one window are less than a week apart. *)
LEMMA WindowsAreShort ==
  ASSUME NEW often \in Frequencies, NEW other \in Frequencies, NEW at \in Nat, NEW later \in Nat,
         NEW session, NEW another, NEW key,
         key \in PeriodKey(often, at, session), key \in PeriodKey(other, later, another),
         key[1] \notin {"login", "lifetime"}
  PROVE  later < at + CmWeek
 <1>t. CmDay \in Nat \ {0} /\ CmWeek \in Nat \ {0} /\ CmFloor \in Nat \ {0} /\ CmFloor < CmWeek /\ CmDay < CmWeek
   BY CmTimesAssumption
 <1>1. CASE key[1] = "day"
  <2>1. at \div CmDay = later \div CmDay BY <1>1 DEF PeriodKey, Frequencies
  <2> QED BY <2>1, <1>t
 <1>2. CASE key[1] = "week"
  <2>1. at \div CmWeek = later \div CmWeek BY <1>2 DEF PeriodKey, Frequencies
  <2> QED BY <2>1, <1>t
 <1>3. CASE key[1] = "open"
  <2>1. at \div CmFloor = later \div CmFloor BY <1>3 DEF PeriodKey, Frequencies
  <2> QED BY <2>1, <1>t
 <1> QED BY <1>1, <1>2, <1>3 DEF PeriodKey, Frequencies

(* A row that the database may sweep is older than any window and the floor. *)
LEMMA SweptIsOver ==
  ASSUME CmInv, NEW r \in cmRows, NEW e \in r.expires, e <= cmNow
  PROVE  /\ r.at + CmRetention <= cmNow
         /\ r.period[1] # "login" => WindowIsOver(r.period)
 <1>t. /\ CmRetention \in Nat /\ CmWeek \in Nat /\ CmLongestRequest \in Nat
       /\ CmRetention >= CmWeek + CmLongestRequest
   BY CmTimesAssumption
 <1>n. cmNow \in Nat /\ r.at \in Nat BY DEF CmInv, CmTyped, CmTypeOK
 <1>1. PICK often \in Frequencies : \E session :
         r.period \in PeriodKey(often, r.at, session) /\ r.expires = ImpressionExpiry(often, r.at)
   BY DEF CmInv, RowFits
 <1>2. PICK session : r.period \in PeriodKey(often, r.at, session) BY <1>1
 <1>3. often # "ONCE_EVER" /\ e = r.at + CmRetention BY <1>1 DEF ImpressionExpiry
 <1>4. r.period[1] # "lifetime" BY <1>2, <1>3 DEF PeriodKey, Frequencies
 <1>5. ASSUME r.period[1] # "login" PROVE WindowIsOver(r.period)
  <2> SUFFICES ASSUME NEW at \in Nat, NEW other \in Frequencies, NEW another,
                      r.period \in PeriodKey(other, at, another)
               PROVE  at + CmLongestRequest < cmNow
    BY DEF WindowIsOver
  <2>1. at < r.at + CmWeek BY <1>2, <1>4, <1>5, <1>n, WindowsAreShort
  <2> QED BY <2>1, <1>3, <1>n, <1>t
 <1> QED BY <1>3, <1>5

(* Nothing is lost but what the database may sweep. *)
ShowingsKept ==
  \A r \in cmRows : \/ \E q \in cmRows' : q.campaign = r.campaign /\ q.period = r.period /\ q.at = r.at
                    \/ \E e \in r.expires : e <= cmNow

(* A request that has no part in a step. *)
CmStands(g) ==
  /\ cmpc'[g] = cmpc[g] /\ cmList'[g] = cmList[g] /\ cmOften'[g] = cmOften[g]
  /\ cmAt'[g] = cmAt[g] /\ cmSession'[g] = cmSession[g] /\ cmEdit'[g] = cmEdit[g]

TimeFlows ==
  /\ cmNow' = cmNow \/ cmNow' = cmNow + 1
  /\ cmNow' # cmNow => \A h \in CmRequests : cmpc[h] \in {"ask", "insert"} => cmNow < cmAt[h] + CmLongestRequest

LEMMA PassedOverStays ==
  ASSUME CmInv, ShowingsKept, cmSeen \subseteq cmSeen', NEW g \in CmRequests, CmStands(g),
         cmpc[g] \in {"ask", "insert"}, NEW c, PassedOver(g, c)
  PROVE  PassedOver(g, c)'
 <1>t. /\ CmRetention \in Nat /\ CmWeek \in Nat /\ CmLongestRequest \in Nat /\ CmFloor \in Nat
       /\ CmFloor < CmWeek /\ CmRetention >= CmWeek + CmLongestRequest
   BY CmTimesAssumption
 <1>n. cmNow \in Nat /\ cmAt[g] \in Nat BY DEF CmInv, CmTyped, CmTypeOK
 <1>a. cmNow <= cmAt[g] + CmLongestRequest BY DEF CmInv, AskingFits
 <1>1. ASSUME ShownWithinFloor(c, cmAt[g]) PROVE ShownWithinFloor(c, cmAt[g])'
  <2>1. PICK r \in cmRows : r.campaign = c /\ r.at >= cmAt[g] - CmFloor BY <1>1 DEF ShownWithinFloor
  <2>2. r.at \in Nat BY DEF CmInv, CmTyped, CmTypeOK
  <2>3. ~ \E e \in r.expires : e <= cmNow
   <3> SUFFICES ASSUME NEW e \in r.expires, e <= cmNow PROVE FALSE OBVIOUS
   <3>1. r.at + CmRetention <= cmNow BY SweptIsOver
   <3> QED BY <3>1, <2>1, <2>2, <1>t, <1>n, <1>a
  <2>4. PICK q \in cmRows' : q.campaign = r.campaign /\ q.at = r.at BY <2>3 DEF ShowingsKept
  <2> QED BY <2>1, <2>4 DEF ShownWithinFloor, CmStands
 <1> QED BY <1>1 DEF PassedOver, CmStands

LEMMA AskingStays ==
  ASSUME CmInv, ShowingsKept, TimeFlows, cmSeen \subseteq cmSeen', NEW g \in CmRequests, CmStands(g)
  PROVE  AskingFits(g)'
 <1> SUFFICES ASSUME cmpc[g] \in {"ask", "insert"} PROVE AskingFits(g)' BY DEF CmStands, AskingFits
 <1>n. cmNow \in Nat /\ cmAt[g] \in Nat /\ CmLongestRequest \in Nat
   BY CmTimesAssumption DEF CmInv, CmTyped, CmTypeOK
 <1>1. AskingFits(g) BY DEF CmInv
 <1>2. cmAt'[g] <= cmNow' /\ cmNow' <= cmAt'[g] + CmLongestRequest
   BY <1>n, <1>1 DEF TimeFlows, AskingFits, CmStands
 <1>3. \A c \in DOMAIN cmOften[g] \ cmList[g] : PassedOver(g, c)'
   BY <1>1, PassedOverStays DEF AskingFits
 <1> QED BY <1>1, <1>2, <1>3 DEF AskingFits, CmStands

LEMMA InsertStays ==
  ASSUME CmInv, NEW g \in CmRequests, CmStands(g),
         \/ g \in cmCheckedPast'
         \/ cmLast' = cmLast /\ (g \in cmCheckedPast => g \in cmCheckedPast')
         \/ cmpc[g] # "insert"
  PROVE  InsertFits(g)'
  BY DEF CmInv, InsertFits, CmStands, MostImportant, PeriodKey

LEMMA EditStays ==
  ASSUME CmInv, NEW g \in CmRequests, CmStands(g), cmExcused \subseteq cmExcused',
         \A c \in CmCampaigns : cmpc[g] = "edit" /\ cmList[g] = {c} =>
                                  cmCampaign'[c] = cmCampaign[c] \/ c \in cmExcused'
  PROVE  EditFits(g)'
  BY DEF CmInv, EditFits, CmStands, EditAllowed, After

(* The rows of showings that no step adds to. *)
LEMMA ShowingsStay ==
  ASSUME CmInv, CmTyped', ShowingsKept, TimeFlows, cmSeen' = cmSeen, cmLast' = cmLast
  PROVE  SeenIsKept' /\ LastIsKept'
 <1>t. cmNow \in Nat /\ CmLongestRequest \in Nat /\ CmRetention \in Nat
       /\ \A c \in CmCampaigns : cmLast[c] \in Int
   BY CmTimesAssumption DEF CmInv, CmTyped, CmTypeOK
 <1>n. cmNow' \in Nat /\ cmNow <= cmNow' BY <1>t DEF TimeFlows
 <1>1. SeenIsKept'
  <2> SUFFICES ASSUME NEW c, NEW key, <<c, key>> \in cmSeen, key[1] # "login",
                      ~ \E q \in cmRows' : q.campaign = c /\ q.period = key
               PROVE  WindowIsOver(key)'
    BY DEF SeenIsKept
  <2>1. WindowIsOver(key)
   <3>1. CASE \E r \in cmRows : r.campaign = c /\ r.period = key
    <4>1. PICK r \in cmRows : r.campaign = c /\ r.period = key BY <3>1
    <4>2. PICK e \in r.expires : e <= cmNow BY <4>1 DEF ShowingsKept
    <4> QED BY <4>1, <4>2, SweptIsOver
   <3> QED BY <3>1 DEF CmInv, SeenIsKept
  <2> SUFFICES ASSUME NEW at \in Nat, NEW often \in Frequencies, NEW session,
                      key \in PeriodKey(often, at, session)
               PROVE  at + CmLongestRequest < cmNow'
    BY DEF WindowIsOver, PeriodKey
  <2>2. at + CmLongestRequest < cmNow BY <2>1 DEF WindowIsOver
  <2> QED BY <2>2, <1>t, <1>n
 <1>2. LastIsKept'
  <2> SUFFICES ASSUME NEW c \in CmCampaigns, cmLast[c] >= 0,
                      ~ \E q \in cmRows' : q.campaign = c /\ q.at = cmLast[c]
               PROVE  cmLast[c] + CmRetention <= cmNow'
    BY DEF LastIsKept
  <2>1. cmLast[c] + CmRetention <= cmNow
   <3>1. CASE \E r \in cmRows : r.campaign = c /\ r.at = cmLast[c]
    <4>1. PICK r \in cmRows : r.campaign = c /\ r.at = cmLast[c] BY <3>1
    <4>2. PICK e \in r.expires : e <= cmNow BY <4>1 DEF ShowingsKept
    <4> QED BY <4>1, <4>2, SweptIsOver
   <3> QED BY <3>1 DEF CmInv, LastIsKept
  <2> QED BY <2>1, <1>t, <1>n
 <1> QED BY <1>1, <1>2

LEMMA KeptWhenKept == cmRows' = cmRows => ShowingsKept
  BY DEF ShowingsKept

(* The types, action by action. *)
LEMMA NotThisOneTypes ==
  ASSUME CmTyped, NEW h \in CmRequests, NotThisOne(h)
  PROVE  /\ cmpc' \in [CmRequests -> {"idle", "ask", "insert", "edit"}]
         /\ cmList' \in [CmRequests -> SUBSET CmCampaigns]
         /\ DOMAIN cmOften' = CmRequests /\ DOMAIN cmSession' = CmRequests
         /\ cmAt' \in [CmRequests -> Nat]
 <1> DEFINE rest == cmList[h] \ {MostImportant(cmList[h])}
 <1>1. rest \subseteq CmCampaigns BY DEF CmTyped, CmTypeOK
 <1>2. CASE rest = {}
  <2>1. /\ cmpc' = [cmpc EXCEPT ![h] = "idle"] /\ cmList' = [cmList EXCEPT ![h] = {}]
        /\ cmOften' = [cmOften EXCEPT ![h] = <<>>] /\ cmAt' = [cmAt EXCEPT ![h] = 0]
        /\ cmSession' = [cmSession EXCEPT ![h] = CmNoSession]
    BY <1>2 DEF NotThisOne, Answered
  <2> QED BY <2>1 DEF CmTyped, CmTypeOK
 <1>3. CASE rest # {}
  <2>1. /\ cmpc' = [cmpc EXCEPT ![h] = "ask"] /\ cmList' = [cmList EXCEPT ![h] = rest]
        /\ UNCHANGED <<cmOften, cmAt, cmSession>>
    BY <1>3 DEF NotThisOne
  <2> HIDE DEF rest
  <2> QED BY <2>1, <1>1 DEF CmTyped, CmTypeOK
 <1> QED BY <1>2, <1>3

LEMMA RequestTypes ==
  ASSUME CmTyped, NEW h \in CmRequests,
         \/ \E s \in CmSessions \cup {CmNoSession} : NextFor(h, s)
         \/ AskFloor(h)
         \/ \E c \in CmCampaigns, input \in CmInputs : BeginUpdate(h, c, input)
  PROVE  CmTyped'
 <1>c. CmMostCalls \in Nat /\ CmLastTick \in Nat BY CmTimesAssumption
 <1>1. ASSUME NEW s, NextFor(h, s) PROVE CmTyped'
   BY <1>1, <1>c DEF NextFor, Called, CmTyped, CmTypeOK
 <1>2. ASSUME AskFloor(h) PROVE CmTyped'
  <2>1. CASE NotThisOne(h) BY <1>2, <2>1, <1>c, NotThisOneTypes DEF AskFloor, CmTyped, CmTypeOK
  <2>2. CASE cmpc' = [cmpc EXCEPT ![h] = "insert"] /\ UNCHANGED <<cmList, cmOften, cmAt, cmSession, cmCheckedPast>>
    BY <1>2, <2>2, <1>c DEF AskFloor, CmTyped, CmTypeOK
  <2> QED BY <1>2, <2>1, <2>2 DEF AskFloor
 <1>3. ASSUME NEW c \in CmCampaigns, NEW input \in CmInputs, BeginUpdate(h, c, input) PROVE CmTyped'
   BY <1>3, <1>c DEF BeginUpdate, Called, CmTyped, CmTypeOK
 <1> QED BY <1>1, <1>2, <1>3

LEMMA RecordTypes ==
  ASSUME CmInv, NEW h \in CmRequests, RecordImpression(h)
  PROVE  CmTyped'
 <1>c. CmMostCalls \in Nat /\ CmLastTick \in Nat BY CmTimesAssumption
 <1>t. CmTyped BY DEF CmInv
 <1> DEFINE c == MostImportant(cmList[h])
            often == cmOften[h][c]
            key == CHOOSE k \in PeriodKey(often, cmAt[h], cmSession[h]) : TRUE
 <1>1. CASE \E r \in cmRows : r.campaign = c /\ r.period = key
  <2>1. /\ NotThisOne(h)
        /\ UNCHANGED <<cmRows, cmSeen, cmTwice, cmLast, cmTooSoon, cmNow, cmCampaign, cmEdit, cmCalls, cmExcused>>
    BY <1>1 DEF RecordImpression
  <2> HIDE DEF c, often, key
  <2> QED BY <2>1, <1>t, NotThisOneTypes DEF CmTyped, CmTypeOK
 <1>2. CASE ~ \E r \in cmRows : r.campaign = c /\ r.period = key
  <2>1. cmpc[h] = "insert" /\ c \in CmCampaigns
    BY MostImportantIs DEF RecordImpression, CmInv, AskingFits
  <2>2. cmAt[h] \in 0..CmLastTick BY <2>1, <1>t, <1>c DEF CmInv, AskingFits, CmTyped, CmTypeOK
  <2>r. cmRows' = cmRows \cup {[campaign |-> c, period |-> key, at |-> cmAt[h],
                                expires |-> ImpressionExpiry(often, cmAt[h]), clicked |-> FALSE]}
    BY <1>2 DEF RecordImpression
  <2>s. /\ cmpc' = [cmpc EXCEPT ![h] = "idle"] /\ cmList' = [cmList EXCEPT ![h] = {}]
        /\ cmOften' = [cmOften EXCEPT ![h] = <<>>] /\ cmAt' = [cmAt EXCEPT ![h] = 0]
        /\ cmSession' = [cmSession EXCEPT ![h] = CmNoSession]
        /\ cmLast' = [cmLast EXCEPT ![c] = cmAt[h]]
        /\ UNCHANGED <<cmNow, cmCampaign, cmEdit, cmCalls>>
    BY <1>2 DEF RecordImpression
  <2> HIDE DEF c, often, key
  <2>3. \A r \in cmRows' : r.campaign \in CmCampaigns /\ r.at \in 0..CmLastTick /\ r.clicked \in BOOLEAN
   <3> SUFFICES ASSUME NEW r \in cmRows'
                PROVE  r.campaign \in CmCampaigns /\ r.at \in 0..CmLastTick /\ r.clicked \in BOOLEAN
     OBVIOUS
   <3>1. CASE r \in cmRows BY <3>1, <1>t DEF CmTyped, CmTypeOK
   <3>2. CASE r \notin cmRows
    <4>1. r.campaign = c /\ r.at = cmAt[h] /\ r.clicked = FALSE BY <3>2, <2>r
    <4> QED BY <4>1, <2>1, <2>2
   <3> QED BY <3>1, <3>2
  <2>4. cmpc' \in [CmRequests -> {"idle", "ask", "insert", "edit"}]
        /\ cmList' \in [CmRequests -> SUBSET CmCampaigns]
    BY <2>s, <1>t DEF CmTyped, CmTypeOK
  <2>5. cmAt' \in [CmRequests -> Nat] /\ cmLast' \in [CmCampaigns -> Int]
   <3>1. cmAt[h] \in Int BY <2>2, <1>c
   <3> QED BY <2>s, <3>1, <1>t DEF CmTyped
  <2>6. DOMAIN cmOften' = CmRequests /\ DOMAIN cmSession' = CmRequests /\ DOMAIN cmEdit' = CmRequests
    BY <2>s, <1>t DEF CmTyped
  <2> QED BY <2>3, <2>4, <2>5, <2>6, <2>s, <1>t DEF CmTyped, CmTypeOK
 <1> QED BY <1>1, <1>2

(* A merged document has every field, of its kind. *)
LEMMA MergedFits ==
  ASSUME NEW stored, DOMAIN stored = CmFields, FieldsFit(stored), NEW input, FieldsFit(input)
  PROVE  LET merged == [f \in DOMAIN stored |-> IF f \in DOMAIN input THEN input[f] ELSE stored[f]] IN
         DOMAIN merged = CmFields /\ FieldsFit(merged)
  BY DEF FieldsFit, CmFields

LEMMA WriteTypes ==
  ASSUME CmInv, NEW h \in CmRequests, WriteUpdate(h)
  PROVE  CmTyped'
 <1>t. CmTyped BY DEF CmInv
 <1>1. PICK c \in CmCampaigns : cmList[h] = {c} BY DEF CmInv, EditFits, WriteUpdate
 <1>2. MostImportant(cmList[h]) = c BY <1>1, MostImportantIs
 <1>3. FieldsFit(cmEdit[h]) BY CmCampaignsAssumption DEF CmInv, EditFits, WriteUpdate
 <1>4. cmCampaign' = [cmCampaign EXCEPT ![c] = [f \in DOMAIN cmCampaign[c] |->
                        IF f \in DOMAIN cmEdit[h] THEN cmEdit[h][f] ELSE cmCampaign[c][f]]]
   BY <1>2 DEF WriteUpdate
 <1>5. /\ DOMAIN cmCampaign' = CmCampaigns
       /\ \A d \in CmCampaigns : DOMAIN cmCampaign'[d] = CmFields /\ FieldsFit(cmCampaign'[d])
  <2>1. DOMAIN cmCampaign'[c] = CmFields /\ FieldsFit(cmCampaign'[c])
    BY <1>3, <1>4, <1>t, MergedFits DEF CmTyped
  <2> QED BY <2>1, <1>4, <1>t DEF CmTyped
 <1>6. \A d \in CmCampaigns : cmCampaign'[d]["often"] \in Frequencies /\ cmCampaign'[d]["action"] \in ActionTypes
   BY <1>5 DEF FieldsFit, CmFields
 <1> QED BY <1>5, <1>6, <1>t DEF WriteUpdate, CmTyped, CmTypeOK

LEMMA WorldTypes ==
  ASSUME CmInv, (\E c \in CmCampaigns : RecordInteraction(c)) \/ SweepImpressions \/ CmTick
  PROVE  CmTyped'
 <1>c. CmMostCalls \in Nat /\ CmLastTick \in Nat BY CmTimesAssumption
 <1>t. CmTyped BY DEF CmInv
 <1>1. ASSUME NEW c \in CmCampaigns, RecordInteraction(c) PROVE CmTyped'
  <2>1. PICK r \in cmRows : cmRows' = (cmRows \ {r}) \cup {[r EXCEPT !.clicked = TRUE]}
    BY <1>1 DEF RecordInteraction
  <2>2. DOMAIN r = {"campaign", "period", "at", "expires", "clicked"} BY DEF CmInv, RowFits
  <2>3. \A q \in cmRows' : q.campaign \in CmCampaigns /\ q.at \in 0..CmLastTick /\ q.clicked \in BOOLEAN
    BY <2>1, <2>2, <1>t DEF CmTyped, CmTypeOK
  <2> QED BY <2>3, <1>1, <1>t, <1>c DEF RecordInteraction, Called, CmTyped, CmTypeOK
 <1>2. ASSUME SweepImpressions PROVE CmTyped' BY <1>2, <1>t DEF SweepImpressions, CmTyped, CmTypeOK
 <1>3. ASSUME CmTick PROVE CmTyped' BY <1>3, <1>t, <1>c DEF CmTick, CmTyped, CmTypeOK
 <1> QED BY <1>1, <1>2, <1>3

(* The campaign above the rest of a list is passed over. *)
LEMMA NotThisOneFits ==
  ASSUME CmInv, NEW h \in CmRequests, cmpc[h] \in {"ask", "insert"}, NotThisOne(h),
         PassedOver(h, MostImportant(cmList[h])),
         UNCHANGED <<cmNow, cmCampaign, cmRows, cmEdit, cmCalls, cmSeen, cmTwice, cmLast, cmTooSoon, cmExcused>>
  PROVE  CmInv'
 <1> DEFINE c == MostImportant(cmList[h])
            rest == cmList[h] \ {c}
 <1>t. CmTyped BY DEF CmInv
 <1>T. CmTyped' BY <1>t, NotThisOneTypes DEF CmTyped, CmTypeOK
 <1>a. AskingFits(h) BY DEF CmInv
 <1>k. ShowingsKept /\ TimeFlows BY DEF ShowingsKept, TimeFlows
 <1>s. cmSeen \subseteq cmSeen' /\ cmExcused \subseteq cmExcused' OBVIOUS
 <1>3. /\ AskingFits(h)' /\ InsertFits(h)' /\ EditFits(h)'
       /\ \A g \in CmRequests \ {h} : CmStands(g) /\ (g \in cmCheckedPast => g \in cmCheckedPast')
  <2>1. CASE rest = {}
   <3>1. /\ cmpc' = [cmpc EXCEPT ![h] = "idle"] /\ cmList' = [cmList EXCEPT ![h] = {}]
         /\ cmOften' = [cmOften EXCEPT ![h] = <<>>] /\ cmAt' = [cmAt EXCEPT ![h] = 0]
         /\ cmSession' = [cmSession EXCEPT ![h] = CmNoSession]
         /\ cmCheckedPast' = cmCheckedPast \ {h}
     BY <2>1 DEF NotThisOne, Answered
   <3>2. cmpc'[h] = "idle" BY <3>1, <1>t DEF CmTyped, CmTypeOK
   <3>3. AskingFits(h)' /\ InsertFits(h)' /\ EditFits(h)' BY <3>2 DEF AskingFits, InsertFits, EditFits
   <3>4. \A g \in CmRequests \ {h} : CmStands(g) /\ (g \in cmCheckedPast => g \in cmCheckedPast')
     BY <3>1, <1>t DEF CmStands, CmTyped, CmTypeOK
   <3> QED BY <3>3, <3>4
  <2>2. CASE rest # {}
   <3>1. /\ cmpc' = [cmpc EXCEPT ![h] = "ask"] /\ cmList' = [cmList EXCEPT ![h] = rest]
         /\ cmCheckedPast' = cmCheckedPast \ {h}
         /\ UNCHANGED <<cmOften, cmAt, cmSession>>
     BY <2>2 DEF NotThisOne
   <3>2. cmpc'[h] = "ask" /\ cmList'[h] = rest BY <3>1, <1>t DEF CmTyped, CmTypeOK
   <3>3. \A d \in CmCampaigns : PassedOver(h, d) => PassedOver(h, d)'
     BY <3>1 DEF PassedOver, ShownWithinFloor
   <3>4. AskingFits(h)'
    <4>1. \A d \in DOMAIN cmOften[h] \ rest : PassedOver(h, d)' BY <1>a, <3>3 DEF AskingFits
    <4>2. rest # {} /\ rest \subseteq DOMAIN cmOften[h] BY <2>2, <1>a DEF AskingFits
    <4> HIDE DEF rest, c
    <4> QED BY <1>a, <3>1, <3>2, <4>1, <4>2 DEF AskingFits
   <3>5. InsertFits(h)' /\ EditFits(h)' BY <3>2 DEF InsertFits, EditFits
   <3>6. \A g \in CmRequests \ {h} : CmStands(g) /\ (g \in cmCheckedPast => g \in cmCheckedPast')
     BY <3>1, <1>t DEF CmStands, CmTyped, CmTypeOK
   <3> QED BY <3>4, <3>5, <3>6
  <2> QED BY <2>1, <2>2
 <1>4. \A g \in CmRequests \ {h} : AskingFits(g)' /\ InsertFits(g)' /\ EditFits(g)'
   BY <1>3, <1>k, <1>s, AskingStays, InsertStays, EditStays
 <1>5. SeenIsKept' /\ LastIsKept' BY <1>T, <1>k, ShowingsStay
 <1>6. OneShowingPerWindow' /\ OpeningsKeepTheFloor' /\ ButtonsLeadSomewhere'
   BY DEF CmInv, OneShowingPerWindow, OpeningsKeepTheFloor, ButtonsLeadSomewhere
 <1>7. (\A r \in cmRows : RowFits(r))' BY DEF CmInv, RowFits
 <1> QED BY <1>T, <1>3, <1>4, <1>5, <1>6, <1>7 DEF CmInv

CmGood == CmInv' /\ MostImportantFirst

(* Steps that insert no row show nothing. *)
LEMMA NothingShown ==
  ASSUME \A h \in CmRequests : cmpc[h] = "insert" /\ cmpc'[h] = "idle" => cmRows' \subseteq cmRows
  PROVE  MostImportantFirst
  BY DEF MostImportantFirst

LEMMA NextForKept ==
  ASSUME CmInv, NEW h \in CmRequests, NEW s \in CmSessions \cup {CmNoSession}, NextFor(h, s)
  PROVE  CmGood
 <1> DEFINE eligible == {c \in CmCampaigns : Eligible(c)}
 <1>t. CmTyped /\ CmTyped' BY RequestTypes DEF CmInv
 <1>n. cmNow \in Nat /\ CmLongestRequest \in Nat BY <1>t, CmTimesAssumption DEF CmTyped, CmTypeOK
 <1>d. /\ cmpc[h] = "idle" /\ eligible # {}
       /\ cmpc' = [cmpc EXCEPT ![h] = "ask"] /\ cmList' = [cmList EXCEPT ![h] = eligible]
       /\ cmOften' = [cmOften EXCEPT ![h] = [c \in eligible |-> cmCampaign[c].often]]
       /\ cmAt' = [cmAt EXCEPT ![h] = cmNow] /\ cmSession' = [cmSession EXCEPT ![h] = s]
       /\ UNCHANGED <<cmNow, cmCampaign, cmRows, cmEdit, cmSeen, cmTwice, cmLast, cmCheckedPast, cmTooSoon, cmExcused>>
   BY DEF NextFor
 <1>e. eligible \subseteq CmCampaigns OBVIOUS
 <1> HIDE DEF eligible
 <1>1. /\ cmpc'[h] = "ask" /\ cmList'[h] = eligible /\ cmAt'[h] = cmNow
       /\ cmOften'[h] = [c \in eligible |-> cmCampaign[c].often]
   BY <1>d, <1>t DEF CmTyped, CmTypeOK
 <1>2. AskingFits(h)'
  <2>1. \A c \in eligible : cmCampaign[c].often \in Frequencies BY <1>t, <1>e DEF CmTyped, CmTypeOK
  <2> QED BY <1>1, <2>1, <1>d, <1>e, <1>n DEF AskingFits
 <1>3. InsertFits(h)' /\ EditFits(h)' BY <1>1 DEF InsertFits, EditFits
 <1>4. \A g \in CmRequests \ {h} : CmStands(g) BY <1>d, <1>t DEF CmStands, CmTyped, CmTypeOK
 <1>5. ShowingsKept /\ TimeFlows BY <1>d DEF ShowingsKept, TimeFlows
 <1>6. \A g \in CmRequests \ {h} : AskingFits(g)' /\ InsertFits(g)' /\ EditFits(g)'
   BY <1>4, <1>5, <1>d, AskingStays, InsertStays, EditStays
 <1>7. SeenIsKept' /\ LastIsKept' BY <1>t, <1>5, <1>d, ShowingsStay
 <1>8. OneShowingPerWindow' /\ OpeningsKeepTheFloor' /\ ButtonsLeadSomewhere'
   BY <1>d DEF CmInv, OneShowingPerWindow, OpeningsKeepTheFloor, ButtonsLeadSomewhere
 <1>9. (\A r \in cmRows : RowFits(r))' BY <1>d DEF CmInv, RowFits
 <1>10. MostImportantFirst BY <1>d, NothingShown
 <1> QED BY <1>t, <1>2, <1>3, <1>6, <1>7, <1>8, <1>9, <1>10 DEF CmInv, CmGood

LEMMA AskFloorKept ==
  ASSUME CmInv, NEW h \in CmRequests, AskFloor(h)
  PROVE  CmGood
 <1> DEFINE c == MostImportant(cmList[h])
            often == cmOften[h][c]
            keys == PeriodKey(often, cmAt[h], cmSession[h])
 <1>t. CmTyped /\ CmTyped' BY RequestTypes DEF CmInv
 <1>u. /\ cmpc[h] = "ask"
       /\ UNCHANGED <<cmNow, cmCampaign, cmRows, cmEdit, cmCalls, cmSeen, cmTwice, cmLast, cmTooSoon, cmExcused>>
   BY DEF AskFloor
 <1>m. MostImportantFirst BY <1>u, NothingShown
 <1>1. CASE keys = {} \/ (often = "EVERY_APP_OPEN" /\ ShownWithinFloor(c, cmAt[h]))
  <2>1. NotThisOne(h) BY <1>1 DEF AskFloor
  <2>2. PassedOver(h, c) BY <1>1 DEF PassedOver
  <2> QED BY <2>1, <2>2, <1>u, <1>m, NotThisOneFits DEF CmGood
 <1>2. CASE ~(keys = {} \/ (often = "EVERY_APP_OPEN" /\ ShownWithinFloor(c, cmAt[h])))
  <2>d. /\ cmpc' = [cmpc EXCEPT ![h] = "insert"]
        /\ UNCHANGED <<cmList, cmOften, cmAt, cmSession, cmCheckedPast>>
    BY <1>2 DEF AskFloor
  <2>1. cmpc'[h] = "insert" BY <2>d, <1>t DEF CmTyped, CmTypeOK
  <2>2. AskingFits(h)' BY <2>1, <2>d, <1>u DEF CmInv, AskingFits, PassedOver, ShownWithinFloor
  <2>3. InsertFits(h)'
   <3>1. ASSUME often = "EVERY_APP_OPEN", cmLast[c] >= 0, cmLast[c] >= cmAt[h] - CmFloor PROVE FALSE
    <4>a. c \in CmCampaigns BY <1>u, MostImportantIs DEF CmInv, AskingFits
    <4>n. /\ cmLast[c] \in Int /\ cmNow \in Nat /\ cmAt[h] \in Nat
          /\ cmNow <= cmAt[h] + CmLongestRequest
      BY <4>a, <1>t, <1>u DEF CmTyped, CmTypeOK, CmInv, AskingFits
    <4>b. /\ CmRetention \in Nat /\ CmWeek \in Nat /\ CmLongestRequest \in Nat /\ CmFloor \in Nat
          /\ CmFloor < CmWeek /\ CmRetention >= CmWeek + CmLongestRequest
      BY CmTimesAssumption
    <4>1. ~(cmLast[c] + CmRetention <= cmNow) BY <3>1, <4>n, <4>b
    <4>2. PICK r \in cmRows : r.campaign = c /\ r.at = cmLast[c]
      BY <4>1, <4>a, <3>1 DEF CmInv, LastIsKept
    <4>3. ShownWithinFloor(c, cmAt[h]) BY <4>2, <3>1 DEF ShownWithinFloor
    <4> QED BY <4>3, <3>1, <1>2
   <3>2. keys # {} BY <1>2
   <3>3. MostImportant(cmList[h])' = c /\ (PeriodKey(cmOften[h][c], cmAt[h], cmSession[h]))' = keys
     BY <2>d, <1>u DEF MostImportant, PeriodKey
   <3> QED BY <3>1, <3>2, <3>3, <2>d, <1>u DEF InsertFits
  <2>4. EditFits(h)' BY <2>1 DEF EditFits
  <2>5. \A g \in CmRequests \ {h} : CmStands(g) BY <2>d, <1>u, <1>t DEF CmStands, CmTyped, CmTypeOK
  <2>6. ShowingsKept /\ TimeFlows BY <1>u DEF ShowingsKept, TimeFlows
  <2>7. \A g \in CmRequests \ {h} : AskingFits(g)' /\ InsertFits(g)' /\ EditFits(g)'
    BY <2>5, <2>6, <2>d, <1>u, AskingStays, InsertStays, EditStays
  <2>8. SeenIsKept' /\ LastIsKept' BY <1>t, <2>6, <1>u, ShowingsStay
  <2>9. OneShowingPerWindow' /\ OpeningsKeepTheFloor' /\ ButtonsLeadSomewhere'
    BY <1>u DEF CmInv, OneShowingPerWindow, OpeningsKeepTheFloor, ButtonsLeadSomewhere
  <2>10. (\A r \in cmRows : RowFits(r))' BY <1>u DEF CmInv, RowFits
  <2> QED BY <1>t, <1>m, <2>2, <2>3, <2>4, <2>7, <2>8, <2>9, <2>10 DEF CmInv, CmGood
 <1> QED BY <1>1, <1>2

LEMMA RecordImpressionKept ==
  ASSUME CmInv, NEW h \in CmRequests, RecordImpression(h)
  PROVE  CmGood
 <1> DEFINE c == MostImportant(cmList[h])
            often == cmOften[h][c]
            keys == PeriodKey(often, cmAt[h], cmSession[h])
            key == CHOOSE k \in keys : TRUE
            row == [campaign |-> c, period |-> key, at |-> cmAt[h],
                    expires |-> ImpressionExpiry(often, cmAt[h]), clicked |-> FALSE]
 <1>t. CmTyped /\ CmTyped' BY RecordTypes DEF CmInv
 <1>u. cmpc[h] = "insert" /\ UNCHANGED <<cmNow, cmCampaign, cmEdit, cmCalls, cmExcused>>
   BY DEF RecordImpression
 <1>a. AskingFits(h) /\ InsertFits(h) BY DEF CmInv
 <1>c. c \in cmList[h] /\ \A d \in cmList[h] : CmImportance[d] <= CmImportance[c]
   BY <1>u, <1>a, MostImportantIs DEF AskingFits
 <1>o. c \in CmCampaigns /\ often \in Frequencies BY <1>u, <1>a, <1>c DEF AskingFits
 <1>k. key \in keys
  <2>1. keys # {} BY <1>u, <1>a DEF InsertFits
  <2> QED BY <2>1
 <1>1. CASE \E r \in cmRows : r.campaign = c /\ r.period = key
  <2>d. /\ NotThisOne(h)
        /\ UNCHANGED <<cmRows, cmSeen, cmTwice, cmLast, cmTooSoon>>
    BY <1>1 DEF RecordImpression
  <2>1. PassedOver(h, c)
   <3>1. <<c, key>> \in cmSeen BY <1>1 DEF CmInv, RowFits
   <3> QED BY <3>1, <1>k DEF PassedOver
  <2>2. MostImportantFirst BY <2>d, NothingShown
  <2> QED BY <1>u, <2>d, <2>1, <2>2, NotThisOneFits DEF CmGood
 <1>2. CASE ~ \E r \in cmRows : r.campaign = c /\ r.period = key
  <2>d. /\ cmRows' = cmRows \cup {row}
        /\ cmSeen' = cmSeen \cup {<<c, key>>}
        /\ cmTwice' = IF <<c, key>> \in cmSeen THEN cmTwice \cup {<<c, key>>} ELSE cmTwice
        /\ cmTooSoon' = IF often = "EVERY_APP_OPEN" /\ cmLast[c] >= cmAt[h] - CmFloor
                           /\ cmLast[c] >= 0 /\ h \notin cmCheckedPast
                        THEN cmTooSoon \cup {c} ELSE cmTooSoon
        /\ cmLast' = [cmLast EXCEPT ![c] = cmAt[h]]
        /\ cmpc' = [cmpc EXCEPT ![h] = "idle"] /\ cmList' = [cmList EXCEPT ![h] = {}]
        /\ cmOften' = [cmOften EXCEPT ![h] = <<>>] /\ cmAt' = [cmAt EXCEPT ![h] = 0]
        /\ cmSession' = [cmSession EXCEPT ![h] = CmNoSession]
        /\ cmCheckedPast' = (cmCheckedPast \cup {g \in CmRequests : cmpc[g] = "insert"}) \ {h}
    BY <1>2 DEF RecordImpression
  <2>i. InsertFits(h) => ~(often = "EVERY_APP_OPEN" /\ cmLast[c] >= cmAt[h] - CmFloor
                           /\ cmLast[c] >= 0 /\ h \notin cmCheckedPast)
    BY <1>u DEF InsertFits
  <2>p. key \in PeriodKey(often, cmAt[h], cmSession[h]) BY <1>k
  <2>r. /\ row.campaign = c /\ row.period = key /\ row.at = cmAt[h]
        /\ row.expires = ImpressionExpiry(often, cmAt[h])
        /\ DOMAIN row = {"campaign", "period", "at", "expires", "clicked"}
    OBVIOUS
  <2> HIDE DEF c, often, keys, key, row
  <2>1. cmpc'[h] = "idle" BY <2>d, <1>t DEF CmTyped, CmTypeOK
  <2>2. AskingFits(h)' /\ InsertFits(h)' /\ EditFits(h)' BY <2>1 DEF AskingFits, InsertFits, EditFits
  <2>3. \A g \in CmRequests \ {h} : CmStands(g) BY <2>d, <1>u, <1>t DEF CmStands, CmTyped, CmTypeOK
  <2>4. ShowingsKept /\ TimeFlows BY <2>d, <1>u DEF ShowingsKept, TimeFlows
  <2>5. \A g \in CmRequests \ {h} : AskingFits(g)' /\ InsertFits(g)' /\ EditFits(g)'
   <3> SUFFICES ASSUME NEW g \in CmRequests \ {h}
                PROVE  AskingFits(g)' /\ InsertFits(g)' /\ EditFits(g)'
     OBVIOUS
   <3>1. cmSeen \subseteq cmSeen' BY <2>d
   <3>2. AskingFits(g)' BY <2>3, <2>4, <3>1, AskingStays
   <3>3. g \in cmCheckedPast' \/ cmpc[g] # "insert" BY <2>d
   <3>4. InsertFits(g)' BY <2>3, <3>3, InsertStays
   <3>5. EditFits(g)' BY <2>3, <1>u, EditStays
   <3> QED BY <3>2, <3>4, <3>5
  <2>6. (\A r \in cmRows : RowFits(r))'
   <3> SUFFICES ASSUME NEW r \in cmRows' PROVE RowFits(r)' OBVIOUS
   <3>1. CASE r \in cmRows BY <3>1, <2>d DEF CmInv, RowFits
   <3>2. CASE r = row
    <4>1. <<r.campaign, r.period>> \in cmSeen' BY <3>2, <2>r, <2>d
    <4> QED BY <3>2, <4>1, <2>r, <2>p, <1>o DEF RowFits
   <3> QED BY <3>1, <3>2, <2>d
  <2>7. SeenIsKept'
   <3> SUFFICES ASSUME NEW d, NEW k, <<d, k>> \in cmSeen', k[1] # "login",
                       ~ \E r \in cmRows' : r.campaign = d /\ r.period = k
                PROVE  WindowIsOver(k)'
     BY DEF SeenIsKept
   <3>1. <<d, k>> \in cmSeen BY <2>d, <2>r
   <3>2. WindowIsOver(k) BY <3>1, <2>d DEF CmInv, SeenIsKept
   <3> QED BY <3>2, <1>u DEF WindowIsOver, PeriodKey
  <2>8. LastIsKept'
   <3> SUFFICES ASSUME NEW d \in CmCampaigns, cmLast'[d] >= 0,
                       ~ \E r \in cmRows' : r.campaign = d /\ r.at = cmLast'[d]
                PROVE  cmLast'[d] + CmRetention <= cmNow'
     BY DEF LastIsKept
   <3>1. CASE d = c
    <4>1. cmLast'[d] = cmAt[h] BY <3>1, <2>d, <1>t DEF CmTyped
    <4> QED BY <4>1, <3>1, <2>d, <2>r
   <3>2. CASE d # c
    <4>1. cmLast'[d] = cmLast[d] BY <3>2, <2>d, <1>t DEF CmTyped
    <4> QED BY <4>1, <2>d, <1>u DEF CmInv, LastIsKept
   <3> QED BY <3>1, <3>2
  <2>9. OneShowingPerWindow'
   <3>1. ASSUME <<c, key>> \in cmSeen, key[1] # "login" PROVE FALSE
    <4>1. WindowIsOver(key) BY <3>1, <1>2 DEF CmInv, SeenIsKept
    <4>2. cmAt[h] \in Nat /\ cmNow \in Nat /\ CmLongestRequest \in Nat
      BY <1>t, CmTimesAssumption DEF CmTyped, CmTypeOK
    <4>3. cmAt[h] + CmLongestRequest < cmNow BY <4>1, <4>2, <2>p, <1>o DEF WindowIsOver
    <4>4. cmNow <= cmAt[h] + CmLongestRequest BY <1>u, <1>a DEF AskingFits
    <4> QED BY <4>2, <4>3, <4>4
   <3>2. <<c, key>>[2] = key OBVIOUS
   <3> QED BY <3>1, <3>2, <2>d DEF CmInv, OneShowingPerWindow
  <2>10. OpeningsKeepTheFloor' BY <2>i, <1>a, <2>d DEF CmInv, OpeningsKeepTheFloor
  <2>11. ButtonsLeadSomewhere' BY <1>u DEF CmInv, ButtonsLeadSomewhere
  <2>12. MostImportantFirst
   <3> SUFFICES ASSUME NEW g \in CmRequests, NEW r \in cmRows' \ cmRows,
                       cmpc[g] = "insert", cmpc'[g] = "idle",
                       NEW d \in DOMAIN cmOften[g], CmImportance[d] > CmImportance[r.campaign]
                PROVE  PassedOver(g, d)
     BY DEF MostImportantFirst
   <3>1. g = h BY <2>3 DEF CmStands
   <3>2. r.campaign = c BY <2>d, <2>r
   <3>3. d \in CmCampaigns BY <3>1, <1>u, <1>a DEF AskingFits
   <3>4. CmImportance[d] \in Int /\ CmImportance[c] \in Int BY <3>3, <1>o, CmCampaignsAssumption
   <3>5. d \notin cmList[h] BY <3>2, <3>4, <1>c
   <3> QED BY <3>1, <3>5, <1>u, <1>a DEF AskingFits
  <2> QED BY <1>t, <2>2, <2>5, <2>6, <2>7, <2>8, <2>9, <2>10, <2>11, <2>12 DEF CmInv, CmGood
 <1> QED BY <1>1, <1>2

LEMMA BeginUpdateKept ==
  ASSUME CmInv, NEW h \in CmRequests, NEW c \in CmCampaigns, NEW input \in CmInputs, BeginUpdate(h, c, input)
  PROVE  CmGood
 <1>t. CmTyped /\ CmTyped' BY RequestTypes DEF CmInv
 <1>d. /\ cmpc[h] = "idle" /\ EditAllowed(input, cmCampaign[c])
       /\ cmpc' = [cmpc EXCEPT ![h] = "edit"] /\ cmList' = [cmList EXCEPT ![h] = {c}]
       /\ cmEdit' = [cmEdit EXCEPT ![h] = input]
       /\ UNCHANGED <<cmNow, cmCampaign, cmRows, cmOften, cmAt, cmSession, cmSeen, cmTwice,
                      cmLast, cmCheckedPast, cmTooSoon, cmExcused>>
   BY DEF BeginUpdate
 <1>1. cmpc'[h] = "edit" /\ cmList'[h] = {c} /\ cmEdit'[h] = input
   BY <1>d, <1>t DEF CmTyped, CmTypeOK
 <1>2. AskingFits(h)' /\ InsertFits(h)' BY <1>1 DEF AskingFits, InsertFits
 <1>3. EditFits(h)' BY <1>1, <1>d DEF EditFits, EditAllowed, After
 <1>4. \A g \in CmRequests \ {h} : CmStands(g) BY <1>d, <1>t DEF CmStands, CmTyped, CmTypeOK
 <1>5. ShowingsKept /\ TimeFlows BY <1>d DEF ShowingsKept, TimeFlows
 <1>6. \A g \in CmRequests \ {h} : AskingFits(g)' /\ InsertFits(g)' /\ EditFits(g)'
   BY <1>4, <1>5, <1>d, AskingStays, InsertStays, EditStays
 <1>7. SeenIsKept' /\ LastIsKept' BY <1>t, <1>5, <1>d, ShowingsStay
 <1>8. OneShowingPerWindow' /\ OpeningsKeepTheFloor' /\ ButtonsLeadSomewhere'
   BY <1>d DEF CmInv, OneShowingPerWindow, OpeningsKeepTheFloor, ButtonsLeadSomewhere
 <1>9. (\A r \in cmRows : RowFits(r))' BY <1>d DEF CmInv, RowFits
 <1>10. MostImportantFirst BY <1>d, NothingShown
 <1> QED BY <1>t, <1>2, <1>3, <1>6, <1>7, <1>8, <1>9, <1>10 DEF CmInv, CmGood

(* The document that assertActionIsCoherent looked at is the one that is
   stored, unless an explicit null says otherwise. *)
LEMMA MergedIsCoherent ==
  ASSUME NEW stored, DOMAIN stored = CmFields, NEW input, FieldsFit(input), EditAllowed(input, stored),
         \A f \in DOMAIN input \cap {"promo", "link"} : input[f]
  PROVE  LET merged == [f \in DOMAIN stored |-> IF f \in DOMAIN input THEN input[f] ELSE stored[f]] IN
         Coherent(merged["action"], merged["promo"], merged["link"])
 <1> DEFINE merged == [f \in DOMAIN stored |-> IF f \in DOMAIN input THEN input[f] ELSE stored[f]]
 <1>1. merged["action"] = After(input, stored, "action") BY DEF After, CmFields
 <1>2. merged["promo"] = After(input, stored, "promo") BY DEF After, CmFields
 <1>3. merged["link"] = After(input, stored, "link") BY DEF After, CmFields
 <1> HIDE DEF merged
 <1>4. Coherent(merged["action"], merged["promo"], merged["link"]) BY <1>1, <1>2, <1>3 DEF EditAllowed
 <1> QED BY <1>4 DEF merged

LEMMA WriteUpdateKept ==
  ASSUME CmInv, NEW h \in CmRequests, WriteUpdate(h)
  PROVE  CmGood
 <1>t. CmTyped /\ CmTyped' BY WriteTypes DEF CmInv
 <1>1. PICK c \in CmCampaigns : /\ cmList[h] = {c} /\ cmEdit[h] \in CmInputs
                                /\ c \notin cmExcused => EditAllowed(cmEdit[h], cmCampaign[c])
   BY DEF CmInv, EditFits, WriteUpdate
 <1>2. MostImportant(cmList[h]) = c BY <1>1, MostImportantIs
 <1> DEFINE merged == [f \in DOMAIN cmCampaign[c] |->
                         IF f \in DOMAIN cmEdit[h] THEN cmEdit[h][f] ELSE cmCampaign[c][f]]
 <1>d. /\ cmpc[h] = "edit"
       /\ cmCampaign' = [cmCampaign EXCEPT ![c] = merged]
       /\ cmExcused' = IF \/ \E f \in DOMAIN cmEdit[h] \cap {"promo", "link"} : ~cmEdit[h][f]
                          \/ \E g \in CmRequests \ {h} : cmpc[g] = "edit" /\ cmList[g] = {c}
                       THEN cmExcused \cup {c} ELSE cmExcused
       /\ cmpc' = [cmpc EXCEPT ![h] = "idle"] /\ cmList' = [cmList EXCEPT ![h] = {}]
       /\ cmEdit' = [cmEdit EXCEPT ![h] = <<>>]
       /\ UNCHANGED <<cmNow, cmRows, cmOften, cmAt, cmSession, cmCalls, cmSeen, cmTwice,
                      cmLast, cmCheckedPast, cmTooSoon>>
   BY <1>2 DEF WriteUpdate
 <1>m. c \notin cmExcused' => Coherent(merged["action"], merged["promo"], merged["link"])
  <2> SUFFICES ASSUME c \notin cmExcused' PROVE Coherent(merged["action"], merged["promo"], merged["link"])
    OBVIOUS
  <2>1. c \notin cmExcused /\ \A f \in DOMAIN cmEdit[h] \cap {"promo", "link"} : cmEdit[h][f] BY <1>d
  <2>2. FieldsFit(cmEdit[h]) BY <1>1, CmCampaignsAssumption
  <2>3. DOMAIN cmCampaign[c] = CmFields BY <1>t DEF CmTyped
  <2> QED BY <2>1, <2>2, <2>3, <1>1, MergedIsCoherent
 <1> HIDE DEF merged
 <1>3. cmpc'[h] = "idle" BY <1>d, <1>t DEF CmTyped, CmTypeOK
 <1>4. AskingFits(h)' /\ InsertFits(h)' /\ EditFits(h)' BY <1>3 DEF AskingFits, InsertFits, EditFits
 <1>5. \A g \in CmRequests \ {h} : CmStands(g) BY <1>d, <1>t DEF CmStands, CmTyped, CmTypeOK
 <1>6. ShowingsKept /\ TimeFlows BY <1>d DEF ShowingsKept, TimeFlows
 <1>7. \A g \in CmRequests \ {h} : AskingFits(g)' /\ InsertFits(g)' /\ EditFits(g)'
  <2> SUFFICES ASSUME NEW g \in CmRequests \ {h}
               PROVE  AskingFits(g)' /\ InsertFits(g)' /\ EditFits(g)'
    OBVIOUS
  <2>1. AskingFits(g)' /\ InsertFits(g)' BY <1>5, <1>6, <1>d, AskingStays, InsertStays
  <2>2. cmExcused \subseteq cmExcused' BY <1>d
  <2>3. \A d \in CmCampaigns : cmpc[g] = "edit" /\ cmList[g] = {d} =>
                                 cmCampaign'[d] = cmCampaign[d] \/ d \in cmExcused'
    BY <1>d, <1>t DEF CmTyped
  <2> QED BY <2>1, <2>2, <2>3, <1>5, EditStays
 <1>8. SeenIsKept' /\ LastIsKept' BY <1>t, <1>6, <1>d, ShowingsStay
 <1>9. OneShowingPerWindow' /\ OpeningsKeepTheFloor'
   BY <1>d DEF CmInv, OneShowingPerWindow, OpeningsKeepTheFloor
 <1>10. ButtonsLeadSomewhere'
  <2> SUFFICES ASSUME NEW d \in CmCampaigns, d \notin cmExcused'
               PROVE  Coherent(cmCampaign'[d].action, cmCampaign'[d].promo, cmCampaign'[d].link)
    BY DEF ButtonsLeadSomewhere
  <2>1. CASE d = c
   <3>1. cmCampaign'[d] = merged BY <2>1, <1>d, <1>t DEF CmTyped
   <3> QED BY <3>1, <2>1, <1>m
  <2>2. CASE d # c
   <3>1. cmCampaign'[d] = cmCampaign[d] /\ d \notin cmExcused BY <2>2, <1>d, <1>t DEF CmTyped
   <3> QED BY <3>1 DEF CmInv, ButtonsLeadSomewhere
  <2> QED BY <2>1, <2>2
 <1>11. (\A r \in cmRows : RowFits(r))' BY <1>d DEF CmInv, RowFits
 <1>12. MostImportantFirst BY <1>d, NothingShown
 <1> QED BY <1>t, <1>4, <1>7, <1>8, <1>9, <1>10, <1>11, <1>12 DEF CmInv, CmGood

(* What moves without a request. *)
LEMMA WorldKept ==
  ASSUME CmInv, (\E c \in CmCampaigns : RecordInteraction(c)) \/ SweepImpressions \/ CmTick
  PROVE  CmGood
 <1>t. CmTyped /\ CmTyped' BY WorldTypes DEF CmInv
 <1>u. UNCHANGED <<cmCampaign, cmpc, cmList, cmOften, cmAt, cmSession, cmEdit,
                   cmSeen, cmTwice, cmLast, cmCheckedPast, cmTooSoon, cmExcused>>
   BY DEF RecordInteraction, SweepImpressions, CmTick
 <1>1. ShowingsKept /\ (\A r \in cmRows' : RowFits(r)')
  <2>1. ASSUME NEW c \in CmCampaigns, RecordInteraction(c) PROVE ShowingsKept /\ \A r \in cmRows' : RowFits(r)'
   <3>1. PICK q \in cmRows : cmRows' = (cmRows \ {q}) \cup {[q EXCEPT !.clicked = TRUE]}
     BY <2>1 DEF RecordInteraction
   <3> DEFINE clicked == [q EXCEPT !.clicked = TRUE]
   <3>2. RowFits(q) BY DEF CmInv
   <3>3. /\ clicked.campaign = q.campaign /\ clicked.period = q.period /\ clicked.at = q.at
         /\ clicked.expires = q.expires /\ DOMAIN clicked = {"campaign", "period", "at", "expires", "clicked"}
     BY <3>2 DEF RowFits
   <3> HIDE DEF clicked
   <3>4. cmRows' = (cmRows \ {q}) \cup {clicked} BY <3>1 DEF clicked
   <3>5. RowFits(clicked)' BY <3>2, <3>3, <1>u DEF RowFits
   <3>6. \A r \in cmRows : RowFits(r)' BY <1>u DEF CmInv, RowFits
   <3>7. ShowingsKept BY <3>3, <3>4 DEF ShowingsKept
   <3> QED BY <3>4, <3>5, <3>6, <3>7
  <2>2. ASSUME SweepImpressions PROVE ShowingsKept /\ \A r \in cmRows' : RowFits(r)'
   <3>1. cmRows' = {r \in cmRows : \A e \in r.expires : e > cmNow} BY <2>2 DEF SweepImpressions
   <3>n. cmNow \in Nat /\ CmRetention \in Nat /\ \A r \in cmRows : r.at \in Nat
     BY <1>t, CmTimesAssumption DEF CmTyped, CmTypeOK
   <3>2. ASSUME NEW r \in cmRows, NEW e \in r.expires PROVE e \in Nat
    <4>1. PICK often \in Frequencies : r.expires = ImpressionExpiry(often, r.at) BY DEF CmInv, RowFits
    <4>2. e = r.at + CmRetention BY <4>1 DEF ImpressionExpiry
    <4> QED BY <4>2, <3>n
   <3>3. ShowingsKept BY <3>1, <3>2, <3>n DEF ShowingsKept
   <3> QED BY <3>1, <3>3, <1>u DEF CmInv, RowFits
  <2>3. ASSUME CmTick PROVE ShowingsKept /\ \A r \in cmRows' : RowFits(r)'
    BY <2>3, <1>u DEF CmTick, ShowingsKept, CmInv, RowFits
  <2> QED BY <2>1, <2>2, <2>3
 <1>2. TimeFlows BY DEF TimeFlows, RecordInteraction, SweepImpressions, CmTick
 <1>3. \A g \in CmRequests : CmStands(g) BY <1>u DEF CmStands
 <1>4. \A g \in CmRequests : AskingFits(g)' /\ InsertFits(g)' /\ EditFits(g)'
   BY <1>1, <1>2, <1>3, <1>u, AskingStays, InsertStays, EditStays
 <1>5. SeenIsKept' /\ LastIsKept' BY <1>t, <1>1, <1>2, <1>u, ShowingsStay
 <1>6. OneShowingPerWindow' /\ OpeningsKeepTheFloor' /\ ButtonsLeadSomewhere'
   BY <1>u DEF CmInv, OneShowingPerWindow, OpeningsKeepTheFloor, ButtonsLeadSomewhere
 <1>7. MostImportantFirst BY <1>u, NothingShown
 <1> QED BY <1>t, <1>1, <1>4, <1>5, <1>6, <1>7 DEF CmInv, CmGood

LEMMA CmInvNext == CmInv /\ CmNext => CmGood
 <1> SUFFICES ASSUME CmInv, CmNext PROVE CmGood OBVIOUS
 <1>1. CASE \E h \in CmRequests :
              \/ \E s \in CmSessions \cup {CmNoSession} : NextFor(h, s)
              \/ AskFloor(h) \/ RecordImpression(h)
              \/ \E c \in CmCampaigns, input \in CmInputs : BeginUpdate(h, c, input)
              \/ WriteUpdate(h)
   BY <1>1, NextForKept, AskFloorKept, RecordImpressionKept, BeginUpdateKept, WriteUpdateKept
 <1>2. CASE (\E c \in CmCampaigns : RecordInteraction(c)) \/ SweepImpressions \/ CmTick
   BY <1>2, WorldKept
 <1> QED BY <1>1, <1>2 DEF CmNext

LEMMA CmInvStutters == CmInv /\ UNCHANGED cmVars => CmInv'
 <1> SUFFICES ASSUME CmInv, UNCHANGED cmVars PROVE CmInv' OBVIOUS
 <1>u. UNCHANGED <<cmNow, cmCampaign, cmRows, cmpc, cmList, cmOften, cmAt, cmSession, cmEdit, cmCalls,
                   cmSeen, cmTwice, cmLast, cmCheckedPast, cmTooSoon, cmExcused>>
   BY DEF cmVars
 <1>1. CmTyped' BY <1>u DEF CmInv, CmTyped, CmTypeOK
 <1>2. ShowingsKept /\ TimeFlows BY <1>u DEF ShowingsKept, TimeFlows
 <1>3. \A g \in CmRequests : CmStands(g) BY <1>u DEF CmStands
 <1>4. \A g \in CmRequests : AskingFits(g)' /\ InsertFits(g)' /\ EditFits(g)'
   BY <1>2, <1>3, <1>u, AskingStays, InsertStays, EditStays
 <1>5. SeenIsKept' /\ LastIsKept' BY <1>1, <1>2, <1>u, ShowingsStay
 <1>6. OneShowingPerWindow' /\ OpeningsKeepTheFloor' /\ ButtonsLeadSomewhere'
   BY <1>u DEF CmInv, OneShowingPerWindow, OpeningsKeepTheFloor, ButtonsLeadSomewhere
 <1>7. (\A r \in cmRows : RowFits(r))' BY <1>u DEF CmInv, RowFits
 <1> QED BY <1>1, <1>4, <1>5, <1>6, <1>7 DEF CmInv

(* Campaigns are shown once per window, whatever requests cross and whatever
   the database has swept (tryRecordImpression, impressionExpiryFor), openings
   keep the floor, buttons lead somewhere, and all that is more important than
   what is shown was rightly passed over. *)
THEOREM ShowingsSound == CmSpec => ShowingsAreSound
 <1>1. CmInv /\ [CmNext]_cmVars => CmInv' BY CmInvNext, CmInvStutters DEF CmGood
 <1>2. CmInv /\ [CmNext]_cmVars /\ cmVars' # cmVars =>
         /\ (CmTypeOK /\ OneShowingPerWindow /\ OpeningsKeepTheFloor /\ ButtonsLeadSomewhere)'
         /\ MostImportantFirst
   BY CmInvNext DEF CmGood, CmInv, CmTyped
 <1> QED BY CmInvInit, <1>1, <1>2, PTL DEF CmSpec, ShowingsAreSound

-----------------------------------------------------------------------------
(* The till. *)
StatusSteps == {"IN_PROGRESS", "READY", "CLAIMED"}
Paying == {"charge", "refuse", "settle"}
OrderSteps == StatusSteps \cup {"cancel", "void", "addons"} \cup Paying

TillTyped ==
  /\ PosTypeOK
  /\ ppc \in [PosRequests -> OrderSteps \cup {"idle", "create", "shelf", "log", "archive"}]
  /\ DOMAIN pord = PosRequests /\ DOMAIN pseen = PosRequests /\ DOMAIN parg = PosRequests
  /\ \A o \in PosOrders : posServed[o] <= posItems[o]
  /\ posCalls \in Nat /\ posMishaps \in Nat /\ stockLost \in Int
  /\ stockStale \in BOOLEAN /\ itemArchived \in BOOLEAN /\ productArchived \in BOOLEAN /\ posRevived \in BOOLEAN

(* What a request in progress carries. *)
TillAsked(h) ==
  /\ ppc[h] \in OrderSteps =>
       /\ pord[h] \in PosOrders /\ posStatus[pord[h]] # "none"
       /\ pseen[h] \in (LaundryStatus \ {"none"}) \X PosPayment \X Nat \X Nat
       /\ posServed[pord[h]] <= pseen[h][3]
  /\ ppc[h] \notin OrderSteps => pord[h] = 0
  /\ ppc[h] \in OrderSteps \ Paying => Asks(ppc[h], pseen[h][1], pseen[h][2])
  /\ ppc[h] = "create" => parg[h] \in PosKeys \cup {NoTillKey} /\ (parg[h] # NoTillKey => pseen[h][3] = 0)
  /\ ppc[h] \in {"shelf", "log"} => parg[h] \in Int
  /\ ppc[h] = "shelf" => pseen[h][3] \in Int /\ (parg[h] < 0 => pseen[h][3] + parg[h] >= 0)
  /\ ppc[h] = "archive" => productArchived \/ posRevived

(* An order that was not yet made has nothing; the others come before it. *)
BlankOrders ==
  \A o \in PosOrders : posStatus[o] = "none" =>
    /\ posPaid[o] = "UNPAID" /\ posItems[o] = 0 /\ posTotal[o] = 0 /\ posKey[o] = NoTillKey
    /\ posTakings[o] = 0 /\ posRefunds[o] = 0 /\ posOut[o] = 0
    /\ o \notin posKept \cup posCrossed \cup posLost
    /\ \A q \in PosOrders : o < q => posStatus[q] = "none"

Refunded(o) == IF posPaid[o] = "REFUNDED" THEN posTotal[o] ELSE 0

(* The units an order holds: what its lines are worth, until they come back. *)
Held(o) == IF posStatus[o] \in Closed /\ o \notin posKept THEN 0 ELSE Worth(o, posItems[o])

(* An order whose writers all wrote what they had read. *)
OrderFits(o) ==
  o \notin posCrossed \cup posLost =>
    /\ posStatus[o] = "CLAIMED" => posPaid[o] = "PAID"
    /\ posPaid[o] = "REFUNDED" => posStatus[o] = "VOID"
    /\ o \in posKept => posStatus[o] \in Closed
    /\ o \notin posResized => posOut[o] = Held(o)
    /\ Settled(o) => /\ posTakings[o] = IF posPaid[o] = "UNPAID" THEN 0 ELSE posTotal[o]
                     /\ posRefunds[o] = Refunded(o)

(* A payment in progress is the only one of its order.  What it has still to
   charge is what the takings lack, through any add-ons and a void; and one
   that will be refused has taken nothing, or the order is no longer what it
   read. *)
PaymentFits(h) ==
  LET o == pord[h] IN
  ppc[h] \in Paying /\ o \notin posCrossed \cup posLost =>
    /\ posPaid[o] # "UNPAID"
    /\ \A g \in PosRequests : g # h /\ pord[g] = o => ppc[g] \notin Paying
    /\ ppc[h] = "charge" => posTakings[o] + pseen[h][4] = posTotal[o] /\ posRefunds[o] = Refunded(o)
    /\ ppc[h] = "settle" => posTakings[o] = posTotal[o] /\ posRefunds[o] = Refunded(o)
    /\ ppc[h] = "refuse" =>
         /\ pseen[h][1] # "CLAIMED" /\ pseen[h][2] = "PAID" /\ pseen[h][3] <= posItems[o]
         /\ \/ pseen[h][3] < posItems[o]
            \/ posPaid[o] = "REFUNDED"
            \/ posTakings[o] = 0 /\ posRefunds[o] = 0

TillInv ==
  /\ TillTyped
  /\ \A h \in PosRequests : TillAsked(h)
  /\ BlankOrders
  /\ \A o \in PosOrders : OrderFits(o)
  /\ \A h \in PosRequests : PaymentFits(h)
  /\ StockNeverNegative /\ LedgerExplainsStock /\ OneOrderPerKey /\ ArchivedItemHasNoProduct

(* Pieces are worth a number of units, and that number grows with them. *)
LEMMA NoPieces ==
  ASSUME NEW o, posServed[o] = 0, goodsUnits \in Nat, serviceUnits \in Nat
  PROVE  Worth(o, 0) = 0
 <1>1. (0 - 0) * goodsUnits = 0 /\ 0 * serviceUnits = 0 OBVIOUS
 <1> QED BY <1>1 DEF Worth

LEMMA WorthIsNat ==
  ASSUME TillTyped, NEW o \in PosOrders, NEW n \in Nat, posServed[o] <= n
  PROVE  Worth(o, n) \in Nat
 <1>1. PICK g \in Nat, v \in Nat, s \in Nat : g = goodsUnits /\ v = serviceUnits /\ s = posServed[o]
   BY PosBoundsAssumption DEF TillTyped, PosTypeOK
 <1>2. n - s \in Nat BY <1>1
 <1>3. \A x, y \in Nat : x * y \in Nat OBVIOUS
 <1>4. (n - s) * g \in Nat /\ s * v \in Nat BY <1>1, <1>2, <1>3
 <1> QED BY <1>1, <1>4 DEF Worth

LEMMA WorthOfMore ==
  ASSUME TillTyped, NEW o \in PosOrders, NEW n \in Nat, NEW a \in Nat
  PROVE  /\ Worth(o, n + a) = Worth(o, n) + a * goodsUnits
         /\ Worth(o, n) \in Int /\ a * goodsUnits \in Nat
 <1>1. PICK g \in Nat, v \in Nat, s \in Nat : g = goodsUnits /\ v = serviceUnits /\ s = posServed[o]
   BY PosBoundsAssumption DEF TillTyped, PosTypeOK
 <1>2. (n + a - s) * g = (n - s) * g + a * g BY <1>1
 <1>3. \A x, y \in Nat : x * y \in Nat OBVIOUS
 <1>4. \A x, y \in Int : x * y \in Int OBVIOUS
 <1>5. (n - s) * g \in Int /\ s * v \in Int /\ a * g \in Nat BY <1>1, <1>3, <1>4
 <1> QED BY <1>1, <1>2, <1>5 DEF Worth

LEMMA TillInvInit == PosInit => TillInv
 <1> SUFFICES ASSUME PosInit PROVE TillInv OBVIOUS
 <1>n. OpeningStock \in Nat /\ MaxPosOrders \in Nat BY PosBoundsAssumption
 <1>1. PosTypeOK
  <2>1. /\ posStatus \in [PosOrders -> LaundryStatus] /\ posPaid \in [PosOrders -> PosPayment]
        /\ posItems \in [PosOrders -> Nat] /\ posTotal \in [PosOrders -> Nat]
        /\ posTakings \in [PosOrders -> Nat] /\ posRefunds \in [PosOrders -> Nat]
        /\ posOut \in [PosOrders -> Int]
    BY DEF PosInit, LaundryStatus, PosPayment
  <2>2. posKey \in [PosOrders -> PosKeys \cup {NoTillKey}] /\ posServed \in [PosOrders -> Nat]
    BY DEF PosInit
  <2>3. stock \in Int /\ stockMoves \in Int BY <1>n DEF PosInit
  <2> QED BY <2>1, <2>2, <2>3 DEF PosInit, PosTypeOK
 <1>2. TillTyped
  <2>1. stockStale \in BOOLEAN /\ itemArchived \in BOOLEAN /\ productArchived \in BOOLEAN /\ posRevived \in BOOLEAN
    BY Zenon DEF PosInit
  <2>2. /\ ppc \in [PosRequests -> OrderSteps \cup {"idle", "create", "shelf", "log", "archive"}]
        /\ DOMAIN pord = PosRequests /\ DOMAIN pseen = PosRequests /\ DOMAIN parg = PosRequests
        /\ posCalls \in Nat /\ posMishaps \in Nat /\ stockLost \in Int
    BY DEF PosInit
  <2>3. \A o \in PosOrders : posServed[o] <= posItems[o] BY DEF PosInit
  <2> QED BY <1>1, <2>1, <2>2, <2>3 DEF TillTyped
 <1>3. \A h \in PosRequests : TillAsked(h) /\ PaymentFits(h)
   BY DEF PosInit, TillAsked, PaymentFits, OrderSteps, StatusSteps, Paying
 <1>4. \A o \in PosOrders : OrderFits(o)
  <2>1. ASSUME NEW o \in PosOrders PROVE Held(o) = 0
   <3>1. posItems[o] = 0 /\ posServed[o] = 0 /\ goodsUnits \in Nat /\ serviceUnits \in Nat
     BY PosBoundsAssumption DEF PosInit
   <3> QED BY <3>1, NoPieces DEF Held
  <2> QED BY <2>1 DEF PosInit, OrderFits, Closed, Refunded
 <1>5. BlankOrders BY DEF PosInit, BlankOrders
 <1>6. LedgerExplainsStock
  <2>1. {h \in PosRequests : ppc[h] = "log"} = {} BY DEF PosInit
  <2>2. SumFunctionOnSet(parg, {}) = 0 BY SumOfNone
  <2> QED BY <2>1, <2>2, <1>n DEF PosInit, LedgerExplainsStock
 <1>7. StockNeverNegative /\ OneOrderPerKey /\ ArchivedItemHasNoProduct
   BY <1>n DEF PosInit, StockNeverNegative, OneOrderPerKey, ArchivedItemHasNoProduct
 <1> QED BY <1>2, <1>3, <1>4, <1>5, <1>6, <1>7 DEF TillInv

(* What a step leaves of a request, and of an order. *)
Stands(g) == ppc'[g] = ppc[g] /\ pord'[g] = pord[g] /\ pseen'[g] = pseen[g] /\ parg'[g] = parg[g]

OrderStands(q) ==
  /\ posStatus'[q] = posStatus[q] /\ posPaid'[q] = posPaid[q] /\ posItems'[q] = posItems[q]
  /\ posTotal'[q] = posTotal[q] /\ posKey'[q] = posKey[q] /\ posTakings'[q] = posTakings[q]
  /\ posRefunds'[q] = posRefunds[q] /\ posOut'[q] = posOut[q]
  /\ q \in posKept' <=> q \in posKept
  /\ q \in posCrossed' <=> q \in posCrossed
  /\ q \in posLost' <=> q \in posLost
  /\ q \in posResized' <=> q \in posResized
  /\ posServed'[q] = posServed[q] /\ goodsUnits' = goodsUnits /\ serviceUnits' = serviceUnits

LEMMA TillBegins ==
  ASSUME TillTyped, NEW h \in PosRequests, NEW at, NEW o, NEW seen, NEW arg, PosBegin(h, at, o, seen, arg),
         at \in OrderSteps \cup {"idle", "create", "shelf", "log", "archive"}
  PROVE  /\ ppc[h] = "idle" /\ ppc'[h] = at /\ pord'[h] = o /\ pseen'[h] = seen /\ parg'[h] = arg
         /\ \A g \in PosRequests \ {h} : Stands(g)
         /\ ppc' \in [PosRequests -> OrderSteps \cup {"idle", "create", "shelf", "log", "archive"}]
         /\ DOMAIN pord' = PosRequests /\ DOMAIN pseen' = PosRequests /\ DOMAIN parg' = PosRequests
         /\ posCalls' \in Nat
  BY DEF TillTyped, PosBegin, Stands

LEMMA TillEnds ==
  ASSUME TillTyped, NEW h \in PosRequests, PosEnd(h)
  PROVE  /\ ppc'[h] = "idle" /\ pord'[h] = 0 /\ pseen'[h] = Nothing /\ parg'[h] = 0
         /\ \A g \in PosRequests \ {h} : Stands(g)
         /\ ppc' \in [PosRequests -> OrderSteps \cup {"idle", "create", "shelf", "log", "archive"}]
         /\ DOMAIN pord' = PosRequests /\ DOMAIN pseen' = PosRequests /\ DOMAIN parg' = PosRequests
  BY DEF TillTyped, PosEnd, Stands

(* A request that has come to its end asks for nothing. *)
LEMMA EndedFits ==
  ASSUME NEW h, ppc'[h] = "idle", pord'[h] = 0
  PROVE  TillAsked(h)' /\ PaymentFits(h)'
  BY DEF TillAsked, PaymentFits, OrderSteps, StatusSteps, Paying

(* A request that has no part in a step. *)
LEMMA AskedStands ==
  ASSUME NEW g \in PosRequests, TillAsked(g), Stands(g),
         ppc[g] \in OrderSteps => posStatus'[pord[g]] # "none" /\ posServed'[pord[g]] = posServed[pord[g]],
         productArchived \/ posRevived => productArchived' \/ posRevived'
  PROVE  TillAsked(g)'
  BY DEF TillAsked, Stands, Asks, Closed

(* What a step of one request on one order leaves of the others. *)
LEMMA OthersFit ==
  ASSUME TillInv, NEW h \in PosRequests, NEW o,
         pord[h] = o \/ ppc[h] \notin Paying, pord'[h] = o \/ ppc'[h] \notin Paying,
         \A g \in PosRequests \ {h} : Stands(g),
         \A q \in PosOrders \ {o} : OrderStands(q)
  PROVE  /\ \A q \in PosOrders \ {o} : OrderFits(q)'
         /\ \A g \in PosRequests \ {h} : pord[g] # o => PaymentFits(g)'
 <1>1. ASSUME NEW q \in PosOrders \ {o} PROVE OrderFits(q)'
  <2>1. OrderStands(q) /\ OrderFits(q) BY DEF TillInv
  <2>2. ASSUME Settled(q)' PROVE Settled(q)
   <3> SUFFICES ASSUME NEW k \in PosRequests, pord[k] = q PROVE ppc[k] \notin Paying BY DEF Settled, Paying
   <3> SUFFICES ASSUME k # h PROVE ppc[k] \notin Paying OBVIOUS
   <3>1. Stands(k) OBVIOUS
   <3> QED BY <2>2, <3>1 DEF Settled, Stands, Paying
  <2>3. Refunded(q)' = Refunded(q) BY <2>1 DEF OrderStands, Refunded
  <2>4. Worth(q, posItems[q])' = Worth(q, posItems[q]) BY <2>1 DEF OrderStands, Worth
  <2>5. Held(q)' = Held(q) BY <2>1, <2>4 DEF OrderStands, Held
  <2> QED BY <2>1, <2>2, <2>3, <2>5 DEF OrderFits, OrderStands
 <1>2. ASSUME NEW g \in PosRequests \ {h}, pord[g] # o PROVE PaymentFits(g)'
  <2> SUFFICES ASSUME ppc[g] \in Paying PROVE PaymentFits(g)' BY DEF PaymentFits, Stands
  <2>1. PICK q \in PosOrders \ {o} : q = pord[g] BY <1>2 DEF TillInv, TillAsked, OrderSteps
  <2>2. OrderStands(q) /\ PaymentFits(g) /\ Stands(g)
   <3>1. PaymentFits(g) BY DEF TillInv
   <3>2. OrderStands(q) /\ Stands(g) OBVIOUS
   <3> QED BY <3>1, <3>2
  <2>3. pord'[g] = q /\ ppc'[g] = ppc[g] /\ pseen'[g] = pseen[g] BY <2>1, <2>2 DEF Stands
  <2>4. Refunded(q)' = Refunded(q) BY <2>2 DEF OrderStands, Refunded
  <2>5. q \notin posCrossed \cup posLost =>
          \A k \in PosRequests : k # g /\ pord'[k] = q => ppc'[k] \notin Paying
   <3> SUFFICES ASSUME q \notin posCrossed \cup posLost, NEW k \in PosRequests, k # g, pord'[k] = q
                PROVE  ppc'[k] \notin Paying
     OBVIOUS
   <3> SUFFICES ASSUME k # h PROVE ppc'[k] \notin Paying BY <2>1
   <3>2. Stands(k) OBVIOUS
   <3>3. pord[k] = q /\ ppc'[k] = ppc[k] BY <3>2 DEF Stands
   <3>4. ppc[k] \notin Paying BY <3>3, <2>1, <2>2 DEF PaymentFits
   <3> QED BY <3>3, <3>4
  <2>6. /\ posPaid'[q] = posPaid[q] /\ posItems'[q] = posItems[q] /\ posTotal'[q] = posTotal[q]
        /\ posTakings'[q] = posTakings[q] /\ posRefunds'[q] = posRefunds[q]
        /\ q \in posCrossed' \cup posLost' <=> q \in posCrossed \cup posLost
    BY <2>2 DEF OrderStands
  <2> QED BY <2>1, <2>2, <2>3, <2>4, <2>5, <2>6 DEF PaymentFits
 <1> QED BY <1>1, <1>2

LEMMA BlankStands ==
  ASSUME BlankOrders, NEW o, \A q \in PosOrders \ {o} : OrderStands(q),
         o \in PosOrders => posStatus[o] # "none" /\ posStatus'[o] # "none"
  PROVE  BlankOrders'
  BY DEF BlankOrders, OrderStands

(* The rows of the movement log that are still to be written. *)
Unlogged == {g \in PosRequests : ppc[g] = "log"}
Owed == SumFunctionOnSet(parg, Unlogged)

LEMMA OwedIsInt ==
  ASSUME \A g \in PosRequests : TillAsked(g)
  PROVE  IsFiniteSet(Unlogged) /\ Owed \in Int /\ \A g \in Unlogged : parg[g] \in Int
 <1>1. IsFiniteSet(Unlogged) BY PosBoundsAssumption, FS_Subset DEF Unlogged
 <1>2. \A g \in Unlogged : parg[g] \in Int BY DEF Unlogged, TillAsked
 <1> QED BY <1>1, <1>2, SumIsInt DEF Owed

LEMMA OwedStands ==
  ASSUME \A g \in PosRequests : TillAsked(g), NEW h \in PosRequests,
         \A g \in PosRequests \ {h} : Stands(g), ppc[h] # "log", ppc'[h] # "log"
  PROVE  Owed' = Owed
 <1>1. Unlogged' = Unlogged BY DEF Unlogged, Stands
 <1>2. \A g \in Unlogged : parg'[g] = parg[g] BY DEF Unlogged, Stands
 <1>3. IsFiniteSet(Unlogged) BY OwedIsInt
 <1>4. PICK F, G, S : F = parg /\ G = parg' /\ S = Unlogged OBVIOUS
 <1>5. SumFunctionOnSet(F, S) = SumFunctionOnSet(G, S) BY <1>2, <1>3, <1>4, SumOfTheSame
 <1> QED BY <1>1, <1>4, <1>5 DEF Owed

LEMMA OwedGrows ==
  ASSUME \A g \in PosRequests : TillAsked(g), NEW h \in PosRequests,
         \A g \in PosRequests \ {h} : Stands(g), ppc[h] # "log", ppc'[h] = "log", parg'[h] \in Int
  PROVE  Owed' = Owed + parg'[h]
 <1>1. Unlogged' = Unlogged \cup {h} /\ h \notin Unlogged BY DEF Unlogged, Stands
 <1>2. \A g \in Unlogged : parg'[g] = parg[g] BY DEF Unlogged, Stands
 <1>3. IsFiniteSet(Unlogged) /\ Owed \in Int /\ \A g \in Unlogged : parg[g] \in Int BY OwedIsInt
 <1>4. PICK F, G, S : F = parg /\ G = parg' /\ S = Unlogged OBVIOUS
 <1>5. SumFunctionOnSet(F, S) = SumFunctionOnSet(G, S) BY <1>2, <1>3, <1>4, SumOfTheSame
 <1>6. \A g \in S \cup {h} : G[g] \in Int BY <1>2, <1>3, <1>4
 <1>7. SumFunctionOnSet(G, S \cup {h}) = G[h] + SumFunctionOnSet(G, S)
   BY <1>1, <1>3, <1>4, <1>6, SumWithOneMore
 <1>8. Owed' = G[h] + Owed BY <1>1, <1>4, <1>5, <1>7 DEF Owed
 <1>9. G[h] \in Int BY <1>6
 <1> QED BY <1>3, <1>4, <1>8, <1>9

LEMMA OwedShrinks ==
  ASSUME \A g \in PosRequests : TillAsked(g), NEW h \in PosRequests,
         \A g \in PosRequests \ {h} : Stands(g), ppc[h] = "log", ppc'[h] # "log"
  PROVE  Owed' \in Int /\ parg[h] \in Int /\ Owed = Owed' + parg[h]
 <1>1. Unlogged = Unlogged' \cup {h} /\ h \notin Unlogged' BY DEF Unlogged, Stands
 <1>2. \A g \in Unlogged' : parg'[g] = parg[g] BY DEF Unlogged, Stands
 <1>3. IsFiniteSet(Unlogged) /\ \A g \in Unlogged : parg[g] \in Int BY OwedIsInt
 <1>4. PICK F, G, S : F = parg /\ G = parg' /\ S = Unlogged' OBVIOUS
 <1>5. IsFiniteSet(S) BY <1>1, <1>3, <1>4, FS_Subset
 <1>6. SumFunctionOnSet(F, S) = SumFunctionOnSet(G, S) BY <1>2, <1>4, <1>5, SumOfTheSame
 <1>7. \A g \in S \cup {h} : F[g] \in Int BY <1>1, <1>3, <1>4
 <1>8. SumFunctionOnSet(F, S \cup {h}) = F[h] + SumFunctionOnSet(F, S)
   BY <1>1, <1>4, <1>5, <1>7, SumWithOneMore
 <1>9. SumFunctionOnSet(F, S) \in Int BY <1>5, <1>7, SumIsInt
 <1>10. Owed = F[h] + SumFunctionOnSet(F, S) BY <1>1, <1>4, <1>8 DEF Owed
 <1>11. Owed' = SumFunctionOnSet(F, S) BY <1>4, <1>6 DEF Owed
 <1>12. F[h] \in Int BY <1>7
 <1> QED BY <1>4, <1>9, <1>10, <1>11, <1>12

LEMMA LedgerSays == LedgerExplainsStock <=> stock = OpeningStock + stockMoves + stockLost + Owed
  BY DEF LedgerExplainsStock, Owed, Unlogged

(* The shelf and its log, when a step moves both alike. *)
LEMMA LedgerMoves ==
  ASSUME TillInv, NEW h \in PosRequests, \A g \in PosRequests \ {h} : Stands(g),
         ppc[h] # "log", ppc'[h] # "log", NEW n \in Int,
         stock' = stock + n, stockMoves' = stockMoves + n, stockLost' = stockLost
  PROVE  LedgerExplainsStock'
 <1>1. Owed' = Owed BY OwedStands DEF TillInv
 <1>2. Owed \in Int BY OwedIsInt DEF TillInv
 <1>3. stock = OpeningStock + stockMoves + stockLost + Owed BY LedgerSays DEF TillInv
 <1>4. stock \in Int /\ stockMoves \in Int /\ stockLost \in Int /\ OpeningStock \in Int
   BY PosBoundsAssumption DEF TillInv, TillTyped, PosTypeOK
 <1>5. stock' = OpeningStock + stockMoves' + stockLost' + Owed'
  <2>1. PICK a, b, c, d : a = stock /\ b = stockMoves /\ c = stockLost /\ d = Owed OBVIOUS
  <2>2. a = OpeningStock + b + c + d /\ a \in Int /\ b \in Int /\ c \in Int /\ d \in Int
    BY <1>2, <1>3, <1>4, <2>1
  <2>3. a + n = OpeningStock + (b + n) + c + d BY <2>2, <1>4
  <2> QED BY <2>1, <2>3, <1>1
 <1>6. (LedgerExplainsStock <=> stock = OpeningStock + stockMoves + stockLost + Owed)'
   BY LedgerSays, PTL
 <1> QED BY <1>5, <1>6

OrdersFit ==
  /\ \A h \in PosRequests : TillAsked(h)
  /\ BlankOrders
  /\ \A o \in PosOrders : OrderFits(o)
  /\ \A h \in PosRequests : PaymentFits(h)

LEMMA TillInvParts ==
  TillInv <=> /\ TillTyped /\ OrdersFit
              /\ StockNeverNegative /\ LedgerExplainsStock /\ OneOrderPerKey /\ ArchivedItemHasNoProduct
  BY DEF TillInv, OrdersFit

(* Steps of a request that leave every order alone. *)
LEMMA OrdersRest ==
  ASSUME TillInv, NEW h \in PosRequests, ppc[h] \notin Paying, ppc'[h] \notin Paying,
         \A g \in PosRequests \ {h} : Stands(g), \A q \in PosOrders : OrderStands(q), TillAsked(h)',
         productArchived \/ posRevived => productArchived' \/ posRevived'
  PROVE  OrdersFit'
 <1>0. 0 \notin PosOrders BY DEF PosOrders
 <1>1. \A q \in PosOrders : OrderFits(q)' BY <1>0, OthersFit
 <1>2. \A g \in PosRequests : PaymentFits(g)'
  <2>1. ASSUME NEW g \in PosRequests \ {h} PROVE PaymentFits(g)'
   <3>1. CASE pord[g] # 0 BY <3>1, <1>0, OthersFit
   <3>2. CASE pord[g] = 0
    <4>1. ppc[g] \notin Paying BY <3>2, <1>0 DEF TillInv, TillAsked, OrderSteps
    <4> QED BY <4>1 DEF PaymentFits, Stands
   <3> QED BY <3>1, <3>2
  <2>2. PaymentFits(h)' BY DEF PaymentFits
  <2> QED BY <2>1, <2>2
 <1>3. \A g \in PosRequests : TillAsked(g)'
  <2> SUFFICES ASSUME NEW g \in PosRequests, g # h PROVE TillAsked(g)' OBVIOUS
  <2>1. TillAsked(g) /\ Stands(g) BY DEF TillInv
  <2>2. ppc[g] \in OrderSteps => posStatus'[pord[g]] # "none" /\ posServed'[pord[g]] = posServed[pord[g]]
    BY <2>1 DEF TillAsked, OrderStands
  <2> QED BY <2>1, <2>2, AskedStands
 <1>4. BlankOrders' BY <1>0, BlankStands DEF TillInv
 <1> QED BY <1>1, <1>2, <1>3, <1>4 DEF OrdersFit

(* Steps that change nothing but the request that takes them. *)
LEMMA OnlyTheRequest ==
  ASSUME TillInv, NEW h \in PosRequests, ppc[h] \notin Paying \cup {"log"}, ppc'[h] \notin Paying \cup {"log"},
         \A g \in PosRequests \ {h} : Stands(g), TillAsked(h)',
         ppc' \in [PosRequests -> OrderSteps \cup {"idle", "create", "shelf", "log", "archive"}],
         DOMAIN pord' = PosRequests, DOMAIN pseen' = PosRequests, DOMAIN parg' = PosRequests, posCalls' \in Nat,
         UNCHANGED <<posOrders, posMoney, posStock, posCatalogue, posMishaps, posHistory>>
  PROVE  TillInv'
 <1>u. UNCHANGED <<posStatus, posPaid, posItems, posTotal, posKey, posServed, posTakings, posRefunds,
                   posOut, posKept, stock, stockMoves, itemArchived, productArchived, posMishaps,
                   posCrossed, posTwins, posLost, stockStale, stockLost, posRevived, goodsUnits,
                   serviceUnits, posResized>>
   BY DEF posOrders, posMoney, posStock, posCatalogue, posHistory
 <1>1. TillTyped' BY <1>u DEF TillInv, TillTyped, PosTypeOK
 <1>2. \A q \in PosOrders : OrderStands(q) BY <1>u DEF OrderStands
 <1>3. OrdersFit' BY <1>2, <1>u, OrdersRest
 <1>4. stock' = stock + 0 /\ stockMoves' = stockMoves + 0 BY <1>u DEF TillInv, TillTyped, PosTypeOK
 <1>5. LedgerExplainsStock' BY <1>4, <1>u, LedgerMoves
 <1>6. StockNeverNegative' /\ OneOrderPerKey' /\ ArchivedItemHasNoProduct'
   BY <1>u DEF TillInv, StockNeverNegative, OneOrderPerKey, ArchivedItemHasNoProduct
 <1> QED BY <1>1, <1>3, <1>5, <1>6 DEF TillInv, OrdersFit

LEMMA BeginCreateKept ==
  ASSUME TillInv, NEW h \in PosRequests, NEW k \in PosKeys \cup {NoTillKey}, BeginCreate(h, k)
  PROVE  TillInv'
 <1>1. PosBegin(h, "create", 0, AlreadyHere(k), k) BY DEF BeginCreate
 <1>2. k # NoTillKey => AlreadyHere(k)[3] = 0
  <2> SUFFICES ASSUME k # NoTillKey PROVE AlreadyHere(k)[3] = 0 OBVIOUS
  <2>1. {o \in PosOrders : posKey[o] = k /\ k # NoTillKey} = {} BY DEF BeginCreate
  <2>2. Cardinality({}) = 0 BY FS_EmptySet
  <2> QED BY <2>1, <2>2 DEF AlreadyHere
 <1>3. /\ ppc[h] = "idle" /\ ppc'[h] = "create" /\ pord'[h] = 0 /\ pseen'[h] = AlreadyHere(k) /\ parg'[h] = k
       /\ \A g \in PosRequests \ {h} : Stands(g)
       /\ ppc' \in [PosRequests -> OrderSteps \cup {"idle", "create", "shelf", "log", "archive"}]
       /\ DOMAIN pord' = PosRequests /\ DOMAIN pseen' = PosRequests /\ DOMAIN parg' = PosRequests
       /\ posCalls' \in Nat
   BY <1>1, TillBegins DEF TillInv
 <1>4. TillAsked(h)' BY <1>2, <1>3 DEF TillAsked, OrderSteps, StatusSteps, Paying
 <1> QED BY <1>3, <1>4, OnlyTheRequest DEF BeginCreate, Paying

LEMMA ReadOrderKept ==
  ASSUME TillInv, NEW h \in PosRequests, NEW o \in PosOrders, NEW op \in OrderSteps \ Paying, NEW arg,
         ReadOrder(h, o, op, arg)
  PROVE  TillInv'
 <1>1. PosBegin(h, op, o, Seen(o), arg) /\ posStatus[o] # "none" /\ Asks(op, posStatus[o], posPaid[o])
   BY DEF ReadOrder
 <1>2. /\ ppc[h] = "idle" /\ ppc'[h] = op /\ pord'[h] = o /\ pseen'[h] = Seen(o) /\ parg'[h] = arg
       /\ \A g \in PosRequests \ {h} : Stands(g)
       /\ ppc' \in [PosRequests -> OrderSteps \cup {"idle", "create", "shelf", "log", "archive"}]
       /\ DOMAIN pord' = PosRequests /\ DOMAIN pseen' = PosRequests /\ DOMAIN parg' = PosRequests
       /\ posCalls' \in Nat
   BY <1>1, TillBegins DEF TillInv
 <1>3. posStatus' = posStatus /\ posServed' = posServed BY DEF ReadOrder, posOrders
 <1>4. Seen(o) \in (LaundryStatus \ {"none"}) \X PosPayment \X Nat \X Nat
   BY <1>1 DEF Seen, TillInv, TillTyped, PosTypeOK
 <1>5. Seen(o)[1] = posStatus[o] /\ Seen(o)[2] = posPaid[o] /\ Seen(o)[3] = posItems[o] BY DEF Seen
 <1>8. posServed[o] <= posItems[o] BY DEF TillInv, TillTyped
 <1>6. TillAsked(h)'
  <2>1. op \notin {"idle", "create", "shelf", "log", "archive"} BY DEF OrderSteps, StatusSteps, Paying
  <2>2. Asks(op, Seen(o)[1], Seen(o)[2]) BY <1>1, <1>5
  <2>3. (Asks(ppc[h], pseen[h][1], pseen[h][2]))' BY <2>2, <1>2 DEF Asks, Closed
  <2>4. (posServed[pord[h]] <= pseen[h][3])' BY <1>2, <1>3, <1>5, <1>8
  <2> QED BY <1>1, <1>2, <1>3, <1>4, <2>1, <2>3, <2>4 DEF TillAsked
 <1>7. ppc[h] \notin Paying \cup {"log"} /\ ppc'[h] \notin Paying \cup {"log"}
   BY <1>2 DEF OrderSteps, StatusSteps, Paying
 <1> QED BY <1>2, <1>6, <1>7, OnlyTheRequest DEF ReadOrder

LEMMA ReadStockKept ==
  ASSUME TillInv, NEW h \in PosRequests, NEW change \in (-MaxQuantity)..MaxQuantity, ReadStock(h, change)
  PROVE  TillInv'
 <1>1. PosBegin(h, "shelf", 0, <<"none", "UNPAID", stock, 0>>, change)
       /\ (change > 0 \/ stock + change >= 0)
   BY DEF ReadStock
 <1>2. /\ ppc[h] = "idle" /\ ppc'[h] = "shelf" /\ pord'[h] = 0
       /\ pseen'[h] = <<"none", "UNPAID", stock, 0>> /\ parg'[h] = change
       /\ \A g \in PosRequests \ {h} : Stands(g)
       /\ ppc' \in [PosRequests -> OrderSteps \cup {"idle", "create", "shelf", "log", "archive"}]
       /\ DOMAIN pord' = PosRequests /\ DOMAIN pseen' = PosRequests /\ DOMAIN parg' = PosRequests
       /\ posCalls' \in Nat
   BY <1>1, TillBegins DEF TillInv
 <1>3. change \in Int /\ stock \in Int BY PosBoundsAssumption DEF TillInv, TillTyped, PosTypeOK
 <1>4. pseen'[h][3] = stock BY <1>2
 <1>5. change < 0 => stock + change >= 0 BY <1>1, <1>3
 <1>6. TillAsked(h)' BY <1>2, <1>3, <1>4, <1>5 DEF TillAsked, OrderSteps, StatusSteps, Paying
 <1> QED BY <1>2, <1>6, OnlyTheRequest DEF ReadStock, Paying

LEMMA ReadArchiveKept ==
  ASSUME TillInv, NEW h \in PosRequests, ReadArchive(h)
  PROVE  TillInv'
 <1>1. PosBegin(h, "archive", 0, Nothing, 0) /\ productArchived /\ productArchived' = productArchived
   BY DEF ReadArchive, posCatalogue
 <1>2. /\ ppc[h] = "idle" /\ ppc'[h] = "archive" /\ pord'[h] = 0
       /\ \A g \in PosRequests \ {h} : Stands(g)
       /\ ppc' \in [PosRequests -> OrderSteps \cup {"idle", "create", "shelf", "log", "archive"}]
       /\ DOMAIN pord' = PosRequests /\ DOMAIN pseen' = PosRequests /\ DOMAIN parg' = PosRequests
       /\ posCalls' \in Nat
   BY <1>1, TillBegins DEF TillInv
 <1>3. TillAsked(h)' BY <1>1, <1>2 DEF TillAsked, OrderSteps, StatusSteps, Paying
 <1> QED BY <1>2, <1>3, OnlyTheRequest DEF ReadArchive, Paying

LEMMA RequestFailsKept ==
  ASSUME TillInv, NEW h \in PosRequests, CreateFails(h) \/ WriteFails(h)
  PROVE  TillInv'
 <1>1. PosEnd(h) /\ ppc[h] \in {"create", "cancel", "void", "addons"} BY DEF CreateFails, WriteFails
 <1>2. /\ ppc'[h] = "idle" /\ pord'[h] = 0
       /\ \A g \in PosRequests \ {h} : Stands(g)
       /\ ppc' \in [PosRequests -> OrderSteps \cup {"idle", "create", "shelf", "log", "archive"}]
       /\ DOMAIN pord' = PosRequests /\ DOMAIN pseen' = PosRequests /\ DOMAIN parg' = PosRequests
   BY <1>1, TillEnds DEF TillInv
 <1>3. TillAsked(h)' BY <1>2, EndedFits
 <1>4. posCalls' \in Nat BY DEF CreateFails, WriteFails, TillInv, TillTyped
 <1> QED BY <1>1, <1>2, <1>3, <1>4, OnlyTheRequest DEF CreateFails, WriteFails, Paying

(* The shelf and the catalogue. *)
LEMMA ChangeStockKept ==
  ASSUME TillInv, NEW h \in PosRequests, ChangeStock(h)
  PROVE  TillInv'
 <1>d. /\ ppc[h] = "shelf" /\ stock' = stock + parg[h]
       /\ stockStale' = (stockStale \/ (stock < pseen[h][3] /\ stock + parg[h] < 0))
       /\ ppc' = [ppc EXCEPT ![h] = "log"] /\ pseen' = [pseen EXCEPT ![h] = Nothing]
       /\ UNCHANGED <<posStatus, posPaid, posItems, posTotal, posKey, posServed, posTakings,
                      posRefunds, posOut, posKept, stockMoves, itemArchived, productArchived, pord,
                      parg, posCalls, posMishaps, posCrossed, posTwins, posLost, stockLost,
                      posRevived, goodsUnits, serviceUnits, posResized>>
   BY DEF ChangeStock, posOrders, posMoney, posCatalogue
 <1>t. TillTyped /\ TillAsked(h) BY DEF TillInv
 <1>a. /\ parg[h] \in Int /\ pseen[h][3] \in Int /\ pord[h] = 0
       /\ parg[h] < 0 => pseen[h][3] + parg[h] >= 0
   BY <1>d, <1>t DEF TillAsked, OrderSteps, StatusSteps, Paying
 <1>s. stock \in Int /\ stockMoves \in Int /\ stockLost \in Int /\ OpeningStock \in Int /\ stockStale \in BOOLEAN
   BY <1>t, PosBoundsAssumption DEF TillTyped, PosTypeOK
 <1>1. /\ ppc'[h] = "log" /\ pord'[h] = 0 /\ parg'[h] = parg[h]
       /\ \A g \in PosRequests \ {h} : Stands(g)
   BY <1>d, <1>a, <1>t DEF Stands, TillTyped
 <1>2. TillTyped'
  <2>1. stock' \in Int /\ stockStale' \in BOOLEAN
   <3>1. stock' \in Int BY <1>d, <1>a, <1>s
   <3>2. stockStale' \in BOOLEAN BY <1>d, <1>s, Zenon
   <3> QED BY <3>1, <3>2
  <2> QED BY <1>d, <1>t, <2>1 DEF TillTyped, PosTypeOK
 <1>3. TillAsked(h)' BY <1>1, <1>a DEF TillAsked, OrderSteps, StatusSteps, Paying
 <1>4. \A q \in PosOrders : OrderStands(q) BY <1>d DEF OrderStands
 <1>5. OrdersFit' BY <1>1, <1>3, <1>4, <1>d, OrdersRest DEF Paying
 <1>6. LedgerExplainsStock'
  <2>1. Owed' = Owed + parg[h] BY <1>1, <1>a, <1>d, OwedGrows DEF TillInv
  <2>2. Owed \in Int BY OwedIsInt DEF TillInv
  <2>3. stock = OpeningStock + stockMoves + stockLost + Owed BY LedgerSays DEF TillInv
  <2>4. stock' = OpeningStock + stockMoves' + stockLost' + Owed'
   <3>1. PICK a, b, c, d, e : a = stock /\ b = stockMoves /\ c = stockLost /\ d = Owed /\ e = parg[h] OBVIOUS
   <3>2. a = OpeningStock + b + c + d /\ a \in Int /\ b \in Int /\ c \in Int /\ d \in Int /\ e \in Int
     BY <2>2, <2>3, <1>a, <1>s, <3>1
   <3>3. a + e = OpeningStock + b + c + (d + e) BY <3>2, <1>s
   <3> QED BY <3>1, <3>3, <2>1, <1>d
  <2>5. (LedgerExplainsStock <=> stock = OpeningStock + stockMoves + stockLost + Owed)'
    BY LedgerSays, PTL
  <2> QED BY <2>4, <2>5
 <1>7. StockNeverNegative'
  <2> SUFFICES ASSUME stock' < 0 PROVE stockStale' BY DEF StockNeverNegative
  <2>1. stock + parg[h] < 0 BY <1>d
  <2>2. CASE stock < pseen[h][3] BY <2>1, <2>2, <1>d
  <2>3. CASE ~(stock < pseen[h][3])
   <3>1. parg[h] >= 0 BY <2>1, <2>3, <1>a, <1>s
   <3>2. stock < 0 BY <2>1, <3>1, <1>a, <1>s
   <3> QED BY <3>2, <1>d DEF TillInv, StockNeverNegative
  <2> QED BY <2>2, <2>3
 <1>8. OneOrderPerKey' /\ ArchivedItemHasNoProduct'
   BY <1>d DEF TillInv, OneOrderPerKey, ArchivedItemHasNoProduct
 <1> QED BY <1>2, <1>5, <1>6, <1>7, <1>8, TillInvParts, PTL

LEMMA LogTransactionKept ==
  ASSUME TillInv, NEW h \in PosRequests, LogTransaction(h)
  PROVE  TillInv'
 <1>d. /\ ppc[h] = "log" /\ stockMoves' = stockMoves + parg[h] /\ PosEnd(h)
       /\ UNCHANGED <<posStatus, posPaid, posItems, posTotal, posKey, posServed, posTakings,
                      posRefunds, posOut, posKept, stock, itemArchived, productArchived, posCalls,
                      posMishaps, posCrossed, posTwins, posLost, stockStale, stockLost, posRevived,
                      goodsUnits, serviceUnits, posResized>>
   BY DEF LogTransaction, posOrders, posMoney, posCatalogue, posHistory
 <1>t. TillTyped BY DEF TillInv
 <1>s. stock \in Int /\ stockMoves \in Int /\ stockLost \in Int /\ OpeningStock \in Int
   BY <1>t, PosBoundsAssumption DEF TillTyped, PosTypeOK
 <1>1. /\ ppc'[h] = "idle" /\ pord'[h] = 0
       /\ \A g \in PosRequests \ {h} : Stands(g)
       /\ ppc' \in [PosRequests -> OrderSteps \cup {"idle", "create", "shelf", "log", "archive"}]
       /\ DOMAIN pord' = PosRequests /\ DOMAIN pseen' = PosRequests /\ DOMAIN parg' = PosRequests
   BY <1>d, <1>t, TillEnds
 <1>2. Owed' \in Int /\ parg[h] \in Int /\ Owed = Owed' + parg[h]
   BY <1>1, <1>d, OwedShrinks DEF TillInv
 <1>3. TillTyped'
  <2>1. stockMoves' \in Int BY <1>d, <1>2, <1>s
  <2> QED BY <1>d, <1>t, <1>1, <2>1 DEF TillTyped, PosTypeOK
 <1>4. TillAsked(h)' BY <1>1, EndedFits
 <1>5. \A q \in PosOrders : OrderStands(q) BY <1>d DEF OrderStands
 <1>6. OrdersFit' BY <1>1, <1>4, <1>5, <1>d, OrdersRest DEF Paying
 <1>7. LedgerExplainsStock'
  <2>1. stock = OpeningStock + stockMoves + stockLost + Owed BY LedgerSays DEF TillInv
  <2>2. stock' = OpeningStock + stockMoves' + stockLost' + Owed'
   <3>1. PICK a, b, c, d, e : a = stock /\ b = stockMoves /\ c = stockLost /\ d = Owed' /\ e = parg[h] OBVIOUS
   <3>2. a = OpeningStock + b + c + (d + e) /\ a \in Int /\ b \in Int /\ c \in Int /\ d \in Int /\ e \in Int
     BY <2>1, <1>2, <1>s, <3>1
   <3>3. a = OpeningStock + (b + e) + c + d BY <3>2, <1>s
   <3> QED BY <3>1, <3>3, <1>d
  <2>3. (LedgerExplainsStock <=> stock = OpeningStock + stockMoves + stockLost + Owed)'
    BY LedgerSays, PTL
  <2> QED BY <2>2, <2>3
 <1>8. StockNeverNegative' /\ OneOrderPerKey' /\ ArchivedItemHasNoProduct'
   BY <1>d DEF TillInv, StockNeverNegative, OneOrderPerKey, ArchivedItemHasNoProduct
 <1> QED BY <1>3, <1>6, <1>7, <1>8, TillInvParts, PTL

LEMMA ArchiveItemKept ==
  ASSUME TillInv, NEW h \in PosRequests, ArchiveItem(h)
  PROVE  TillInv'
 <1>d. /\ ppc[h] = "archive" /\ itemArchived' = TRUE /\ PosEnd(h)
       /\ UNCHANGED <<posStatus, posPaid, posItems, posTotal, posKey, posServed, posTakings,
                      posRefunds, posOut, posKept, stock, stockMoves, productArchived, posCalls,
                      posMishaps, posCrossed, posTwins, posLost, stockStale, stockLost, posRevived,
                      goodsUnits, serviceUnits, posResized>>
   BY DEF ArchiveItem, posOrders, posMoney, posStock, posHistory
 <1>t. TillTyped /\ TillAsked(h) BY DEF TillInv
 <1>1. /\ ppc'[h] = "idle" /\ pord'[h] = 0
       /\ \A g \in PosRequests \ {h} : Stands(g)
       /\ ppc' \in [PosRequests -> OrderSteps \cup {"idle", "create", "shelf", "log", "archive"}]
       /\ DOMAIN pord' = PosRequests /\ DOMAIN pseen' = PosRequests /\ DOMAIN parg' = PosRequests
   BY <1>d, <1>t, TillEnds
 <1>2. TillTyped' BY <1>d, <1>t, <1>1 DEF TillTyped, PosTypeOK
 <1>3. TillAsked(h)' BY <1>1, EndedFits
 <1>4. \A q \in PosOrders : OrderStands(q) BY <1>d DEF OrderStands
 <1>5. OrdersFit' BY <1>1, <1>3, <1>4, <1>d, OrdersRest DEF Paying
 <1>6. stock' = stock + 0 /\ stockMoves' = stockMoves + 0 BY <1>d, <1>t DEF TillTyped, PosTypeOK
 <1>7. LedgerExplainsStock' BY <1>1, <1>6, <1>d, LedgerMoves
 <1>8. StockNeverNegative' /\ OneOrderPerKey' BY <1>d DEF TillInv, StockNeverNegative, OneOrderPerKey
 <1>9. ArchivedItemHasNoProduct' BY <1>d, <1>t DEF TillAsked, ArchivedItemHasNoProduct
 <1> QED BY <1>2, <1>5, <1>7, <1>8, <1>9, TillInvParts, PTL

(* The catalogue is edited by no request of the till. *)
LEMMA CatalogueKept ==
  ASSUME TillInv, RestoreItem \/ ToggleProduct
  PROVE  TillInv'
 <1>u. UNCHANGED <<posStatus, posPaid, posItems, posTotal, posKey, posServed, posTakings, posRefunds,
                   posOut, posKept, stock, stockMoves, ppc, pord, pseen, parg, posMishaps,
                   posCrossed, posTwins, posLost, stockStale, stockLost, goodsUnits, serviceUnits,
                   posResized>>
   BY DEF RestoreItem, ToggleProduct, posOrders, posMoney, posStock, posRequest, posHistory
 <1>d. /\ posCalls' = posCalls + 1
       /\ \/ itemArchived' = FALSE /\ UNCHANGED <<productArchived, posRevived>>
          \/ /\ productArchived' = ~productArchived /\ itemArchived' = itemArchived
             /\ posRevived' = (posRevived \/ (productArchived
                                 /\ (itemArchived \/ \E h \in PosRequests : ppc[h] = "archive")))
   BY DEF RestoreItem, ToggleProduct, posHistory
 <1>t. TillTyped BY DEF TillInv
 <1>1. TillTyped'
  <2>1. itemArchived' \in BOOLEAN /\ productArchived' \in BOOLEAN /\ posRevived' \in BOOLEAN
    BY <1>d, <1>t, Zenon DEF TillTyped
  <2>2. posCalls' \in Nat BY <1>d, <1>t DEF TillTyped
  <2> QED BY <2>1, <2>2, <1>u, <1>t DEF TillTyped, PosTypeOK
 <1>2. \A h \in PosRequests : TillAsked(h)'
  <2> SUFFICES ASSUME NEW h \in PosRequests PROVE TillAsked(h)' OBVIOUS
  <2>1. TillAsked(h) BY DEF TillInv
  <2>2. ppc[h] = "archive" => productArchived' \/ posRevived' BY <2>1, <1>d DEF TillAsked
  <2> QED BY <2>1, <2>2, <1>u DEF TillAsked, Asks, Closed
 <1>3. BlankOrders' BY <1>u DEF TillInv, BlankOrders
 <1>4. (\A o \in PosOrders : OrderFits(o))' BY <1>u DEF TillInv, OrderFits, Held, Worth, Settled, Refunded
 <1>5. (\A h \in PosRequests : PaymentFits(h))' BY <1>u DEF TillInv, PaymentFits, Refunded
 <1>6. LedgerExplainsStock' /\ StockNeverNegative' /\ OneOrderPerKey'
   BY <1>u DEF TillInv, LedgerExplainsStock, StockNeverNegative, OneOrderPerKey
 <1>7. ArchivedItemHasNoProduct' BY <1>d DEF TillInv, ArchivedItemHasNoProduct
 <1> QED BY <1>1, <1>2, <1>3, <1>4, <1>5, <1>6, <1>7 DEF TillInv

(* A new measure of the product or of its item touches what orders are worth,
   and every order that holds something of it is noted. *)
LEMMA UnitsKept ==
  ASSUME TillInv, NEW a \in UnitSizes, NEW b \in UnitSizes, UpdateProduct(a) \/ UpdateItem(a, b)
  PROVE  TillInv'
 <1>u. UNCHANGED <<posStatus, posPaid, posItems, posTotal, posKey, posServed, posTakings, posRefunds,
                   posOut, posKept, stock, stockMoves, itemArchived, productArchived, ppc, pord, pseen,
                   parg, posMishaps, posCrossed, posTwins, posLost, stockStale, stockLost, posRevived>>
   BY DEF UpdateProduct, UpdateItem, posOrders, posMoney, posStock, posRequest
 <1>d. /\ posCalls' = posCalls + 1 /\ goodsUnits' \in UnitSizes /\ serviceUnits' \in UnitSizes
       /\ posResized' \subseteq PosOrders /\ posResized \subseteq posResized'
       /\ \A o \in PosOrders : o \notin posResized' =>
            ~HoldsStock(o) \/ (posItems[o] = posServed[o] /\ serviceUnits' = serviceUnits)
   BY DEF UpdateProduct, UpdateItem, TillInv, TillTyped, PosTypeOK
 <1>t. TillTyped BY DEF TillInv
 <1>1. TillTyped'
  <2>1. posCalls' \in Nat BY <1>d, <1>t DEF TillTyped
  <2> QED BY <2>1, <1>u, <1>d, <1>t DEF TillTyped, PosTypeOK
 <1>2. (\A h \in PosRequests : TillAsked(h))' BY <1>u DEF TillInv, TillAsked, Asks
 <1>3. BlankOrders' BY <1>u DEF TillInv, BlankOrders
 <1>4. ASSUME NEW o \in PosOrders PROVE OrderFits(o)'
  <2>1. OrderFits(o) BY DEF TillInv
  <2>2. Settled(o)' <=> Settled(o) BY <1>u DEF Settled
  <2>3. Refunded(o)' = Refunded(o) BY <1>u DEF Refunded
  <2>4. ASSUME o \notin posCrossed \cup posLost, o \notin posResized' PROVE posOut[o] = Held(o)'
   <3>1. posOut[o] = Held(o) BY <2>1, <2>4, <1>d DEF OrderFits
   <3>2. CASE posStatus[o] = "none"
    <4>1. posItems[o] = 0 /\ posOut[o] = 0 /\ posServed[o] = 0
     <5>1. posItems[o] = 0 /\ posOut[o] = 0 BY <3>2 DEF TillInv, BlankOrders
     <5>2. posServed[o] \in Nat /\ posServed[o] <= posItems[o] BY <1>t DEF TillTyped, PosTypeOK
     <5> QED BY <5>1, <5>2
    <4>2. PICK g \in Nat, v \in Nat : g = goodsUnits' /\ v = serviceUnits' BY <1>d, PosBoundsAssumption
    <4>3. Worth(o, posItems[o])' = (0 - 0) * g + 0 * v BY <4>1, <4>2, <1>u DEF Worth
    <4>4. (0 - 0) * g + 0 * v = 0
     <5>1. (0 - 0) * g = 0 /\ 0 * v = 0 OBVIOUS
     <5> QED BY <5>1
    <4>5. Held(o)' = 0 BY <4>3, <4>4 DEF Held
    <4> QED BY <4>1, <4>5
   <3>3. CASE posStatus[o] \in Closed /\ o \notin posKept BY <3>1, <3>3, <1>u DEF Held
   <3>4. CASE posItems[o] = posServed[o] /\ serviceUnits' = serviceUnits
    <4>1. PICK g \in Nat, f \in Nat, v \in Nat, s \in Nat :
             g = goodsUnits /\ f = goodsUnits' /\ v = serviceUnits /\ s = posServed[o]
      BY <1>d, <1>t, PosBoundsAssumption DEF TillTyped, PosTypeOK
    <4>2. Worth(o, posItems[o]) = (s - s) * g + s * v BY <3>4, <4>1 DEF Worth
    <4>3. Worth(o, posItems[o])' = (s - s) * f + s * v BY <3>4, <4>1, <1>u DEF Worth
    <4>4. (s - s) * f = 0 /\ (s - s) * g = 0 BY <4>1
    <4>5. Worth(o, posItems[o])' = Worth(o, posItems[o]) BY <4>2, <4>3, <4>4
    <4> QED BY <3>1, <4>5, <1>u DEF Held
   <3> QED BY <3>2, <3>3, <3>4, <2>4, <1>d DEF HoldsStock
  <2> QED BY <2>1, <2>2, <2>3, <2>4, <1>u DEF OrderFits
 <1>5. (\A h \in PosRequests : PaymentFits(h))' BY <1>u DEF TillInv, PaymentFits, Refunded
 <1>6. LedgerExplainsStock' /\ StockNeverNegative' /\ OneOrderPerKey' /\ ArchivedItemHasNoProduct'
   BY <1>u DEF TillInv, LedgerExplainsStock, StockNeverNegative, OneOrderPerKey, ArchivedItemHasNoProduct
 <1> QED BY <1>1, <1>2, <1>3, <1>4, <1>5, <1>6 DEF TillInv

(* A step on one order: what is to be shown of that order and its requests. *)
LEMMA OneOrderMoves ==
  ASSUME TillInv, NEW h \in PosRequests, NEW o \in PosOrders,
         pord[h] = o \/ ppc[h] \notin Paying, pord'[h] = o \/ ppc'[h] \notin Paying,
         \A g \in PosRequests \ {h} : Stands(g), \A q \in PosOrders \ {o} : OrderStands(q),
         posStatus[o] # "none", posStatus'[o] # "none",
         UNCHANGED <<posServed, productArchived, posRevived>>,
         TillAsked(h)', PaymentFits(h)', OrderFits(o)',
         \A g \in PosRequests \ {h} : pord[g] = o => PaymentFits(g)'
  PROVE  OrdersFit'
 <1>1. \A q \in PosOrders : OrderFits(q)' BY OthersFit
 <1>2. \A g \in PosRequests : PaymentFits(g)' BY OthersFit
 <1>3. \A g \in PosRequests : TillAsked(g)'
  <2> SUFFICES ASSUME NEW g \in PosRequests, g # h PROVE TillAsked(g)' OBVIOUS
  <2>1. TillAsked(g) /\ Stands(g) BY DEF TillInv
  <2>2. ppc[g] \in OrderSteps => posStatus'[pord[g]] # "none" /\ posServed'[pord[g]] = posServed[pord[g]]
    BY <2>1 DEF TillAsked, OrderStands
  <2> QED BY <2>1, <2>2, AskedStands
 <1>4. BlankOrders' BY BlankStands DEF TillInv
 <1> QED BY <1>1, <1>2, <1>3, <1>4 DEF OrdersFit

(* Of an order that was crossed or lost nothing is claimed. *)
LEMMA MishapsFit ==
  ASSUME NEW o, o \in posCrossed' \cup posLost'
  PROVE  OrderFits(o)' /\ \A g : pord'[g] = o => PaymentFits(g)'
  BY DEF OrderFits, PaymentFits

(* What another request has of its payment, when the order's money stands. *)
LEMMA PaymentStands ==
  ASSUME TillInv, NEW h \in PosRequests, NEW o, NEW g \in PosRequests \ {h}, pord[g] = o,
         ppc'[h] \notin Paying, \A k \in PosRequests \ {h} : Stands(k),
         o \in posCrossed \cup posLost => o \in posCrossed' \cup posLost',
         posPaid'[o] = posPaid[o], posItems'[o] = posItems[o], posTotal'[o] = posTotal[o],
         posTakings'[o] = posTakings[o], posRefunds'[o] = posRefunds[o]
  PROVE  PaymentFits(g)'
 <1>1. PaymentFits(g) BY DEF TillInv
 <1>2. ppc'[g] = ppc[g] /\ pord'[g] = o /\ pseen'[g] = pseen[g] BY DEF Stands
 <1>3. Refunded(o)' = Refunded(o) BY DEF Refunded
 <1>4. ASSUME \A k \in PosRequests : k # g /\ pord[k] = o => ppc[k] \notin Paying
       PROVE  \A k \in PosRequests : k # g /\ pord'[k] = o => ppc'[k] \notin Paying
  <2> SUFFICES ASSUME NEW k \in PosRequests, k # g, k # h, pord'[k] = o PROVE ppc'[k] \notin Paying OBVIOUS
  <2>1. ppc'[k] = ppc[k] /\ pord'[k] = pord[k] BY DEF Stands
  <2> QED BY <2>1, <1>4
 <1> QED BY <1>1, <1>2, <1>3, <1>4 DEF PaymentFits

(* A write that has crossed none found the order as it had read it. *)
LEMMA SeenAsItIs ==
  ASSUME NEW h, Cross(h), pord[h] \notin posCrossed', NEW o, o = pord[h]
  PROVE  /\ o \notin posCrossed /\ posCrossed' = posCrossed
         /\ pseen[h][1] = posStatus[o] /\ pseen[h][2] = posPaid[o]
         /\ pseen[h][3] = posItems[o] /\ pseen[h][4] = posTotal[o]
 <1>1. Seen(o) = pseen[h] /\ posCrossed' = posCrossed BY DEF Cross
 <1>2. Seen(o)[1] = posStatus[o] /\ Seen(o)[2] = posPaid[o] /\ Seen(o)[3] = posItems[o] /\ Seen(o)[4] = posTotal[o]
   BY DEF Seen
 <1> QED BY <1>1, <1>2

LEMMA CrossMarks ==
  ASSUME TillTyped, NEW h, NEW o \in PosOrders, o = pord[h], Cross(h)
  PROVE  posCrossed' \subseteq PosOrders /\ posCrossed \subseteq posCrossed' /\ posCrossed' \subseteq posCrossed \cup {o}
  BY DEF Cross, TillTyped, PosTypeOK

(* What a writer of an order has in hand. *)
LEMMA OrderInHand ==
  ASSUME TillInv, NEW h \in PosRequests, ppc[h] \in OrderSteps
  PROVE  \E o \in PosOrders, n \in Nat, t \in Nat :
           /\ o = pord[h] /\ n = pseen[h][3] /\ t = pseen[h][4] /\ posStatus[o] # "none"
           /\ posItems[o] \in Nat /\ posTotal[o] \in Nat /\ posTakings[o] \in Nat /\ posRefunds[o] \in Nat
           /\ posOut[o] \in Int /\ posStatus[o] \in LaundryStatus /\ posPaid[o] \in PosPayment
           /\ OrderFits(o) /\ PaymentFits(h) /\ TillAsked(h)
 <1>1. PICK o : o = pord[h] /\ o \in PosOrders /\ posStatus[o] # "none"
                /\ pseen[h] \in (LaundryStatus \ {"none"}) \X PosPayment \X Nat \X Nat
   BY DEF TillInv, TillAsked
 <1>2. pseen[h][3] \in Nat /\ pseen[h][4] \in Nat BY <1>1
 <1>3. /\ posItems[o] \in Nat /\ posTotal[o] \in Nat /\ posTakings[o] \in Nat /\ posRefunds[o] \in Nat
       /\ posOut[o] \in Int /\ posStatus[o] \in LaundryStatus /\ posPaid[o] \in PosPayment
   BY <1>1 DEF TillInv, TillTyped, PosTypeOK
 <1>4. OrderFits(o) /\ PaymentFits(h) /\ TillAsked(h) BY <1>1 DEF TillInv
 <1> QED BY <1>1, <1>2, <1>3, <1>4

(* markInProgress, markReady, processPickup. *)
LEMMA WriteStatusKept ==
  ASSUME TillInv, NEW h \in PosRequests, WriteStatus(h)
  PROVE  TillInv'
 <1>p. ppc[h] \in StatusSteps /\ ppc[h] \in OrderSteps \ Paying
   BY DEF WriteStatus, OrderSteps, StatusSteps, Paying
 <1>1. PICK o \in PosOrders, n \in Nat, t \in Nat :
          /\ o = pord[h] /\ n = pseen[h][3] /\ t = pseen[h][4] /\ posStatus[o] # "none"
          /\ posItems[o] \in Nat /\ posTotal[o] \in Nat /\ posTakings[o] \in Nat /\ posRefunds[o] \in Nat
          /\ posOut[o] \in Int /\ posStatus[o] \in LaundryStatus /\ posPaid[o] \in PosPayment
          /\ OrderFits(o) /\ PaymentFits(h) /\ TillAsked(h)
   BY <1>p, OrderInHand
 <1>d. /\ posStatus' = [posStatus EXCEPT ![o] = ppc[h]] /\ Cross(h) /\ PosEnd(h)
       /\ UNCHANGED <<posPaid, posItems, posTotal, posKey, posServed, posTakings, posRefunds, posOut,
                      posKept, stock, stockMoves, itemArchived, productArchived, posCalls,
                      posMishaps, posTwins, posLost, stockStale, stockLost, posRevived, goodsUnits,
                      serviceUnits, posResized>>
   BY <1>1 DEF WriteStatus, posMoney, posStock, posCatalogue
 <1>t. TillTyped BY DEF TillInv
 <1>2. /\ ppc'[h] = "idle" /\ pord'[h] = 0
       /\ \A g \in PosRequests \ {h} : Stands(g)
       /\ ppc' \in [PosRequests -> OrderSteps \cup {"idle", "create", "shelf", "log", "archive"}]
       /\ DOMAIN pord' = PosRequests /\ DOMAIN pseen' = PosRequests /\ DOMAIN parg' = PosRequests
   BY <1>d, <1>t, TillEnds
 <1>c. posCrossed' \subseteq PosOrders /\ posCrossed \subseteq posCrossed' /\ posCrossed' \subseteq posCrossed \cup {o}
   BY <1>d, <1>1, <1>t, CrossMarks
 <1>s. /\ posStatus'[o] = ppc[h] /\ posStatus' \in [PosOrders -> LaundryStatus]
       /\ \A q \in PosOrders \ {o} : posStatus'[q] = posStatus[q]
   BY <1>d, <1>p, <1>t DEF TillTyped, PosTypeOK, StatusSteps, LaundryStatus
 <1>x. Worth(o, posItems[o])' = Worth(o, posItems[o])
  <2>1. UNCHANGED <<posItems, posServed, goodsUnits, serviceUnits>> BY <1>d
  <2> QED BY <2>1 DEF Worth
 <1>3. TillTyped' BY <1>d, <1>t, <1>2, <1>c, <1>s DEF TillTyped, PosTypeOK
 <1>4. \A q \in PosOrders \ {o} : OrderStands(q) BY <1>d, <1>c, <1>s DEF OrderStands
 <1>5. TillAsked(h)' /\ PaymentFits(h)' BY <1>2, EndedFits
 <1>6. OrderFits(o)' /\ \A g \in PosRequests \ {h} : pord[g] = o => PaymentFits(g)'
  <2>1. CASE o \in posCrossed' \cup posLost' BY <2>1, <1>2, MishapsFit DEF Stands
  <2>2. CASE o \notin posCrossed' \cup posLost'
   <3>1. /\ o \notin posCrossed \cup posLost
         /\ pseen[h][1] = posStatus[o] /\ pseen[h][2] = posPaid[o]
     BY <2>2, <1>1, <1>d, <1>c, SeenAsItIs
   <3>2. Asks(ppc[h], posStatus[o], posPaid[o]) BY <3>1, <1>1, <1>p DEF TillAsked
   <3>3. /\ posStatus[o] \in {"PENDING", "IN_PROGRESS", "READY"}
         /\ ppc[h] = "CLAIMED" => posPaid[o] = "PAID"
     BY <3>2, <1>p DEF Asks, StatusSteps
   <3>4. Settled(o)' => Settled(o)
    <4> SUFFICES ASSUME Settled(o)', NEW g \in PosRequests \ {h}, pord[g] = o PROVE ppc[g] \notin Paying
      BY <1>p DEF Settled, Paying
    <4>1. Stands(g) BY <1>2
    <4> QED BY <4>1 DEF Stands, Settled, Paying
   <3>5. OrderFits(o)'
     BY <1>x, <1>1, <1>d, <1>s, <1>p, <3>1, <3>3, <3>4, <2>2 DEF OrderFits, Held, Refunded, Closed, StatusSteps
   <3>6. ASSUME NEW g \in PosRequests \ {h}, pord[g] = o PROVE PaymentFits(g)'
     BY <3>1, <3>6, <1>2, <1>d, PaymentStands DEF Paying
   <3> QED BY <3>5, <3>6
  <2> QED BY <2>1, <2>2
 <1>7. posStatus'[o] # "none" BY <1>s, <1>p DEF StatusSteps
 <1>8. OrdersFit' BY <1>1, <1>2, <1>4, <1>5, <1>6, <1>7, <1>d, <1>p, OneOrderMoves DEF Paying
 <1>9. stock' = stock + 0 /\ stockMoves' = stockMoves + 0 BY <1>d, <1>t DEF TillTyped, PosTypeOK
 <1>10. LedgerExplainsStock' BY <1>2, <1>9, <1>d, <1>p, LedgerMoves DEF StatusSteps
 <1>11. StockNeverNegative' /\ OneOrderPerKey' /\ ArchivedItemHasNoProduct'
   BY <1>d DEF TillInv, StockNeverNegative, OneOrderPerKey, ArchivedItemHasNoProduct
 <1> QED BY <1>3, <1>8, <1>10, <1>11, TillInvParts, PTL

LEMMA SettledWas ==
  ASSUME NEW h \in PosRequests, ppc[h] \notin Paying, \A g \in PosRequests \ {h} : Stands(g),
         NEW o, Settled(o)'
  PROVE  Settled(o)
 <1> SUFFICES ASSUME NEW g \in PosRequests, g # h, pord[g] = o PROVE ppc[g] \notin Paying
   BY DEF Settled, Paying
 <1>1. Stands(g) OBVIOUS
 <1> QED BY <1>1 DEF Stands, Settled, Paying

(* What a closing does to the shelf and to the units its order holds. *)
LEMMA ClosingMoves ==
  ASSUME TillTyped, NEW h, NEW o \in PosOrders, NEW n \in Nat, o = pord[h],
         n = Worth(o, pseen[h][3]), CloseStock(h)
  PROVE  /\ \E m \in Nat : stock' = stock + m /\ stockMoves' = stockMoves + m
         /\ stock' \in Int /\ stockMoves' \in Int /\ posKept' \subseteq PosOrders
         /\ posOut' \in [PosOrders -> Int]
         /\ \A q \in PosOrders \ {o} : posOut'[q] = posOut[q] /\ (q \in posKept' <=> q \in posKept)
         /\ \/ o \in posKept' /\ posOut'[o] = posOut[o]
            \/ posKept' = posKept /\ posOut'[o] = posOut[o] - n
         /\ StockNeverNegative /\ stockStale' = stockStale => StockNeverNegative'
 <1>t. stock \in Int /\ stockMoves \in Int /\ posOut \in [PosOrders -> Int] /\ posKept \subseteq PosOrders
   BY DEF TillTyped, PosTypeOK
 <1>1. CASE parg[h] = 1
  <2>1. /\ stock' = stock + n /\ stockMoves' = stockMoves + n /\ posKept' = posKept
        /\ posOut' = [posOut EXCEPT ![o] = @ - n]
    BY <1>1 DEF CloseStock, Return
  <2>2. posOut' \in [PosOrders -> Int] /\ posOut'[o] = posOut[o] - n
        /\ \A q \in PosOrders \ {o} : posOut'[q] = posOut[q]
    BY <2>1, <1>t
  <2>3. stock' \in Int /\ stockMoves' \in Int /\ (stock' < 0 => stock < 0) BY <2>1, <1>t
  <2> QED BY <2>1, <2>2, <2>3, <1>t DEF StockNeverNegative
 <1>2. CASE parg[h] # 1
  <2>1. posKept' = posKept \cup {o} /\ stock' = stock /\ stockMoves' = stockMoves /\ posOut' = posOut
    BY <1>2 DEF CloseStock
  <2>2. stock' = stock + 0 /\ stockMoves' = stockMoves + 0 BY <2>1, <1>t
  <2> QED BY <2>1, <2>2, <1>t DEF StockNeverNegative
 <1> QED BY <1>1, <1>2

(* cancelOrder. *)
LEMMA CancelOrderKept ==
  ASSUME TillInv, NEW h \in PosRequests, CancelOrder(h)
  PROVE  TillInv'
 <1>p. ppc[h] = "cancel" /\ ppc[h] \in OrderSteps \ Paying
   BY DEF CancelOrder, OrderSteps, StatusSteps, Paying
 <1>1. PICK o \in PosOrders, n \in Nat, t \in Nat :
          /\ o = pord[h] /\ n = pseen[h][3] /\ t = pseen[h][4] /\ posStatus[o] # "none"
          /\ posItems[o] \in Nat /\ posTotal[o] \in Nat /\ posTakings[o] \in Nat /\ posRefunds[o] \in Nat
          /\ posOut[o] \in Int /\ posStatus[o] \in LaundryStatus /\ posPaid[o] \in PosPayment
          /\ OrderFits(o) /\ PaymentFits(h) /\ TillAsked(h)
   BY <1>p, OrderInHand
 <1>d. /\ posStatus' = [posStatus EXCEPT ![o] = "CANCELLED"] /\ Cross(h) /\ PosEnd(h) /\ CloseStock(h)
       /\ UNCHANGED <<posPaid, posItems, posTotal, posKey, posServed, posTakings, posRefunds,
                      itemArchived, productArchived, posCalls, posMishaps, posTwins, posLost,
                      stockStale, stockLost, posRevived, goodsUnits, serviceUnits, posResized>>
   BY <1>1 DEF CancelOrder, posMoney, posCatalogue
 <1>t. TillTyped BY DEF TillInv
 <1>2. /\ ppc'[h] = "idle" /\ pord'[h] = 0
       /\ \A g \in PosRequests \ {h} : Stands(g)
       /\ ppc' \in [PosRequests -> OrderSteps \cup {"idle", "create", "shelf", "log", "archive"}]
       /\ DOMAIN pord' = PosRequests /\ DOMAIN pseen' = PosRequests /\ DOMAIN parg' = PosRequests
   BY <1>d, <1>t, TillEnds
 <1>c. posCrossed' \subseteq PosOrders /\ posCrossed \subseteq posCrossed' /\ posCrossed' \subseteq posCrossed \cup {o}
   BY <1>d, <1>1, <1>t, CrossMarks
 <1>s. /\ posStatus'[o] = "CANCELLED" /\ posStatus' \in [PosOrders -> LaundryStatus]
       /\ \A q \in PosOrders \ {o} : posStatus'[q] = posStatus[q]
   BY <1>d, <1>t DEF TillTyped, PosTypeOK, LaundryStatus
 <1>u. PICK u \in Nat : u = Worth(o, n)
  <2>1. posServed[o] <= n BY <1>1, <1>p DEF TillAsked
  <2> QED BY <2>1, <1>t, WorthIsNat
 <1>m. /\ \E m \in Nat : stock' = stock + m /\ stockMoves' = stockMoves + m
       /\ stock' \in Int /\ stockMoves' \in Int /\ posKept' \subseteq PosOrders
       /\ posOut' \in [PosOrders -> Int]
       /\ \A q \in PosOrders \ {o} : posOut'[q] = posOut[q] /\ (q \in posKept' <=> q \in posKept)
       /\ \/ o \in posKept' /\ posOut'[o] = posOut[o]
          \/ posKept' = posKept /\ posOut'[o] = posOut[o] - u
       /\ StockNeverNegative'
   BY <1>1, <1>u, <1>d, <1>t, ClosingMoves DEF TillInv
 <1>x. Worth(o, posItems[o])' = Worth(o, posItems[o])
  <2>1. UNCHANGED <<posItems, posServed, goodsUnits, serviceUnits>> BY <1>d
  <2> QED BY <2>1 DEF Worth
 <1>3. TillTyped' BY <1>d, <1>t, <1>2, <1>c, <1>s, <1>m DEF TillTyped, PosTypeOK
 <1>4. \A q \in PosOrders \ {o} : OrderStands(q) BY <1>d, <1>c, <1>s, <1>m DEF OrderStands
 <1>5. TillAsked(h)' /\ PaymentFits(h)' BY <1>2, EndedFits
 <1>6. OrderFits(o)' /\ \A g \in PosRequests \ {h} : pord[g] = o => PaymentFits(g)'
  <2>1. CASE o \in posCrossed' \cup posLost' BY <2>1, <1>2, MishapsFit DEF Stands
  <2>2. CASE o \notin posCrossed' \cup posLost'
   <3>1. /\ o \notin posCrossed \cup posLost /\ n = posItems[o]
         /\ pseen[h][1] = posStatus[o] /\ pseen[h][2] = posPaid[o]
     BY <2>2, <1>1, <1>d, <1>c, SeenAsItIs
   <3>2. Asks("cancel", posStatus[o], posPaid[o]) BY <3>1, <1>1, <1>p DEF TillAsked
   <3>3. posStatus[o] \in {"PENDING", "IN_PROGRESS"} BY <3>2 DEF Asks
   <3>4. Settled(o)' => Settled(o) BY <1>2, <1>p, SettledWas
   <3>5. OrderFits(o)'
     BY <1>x, <1>u, <1>1, <1>d, <1>s, <1>m, <3>1, <3>3, <3>4, <2>2 DEF OrderFits, Held, Refunded, Closed
   <3>6. ASSUME NEW g \in PosRequests \ {h}, pord[g] = o PROVE PaymentFits(g)'
     BY <3>1, <3>6, <1>2, <1>d, PaymentStands DEF Paying
   <3> QED BY <3>5, <3>6
  <2> QED BY <2>1, <2>2
 <1>7. posStatus'[o] # "none" BY <1>s
 <1>8. OrdersFit' BY <1>1, <1>2, <1>4, <1>5, <1>6, <1>7, <1>d, <1>p, OneOrderMoves DEF Paying
 <1>10. LedgerExplainsStock' BY <1>2, <1>m, <1>d, <1>p, LedgerMoves
 <1>11. OneOrderPerKey' /\ ArchivedItemHasNoProduct'
   BY <1>d DEF TillInv, OneOrderPerKey, ArchivedItemHasNoProduct
 <1> QED BY <1>3, <1>8, <1>10, <1>11, <1>m, TillInvParts, PTL

(* voidOrder. *)
LEMMA VoidOrderKept ==
  ASSUME TillInv, NEW h \in PosRequests, VoidOrder(h)
  PROVE  TillInv'
 <1>p. ppc[h] = "void" /\ ppc[h] \in OrderSteps \ Paying
   BY DEF VoidOrder, OrderSteps, StatusSteps, Paying
 <1>1. PICK o \in PosOrders, n \in Nat, t \in Nat :
          /\ o = pord[h] /\ n = pseen[h][3] /\ t = pseen[h][4] /\ posStatus[o] # "none"
          /\ posItems[o] \in Nat /\ posTotal[o] \in Nat /\ posTakings[o] \in Nat /\ posRefunds[o] \in Nat
          /\ posOut[o] \in Int /\ posStatus[o] \in LaundryStatus /\ posPaid[o] \in PosPayment
          /\ OrderFits(o) /\ PaymentFits(h) /\ TillAsked(h)
   BY <1>p, OrderInHand
 <1>b. PICK b \in Nat : b = IF pseen[h][2] = "PAID" THEN t ELSE 0 OBVIOUS
 <1>d. /\ posStatus' = [posStatus EXCEPT ![o] = "VOID"] /\ Cross(h) /\ PosEnd(h) /\ CloseStock(h)
       /\ posRefunds' = [posRefunds EXCEPT ![o] = @ + b]
       /\ posPaid' = [posPaid EXCEPT ![o] = IF pseen[h][2] = "PAID" THEN "REFUNDED" ELSE "UNPAID"]
       /\ UNCHANGED <<posItems, posTotal, posKey, posServed, posTakings, itemArchived,
                      productArchived, posCalls, posMishaps, posTwins, posLost, stockStale,
                      stockLost, posRevived, goodsUnits, serviceUnits, posResized>>
   BY <1>1, <1>b DEF VoidOrder, posCatalogue
 <1>t. TillTyped BY DEF TillInv
 <1>2. /\ ppc'[h] = "idle" /\ pord'[h] = 0
       /\ \A g \in PosRequests \ {h} : Stands(g)
       /\ ppc' \in [PosRequests -> OrderSteps \cup {"idle", "create", "shelf", "log", "archive"}]
       /\ DOMAIN pord' = PosRequests /\ DOMAIN pseen' = PosRequests /\ DOMAIN parg' = PosRequests
   BY <1>d, <1>t, TillEnds
 <1>c. posCrossed' \subseteq PosOrders /\ posCrossed \subseteq posCrossed' /\ posCrossed' \subseteq posCrossed \cup {o}
   BY <1>d, <1>1, <1>t, CrossMarks
 <1>s. /\ posStatus'[o] = "VOID" /\ posStatus' \in [PosOrders -> LaundryStatus]
       /\ \A q \in PosOrders \ {o} : posStatus'[q] = posStatus[q]
   BY <1>d, <1>t DEF TillTyped, PosTypeOK, LaundryStatus
 <1>r. /\ posRefunds'[o] = posRefunds[o] + b /\ posRefunds' \in [PosOrders -> Nat]
       /\ \A q \in PosOrders \ {o} : posRefunds'[q] = posRefunds[q]
   BY <1>d, <1>t DEF TillTyped, PosTypeOK
 <1>q. /\ posPaid'[o] = IF pseen[h][2] = "PAID" THEN "REFUNDED" ELSE "UNPAID"
       /\ posPaid' \in [PosOrders -> PosPayment]
       /\ \A q \in PosOrders \ {o} : posPaid'[q] = posPaid[q]
   BY <1>d, <1>t DEF TillTyped, PosTypeOK, PosPayment
 <1>u. PICK u \in Nat : u = Worth(o, n)
  <2>1. posServed[o] <= n BY <1>1, <1>p DEF TillAsked
  <2> QED BY <2>1, <1>t, WorthIsNat
 <1>m. /\ \E m \in Nat : stock' = stock + m /\ stockMoves' = stockMoves + m
       /\ stock' \in Int /\ stockMoves' \in Int /\ posKept' \subseteq PosOrders
       /\ posOut' \in [PosOrders -> Int]
       /\ \A q \in PosOrders \ {o} : posOut'[q] = posOut[q] /\ (q \in posKept' <=> q \in posKept)
       /\ \/ o \in posKept' /\ posOut'[o] = posOut[o]
          \/ posKept' = posKept /\ posOut'[o] = posOut[o] - u
       /\ StockNeverNegative'
   BY <1>1, <1>u, <1>d, <1>t, ClosingMoves DEF TillInv
 <1>x. Worth(o, posItems[o])' = Worth(o, posItems[o])
  <2>1. UNCHANGED <<posItems, posServed, goodsUnits, serviceUnits>> BY <1>d
  <2> QED BY <2>1 DEF Worth
 <1>3. TillTyped' BY <1>d, <1>t, <1>2, <1>c, <1>s, <1>r, <1>q, <1>m DEF TillTyped, PosTypeOK
 <1>4. \A q \in PosOrders \ {o} : OrderStands(q) BY <1>d, <1>c, <1>s, <1>r, <1>q, <1>m DEF OrderStands
 <1>5. TillAsked(h)' /\ PaymentFits(h)' BY <1>2, EndedFits
 <1>6. OrderFits(o)' /\ \A g \in PosRequests \ {h} : pord[g] = o => PaymentFits(g)'
  <2>1. CASE o \in posCrossed' \cup posLost' BY <2>1, <1>2, MishapsFit DEF Stands
  <2>2. CASE o \notin posCrossed' \cup posLost'
   <3>1. /\ o \notin posCrossed \cup posLost /\ n = posItems[o] /\ t = posTotal[o]
         /\ pseen[h][1] = posStatus[o] /\ pseen[h][2] = posPaid[o]
     BY <2>2, <1>1, <1>d, <1>c, SeenAsItIs
   <3>2. Asks("void", posStatus[o], posPaid[o]) BY <3>1, <1>1, <1>p DEF TillAsked
   <3>3. posStatus[o] \notin Closed BY <3>2 DEF Asks
   <3>4. Settled(o)' => Settled(o) BY <1>2, <1>p, SettledWas
   <3>7. posPaid[o] \in {"PAID", "UNPAID"} BY <1>1, <3>1, <3>3 DEF OrderFits, Closed, PosPayment
   <3>8. /\ posPaid[o] = "PAID" => posPaid'[o] = "REFUNDED" /\ posRefunds'[o] = posRefunds[o] + posTotal[o]
         /\ posPaid[o] = "UNPAID" => posPaid'[o] = "UNPAID" /\ posRefunds'[o] = posRefunds[o]
     BY <1>1, <1>b, <1>r, <1>q, <3>1, <3>7
   <3>9. posTotal'[o] = posTotal[o] /\ posTakings'[o] = posTakings[o] /\ posItems'[o] = posItems[o] BY <1>d
   <3>10. Refunded(o) = 0 BY <3>7 DEF Refunded
   <3>11. posPaid[o] = "PAID" => Refunded(o)' = posTotal[o] BY <3>8, <3>9 DEF Refunded
   <3>12. posPaid[o] = "UNPAID" => Refunded(o)' = 0 BY <3>8 DEF Refunded
   <3>5. OrderFits(o)'
    <4>1. o \notin posResized' => posOut'[o] = Held(o)'
      BY <1>1, <1>d, <1>s, <1>m, <1>u, <1>x, <3>1, <3>3, <3>9 DEF OrderFits, Held, Closed
    <4>2. Settled(o)' => /\ posTakings'[o] = IF posPaid'[o] = "UNPAID" THEN 0 ELSE posTotal'[o]
                         /\ posRefunds'[o] = Refunded(o)'
      BY <1>1, <3>1, <3>4, <3>7, <3>8, <3>9, <3>10, <3>11, <3>12 DEF OrderFits
    <4> QED BY <4>1, <4>2, <1>s DEF OrderFits, Closed
   <3>6. ASSUME NEW g \in PosRequests \ {h}, pord[g] = o PROVE PaymentFits(g)'
    <4>1. Stands(g) /\ PaymentFits(g) BY <1>2 DEF TillInv
    <4> SUFFICES ASSUME ppc[g] \in Paying PROVE PaymentFits(g)' BY <4>1 DEF PaymentFits, Stands
    <4>2. posPaid[o] # "UNPAID" BY <4>1, <3>1, <3>6 DEF PaymentFits
    <4>3. posPaid[o] = "PAID" /\ posPaid'[o] = "REFUNDED" /\ posRefunds'[o] = posRefunds[o] + posTotal[o]
      BY <4>2, <3>7, <3>8
    <4>4. \A k \in PosRequests : k # g /\ pord'[k] = o => ppc'[k] \notin Paying
     <5> SUFFICES ASSUME NEW k \in PosRequests, k # g, k # h, pord'[k] = o PROVE ppc'[k] \notin Paying
       BY <1>2 DEF Paying
     <5>1. Stands(k) BY <1>2
     <5>2. pord[k] = pord[g] /\ ppc'[k] = ppc[k] BY <5>1, <3>6 DEF Stands
     <5> QED BY <5>2, <4>1, <3>1, <3>6 DEF PaymentFits
    <4>5. ppc'[g] = ppc[g] /\ pord'[g] = o /\ pseen'[g] = pseen[g] BY <4>1, <3>6 DEF Stands
    <4>6. ppc[g] \in {"charge", "settle"} => posRefunds[o] = 0
      BY <4>1, <3>1, <3>6, <3>10 DEF PaymentFits, Paying
    <4>7. ppc[g] \in {"charge", "settle"} => posRefunds'[o] = Refunded(o)' BY <4>3, <4>6, <3>11, <1>1
    <4> QED BY <4>1, <4>3, <4>4, <4>5, <4>7, <3>1, <3>6, <3>9 DEF PaymentFits
   <3> QED BY <3>5, <3>6
  <2> QED BY <2>1, <2>2
 <1>7. posStatus'[o] # "none" BY <1>s
 <1>8. OrdersFit' BY <1>1, <1>2, <1>4, <1>5, <1>6, <1>7, <1>d, <1>p, OneOrderMoves DEF Paying
 <1>10. LedgerExplainsStock' BY <1>2, <1>m, <1>d, <1>p, LedgerMoves
 <1>11. OneOrderPerKey' /\ ArchivedItemHasNoProduct'
   BY <1>d DEF TillInv, OneOrderPerKey, ArchivedItemHasNoProduct
 <1> QED BY <1>3, <1>8, <1>10, <1>11, <1>m, TillInvParts, PTL

(* Of an order that no mishap befell, no two requests pay. *)
LEMMA NoOtherPays ==
  ASSUME TillInv, NEW h \in PosRequests, ppc[h] \in Paying, pord[h] \notin posCrossed \cup posLost,
         \A g \in PosRequests \ {h} : Stands(g), NEW g \in PosRequests \ {h}, pord[g] = pord[h]
  PROVE  ppc[g] \notin Paying /\ PaymentFits(g)'
 <1>1. PaymentFits(h) BY DEF TillInv
 <1>2. ppc[g] \notin Paying BY <1>1 DEF PaymentFits
 <1>3. Stands(g) OBVIOUS
 <1> QED BY <1>2, <1>3 DEF PaymentFits, Stands

(* The units that leave the shelf. *)
LEMMA UnitsLeave ==
  ASSUME TillTyped, NEW o \in PosOrders, NEW n \in Nat, Deduct(o, n)
  PROVE  /\ stock' = stock + (-n) /\ stockMoves' = stockMoves + (-n) /\ -n \in Int
         /\ stock' \in Int /\ stockMoves' \in Int /\ stock' >= 0 /\ posOut' \in [PosOrders -> Int]
         /\ posOut'[o] = posOut[o] + n /\ \A q \in PosOrders \ {o} : posOut'[q] = posOut[q]
  BY DEF Deduct, TillTyped, PosTypeOK

(* addOrderItems. *)
LEMMA AddItemsKept ==
  ASSUME TillInv, NEW h \in PosRequests, NEW a \in 1..MaxQuantity, AddItems(h, a)
  PROVE  TillInv'
 <1>p. ppc[h] = "addons" /\ ppc[h] \in OrderSteps \ Paying
   BY DEF AddItems, OrderSteps, StatusSteps, Paying
 <1>a. a \in Nat /\ a > 0 BY PosBoundsAssumption
 <1>1. PICK o \in PosOrders, n \in Nat, t \in Nat :
          /\ o = pord[h] /\ n = pseen[h][3] /\ t = pseen[h][4] /\ posStatus[o] # "none"
          /\ posItems[o] \in Nat /\ posTotal[o] \in Nat /\ posTakings[o] \in Nat /\ posRefunds[o] \in Nat
          /\ posOut[o] \in Int /\ posStatus[o] \in LaundryStatus /\ posPaid[o] \in PosPayment
          /\ OrderFits(o) /\ PaymentFits(h) /\ TillAsked(h)
   BY <1>p, OrderInHand
 <1>d. /\ Cross(h) /\ PosEnd(h) /\ Deduct(o, a * goodsUnits)
       /\ posTakings' = [posTakings EXCEPT ![o] = @ + a]
       /\ posItems' = [posItems EXCEPT ![o] = @ + a]
       /\ posTotal' = [posTotal EXCEPT ![o] = t + a]
       /\ UNCHANGED <<posStatus, posPaid, posKey, posServed, posRefunds, posKept, itemArchived,
                      productArchived, posCalls, posMishaps, posTwins, posLost, stockStale,
                      stockLost, posRevived, goodsUnits, serviceUnits, posResized>>
   BY <1>1 DEF AddItems, posCatalogue
 <1>t. TillTyped BY DEF TillInv
 <1>2. /\ ppc'[h] = "idle" /\ pord'[h] = 0
       /\ \A g \in PosRequests \ {h} : Stands(g)
       /\ ppc' \in [PosRequests -> OrderSteps \cup {"idle", "create", "shelf", "log", "archive"}]
       /\ DOMAIN pord' = PosRequests /\ DOMAIN pseen' = PosRequests /\ DOMAIN parg' = PosRequests
   BY <1>d, <1>t, TillEnds
 <1>c. posCrossed' \subseteq PosOrders /\ posCrossed \subseteq posCrossed' /\ posCrossed' \subseteq posCrossed \cup {o}
   BY <1>d, <1>1, <1>t, CrossMarks
 <1>s. /\ posTakings'[o] = posTakings[o] + a /\ posTakings' \in [PosOrders -> Nat]
       /\ posItems'[o] = posItems[o] + a /\ posItems' \in [PosOrders -> Nat]
       /\ posTotal'[o] = t + a /\ posTotal' \in [PosOrders -> Nat]
       /\ \A q \in PosOrders \ {o} :
            posTakings'[q] = posTakings[q] /\ posItems'[q] = posItems[q] /\ posTotal'[q] = posTotal[q]
   BY <1>a, <1>d, <1>t DEF TillTyped, PosTypeOK
 <1>w. /\ Worth(o, posItems[o] + a) = Worth(o, posItems[o]) + a * goodsUnits
       /\ Worth(o, posItems[o]) \in Int /\ a * goodsUnits \in Nat
  <2>1. PICK i \in Nat : i = posItems[o] BY <1>1
  <2>2. Worth(o, i + a) = Worth(o, i) + a * goodsUnits /\ Worth(o, i) \in Int /\ a * goodsUnits \in Nat
    BY <1>a, <1>t, WorthOfMore
  <2> QED BY <2>1, <2>2
 <1>u. PICK u \in Nat : u = a * goodsUnits BY <1>w
 <1>m. /\ stock' = stock + (-u) /\ stockMoves' = stockMoves + (-u) /\ -u \in Int
       /\ stock' \in Int /\ stockMoves' \in Int /\ stock' >= 0 /\ posOut' \in [PosOrders -> Int]
       /\ posOut'[o] = posOut[o] + u /\ \A q \in PosOrders \ {o} : posOut'[q] = posOut[q]
   BY <1>u, <1>d, <1>t, UnitsLeave
 <1>x. Worth(o, posItems[o])' = Worth(o, posItems[o]) + u
  <2>1. Worth(o, posItems[o])' = Worth(o, posItems[o] + a) BY <1>d, <1>s DEF Worth
  <2> QED BY <2>1, <1>w, <1>u
 <1>v. \A q \in PosOrders : posServed'[q] <= posItems'[q]
  <2> SUFFICES ASSUME NEW q \in PosOrders PROVE posServed[q] <= posItems'[q] BY <1>d
  <2>1. posServed[q] \in Nat /\ posItems[q] \in Nat /\ posServed[q] <= posItems[q]
    BY <1>t DEF TillTyped, PosTypeOK
  <2> QED BY <2>1, <1>s, <1>a
 <1>3. TillTyped' BY <1>d, <1>t, <1>2, <1>c, <1>s, <1>m, <1>v DEF TillTyped, PosTypeOK
 <1>4. \A q \in PosOrders \ {o} : OrderStands(q) BY <1>d, <1>c, <1>s, <1>m DEF OrderStands
 <1>5. TillAsked(h)' /\ PaymentFits(h)' BY <1>2, EndedFits
 <1>6. OrderFits(o)' /\ \A g \in PosRequests \ {h} : pord[g] = o => PaymentFits(g)'
  <2>1. CASE o \in posCrossed' \cup posLost' BY <2>1, <1>2, MishapsFit DEF Stands
  <2>2. CASE o \notin posCrossed' \cup posLost'
   <3>1. /\ o \notin posCrossed \cup posLost /\ n = posItems[o] /\ t = posTotal[o]
         /\ pseen[h][1] = posStatus[o] /\ pseen[h][2] = posPaid[o]
     BY <2>2, <1>1, <1>d, <1>c, SeenAsItIs
   <3>2. Asks("addons", posStatus[o], posPaid[o]) BY <3>1, <1>1, <1>p DEF TillAsked
   <3>3. posStatus[o] \notin Closed /\ posPaid[o] = "PAID" BY <3>2 DEF Asks
   <3>4. Settled(o)' => Settled(o) BY <1>2, <1>p, SettledWas
   <3>7. posStatus'[o] = posStatus[o] /\ posPaid'[o] = "PAID" /\ posRefunds'[o] = posRefunds[o]
         /\ (o \in posKept' <=> o \in posKept) /\ posTotal'[o] = posTotal[o] + a
     BY <3>1, <3>3, <1>d, <1>s
   <3>8. Refunded(o) = 0 /\ Refunded(o)' = 0 BY <3>3, <3>7 DEF Refunded
   <3>5. OrderFits(o)'
    <4>1. o \notin posResized' => posOut'[o] = Held(o)'
      BY <1>1, <1>d, <1>w, <1>u, <1>x, <1>m, <3>1, <3>3, <3>7 DEF OrderFits, Held
    <4> QED BY <4>1, <1>1, <1>a, <1>s, <3>1, <3>3, <3>4, <3>7, <3>8 DEF OrderFits, Closed
   <3>6. ASSUME NEW g \in PosRequests \ {h}, pord[g] = o PROVE PaymentFits(g)'
    <4>1. Stands(g) /\ PaymentFits(g) BY <1>2 DEF TillInv
    <4> SUFFICES ASSUME ppc[g] \in Paying PROVE PaymentFits(g)' BY <4>1 DEF PaymentFits, Stands
    <4>2. pseen[g][3] \in Nat /\ pseen[g][4] \in Nat /\ TillAsked(g)
      BY <3>6 DEF TillInv, TillAsked, OrderSteps
    <4>4. \A k \in PosRequests : k # g /\ pord'[k] = o => ppc'[k] \notin Paying
     <5> SUFFICES ASSUME NEW k \in PosRequests, k # g, k # h, pord'[k] = o PROVE ppc'[k] \notin Paying
       BY <1>2 DEF Paying
     <5>1. Stands(k) BY <1>2
     <5>2. pord[k] = pord[g] /\ ppc'[k] = ppc[k] BY <5>1, <3>6 DEF Stands
     <5> QED BY <5>2, <4>1, <3>1, <3>6 DEF PaymentFits
    <4>5. ppc'[g] = ppc[g] /\ pord'[g] = o /\ pseen'[g] = pseen[g] BY <4>1, <3>6 DEF Stands
    <4>6. PICK b \in Nat : b = pseen[g][4] BY <4>2
    <4>7. ppc[g] = "charge" => posTakings'[o] + b = posTotal'[o] /\ posRefunds'[o] = 0
      BY <4>1, <4>6, <3>1, <3>6, <3>7, <3>8, <1>1, <1>a, <1>s DEF PaymentFits, Paying
    <4>8. ppc[g] = "settle" => posTakings'[o] = posTotal'[o] /\ posRefunds'[o] = 0
      BY <4>1, <3>1, <3>6, <3>7, <3>8, <1>1, <1>a, <1>s DEF PaymentFits, Paying
    <4>9. ppc[g] = "refuse" => /\ pseen[g][1] # "CLAIMED" /\ pseen[g][2] = "PAID"
                               /\ pseen[g][3] <= posItems[o]
      BY <4>1, <3>1, <3>6 DEF PaymentFits, Paying
    <4>10. ppc[g] = "refuse" => pseen[g][3] < posItems'[o] /\ pseen[g][3] <= posItems'[o]
     <5>1. PICK c \in Nat : c = pseen[g][3] BY <4>2
     <5> QED BY <4>9, <5>1, <1>1, <1>a, <1>s
    <4> QED BY <4>4, <4>5, <4>6, <4>7, <4>8, <4>9, <4>10, <3>7, <3>8 DEF PaymentFits
   <3> QED BY <3>5, <3>6
  <2> QED BY <2>1, <2>2
 <1>7. posStatus'[o] # "none" BY <1>1, <1>d
 <1>8. OrdersFit' BY <1>1, <1>2, <1>4, <1>5, <1>6, <1>7, <1>d, <1>p, OneOrderMoves DEF Paying
 <1>10. LedgerExplainsStock' BY <1>2, <1>m, <1>d, <1>p, LedgerMoves
 <1>11. OneOrderPerKey' /\ ArchivedItemHasNoProduct' /\ StockNeverNegative'
   BY <1>d, <1>m DEF TillInv, OneOrderPerKey, ArchivedItemHasNoProduct, StockNeverNegative
 <1> QED BY <1>3, <1>8, <1>10, <1>11, TillInvParts, PTL

(* processPayment: a refused payment puts UNPAID back. *)
LEMMA RefusePaymentKept ==
  ASSUME TillInv, NEW h \in PosRequests, RefusePayment(h)
  PROVE  TillInv'
 <1>p. ppc[h] = "refuse" /\ ppc[h] \in OrderSteps /\ ppc[h] \in Paying
   BY DEF RefusePayment, OrderSteps, StatusSteps, Paying
 <1>1. PICK o \in PosOrders, n \in Nat, t \in Nat :
          /\ o = pord[h] /\ n = pseen[h][3] /\ t = pseen[h][4] /\ posStatus[o] # "none"
          /\ posItems[o] \in Nat /\ posTotal[o] \in Nat /\ posTakings[o] \in Nat /\ posRefunds[o] \in Nat
          /\ posOut[o] \in Int /\ posStatus[o] \in LaundryStatus /\ posPaid[o] \in PosPayment
          /\ OrderFits(o) /\ PaymentFits(h) /\ TillAsked(h)
   BY <1>p, OrderInHand
 <1>d. /\ posPaid' = [posPaid EXCEPT ![o] = "UNPAID"] /\ Cross(h) /\ PosEnd(h)
       /\ UNCHANGED <<posStatus, posItems, posTotal, posKey, posServed, posTakings, posRefunds,
                      posOut, posKept, stock, stockMoves, itemArchived, productArchived, posCalls,
                      posMishaps, posTwins, posLost, stockStale, stockLost, posRevived, goodsUnits,
                      serviceUnits, posResized>>
   BY <1>1 DEF RefusePayment, posMoney, posStock, posCatalogue
 <1>t. TillTyped BY DEF TillInv
 <1>2. /\ ppc'[h] = "idle" /\ pord'[h] = 0
       /\ \A g \in PosRequests \ {h} : Stands(g)
       /\ ppc' \in [PosRequests -> OrderSteps \cup {"idle", "create", "shelf", "log", "archive"}]
       /\ DOMAIN pord' = PosRequests /\ DOMAIN pseen' = PosRequests /\ DOMAIN parg' = PosRequests
   BY <1>d, <1>t, TillEnds
 <1>c. posCrossed' \subseteq PosOrders /\ posCrossed \subseteq posCrossed' /\ posCrossed' \subseteq posCrossed \cup {o}
   BY <1>d, <1>1, <1>t, CrossMarks
 <1>s. /\ posPaid'[o] = "UNPAID" /\ posPaid' \in [PosOrders -> PosPayment]
       /\ \A q \in PosOrders \ {o} : posPaid'[q] = posPaid[q]
   BY <1>d, <1>t DEF TillTyped, PosTypeOK, PosPayment
 <1>x. Worth(o, posItems[o])' = Worth(o, posItems[o])
  <2>1. UNCHANGED <<posItems, posServed, goodsUnits, serviceUnits>> BY <1>d
  <2> QED BY <2>1 DEF Worth
 <1>3. TillTyped' BY <1>d, <1>t, <1>2, <1>c, <1>s DEF TillTyped, PosTypeOK
 <1>4. \A q \in PosOrders \ {o} : OrderStands(q) BY <1>d, <1>c, <1>s DEF OrderStands
 <1>5. TillAsked(h)' /\ PaymentFits(h)' BY <1>2, EndedFits
 <1>6. OrderFits(o)' /\ \A g \in PosRequests \ {h} : pord[g] = o => PaymentFits(g)'
  <2>1. CASE o \in posCrossed' \cup posLost' BY <2>1, <1>2, MishapsFit DEF Stands
  <2>2. CASE o \notin posCrossed' \cup posLost'
   <3>1. /\ o \notin posCrossed \cup posLost /\ n = posItems[o]
         /\ pseen[h][1] = posStatus[o] /\ pseen[h][2] = posPaid[o]
     BY <2>2, <1>1, <1>d, <1>c, SeenAsItIs
   <3>2. posStatus[o] # "CLAIMED" /\ posPaid[o] = "PAID" /\ posTakings[o] = 0 /\ posRefunds[o] = 0
     BY <3>1, <1>1, <1>p DEF PaymentFits
   <3>3. Refunded(o)' = 0 BY <1>s DEF Refunded
   <3>5. OrderFits(o)' BY <1>x, <1>1, <1>d, <1>s, <3>1, <3>2, <3>3 DEF OrderFits, Held, Closed
   <3>6. \A g \in PosRequests \ {h} : pord[g] = o => PaymentFits(g)'
     BY <1>1, <1>2, <1>p, <3>1, NoOtherPays
   <3> QED BY <3>5, <3>6
  <2> QED BY <2>1, <2>2
 <1>7. posStatus'[o] # "none" BY <1>1, <1>d
 <1>8. OrdersFit' BY <1>1, <1>2, <1>4, <1>5, <1>6, <1>7, <1>d, OneOrderMoves DEF Paying
 <1>9. stock' = stock + 0 /\ stockMoves' = stockMoves + 0 BY <1>d, <1>t DEF TillTyped, PosTypeOK
 <1>10. LedgerExplainsStock' BY <1>2, <1>9, <1>d, <1>p, LedgerMoves
 <1>11. StockNeverNegative' /\ OneOrderPerKey' /\ ArchivedItemHasNoProduct'
   BY <1>d DEF TillInv, StockNeverNegative, OneOrderPerKey, ArchivedItemHasNoProduct
 <1> QED BY <1>3, <1>8, <1>10, <1>11, TillInvParts, PTL

LEMMA SettlePaymentKept ==
  ASSUME TillInv, NEW h \in PosRequests, SettlePayment(h)
  PROVE  TillInv'
 <1>p. ppc[h] = "settle" /\ ppc[h] \in OrderSteps /\ ppc[h] \in Paying
   BY DEF SettlePayment, OrderSteps, StatusSteps, Paying
 <1>1. PICK o \in PosOrders, n \in Nat, t \in Nat :
          /\ o = pord[h] /\ n = pseen[h][3] /\ t = pseen[h][4] /\ posStatus[o] # "none"
          /\ posItems[o] \in Nat /\ posTotal[o] \in Nat /\ posTakings[o] \in Nat /\ posRefunds[o] \in Nat
          /\ posOut[o] \in Int /\ posStatus[o] \in LaundryStatus /\ posPaid[o] \in PosPayment
          /\ OrderFits(o) /\ PaymentFits(h) /\ TillAsked(h)
   BY <1>p, OrderInHand
 <1>d. /\ posStatus' = [posStatus EXCEPT ![o] =
                           IF posServed[o] = 0 /\ pseen[h][1] = "PENDING" THEN "COMPLETED" ELSE @]
       /\ posCrossed' = IF posPaid[o] = "PAID" /\ posStatus[o] = pseen[h][1]
                        THEN posCrossed ELSE posCrossed \cup {o}
       /\ PosEnd(h)
       /\ UNCHANGED <<posPaid, posItems, posTotal, posKey, posServed, posTakings, posRefunds, posOut,
                      posKept, stock, stockMoves, itemArchived, productArchived, posCalls,
                      posMishaps, posTwins, posLost, stockStale, stockLost, posRevived, goodsUnits,
                      serviceUnits, posResized>>
   BY <1>1 DEF SettlePayment, posMoney, posStock, posCatalogue
 <1>t. TillTyped BY DEF TillInv
 <1>2. /\ ppc'[h] = "idle" /\ pord'[h] = 0
       /\ \A g \in PosRequests \ {h} : Stands(g)
       /\ ppc' \in [PosRequests -> OrderSteps \cup {"idle", "create", "shelf", "log", "archive"}]
       /\ DOMAIN pord' = PosRequests /\ DOMAIN pseen' = PosRequests /\ DOMAIN parg' = PosRequests
   BY <1>d, <1>t, TillEnds
 <1>c. posCrossed' \subseteq PosOrders /\ posCrossed \subseteq posCrossed' /\ posCrossed' \subseteq posCrossed \cup {o}
   BY <1>d, <1>t DEF TillTyped, PosTypeOK
 <1>s. /\ posStatus'[o] = posStatus[o] \/ (posStatus'[o] = "COMPLETED" /\ pseen[h][1] = "PENDING")
       /\ posStatus' \in [PosOrders -> LaundryStatus]
       /\ \A q \in PosOrders \ {o} : posStatus'[q] = posStatus[q]
   BY <1>d, <1>t DEF TillTyped, PosTypeOK, LaundryStatus
 <1>x. Worth(o, posItems[o])' = Worth(o, posItems[o])
  <2>1. UNCHANGED <<posItems, posServed, goodsUnits, serviceUnits>> BY <1>d
  <2> QED BY <2>1 DEF Worth
 <1>3. TillTyped' BY <1>d, <1>t, <1>2, <1>c, <1>s DEF TillTyped, PosTypeOK
 <1>4. \A q \in PosOrders \ {o} : OrderStands(q) BY <1>d, <1>c, <1>s DEF OrderStands
 <1>5. TillAsked(h)' /\ PaymentFits(h)' BY <1>2, EndedFits
 <1>6. OrderFits(o)' /\ \A g \in PosRequests \ {h} : pord[g] = o => PaymentFits(g)'
  <2>1. CASE o \in posCrossed' \cup posLost' BY <2>1, <1>2, MishapsFit DEF Stands
  <2>2. CASE o \notin posCrossed' \cup posLost'
   <3>1. o \notin posCrossed \cup posLost BY <2>2, <1>c, <1>d
   <3>2. posPaid[o] = "PAID" /\ posStatus[o] = pseen[h][1] BY <2>2, <1>d
   <3>3. posTakings[o] = posTotal[o] /\ posRefunds[o] = Refunded(o)
     BY <3>1, <1>1, <1>p DEF PaymentFits
   <3>4. Refunded(o)' = Refunded(o) BY <1>d DEF Refunded
   <3>7. posStatus'[o] = posStatus[o] \/ (posStatus'[o] = "COMPLETED" /\ posStatus[o] = "PENDING") BY <3>2, <1>s
   <3>5. OrderFits(o)' BY <1>x, <1>1, <1>d, <3>1, <3>2, <3>3, <3>4, <3>7 DEF OrderFits, Held, Closed
   <3>6. \A g \in PosRequests \ {h} : pord[g] = o => PaymentFits(g)'
     BY <1>1, <1>2, <1>p, <3>1, NoOtherPays
   <3> QED BY <3>5, <3>6
  <2> QED BY <2>1, <2>2
 <1>7. posStatus'[o] # "none" BY <1>1, <1>s
 <1>8. OrdersFit' BY <1>1, <1>2, <1>4, <1>5, <1>6, <1>7, <1>d, OneOrderMoves DEF Paying
 <1>9. stock' = stock + 0 /\ stockMoves' = stockMoves + 0 BY <1>d, <1>t DEF TillTyped, PosTypeOK
 <1>10. LedgerExplainsStock' BY <1>2, <1>9, <1>d, <1>p, LedgerMoves
 <1>11. StockNeverNegative' /\ OneOrderPerKey' /\ ArchivedItemHasNoProduct'
   BY <1>d DEF TillInv, StockNeverNegative, OneOrderPerKey, ArchivedItemHasNoProduct
 <1> QED BY <1>3, <1>8, <1>10, <1>11, TillInvParts, PTL

LEMMA ChargePaymentKept ==
  ASSUME TillInv, NEW h \in PosRequests, ChargePayment(h)
  PROVE  TillInv'
 <1>p. ppc[h] = "charge" /\ ppc[h] \in OrderSteps /\ ppc[h] \in Paying
   BY DEF ChargePayment, OrderSteps, StatusSteps, Paying
 <1>1. PICK o \in PosOrders, n \in Nat, t \in Nat :
          /\ o = pord[h] /\ n = pseen[h][3] /\ t = pseen[h][4] /\ posStatus[o] # "none"
          /\ posItems[o] \in Nat /\ posTotal[o] \in Nat /\ posTakings[o] \in Nat /\ posRefunds[o] \in Nat
          /\ posOut[o] \in Int /\ posStatus[o] \in LaundryStatus /\ posPaid[o] \in PosPayment
          /\ OrderFits(o) /\ PaymentFits(h) /\ TillAsked(h)
   BY <1>p, OrderInHand
 <1>d. /\ posTakings' = [posTakings EXCEPT ![o] = @ + t] /\ ppc' = [ppc EXCEPT ![h] = "settle"]
       /\ UNCHANGED <<posStatus, posPaid, posItems, posTotal, posKey, posServed, posRefunds, posOut,
                      posKept, stock, stockMoves, itemArchived, productArchived, pord, pseen, parg,
                      posCalls, posMishaps, posCrossed, posTwins, posLost, stockStale, stockLost,
                      posRevived, goodsUnits, serviceUnits, posResized>>
   BY <1>1 DEF ChargePayment, posOrders, posStock, posCatalogue, posHistory
 <1>t. TillTyped BY DEF TillInv
 <1>2. /\ ppc'[h] = "settle" /\ pord'[h] = o /\ pseen'[h] = pseen[h]
       /\ \A g \in PosRequests \ {h} : Stands(g)
       /\ ppc' \in [PosRequests -> OrderSteps \cup {"idle", "create", "shelf", "log", "archive"}]
   BY <1>1, <1>d, <1>t DEF Stands, TillTyped, OrderSteps, Paying
 <1>s. /\ posTakings'[o] = posTakings[o] + t /\ posTakings' \in [PosOrders -> Nat]
       /\ \A q \in PosOrders \ {o} : posTakings'[q] = posTakings[q]
   BY <1>d, <1>t DEF TillTyped, PosTypeOK
 <1>x. Worth(o, posItems[o])' = Worth(o, posItems[o])
  <2>1. UNCHANGED <<posItems, posServed, goodsUnits, serviceUnits>> BY <1>d
  <2> QED BY <2>1 DEF Worth
 <1>3. TillTyped' BY <1>d, <1>t, <1>2, <1>s DEF TillTyped, PosTypeOK
 <1>4. \A q \in PosOrders \ {o} : OrderStands(q) BY <1>d, <1>s DEF OrderStands
 <1>5. TillAsked(h)' BY <1>1, <1>2, <1>d, <1>p DEF TillAsked, OrderSteps, StatusSteps, Paying
 <1>6. OrderFits(o)' /\ PaymentFits(h)' /\ \A g \in PosRequests \ {h} : pord[g] = o => PaymentFits(g)'
  <2>1. CASE o \in posCrossed' \cup posLost' BY <2>1, <1>2, MishapsFit DEF Stands
  <2>2. CASE o \notin posCrossed' \cup posLost'
   <3>1. o \notin posCrossed \cup posLost BY <2>2, <1>d
   <3>2. ~Settled(o)' BY <1>2 DEF Settled
   <3>3. OrderFits(o)' BY <1>x, <1>1, <1>d, <3>1, <3>2 DEF OrderFits, Held, Closed
   <3>4. ASSUME NEW g \in PosRequests \ {h}, pord[g] = o PROVE ppc'[g] \notin Paying /\ PaymentFits(g)'
    <4>1. ppc[g] \notin Paying /\ PaymentFits(g)' BY <1>1, <1>2, <1>p, <3>1, <3>4, NoOtherPays
    <4>2. Stands(g) BY <1>2
    <4> QED BY <4>1, <4>2 DEF Stands
   <3>5. \A g \in PosRequests : g # h /\ pord'[g] = o => ppc'[g] \notin Paying BY <3>4, <1>2 DEF Stands
   <3>6. posPaid'[o] # "UNPAID" /\ posTakings'[o] = posTotal'[o] /\ posRefunds'[o] = Refunded(o)'
    <4>1. posPaid[o] # "UNPAID" /\ posTakings[o] + t = posTotal[o] /\ posRefunds[o] = Refunded(o)
      BY <1>1, <1>p, <3>1 DEF PaymentFits
    <4>2. Refunded(o)' = Refunded(o) BY <1>d DEF Refunded
    <4> QED BY <4>1, <4>2, <1>d, <1>s
   <3>7. PaymentFits(h)' BY <1>2, <3>5, <3>6 DEF PaymentFits
   <3> QED BY <3>3, <3>4, <3>7
  <2> QED BY <2>1, <2>2
 <1>7. posStatus'[o] # "none" BY <1>1, <1>d
 <1>8. OrdersFit' BY <1>1, <1>2, <1>4, <1>5, <1>6, <1>7, <1>d, OneOrderMoves
 <1>9. stock' = stock + 0 /\ stockMoves' = stockMoves + 0 BY <1>d, <1>t DEF TillTyped, PosTypeOK
 <1>10. LedgerExplainsStock' BY <1>2, <1>9, <1>d, <1>p, LedgerMoves
 <1>11. StockNeverNegative' /\ OneOrderPerKey' /\ ArchivedItemHasNoProduct'
   BY <1>d DEF TillInv, StockNeverNegative, OneOrderPerKey, ArchivedItemHasNoProduct
 <1> QED BY <1>3, <1>8, <1>10, <1>11, TillInvParts, PTL

(* processPayment claims the order, whose money nobody is then moving. *)
LEMMA BeginPaymentKept ==
  ASSUME TillInv, NEW h \in PosRequests, NEW o \in PosOrders, NEW good \in BOOLEAN, BeginPayment(h, o, good)
  PROVE  TillInv'
 <1>a. PICK at \in {"charge", "refuse"} : at = IF good /\ posStatus[o] \notin Closed THEN "charge" ELSE "refuse"
   OBVIOUS
 <1>d. /\ posStatus[o] # "none" /\ posPaid[o] = "UNPAID" /\ posPaid' = [posPaid EXCEPT ![o] = "PAID"]
       /\ PosBegin(h, at, o, <<posStatus[o], "PAID", posItems[o], posTotal[o]>>, 0)
       /\ UNCHANGED <<posStatus, posItems, posTotal, posKey, posServed, posTakings, posRefunds,
                      posOut, posKept, stock, stockMoves, itemArchived, productArchived, posMishaps,
                      posCrossed, posTwins, posLost, stockStale, stockLost, posRevived, goodsUnits,
                      serviceUnits, posResized>>
   BY <1>a DEF BeginPayment, posMoney, posStock, posCatalogue, posHistory
 <1>t. TillTyped BY DEF TillInv
 <1>2. /\ ppc[h] = "idle" /\ ppc'[h] = at /\ pord'[h] = o
       /\ pseen'[h] = <<posStatus[o], "PAID", posItems[o], posTotal[o]>>
       /\ \A g \in PosRequests \ {h} : Stands(g)
       /\ ppc' \in [PosRequests -> OrderSteps \cup {"idle", "create", "shelf", "log", "archive"}]
       /\ DOMAIN pord' = PosRequests /\ DOMAIN pseen' = PosRequests /\ DOMAIN parg' = PosRequests
       /\ posCalls' \in Nat
  <3>1. at \in OrderSteps \cup {"idle", "create", "shelf", "log", "archive"} BY DEF OrderSteps, Paying
  <3> QED BY <3>1, <1>d, <1>t, TillBegins
 <1>o. /\ posStatus[o] \in LaundryStatus \ {"none"} /\ posItems[o] \in Nat /\ posTotal[o] \in Nat
       /\ posTakings[o] \in Nat /\ posRefunds[o] \in Nat /\ OrderFits(o)
   BY <1>d, <1>t DEF TillTyped, PosTypeOK, TillInv
 <1>s. /\ posPaid'[o] = "PAID" /\ posPaid' \in [PosOrders -> PosPayment]
       /\ \A q \in PosOrders \ {o} : posPaid'[q] = posPaid[q]
   BY <1>d, <1>t DEF TillTyped, PosTypeOK, PosPayment
 <1>x. Worth(o, posItems[o])' = Worth(o, posItems[o])
  <2>1. UNCHANGED <<posItems, posServed, goodsUnits, serviceUnits>> BY <1>d
  <2> QED BY <2>1 DEF Worth
 <1>3. TillTyped' BY <1>d, <1>t, <1>2, <1>s DEF TillTyped, PosTypeOK
 <1>4. \A q \in PosOrders \ {o} : OrderStands(q) BY <1>d, <1>s DEF OrderStands
 <1>5. TillAsked(h)'
  <2>1. pseen'[h] \in (LaundryStatus \ {"none"}) \X PosPayment \X Nat \X Nat BY <1>2, <1>o DEF PosPayment
  <2>2. posServed'[pord'[h]] <= pseen'[h][3]
   <3>1. posServed'[o] = posServed[o] BY <1>d
   <3>2. posServed[o] <= posItems[o] BY <1>t DEF TillTyped
   <3>3. pseen'[h][3] = posItems[o] /\ pord'[h] = o BY <1>2
   <3> QED BY <3>1, <3>2, <3>3
  <2> QED BY <2>1, <2>2, <1>2, <1>d DEF TillAsked, OrderSteps, StatusSteps, Paying
 <1>6. OrderFits(o)' /\ PaymentFits(h)' /\ \A g \in PosRequests \ {h} : pord[g] = o => PaymentFits(g)'
  <2>1. CASE o \in posCrossed' \cup posLost' BY <2>1, <1>2, MishapsFit DEF Stands
  <2>2. CASE o \notin posCrossed' \cup posLost'
   <3>1. o \notin posCrossed \cup posLost BY <2>2, <1>d
   <3>2. \A g \in PosRequests : pord[g] = o => ppc[g] \notin Paying BY <3>1, <1>d DEF TillInv, PaymentFits
   <3>3. Settled(o) BY <3>2 DEF Settled, Paying
   <3>4. posTakings[o] = 0 /\ posRefunds[o] = 0 /\ posStatus[o] # "CLAIMED"
     BY <3>1, <3>3, <1>d, <1>o DEF OrderFits, Refunded
   <3>5. ~Settled(o)' BY <1>2 DEF Settled
   <3>6. OrderFits(o)' BY <1>x, <1>d, <1>s, <1>o, <3>1, <3>5 DEF OrderFits, Held, Closed
   <3>7. \A g \in PosRequests \ {h} : pord[g] = o => ppc'[g] \notin Paying
    <4> SUFFICES ASSUME NEW g \in PosRequests \ {h}, pord[g] = o PROVE ppc'[g] \notin Paying OBVIOUS
    <4>1. Stands(g) BY <1>2
    <4> QED BY <4>1, <3>2 DEF Stands
   <3>8. \A g \in PosRequests : g # h /\ pord'[g] = o => ppc'[g] \notin Paying BY <3>7, <1>2 DEF Stands
   <3>9. Refunded(o)' = 0 BY <1>s DEF Refunded
   <3>10. pseen'[h][1] = posStatus[o] /\ pseen'[h][2] = "PAID" /\ pseen'[h][3] = posItems[o]
          /\ pseen'[h][4] = posTotal[o]
     BY <1>2
   <3>11. /\ posTakings'[o] = 0 /\ posRefunds'[o] = 0 /\ posTotal'[o] = posTotal[o] /\ posItems'[o] = posItems[o]
          /\ 0 + posTotal[o] = posTotal[o] /\ posItems[o] <= posItems[o]
     BY <3>4, <1>d, <1>o
   <3>12. PaymentFits(h)' BY <1>2, <1>s, <3>4, <3>8, <3>9, <3>10, <3>11 DEF PaymentFits
   <3>13. \A g \in PosRequests \ {h} : pord[g] = o => PaymentFits(g)' BY <3>7 DEF PaymentFits
   <3> QED BY <3>6, <3>12, <3>13
  <2> QED BY <2>1, <2>2
 <1>7. posStatus'[o] # "none" BY <1>d
 <1>8. OrdersFit' BY <1>2, <1>4, <1>5, <1>6, <1>7, <1>d, OneOrderMoves DEF Paying
 <1>9. stock' = stock + 0 /\ stockMoves' = stockMoves + 0 BY <1>d, <1>t DEF TillTyped, PosTypeOK
 <1>10. LedgerExplainsStock' BY <1>2, <1>9, <1>d, <1>a, LedgerMoves
 <1>11. StockNeverNegative' /\ OneOrderPerKey' /\ ArchivedItemHasNoProduct'
   BY <1>d DEF TillInv, StockNeverNegative, OneOrderPerKey, ArchivedItemHasNoProduct
 <1> QED BY <1>3, <1>8, <1>10, <1>11, TillInvParts, PTL

(* create.  The index over the key is not unique, and the save does not look
   again: an order that came first under its key makes this one a twin. *)
LEMMA SaveOrderKept ==
  ASSUME TillInv, NEW h \in PosRequests, NEW o \in PosOrders, NEW n \in 1..MaxQuantity, NEW service \in BOOLEAN,
         SaveOrder(h, o, n, service)
  PROVE  TillInv'
 <1>n. n \in Nat BY PosBoundsAssumption
 <1>d. /\ ppc[h] = "create" /\ posStatus[o] = "none" /\ \A q \in 1..(o - 1) : posStatus[q] # "none"
       /\ Deduct(o, n * IF service THEN serviceUnits ELSE goodsUnits) /\ PosEnd(h)
       /\ posStatus' = [posStatus EXCEPT ![o] = "PENDING"]
       /\ posItems' = [posItems EXCEPT ![o] = n] /\ posTotal' = [posTotal EXCEPT ![o] = n]
       /\ posKey' = [posKey EXCEPT ![o] = parg[h]]
       /\ posServed' = [posServed EXCEPT ![o] = IF service THEN n ELSE 0]
       /\ posTwins' = IF parg[h] # NoTillKey /\ pseen[h] # AlreadyHere(parg[h])
                      THEN posTwins \cup {o} ELSE posTwins
       /\ UNCHANGED <<posPaid, posTakings, posRefunds, posKept, itemArchived, productArchived,
                      posCalls, posMishaps, posCrossed, posLost, stockStale, stockLost, posRevived,
                      goodsUnits, serviceUnits, posResized>>
   BY DEF SaveOrder, posMoney, posCatalogue
 <1>t. TillTyped /\ TillAsked(h) /\ BlankOrders BY DEF TillInv
 <1>k. PICK k \in PosKeys \cup {NoTillKey} : k = parg[h] /\ (k # NoTillKey => pseen[h][3] = 0)
   BY <1>d, <1>t DEF TillAsked
 <1>2. /\ ppc'[h] = "idle" /\ pord'[h] = 0
       /\ \A g \in PosRequests \ {h} : Stands(g)
       /\ ppc' \in [PosRequests -> OrderSteps \cup {"idle", "create", "shelf", "log", "archive"}]
       /\ DOMAIN pord' = PosRequests /\ DOMAIN pseen' = PosRequests /\ DOMAIN parg' = PosRequests
   BY <1>d, <1>t, TillEnds
 <1>u. PICK u \in Nat : u = n * IF service THEN serviceUnits ELSE goodsUnits
  <2>1. PICK e \in Nat : e = IF service THEN serviceUnits ELSE goodsUnits
    BY <1>t, PosBoundsAssumption DEF TillTyped, PosTypeOK
  <2>2. n * e \in Nat BY <1>n, <2>1
  <2> QED BY <2>1, <2>2
 <1>m. /\ stock' = stock + (-u) /\ stockMoves' = stockMoves + (-u) /\ -u \in Int
       /\ stock' \in Int /\ stockMoves' \in Int /\ stock' >= 0 /\ posOut' \in [PosOrders -> Int]
       /\ posOut'[o] = posOut[o] + u /\ \A q \in PosOrders \ {o} : posOut'[q] = posOut[q]
   BY <1>u, <1>d, <1>t, UnitsLeave
 <1>s. /\ posStatus'[o] = "PENDING" /\ posItems'[o] = n /\ posTotal'[o] = n /\ posKey'[o] = k
       /\ posStatus' \in [PosOrders -> LaundryStatus]
       /\ posItems' \in [PosOrders -> Nat] /\ posTotal' \in [PosOrders -> Nat]
       /\ posKey' \in [PosOrders -> PosKeys \cup {NoTillKey}]
       /\ \A q \in PosOrders \ {o} : posStatus'[q] = posStatus[q] /\ posItems'[q] = posItems[q]
                                     /\ posTotal'[q] = posTotal[q] /\ posKey'[q] = posKey[q]
   BY <1>n, <1>d, <1>k, <1>t DEF TillTyped, PosTypeOK, LaundryStatus
 <1>v. /\ posServed'[o] = IF service THEN n ELSE 0
       /\ \A q \in PosOrders \ {o} : posServed'[q] = posServed[q]
       /\ posServed' \in [PosOrders -> Nat]
   BY <1>n, <1>d, <1>t DEF TillTyped, PosTypeOK
 <1>y. \A q \in PosOrders : posServed'[q] <= posItems'[q]
  <2> SUFFICES ASSUME NEW q \in PosOrders PROVE posServed'[q] <= posItems'[q] OBVIOUS
  <2>1. CASE q = o BY <2>1, <1>v, <1>s, <1>n
  <2>2. CASE q # o BY <2>2, <1>v, <1>s, <1>t DEF TillTyped
  <2> QED BY <2>1, <2>2
 <1>x. Worth(o, posItems[o])' = u
  <2>1. PICK g \in Nat, e \in Nat : g = goodsUnits /\ e = serviceUnits
    BY <1>t, PosBoundsAssumption DEF TillTyped, PosTypeOK
  <2>2. goodsUnits' = g /\ serviceUnits' = e BY <2>1, <1>d
  <2>3. CASE service
   <3>1. Worth(o, posItems[o])' = (n - n) * g + n * e BY <2>3, <2>2, <1>v, <1>s DEF Worth
   <3>2. (n - n) * g + n * e = n * e
    <4>1. n * e \in Nat /\ n - n = 0 /\ 0 * g = 0 BY <1>n, <2>1
    <4> QED BY <4>1
   <3> QED BY <3>1, <3>2, <2>1, <2>3, <1>u
  <2>4. CASE ~service
   <3>1. Worth(o, posItems[o])' = (n - 0) * g + 0 * e BY <2>4, <2>2, <1>v, <1>s DEF Worth
   <3>2. (n - 0) * g + 0 * e = n * g
    <4>1. n * g \in Nat /\ n - 0 = n /\ 0 * e = 0 BY <1>n, <2>1
    <4> QED BY <4>1
   <3> QED BY <3>1, <3>2, <2>1, <2>4, <1>u
  <2> QED BY <2>3, <2>4
 <1>w. posTwins' \subseteq PosOrders /\ posTwins \subseteq posTwins' BY <1>d, <1>t DEF TillTyped, PosTypeOK
 <1>3. TillTyped' BY <1>d, <1>t, <1>2, <1>m, <1>s, <1>v, <1>w, <1>y DEF TillTyped, PosTypeOK
 <1>4. \A q \in PosOrders \ {o} : OrderStands(q) BY <1>d, <1>m, <1>s, <1>v DEF OrderStands
 <1>b. /\ posPaid[o] = "UNPAID" /\ posTakings[o] = 0 /\ posRefunds[o] = 0 /\ posOut[o] = 0
       /\ o \notin posKept \cup posCrossed \cup posLost
       /\ \A q \in PosOrders : o < q => posStatus[q] = "none"
   BY <1>d, <1>t DEF BlankOrders
 <1>f. \A g \in PosRequests : pord[g] # o
  <2> SUFFICES ASSUME NEW g \in PosRequests, pord[g] = o PROVE FALSE OBVIOUS
  <2>1. TillAsked(g) BY DEF TillInv
  <2>2. o # 0 BY DEF PosOrders
  <2> QED BY <2>1, <2>2, <1>d DEF TillAsked
 <1>5. OrdersFit'
  <2>1. ppc[h] \notin Paying /\ ppc'[h] \notin Paying BY <1>d, <1>2 DEF Paying
  <2>2. /\ \A q \in PosOrders \ {o} : OrderFits(q)'
        /\ \A g \in PosRequests \ {h} : pord[g] # o => PaymentFits(g)'
    BY <2>1, <1>2, <1>4, OthersFit
  <2>3. OrderFits(o)'
   <3>1. posOut'[o] = u BY <1>b, <1>m, <1>u
   <3>2. posPaid'[o] = "UNPAID" /\ posTakings'[o] = 0 /\ posRefunds'[o] = 0 /\ o \notin posKept' BY <1>b, <1>d
   <3>3. Refunded(o)' = 0 BY <3>2 DEF Refunded
   <3>4. Held(o)' = u BY <1>s, <1>x DEF Held, Closed
   <3> QED BY <3>1, <3>2, <3>3, <3>4, <1>s DEF OrderFits, Closed
  <2>4. TillAsked(h)' /\ PaymentFits(h)' BY <1>2, EndedFits
  <2>5. \A g \in PosRequests : TillAsked(g)'
   <3> SUFFICES ASSUME NEW g \in PosRequests, g # h PROVE TillAsked(g)' BY <2>4
   <3>1. TillAsked(g) /\ Stands(g) BY <1>2 DEF TillInv
   <3>2. ppc[g] \in OrderSteps => posStatus'[pord[g]] # "none" /\ posServed'[pord[g]] = posServed[pord[g]]
     BY <3>1, <1>f, <1>s, <1>v DEF TillAsked
   <3> QED BY <3>1, <3>2, <1>d, AskedStands
  <2>6. BlankOrders'
   <3> SUFFICES ASSUME NEW q \in PosOrders, posStatus'[q] = "none"
                PROVE  /\ posPaid'[q] = "UNPAID" /\ posItems'[q] = 0 /\ posTotal'[q] = 0 /\ posKey'[q] = NoTillKey
                       /\ posTakings'[q] = 0 /\ posRefunds'[q] = 0 /\ posOut'[q] = 0
                       /\ q \notin posKept' \cup posCrossed' \cup posLost'
                       /\ \A r \in PosOrders : q < r => posStatus'[r] = "none"
     BY DEF BlankOrders
   <3>1. q # o /\ OrderStands(q) /\ posStatus[q] = "none" BY <1>4, <1>s
   <3>2. q > o
    <4>1. q \in Int /\ o \in Int /\ 1 <= q BY PosBoundsAssumption DEF PosOrders
    <4>2. ~(q < o)
     <5> SUFFICES ASSUME q < o PROVE FALSE OBVIOUS
     <5>1. q \in 1..(o - 1) BY <4>1
     <5> QED BY <5>1, <1>d, <3>1
    <4> QED BY <4>1, <4>2, <3>1
   <3>3. ASSUME NEW r \in PosOrders, q < r PROVE posStatus'[r] = "none"
    <4>1. r # o BY <3>2, <3>3, PosBoundsAssumption DEF PosOrders
    <4>2. posStatus[r] = "none" BY <3>1, <3>3, <1>t DEF BlankOrders
    <4> QED BY <4>1, <4>2, <1>s
   <3>4. /\ posPaid[q] = "UNPAID" /\ posItems[q] = 0 /\ posTotal[q] = 0 /\ posKey[q] = NoTillKey
         /\ posTakings[q] = 0 /\ posRefunds[q] = 0 /\ posOut[q] = 0
         /\ q \notin posKept \cup posCrossed \cup posLost
     BY <3>1, <1>t DEF BlankOrders
   <3> QED BY <3>1, <3>3, <3>4 DEF OrderStands
  <2> QED BY <2>2, <2>3, <2>4, <2>5, <2>6, <1>f DEF OrdersFit
 <1>6. LedgerExplainsStock' BY <1>2, <1>m, <1>d, LedgerMoves
 <1>7. StockNeverNegative' BY <1>m DEF StockNeverNegative
 <1>8. ArchivedItemHasNoProduct' BY <1>d DEF TillInv, ArchivedItemHasNoProduct
 <1>9. OneOrderPerKey'
  <2> SUFFICES ASSUME NEW a \in PosOrders, NEW b \in PosOrders, a < b, posKey'[a] = posKey'[b],
                      posKey'[a] # NoTillKey
               PROVE  b \in posTwins'
    BY DEF OneOrderPerKey
  <2>1. CASE a = o
   <3>1. posStatus[b] = "none" /\ b # o BY <2>1, <1>b, PosBoundsAssumption DEF PosOrders
   <3>2. posKey[b] = NoTillKey BY <3>1, <1>t DEF BlankOrders
   <3> QED BY <3>1, <3>2, <1>s
  <2>2. CASE b = o
   <3>1. a # o BY <2>2, PosBoundsAssumption DEF PosOrders
   <3>2. posKey[a] = k /\ k # NoTillKey BY <2>2, <3>1, <1>s
   <3> DEFINE Here == {q \in PosOrders : posKey[q] = k /\ k # NoTillKey}
   <3>3. IsFiniteSet(Here) /\ a \in Here
    <4>1. 1 \in Int /\ MaxPosOrders \in Int BY PosBoundsAssumption
    <4>2. IsFiniteSet(PosOrders) BY <4>1, FS_Interval DEF PosOrders
    <4> QED BY <4>2, <3>2, FS_Subset
   <3>4. Cardinality(Here) # 0 BY <3>3, FS_EmptySet
   <3>5. AlreadyHere(k)[3] = Cardinality(Here) BY DEF AlreadyHere
   <3>6. pseen[h] # AlreadyHere(k) BY <3>2, <3>4, <3>5, <1>k
   <3> QED BY <3>2, <3>6, <2>2, <1>k, <1>d
  <2>3. CASE a # o /\ b # o
   <3>1. posKey[a] = posKey[b] /\ posKey[a] # NoTillKey BY <2>3, <1>s
   <3>2. b \in posTwins BY <3>1 DEF TillInv, OneOrderPerKey
   <3> QED BY <3>2, <1>w
  <2> QED BY <2>1, <2>2, <2>3
 <1> QED BY <1>3, <1>5, <1>6, <1>7, <1>8, <1>9, TillInvParts, PTL

(* The process of a payment, or of a change to the shelf, is lost. *)
LEMMA LosePosRequestKept ==
  ASSUME TillInv, NEW h \in PosRequests, LosePosRequest(h)
  PROVE  TillInv'
 <1>p. ppc[h] \in Paying \cup {"log"} BY DEF LosePosRequest, Paying
 <1>d. /\ posMishaps' = posMishaps + 1 /\ posCalls' = posCalls + 1 /\ PosEnd(h)
       /\ posLost' = IF ppc[h] = "log" THEN posLost ELSE posLost \cup {pord[h]}
       /\ stockLost' = stockLost + IF ppc[h] = "log" THEN parg[h] ELSE 0
       /\ UNCHANGED <<posStatus, posPaid, posItems, posTotal, posKey, posServed, posTakings,
                      posRefunds, posOut, posKept, stock, stockMoves, itemArchived, productArchived,
                      posCrossed, posTwins, stockStale, posRevived, goodsUnits, serviceUnits,
                      posResized>>
   BY DEF LosePosRequest, posOrders, posMoney, posStock, posCatalogue
 <1>t. TillTyped /\ TillAsked(h) BY DEF TillInv
 <1>s. /\ stock \in Int /\ stockMoves \in Int /\ stockLost \in Int /\ OpeningStock \in Int
       /\ posMishaps' \in Nat /\ posCalls' \in Nat
   BY <1>d, <1>t, PosBoundsAssumption DEF TillTyped, PosTypeOK
 <1>2. /\ ppc'[h] = "idle" /\ pord'[h] = 0
       /\ \A g \in PosRequests \ {h} : Stands(g)
       /\ ppc' \in [PosRequests -> OrderSteps \cup {"idle", "create", "shelf", "log", "archive"}]
       /\ DOMAIN pord' = PosRequests /\ DOMAIN pseen' = PosRequests /\ DOMAIN parg' = PosRequests
   BY <1>d, <1>t, TillEnds
 <1>5. TillAsked(h)' /\ PaymentFits(h)' BY <1>2, EndedFits
 <1>6. StockNeverNegative' /\ OneOrderPerKey' /\ ArchivedItemHasNoProduct'
   BY <1>d DEF TillInv, StockNeverNegative, OneOrderPerKey, ArchivedItemHasNoProduct
 <1>l. (LedgerExplainsStock <=> stock = OpeningStock + stockMoves + stockLost + Owed)' BY LedgerSays, PTL
 <1>m. stock = OpeningStock + stockMoves + stockLost + Owed BY LedgerSays DEF TillInv
 <1>7. CASE ppc[h] = "log"
  <2>1. posLost' = posLost /\ stockLost' = stockLost + parg[h] BY <1>7, <1>d
  <2>2. \A q \in PosOrders : OrderStands(q) BY <2>1, <1>d DEF OrderStands
  <2>3. OrdersFit' BY <2>2, <1>2, <1>5, <1>7, <1>d, OrdersRest DEF Paying
  <2>4. Owed' \in Int /\ parg[h] \in Int /\ Owed = Owed' + parg[h] BY <1>2, <1>7, OwedShrinks DEF TillInv
  <2>5. stock' = OpeningStock + stockMoves' + stockLost' + Owed'
   <3>1. PICK a, b, c, d, e : a = stock /\ b = stockMoves /\ c = stockLost /\ d = Owed' /\ e = parg[h] OBVIOUS
   <3>2. a = OpeningStock + b + c + (d + e) /\ a \in Int /\ b \in Int /\ c \in Int /\ d \in Int /\ e \in Int
     BY <1>m, <2>4, <1>s, <3>1
   <3>3. a = OpeningStock + b + (c + e) + d BY <3>2, <1>s
   <3> QED BY <3>1, <3>3, <2>1, <1>d
  <2>6. TillTyped'
   <3>1. stockLost' \in Int BY <2>1, <2>4, <1>s
   <3> QED BY <3>1, <1>d, <1>s, <1>t, <1>2 DEF TillTyped, PosTypeOK
  <2>7. LedgerExplainsStock' BY <2>5, <1>l
  <2> QED BY <2>3, <2>6, <2>7, <1>6, TillInvParts, PTL
 <1>8. CASE ppc[h] \in Paying
  <2>1. PICK o \in PosOrders, n \in Nat, t \in Nat :
           /\ o = pord[h] /\ n = pseen[h][3] /\ t = pseen[h][4] /\ posStatus[o] # "none"
           /\ posItems[o] \in Nat /\ posTotal[o] \in Nat /\ posTakings[o] \in Nat /\ posRefunds[o] \in Nat
           /\ posOut[o] \in Int /\ posStatus[o] \in LaundryStatus /\ posPaid[o] \in PosPayment
           /\ OrderFits(o) /\ PaymentFits(h) /\ TillAsked(h)
   <3>1. ppc[h] \in OrderSteps BY <1>8 DEF OrderSteps
   <3> QED BY <3>1, OrderInHand
  <2>2. posLost' = posLost \cup {o} /\ stockLost' = stockLost + 0 BY <2>1, <1>8, <1>d DEF Paying
  <2>3. stockLost' = stockLost BY <2>2, <1>s
  <2>4. \A q \in PosOrders \ {o} : OrderStands(q) BY <2>2, <1>d DEF OrderStands
  <2>5. OrderFits(o)' /\ \A g \in PosRequests \ {h} : pord[g] = o => PaymentFits(g)'
    BY <2>2, <1>2, MishapsFit DEF Stands
  <2>6. posStatus'[o] # "none" /\ ppc'[h] \notin Paying BY <2>1, <1>2, <1>d DEF Paying
  <2>7. OrdersFit' BY <2>1, <2>4, <2>5, <2>6, <1>2, <1>5, <1>d, OneOrderMoves
  <2>8. stock' = stock + 0 /\ stockMoves' = stockMoves + 0 BY <1>d, <1>s
  <2>9. LedgerExplainsStock' BY <2>3, <2>8, <1>2, <1>8, LedgerMoves DEF Paying
  <2>10. TillTyped' BY <2>2, <2>3, <1>d, <1>s, <1>t, <1>2 DEF TillTyped, PosTypeOK
  <2> QED BY <2>7, <2>9, <2>10, <1>6, TillInvParts, PTL
 <1> QED BY <1>p, <1>7, <1>8

LEMMA TillInvNext == TillInv /\ [PosNext]_posVars => TillInv'
 <1> SUFFICES ASSUME TillInv, [PosNext]_posVars PROVE TillInv' OBVIOUS
 <1>1. CASE UNCHANGED posVars
  <2>1. UNCHANGED <<posStatus, posPaid, posItems, posTotal, posKey, posServed, posTakings,
                    posRefunds, posOut, posKept, stock, stockMoves, itemArchived, productArchived,
                    ppc, pord, pseen, parg, posCalls, posMishaps, posCrossed, posTwins, posLost,
                    stockStale, stockLost, posRevived, goodsUnits, serviceUnits, posResized>>
    BY <1>1 DEF posVars, posOrders, posMoney, posStock, posCatalogue, posRequest, posHistory
  <2>2. TillTyped' BY <2>1 DEF TillInv, TillTyped, PosTypeOK
  <2>3. (\A h \in PosRequests : TillAsked(h))' BY <2>1 DEF TillInv, TillAsked, Asks
  <2>4. BlankOrders' BY <2>1 DEF TillInv, BlankOrders
  <2>5. (\A o \in PosOrders : OrderFits(o))' BY <2>1 DEF TillInv, OrderFits, Held, Worth, Settled, Refunded
  <2>6. (\A h \in PosRequests : PaymentFits(h))' BY <2>1 DEF TillInv, PaymentFits, Refunded
  <2>7. StockNeverNegative' /\ LedgerExplainsStock' /\ OneOrderPerKey' /\ ArchivedItemHasNoProduct'
    BY <2>1 DEF TillInv, StockNeverNegative, LedgerExplainsStock, OneOrderPerKey, ArchivedItemHasNoProduct
  <2> QED BY <2>2, <2>3, <2>4, <2>5, <2>6, <2>7 DEF TillInv
 <1>2. ASSUME NEW h \in PosRequests, NEW k \in PosKeys \cup {NoTillKey}, BeginCreate(h, k) PROVE TillInv'
   BY <1>2, BeginCreateKept
 <1>3. ASSUME NEW h \in PosRequests, NEW o \in PosOrders, NEW n \in 1..MaxQuantity, NEW service \in BOOLEAN,
              SaveOrder(h, o, n, service)
       PROVE  TillInv'
   BY <1>3, SaveOrderKept
 <1>4. ASSUME NEW h \in PosRequests, NEW o \in PosOrders, NEW op \in {"IN_PROGRESS", "READY", "CLAIMED", "addons"},
              ReadOrder(h, o, op, 0)
       PROVE  TillInv'
  <2>1. op \in OrderSteps \ Paying BY <1>4 DEF OrderSteps, StatusSteps, Paying
  <2> QED BY <2>1, <1>4, ReadOrderKept
 <1>5. ASSUME NEW h \in PosRequests, NEW o \in PosOrders, NEW op \in {"cancel", "void"}, NEW restore \in {0, 1},
              ReadOrder(h, o, op, restore)
       PROVE  TillInv'
  <2>1. op \in OrderSteps \ Paying BY <1>5 DEF OrderSteps, StatusSteps, Paying
  <2> QED BY <2>1, <1>5, ReadOrderKept
 <1>6. ASSUME NEW h \in PosRequests, WriteStatus(h) \/ CancelOrder(h) \/ VoidOrder(h) PROVE TillInv'
   BY <1>6, WriteStatusKept, CancelOrderKept, VoidOrderKept
 <1>7. ASSUME NEW h \in PosRequests, NEW n \in 1..MaxQuantity, AddItems(h, n) PROVE TillInv'
   BY <1>7, AddItemsKept
 <1>8. ASSUME NEW h \in PosRequests, NEW o \in PosOrders, NEW good \in BOOLEAN, BeginPayment(h, o, good)
       PROVE  TillInv'
   BY <1>8, BeginPaymentKept
 <1>9. ASSUME NEW h \in PosRequests, RefusePayment(h) \/ ChargePayment(h) \/ SettlePayment(h) PROVE TillInv'
   BY <1>9, RefusePaymentKept, ChargePaymentKept, SettlePaymentKept
 <1>10. ASSUME NEW h \in PosRequests, NEW change \in (-MaxQuantity)..MaxQuantity, ReadStock(h, change)
        PROVE  TillInv'
   BY <1>10, ReadStockKept
 <1>11. ASSUME NEW h \in PosRequests, ChangeStock(h) \/ LogTransaction(h) PROVE TillInv'
   BY <1>11, ChangeStockKept, LogTransactionKept
 <1>12. ASSUME NEW h \in PosRequests, ReadArchive(h) \/ ArchiveItem(h) PROVE TillInv'
   BY <1>12, ReadArchiveKept, ArchiveItemKept
 <1>13. ASSUME NEW h \in PosRequests, CreateFails(h) \/ WriteFails(h) PROVE TillInv'
   BY <1>13, RequestFailsKept
 <1>14. ASSUME NEW h \in PosRequests, LosePosRequest(h) PROVE TillInv' BY <1>14, LosePosRequestKept
 <1>15. ASSUME RestoreItem \/ ToggleProduct PROVE TillInv' BY <1>15, CatalogueKept
 <1>16. ASSUME NEW a \in UnitSizes, UpdateProduct(a) PROVE TillInv' BY <1>16, UnitsKept
 <1>17. ASSUME NEW a \in UnitSizes, NEW b \in UnitSizes, UpdateItem(a, b) PROVE TillInv' BY <1>17, UnitsKept
 <1> QED BY <1>1, <1>2, <1>3, <1>4, <1>5, <1>6, <1>7, <1>8, <1>9, <1>10, <1>11, <1>12, <1>13, <1>14, <1>15,
       <1>16, <1>17
    DEF PosNext

LEMMA TillInvSays == TillInv => TillIsSound
 <1> SUFFICES ASSUME TillInv PROVE TillIsSound OBVIOUS
 <1>1. ASSUME NEW o \in PosOrders, Plain(o) PROVE OrderFits(o) /\ o \notin posCrossed \cup posLost /\ Settled(o)
   BY <1>1 DEF TillInv, Plain
 <1>2. HandedOverIsPaid BY <1>1 DEF HandedOverIsPaid, OrderFits
 <1>3. TakingsReconcile BY <1>1 DEF TakingsReconcile, OrderFits, Refunded
 <1>4. StockReconciles BY <1>1 DEF StockReconciles, OrderFits, Held
 <1> QED BY <1>2, <1>3, <1>4 DEF TillInv, TillTyped, TillIsSound

(* The till agrees with itself whatever sales, payments, voids, add-ons,
   damages and retries cross, for any number of requests in progress: money
   with the orders, units with what was sold, the shelf with its log, keys
   with orders.  Only an order written by a request whose read no longer held,
   or whose payment died, may stand apart, and the model names it. *)
THEOREM TillSound == PosSpec => []TillIsSound
 <1>1. PosInit => TillInv BY TillInvInit
 <1>2. TillInv /\ [PosNext]_posVars => TillInv' BY TillInvNext
 <1>3. TillInv => TillIsSound BY TillInvSays
 <1> QED BY <1>1, <1>2, <1>3, PTL DEF PosSpec

-----------------------------------------------------------------------------
(* The composition. *)
(* A step of the front office is a step of the component in focus, and leaves
   the variables of every other one alone. *)
LEMMA OneComponentMoves ==
  ASSUME [Next]_composedVars
  PROVE  /\ [PosNext]_posVars
         /\ [RatingNext]_ratingVars
         /\ [ChatNext]_chatVars
         /\ [FeedNext]_feedVars
         /\ [BcNext]_bcVars
         /\ [DeskNext]_deskVars
         /\ [CmNext]_cmVars
 <1>1. CASE PosMoves BY <1>1 DEF PosMoves
 <1>2. CASE RatingMoves BY <1>2 DEF RatingMoves
 <1>3. CASE ChatMoves BY <1>3 DEF ChatMoves
 <1>4. CASE FeedMoves BY <1>4 DEF FeedMoves
 <1>5. CASE BcMoves BY <1>5 DEF BcMoves
 <1>6. CASE DeskMoves BY <1>6 DEF DeskMoves
 <1>7. CASE CmMoves BY <1>7 DEF CmMoves
 <1>8. CASE UNCHANGED composedVars BY <1>8 DEF composedVars
 <1> QED BY <1>1, <1>2, <1>3, <1>4, <1>5, <1>6, <1>7, <1>8 DEF Next

(* FrontOffice.tla composes its components without changing any: each behaves
   in it as its own specification allows, so that what is proved of one is
   proved of the composition that is model-checked. *)
THEOREM FrontOfficeRunsItsComponents ==
  Spec => PosSpec /\ RatingSpec /\ ChatSpec /\ FeedSpec /\ BcSpec /\ DeskSpec /\ CmSpec
 <1>1. Init => PosInit /\ RatingInit /\ ChatInit /\ FeedInit /\ BcInit /\ DeskInit /\ CmInit
   BY DEF Init
 <1> QED BY <1>1, OneComponentMoves, PTL
         DEF Spec, PosSpec, RatingSpec, ChatSpec, FeedSpec, BcSpec, DeskSpec, CmSpec

(* The properties above, of the composition. *)
THEOREM FrontOfficeSound ==
  Spec => /\ []TillIsSound /\ []RatingsAreSound
          /\ TicketsAreSound /\ ChatIsSound /\ MessagesAreSound /\ ShowingsAreSound
 <1> QED BY FrontOfficeRunsItsComponents, TillSound, RatingsSound, TicketsSound, ChatSound,
            MessagesSound, ShowingsSound, PTL

=============================================================================
