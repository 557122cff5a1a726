---------- MODULE FrontOffice ----------
(* What people meet: the counter and its stock, ratings, chat on an order, the feed
   of notifications, broadcasts, campaigns, and support tickets.  Each component reads the
   others' only through values that its own module lets change freely, so the
   product has no behaviour that a component alone lacks: `focus` names the one
   that moves, and the others stand. *)
EXTENDS PointOfSale, Ratings, ChatThreads, NotificationFeed,
  SupportDesk, CampaignShowings

VARIABLE focus   \* the component whose steps are taken

composedVars == <<focus, posVars, ratingVars, chatVars, feedVars, bcVars, deskVars, cmVars>>

(* A component that stands is in one of its initial states. *)
Standing ==
  /\ focus # "counter" =>
       /\ goodsUnits = CHOOSE u \in UnitSizes : TRUE
       /\ serviceUnits = CHOOSE u \in UnitSizes : TRUE
  /\ focus # "chat" => staffOnBranch = {}
  /\ focus # "feed" =>
       /\ \A s \in Staffers : standing[s] = CHOOSE b \in FeedBranches : TRUE
       /\ ownerHolds = {}
  /\ focus # "broadcast" =>
       /\ \A a \in BcAccounts : active[a]
       /\ \A a \in BcAccounts : tokensOf[a] = {}
  /\ focus # "campaigns" => cmCampaign = CHOOSE f \in CmFirstCampaigns : TRUE

Init ==
  /\ focus \in {"counter", "ratings", "chat", "feed", "broadcast", "desk", "campaigns"}
  /\ PosInit
  /\ RatingInit
  /\ ChatInit
  /\ FeedInit
  /\ BcInit
  /\ DeskInit
  /\ CmInit
  /\ Standing

PosMoves ==
  /\ focus = "counter"
  /\ UNCHANGED <<focus, ratingVars, chatVars, feedVars, bcVars, deskVars, cmVars>>
  /\ PosNext

RatingMoves ==
  /\ focus = "ratings"
  /\ UNCHANGED <<focus, posVars, chatVars, feedVars, bcVars, deskVars, cmVars>>
  /\ RatingNext

ChatMoves ==
  /\ focus = "chat"
  /\ UNCHANGED <<focus, posVars, ratingVars, feedVars, bcVars, deskVars, cmVars>>
  /\ ChatNext

FeedMoves ==
  /\ focus = "feed"
  /\ UNCHANGED <<focus, posVars, ratingVars, chatVars, bcVars, deskVars, cmVars>>
  /\ FeedNext

BcMoves ==
  /\ focus = "broadcast"
  /\ UNCHANGED <<focus, posVars, ratingVars, chatVars, feedVars, deskVars, cmVars>>
  /\ BcNext

DeskMoves ==
  /\ focus = "desk"
  /\ UNCHANGED <<focus, posVars, ratingVars, chatVars, feedVars, bcVars, cmVars>>
  /\ DeskNext

CmMoves ==
  /\ focus = "campaigns"
  /\ UNCHANGED <<focus, posVars, ratingVars, chatVars, feedVars, bcVars, deskVars>>
  /\ CmNext

Next ==
  \/ PosMoves
  \/ RatingMoves
  \/ ChatMoves
  \/ FeedMoves
  \/ BcMoves
  \/ DeskMoves
  \/ CmMoves

Spec == Init /\ [][Next]_composedVars

(* What is sent to people: the badge agrees with the feed; a row or a
   broadcast reaches a phone once, and an event that has an id not again while
   its row is kept; who is pushed a row sees it in the feed, but for an owner
   without the permission; what some phones showed is on record; what was read
   stays read; and living phones keep their tokens. *)
MessagesAreSound ==
  [][<<feedVars, bcVars>>' # <<feedVars, bcVars>> =>
       /\ (FeedTypeOK /\ BadgeAgreesWithFeed /\ PushedOncePerEvent /\ PushedMaySee)'
       /\ (BcTypeOK /\ DeliveredIsRecorded /\ ShownOnce /\ UnknownRolesReachNobody)'
       /\ ReadStaysRead
       /\ LivingTokensStay]_<<feedVars, bcVars>>
========================================
