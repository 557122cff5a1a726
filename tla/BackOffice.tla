---------- MODULE BackOffice ----------
(* What the back office and the platform's own scripts do to the people on it:
   verification of providers and couriers, sessions of devices, access rights,
   registration, biometric sign-in, the pages and the search that compose
   other components' records, and the migrations of stored documents. These components share
   no state that is modelled (each reads the others' through a value its own
   module lets change freely), so their product holds no behaviour a component
   alone does not: `focus` names the one that moves, and the others stand. *)
EXTENDS KycReview, DeviceSessions, CourierSelfies, AccessControl,
  Registration, Migrations, BackOfficeViews,
  BiometricLogin

VARIABLE focus   \* the component whose steps are taken

composedVars == <<focus, kycVars, deviceVars, selfieVars, acVars, rgVars, mgVars, emVars, bvVars, bioVars, srVars>>

(* A component that stands is in one of its initial states. *)
Standing ==
  /\ focus # "access" => acRole = CHOOSE k \in AcKinds : TRUE
  /\ focus # "migration" =>
       /\ mgTask = CHOOSE t \in Tasks : TRUE
       /\ \A d \in MgDocs : mgDoc[d] = CHOOSE x \in FoundBy(mgTask) : TRUE
  /\ focus # "evidence" => emPublic = {}
  /\ focus # "views" =>
       bvSince = [i \in DOMAIN BvItems |-> IF i \in CHOOSE first \in BvFirst : TRUE THEN {0} ELSE {}]
  /\ focus # "search" => srStored = CHOOSE rows \in SrFirst : TRUE

Init ==
  /\ focus \in {"kyc", "device", "selfie", "access", "registration", "migration", "evidence", "views", "biometric", "search"}
  /\ KycInit
  /\ DeviceInit
  /\ SelfieInit
  /\ AcInit
  /\ RgInit
  /\ MgInit
  /\ EmInit
  /\ BvInit
  /\ BioInit
  /\ SrInit
  /\ Standing

KycMoves ==
  /\ focus = "kyc"
  /\ UNCHANGED <<focus, deviceVars, selfieVars, acVars, rgVars, mgVars, emVars, bvVars, bioVars, srVars>>
  /\ KycNext

DeviceMoves ==
  /\ focus = "device"
  /\ UNCHANGED <<focus, kycVars, selfieVars, acVars, rgVars, mgVars, emVars, bvVars, bioVars, srVars>>
  /\ DeviceNext

SelfieMoves ==
  /\ focus = "selfie"
  /\ UNCHANGED <<focus, kycVars, deviceVars, acVars, rgVars, mgVars, emVars, bvVars, bioVars, srVars>>
  /\ SelfieNext

AcMoves ==
  /\ focus = "access"
  /\ UNCHANGED <<focus, kycVars, deviceVars, selfieVars, rgVars, mgVars, emVars, bvVars, bioVars, srVars>>
  /\ AcNext

RgMoves ==
  /\ focus = "registration"
  /\ UNCHANGED <<focus, kycVars, deviceVars, selfieVars, acVars, mgVars, emVars, bvVars, bioVars, srVars>>
  /\ RgNext

MgMoves ==
  /\ focus = "migration"
  /\ UNCHANGED <<focus, kycVars, deviceVars, selfieVars, acVars, rgVars, emVars, bvVars, bioVars, srVars>>
  /\ MgNext

EmMoves ==
  /\ focus = "evidence"
  /\ UNCHANGED <<focus, kycVars, deviceVars, selfieVars, acVars, rgVars, mgVars, bvVars, bioVars, srVars>>
  /\ EmNext

BvMoves ==
  /\ focus = "views"
  /\ UNCHANGED <<focus, kycVars, deviceVars, selfieVars, acVars, rgVars, mgVars, emVars, bioVars, srVars>>
  /\ BvNext

BioMoves ==
  /\ focus = "biometric"
  /\ UNCHANGED <<focus, kycVars, deviceVars, selfieVars, acVars, rgVars, mgVars, emVars, bvVars, srVars>>
  /\ BioNext

SrMoves ==
  /\ focus = "search"
  /\ UNCHANGED <<focus, kycVars, deviceVars, selfieVars, acVars, rgVars, mgVars, emVars, bvVars, bioVars>>
  /\ SrNext

Next ==
  \/ KycMoves
  \/ DeviceMoves
  \/ SelfieMoves
  \/ AcMoves
  \/ RgMoves
  \/ MgMoves
  \/ EmMoves
  \/ BvMoves
  \/ BioMoves
  \/ SrMoves

Spec == Init /\ [][Next]_composedVars

(* Run again, or stopped in the middle, a migration leaves every document with
   the meaning the readers of either format find in it, and every proof of a
   courier within her reach. *)
MigrationsKeepMeaning ==
  /\ MgTypeOK
  /\ EmTypeOK
  /\ MigrationKeepsMeaning
  /\ SecondRunMatchesNothing
  /\ EvidenceStaysReachable
  /\ OnlyCurrentIsShown

(* What the operators' pages and search put together from several sources:
   nothing overdue is cut without a word, no variance is shown that was not
   there, a filter never widens a page, no token goes unrecorded, and what is
   identified exactly is found first. *)
PagesAreHonest ==
  /\ BvTypeOK
  /\ SrTypeOK
  /\ LateIsOnThePage
  /\ OldestAreShown
  /\ VariancesAreReal
  /\ NoWayAround
  /\ FilterNeverWidens
  /\ EveryTokenIsOnRecord
  /\ ExactIsFound
  /\ IdentifiersBeforeNames
  /\ CompleteUnlessSaid
========================================
