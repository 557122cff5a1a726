---------------------------- MODULE Marketplace ----------------------------
(* What a customer is shown of a provider, and what she may then book: the
   cards of discovery against the eligibility check of quote, create and
   accept, while the provider, the back office and the wallet change
   everything both of them read.  One provider, one customer, one booking;
   the other providers are the number of cards that sort before hers. *)
EXTENDS Integers, FiniteSets

CONSTANTS MkDistances,  \* how far the customer may be, in hundredths of a km
          MkRadii,      \* service radii, in km, within the platform's ceiling
          MkCeiling,    \* safetyLimits.maxServiceRadiusKm
          MkPreferences,\* circles a customer may ask for, in km; the app's default is 15
          MkAny,        \* radiusKm: null, the customer's "Any"
          MkAhead,      \* how many other cards of an answer may sort before hers
          MkLimit,      \* how many cards an answer holds, 30 unless asked otherwise
          MkCaps,       \* daily order caps the back office may set
          MkMostUsed,   \* bound: orders accepted in the day
          MkMostSteps   \* bound: changes and calls

\* Distances, radii and caps are whole numbers.
ASSUME MkNumbersFit ==
  /\ MkDistances \subseteq Nat /\ MkRadii \subseteq Nat /\ MkCaps \subseteq Nat
  /\ MkMostUsed \in Nat /\ MkMostSteps \in Nat
  /\ MkPreferences \subseteq Nat /\ MkAhead \subseteq Nat /\ MkLimit \in Nat

VARIABLES mkKind,       \* "washer" or "laundry"
          mkDistance,   \* the customer's distance from the pin
          mkStatus,     \* WasherProfile.status
          mkAvailable,  \* WasherProfile.isAvailable
          mkTap,        \* what an unfinished tap of the switch will write
          mkArea,       \* serviceRadiusKm with the pin; 0 while either is missing
          mkBranch,     \* Branch.isActive, isOnline
          mkItem,       \* the one service: offered online, still in the catalogue
          mkWallet,     \* activated, and how it stands to the accept minimum
          mkBooking,    \* acceptScheduledBookings, bookingsPaused, bookingsEnabled
          mkConfig,     \* a BookingAvailabilityConfig is stored; until then mkBooking is its defaults
          mkCap,        \* WasherProfile.maxOrdersPerDay, 0 for none
          mkUsed,       \* orders accepted today
          mkOrder,      \* the customer's booking
          mkSteps

mkVars == <<mkKind, mkDistance, mkStatus, mkAvailable, mkTap, mkArea, mkBranch, mkItem, mkWallet,
            mkBooking, mkConfig, mkCap, mkUsed, mkOrder, mkSteps>>

-----------------------------------------------------------------------------
(* Eligibility: the three doors of a booking *)

WalletReady == mkWallet = "funded"

AreaAsked(stage) == TRUE
AreaRequired(stage) == stage # "accept"
AreaConfigured(stage) == AreaRequired(stage) => mkArea # 0

\* Only create knows an address.
WithinRadius(stage) == (stage = "create" /\ mkArea # 0) => mkDistance <= 100 * mkArea

WasherBookable(stage) ==
  /\ mkStatus = "ACTIVE"
  /\ stage # "accept" => mkAvailable
  /\ stage # "accept" => ~mkBooking.paused
  /\ AreaConfigured(stage)
  /\ WithinRadius(stage)

LaundryBookable == mkBranch.active /\ mkBranch.online

ProviderBookable(stage) ==
  /\ IF mkKind = "washer" THEN WasherBookable(stage) ELSE LaundryBookable
  /\ WalletReady

\* The settings dayUnavailableReason looks at before any date.
DaysOpen == mkBooking.enabled /\ mkBooking.scheduled /\ ~mkBooking.paused

Catalog == mkItem.offered /\ mkItem.live

CanQuote == ProviderBookable("quote") /\ Catalog
CanCreate == ProviderBookable("create") /\ Catalog /\ DaysOpen
CanAccept == ProviderBookable("accept") /\ (mkKind = "washer" /\ mkCap # 0 => mkUsed < mkCap)

-----------------------------------------------------------------------------
(* Discovery *)

\* An answer to discoverProviders: whether the customer gave a place, the circle she asked for,
\* and how many cards of the answer come before this provider's, nearest or best rated first.
CardAnswers == [placed : BOOLEAN, radius : MkPreferences \cup {MkAny}, ahead : MkAhead]

\* distance(): rounded to a tenth of a km.
ShownDistance == ((mkDistance + 5) \div 10) * 10

SlotsRemaining == IF mkCap > mkUsed THEN mkCap - mkUsed ELSE 0

\* "no config yet => platform defaults, not paused": the policy is then not asked either.
WasherAccepting == mkAvailable /\ (mkCap # 0 => SlotsRemaining > 0) /\ (mkConfig => DaysOpen)

WasherCard == [accepting |-> WasherAccepting, sells |-> Catalog,
               distance |-> ShownDistance, radius |-> 100 * mkArea]
MerchantCard == [accepting |-> LaundryBookable, sells |-> Catalog,
                 distance |-> ShownDistance, radius |-> ShownDistance]  \* a laundry has no radius
Card == IF mkKind = "washer" THEN WasherCard ELSE MerchantCard

\* What the provider serves, and what the customer prefers; neither is known without a place.
PassesFilters(c, a) ==
  a.placed => /\ c.distance <= c.radius
              /\ a.radius # MkAny => c.distance <= 100 * a.radius

Found == IF mkKind = "washer" THEN mkStatus = "ACTIVE" /\ mkArea # 0 ELSE LaundryBookable

Listed(a) == Found /\ WalletReady /\ Card.sells /\ PassesFilters(Card, a) /\ a.ahead < MkLimit

-----------------------------------------------------------------------------
(* Changes *)

MkTypeOK ==
  /\ mkKind \in {"washer", "laundry"} /\ mkDistance \in MkDistances
  /\ mkStatus \in {"ACTIVE", "SUSPENDED"}
  /\ mkAvailable \in BOOLEAN /\ mkTap \in {{}, {TRUE}, {FALSE}}
  /\ mkArea \in MkRadii \cup {0}
  /\ mkBranch \in [active : BOOLEAN, online : BOOLEAN]
  /\ mkItem \in [offered : BOOLEAN, live : BOOLEAN]
  /\ mkWallet \in {"none", "inactive", "low", "funded"}
  /\ mkBooking \in [scheduled : BOOLEAN, paused : BOOLEAN, enabled : BOOLEAN]
  /\ mkConfig \in BOOLEAN
  /\ mkCap \in MkCaps \cup {0} /\ mkUsed \in 0..MkMostUsed
  /\ mkOrder \in {"none", "pending", "accepted"}
  /\ mkSteps \in 0..MkMostSteps

MkInit ==
  /\ mkKind \in {"washer", "laundry"} /\ mkDistance \in MkDistances
  /\ mkStatus = "ACTIVE" /\ mkAvailable = TRUE /\ mkTap = {}
  /\ mkArea = 0
  /\ mkBranch = [active |-> TRUE, online |-> TRUE]
  /\ mkItem = [offered |-> FALSE, live |-> TRUE]
  /\ mkWallet = "none"
  /\ mkBooking = [scheduled |-> TRUE, paused |-> FALSE, enabled |-> TRUE]
  /\ mkConfig = FALSE /\ mkCap = 0 /\ mkUsed = 0
  /\ mkOrder = "none" /\ mkSteps = 0

Step == mkSteps < MkMostSteps /\ mkSteps' = mkSteps + 1

\* The tap reads the switch first and writes its opposite later.
TapAvailability ==
  /\ mkKind = "washer" /\ mkTap = {} /\ Step
  /\ mkTap' = {~mkAvailable}
  /\ UNCHANGED <<mkKind, mkDistance, mkStatus, mkAvailable, mkArea, mkBranch, mkItem, mkWallet,
                 mkBooking, mkConfig, mkCap, mkUsed, mkOrder>>

ToggleAvailability ==
  /\ mkTap # {}
  /\ mkAvailable' \in mkTap /\ mkTap' = {}
  /\ UNCHANGED <<mkKind, mkDistance, mkStatus, mkArea, mkBranch, mkItem, mkWallet, mkBooking,
                 mkConfig, mkCap, mkUsed, mkOrder, mkSteps>>

SetStatus ==
  /\ mkKind = "washer" /\ Step
  /\ mkStatus' = IF mkStatus = "ACTIVE" THEN "SUSPENDED" ELSE "ACTIVE"
  /\ UNCHANGED <<mkKind, mkDistance, mkAvailable, mkTap, mkArea, mkBranch, mkItem, mkWallet,
                 mkBooking, mkConfig, mkCap, mkUsed, mkOrder>>

\* updateProfile: the service area, and which active templates she offers.
UpdateProfile ==
  \E a \in MkRadii \cup {0}, offered \in BOOLEAN :
    /\ mkKind = "washer" /\ Step
    /\ a <= MkCeiling
    /\ offered => (mkItem.live \/ mkItem.offered)
    /\ mkArea' = a
    /\ mkItem' = [mkItem EXCEPT !.offered = offered /\ mkItem.live]
    /\ UNCHANGED <<mkKind, mkDistance, mkStatus, mkAvailable, mkTap, mkBranch, mkWallet, mkBooking,
                   mkConfig, mkCap, mkUsed, mkOrder>>

SetOrderCap ==
  \E c \in MkCaps \cup {0} :
    /\ mkKind = "washer" /\ c # mkCap /\ Step
    /\ mkCap' = c
    /\ UNCHANGED <<mkKind, mkDistance, mkStatus, mkAvailable, mkTap, mkArea, mkBranch, mkItem,
                   mkWallet, mkBooking, mkConfig, mkUsed, mkOrder>>

SetBranch(b) ==
  /\ Step
  /\ mkBranch' = b
  /\ UNCHANGED <<mkKind, mkDistance, mkStatus, mkAvailable, mkTap, mkArea, mkItem, mkWallet,
                 mkBooking, mkConfig, mkCap, mkUsed, mkOrder>>

SetOnline == mkKind = "laundry" /\ SetBranch([mkBranch EXCEPT !.online = ~@])
ArchiveBranch == mkKind = "laundry" /\ mkBranch.active /\ SetBranch([mkBranch EXCEPT !.active = FALSE])
RestoreBranch == mkKind = "laundry" /\ ~mkBranch.active /\ SetBranch([mkBranch EXCEPT !.active = TRUE])

SetItem(i) ==
  /\ Step
  /\ mkItem' = i
  /\ UNCHANGED <<mkKind, mkDistance, mkStatus, mkAvailable, mkTap, mkArea, mkBranch, mkWallet,
                 mkBooking, mkConfig, mkCap, mkUsed, mkOrder>>

\* A laundry's service: put online or off, archived, restored.
UpdateService == mkKind = "laundry" /\ SetItem([mkItem EXCEPT !.offered = ~@])
ArchiveService == mkKind = "laundry" /\ mkItem.live /\ SetItem([mkItem EXCEPT !.live = FALSE])
RestoreService == mkKind = "laundry" /\ ~mkItem.live /\ SetItem([mkItem EXCEPT !.live = TRUE])

\* The back office takes a washers' template out of the catalogue, or puts it back.
ArchiveTemplate == mkKind = "washer" /\ SetItem([mkItem EXCEPT !.live = ~@])

SetBooking(b, stored) ==
  /\ b # mkBooking /\ Step
  /\ mkBooking' = b /\ mkConfig' = stored
  /\ UNCHANGED <<mkKind, mkDistance, mkStatus, mkAvailable, mkTap, mkArea, mkBranch, mkItem,
                 mkWallet, mkCap, mkUsed, mkOrder>>

\* The provider's own pause and the back office's setting store a config with what they change;
\* the platform's policy is stored elsewhere.
PauseBookings == SetBooking([mkBooking EXCEPT !.paused = ~@], TRUE)
SetScheduled == SetBooking([mkBooking EXCEPT !.scheduled = ~@], TRUE)
SetEnabled == SetBooking([mkBooking EXCEPT !.enabled = ~@], mkConfig)

\* Whoever opens the calendar, or tries to book, stores the defaults when there is no config.
OpenCalendar ==
  /\ ~mkConfig /\ Step
  /\ mkConfig' = TRUE
  /\ UNCHANGED <<mkKind, mkDistance, mkStatus, mkAvailable, mkTap, mkArea, mkBranch, mkItem,
                 mkWallet, mkBooking, mkCap, mkUsed, mkOrder>>

MoveWallet ==
  \E w \in {"inactive", "low", "funded"} :
    /\ w # mkWallet /\ Step
    /\ mkWallet \in {"low", "funded"} => w # "inactive"
    /\ mkWallet' = w
    /\ UNCHANGED <<mkKind, mkDistance, mkStatus, mkAvailable, mkTap, mkArea, mkBranch, mkItem,
                   mkBooking, mkConfig, mkCap, mkUsed, mkOrder>>

Place ==
  /\ mkOrder = "none" /\ CanCreate /\ Step
  /\ mkOrder' = "pending" /\ mkConfig' = TRUE
  /\ UNCHANGED <<mkKind, mkDistance, mkStatus, mkAvailable, mkTap, mkArea, mkBranch, mkItem,
                 mkWallet, mkBooking, mkCap, mkUsed>>

Accept ==
  /\ mkOrder = "pending" /\ CanAccept /\ mkUsed < MkMostUsed /\ Step
  /\ mkOrder' = "accepted" /\ mkUsed' = mkUsed + 1
  /\ UNCHANGED <<mkKind, mkDistance, mkStatus, mkAvailable, mkTap, mkArea, mkBranch, mkItem,
                 mkWallet, mkBooking, mkConfig, mkCap>>

\* Another customer's order is accepted.
AcceptOther ==
  /\ CanAccept /\ mkUsed < MkMostUsed /\ Step
  /\ mkUsed' = mkUsed + 1
  /\ UNCHANGED <<mkKind, mkDistance, mkStatus, mkAvailable, mkTap, mkArea, mkBranch, mkItem,
                 mkWallet, mkBooking, mkConfig, mkCap, mkOrder>>

MkNext ==
  \/ TapAvailability \/ ToggleAvailability \/ SetStatus \/ UpdateProfile \/ SetOrderCap
  \/ SetOnline \/ ArchiveBranch \/ RestoreBranch
  \/ UpdateService \/ ArchiveService \/ RestoreService \/ ArchiveTemplate
  \/ PauseBookings \/ SetScheduled \/ SetEnabled \/ OpenCalendar \/ MoveWallet
  \/ Place \/ Accept \/ AcceptOther

MkSpec == MkInit /\ [][MkNext]_mkVars

-----------------------------------------------------------------------------
(* Properties *)

\* A card that says it takes bookings is one the customer can book, whatever was switched in
\* between.  Four gaps are the code's own: the card rounds the distance to a tenth of a km; an
\* answer without a place has no distance to hold against the radius; a laundry's card looks at
\* the branch alone, not at its pause; and a washer whose calendar nobody has opened yet is shown
\* as accepting while the platform takes no bookings (discovery washerAcceptingBookings and
\* passesFilters against provider-eligibility and assertDayBookable).
ShownIsBookable ==
  \A a \in CardAnswers :
    (Listed(a) /\ Card.accepting) =>
      \/ CanCreate
      \/ mkKind = "washer" /\ mkDistance > 100 * mkArea /\ (a.placed => ShownDistance <= 100 * mkArea)
      \/ mkKind = "laundry" /\ ~DaysOpen
      \/ mkKind = "washer" /\ ~mkConfig /\ ~mkBooking.enabled

\* Somebody who can be booked is missing from an answer only when the customer asked for a
\* smaller circle, or was given the app's 15 km, or when a page of others comes before her; a
\* customer who asks for any distance is never refused a provider who serves her address.
BookableIsShown ==
  \A a \in CardAnswers :
    CanCreate =>
      \/ Listed(a)
      \/ a.placed /\ a.radius # MkAny /\ ShownDistance > 100 * a.radius
      \/ a.ahead >= MkLimit

\* What a quote promised stands at create, but for the address and the settings of the days,
\* of which the quote knows a washer's pause alone.
QuoteHoldsAtCreate ==
  CanQuote =>
    \/ CanCreate
    \/ mkKind = "washer" /\ mkDistance > 100 * mkArea
    \/ ~DaysOpen /\ (mkKind = "laundry" \/ ~mkBooking.paused)

\* "Re-checking here would strand a live order": a washer who still works on the platform can
\* accept what was booked, whatever she did to her switches and her service area since
\* (provider-eligibility assertServiceAreaConfigured).
SettingsStrandNothing ==
  (mkOrder = "pending" /\ mkKind = "washer" /\ mkStatus = "ACTIVE" /\ WalletReady
     /\ (mkCap # 0 => mkUsed < mkCap)) => CanAccept

(* What discovery shows, what createOrder demands and what acceptOrder demands
   are three pieces of code over one set of switches, wallet, cap and area:
   they agree. *)
ShownAndBookableAgree ==
  /\ MkTypeOK
  /\ ShownIsBookable
  /\ BookableIsShown
  /\ QuoteHoldsAtCreate
  /\ SettingsStrandNothing

=============================================================================
