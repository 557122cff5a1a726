------------------------- MODULE CampaignShowings -------------------------
(* Campaigns shown to one account when its app asks: the rows that record
   a showing are the frequency rule (campaigns.service tryRecordImpression
   and the unique index on campaign, account and period).  Two requests of
   the account, edits of the campaigns, and the database's own expiry of
   old rows interleave.  One tick is a part of the floor of half an hour. *)
EXTENDS Integers, FiniteSets

CONSTANTS
  CmCampaigns, CmImportance,  \* campaign -> its rank by priority, then by date of creation
  CmFirstCampaigns,           \* what the campaigns may be at first
  CmInputs,                   \* partial updates: field -> value
  CmRequests,                 \* requests in progress
  CmSessions, CmNoSession,    \* session ids a client may send
  CmFloor, CmDay, CmWeek, CmRetention,   \* in ticks
  CmLongestRequest,           \* ticks within which a request is answered
  CmLastTick, CmMostCalls     \* bounds

Frequencies == {"ONCE_EVER", "DAILY", "WEEKLY", "EVERY_LOGIN", "EVERY_APP_OPEN"}
ActionTypes == {"NONE", "PROMO", "DEEP_LINK"}
CmFields == {"on", "aimed", "from", "until", "often", "action", "promo", "link"}

Coherent(action, promo, link) == (action = "PROMO" => promo) /\ (action = "DEEP_LINK" => link)

\* What the schema and the input class admit of the fields that a document or an edit has.
FieldsFit(fields) ==
  /\ DOMAIN fields \subseteq CmFields
  /\ "often" \in DOMAIN fields => fields["often"] \in Frequencies
  /\ "action" \in DOMAIN fields => fields["action"] \in ActionTypes
  /\ \A f \in DOMAIN fields \cap {"promo", "link"} : fields[f] \in BOOLEAN

ASSUME CmTimesAssumption ==
  /\ {CmFloor, CmDay, CmWeek, CmRetention, CmLongestRequest, CmLastTick, CmMostCalls} \subseteq Nat
  /\ 0 < CmFloor /\ CmFloor <= CmDay /\ CmDay < CmWeek
  /\ CmRetention >= CmWeek + CmLongestRequest

ASSUME CmCampaignsAssumption ==
  /\ IsFiniteSet(CmCampaigns) /\ CmImportance \in [CmCampaigns -> Int]
  /\ \A f \in CmFirstCampaigns :
       /\ f = [c \in CmCampaigns |-> f[c]]
       /\ \A c \in CmCampaigns :
            /\ DOMAIN f[c] = CmFields /\ FieldsFit(f[c])
            /\ Coherent(f[c].action, f[c].promo, f[c].link)
  /\ \A input \in CmInputs : FieldsFit(input)

VARIABLES
  cmNow,
  cmCampaign,   \* campaign -> its document
  cmRows,       \* impressions
  cmpc, cmList, cmOften, cmAt, cmSession, cmEdit,   \* the requests
  cmCalls,
  cmSeen, cmTwice,       \* history: windows shown in; shown in again
  cmLast, cmCheckedPast, \* history: last showing; requests overtaken since the floor was checked
  cmTooSoon,             \* history: showings within the floor that no crossing explains
  cmExcused              \* history: campaigns edited across an edit, or with an explicit null

cmVars == <<cmNow, cmCampaign, cmRows, cmpc, cmList, cmOften, cmAt, cmSession, cmEdit, cmCalls,
            cmSeen, cmTwice, cmLast, cmCheckedPast, cmTooSoon, cmExcused>>

CmInit ==
  /\ cmNow = 0 /\ cmCampaign \in CmFirstCampaigns /\ cmRows = {}
  /\ cmpc = [h \in CmRequests |-> "idle"] /\ cmList = [h \in CmRequests |-> {}]
  /\ cmOften = [h \in CmRequests |-> <<>>] /\ cmAt = [h \in CmRequests |-> 0]
  /\ cmSession = [h \in CmRequests |-> CmNoSession] /\ cmEdit = [h \in CmRequests |-> <<>>]
  /\ cmCalls = 0 /\ cmSeen = {} /\ cmTwice = {} /\ cmLast = [c \in CmCampaigns |-> -1]
  /\ cmCheckedPast = {} /\ cmTooSoon = {} /\ cmExcused = {}

-----------------------------------------------------------------------------
(* What is due *)

\* periodKeyFor: the window of a showing; none for a login without a session.
PeriodKey(often, at, session) ==
  CASE often = "ONCE_EVER"      -> {<<"lifetime", 0>>}
    [] often = "DAILY"          -> {<<"day", at \div CmDay>>}
    [] often = "WEEKLY"         -> {<<"week", at \div CmWeek>>}
    [] often = "EVERY_LOGIN"    -> {<<"login", session>>} \ {<<"login", CmNoSession>>}
    [] often = "EVERY_APP_OPEN" -> {<<"open", at \div CmFloor>>}

\* impressionExpiryFor
ImpressionExpiry(often, at) == IF often = "ONCE_EVER" THEN {} ELSE {at + CmRetention}

\* The filter of nextFor.
Eligible(c) ==
  /\ cmCampaign[c].on /\ cmCampaign[c].aimed
  /\ cmCampaign[c].from <= cmNow
  /\ \A end \in cmCampaign[c].until : end > cmNow

\* Mutant: the bucket of the period key is trusted with the floor.
NeverWithinFloor(c, at) == FALSE
\* shownWithinFloor
ShownWithinFloor(c, at) == \E r \in cmRows : r.campaign = c /\ r.at >= at - CmFloor

\* sort({ priority: -1, createdAt: -1 }), which the rank stands for
MostImportant(cs) == CHOOSE c \in cs : \A d \in cs : CmImportance[d] <= CmImportance[c]

-----------------------------------------------------------------------------
(* Requests *)

Answered(h) == /\ cmpc' = [cmpc EXCEPT ![h] = "idle"] /\ cmList' = [cmList EXCEPT ![h] = {}]
               /\ cmOften' = [cmOften EXCEPT ![h] = <<>>] /\ cmAt' = [cmAt EXCEPT ![h] = 0]
               /\ cmSession' = [cmSession EXCEPT ![h] = CmNoSession]
               /\ cmCheckedPast' = cmCheckedPast \ {h}

NotThisOne(h) ==
  LET rest == cmList[h] \ {MostImportant(cmList[h])} IN
  IF rest = {} THEN Answered(h)
  ELSE /\ cmpc' = [cmpc EXCEPT ![h] = "ask"] /\ cmList' = [cmList EXCEPT ![h] = rest]
       /\ cmCheckedPast' = cmCheckedPast \ {h}
       /\ UNCHANGED <<cmOften, cmAt, cmSession>>

Called == cmCalls < CmMostCalls /\ cmCalls' = cmCalls + 1

NextFor(h, session) ==
  LET eligible == {c \in CmCampaigns : Eligible(c)} IN
  /\ cmpc[h] = "idle" /\ eligible # {} /\ Called
  /\ cmpc' = [cmpc EXCEPT ![h] = "ask"] /\ cmList' = [cmList EXCEPT ![h] = eligible]
  /\ cmOften' = [cmOften EXCEPT ![h] = [c \in eligible |-> cmCampaign[c].often]]
  /\ cmAt' = [cmAt EXCEPT ![h] = cmNow] /\ cmSession' = [cmSession EXCEPT ![h] = session]
  /\ UNCHANGED <<cmNow, cmCampaign, cmRows, cmEdit, cmSeen, cmTwice, cmLast, cmCheckedPast, cmTooSoon, cmExcused>>

\* The key and the floor, before the insert.
AskFloor(h) ==
  LET c == MostImportant(cmList[h])
      often == cmOften[h][c]
  IN
  /\ cmpc[h] = "ask"
  /\ IF \/ PeriodKey(often, cmAt[h], cmSession[h]) = {}
        \/ often = "EVERY_APP_OPEN" /\ ShownWithinFloor(c, cmAt[h])
     THEN NotThisOne(h)
     ELSE /\ cmpc' = [cmpc EXCEPT ![h] = "insert"]
          /\ UNCHANGED <<cmList, cmOften, cmAt, cmSession, cmCheckedPast>>
  /\ UNCHANGED <<cmNow, cmCampaign, cmRows, cmEdit, cmCalls, cmSeen, cmTwice, cmLast, cmTooSoon, cmExcused>>

\* The insert is the check: a duplicate key means that the window is used.
RecordImpression(h) ==
  LET c == MostImportant(cmList[h])
      often == cmOften[h][c]
      key == CHOOSE k \in PeriodKey(often, cmAt[h], cmSession[h]) : TRUE
  IN
  /\ cmpc[h] = "insert"
  /\ IF \E r \in cmRows : r.campaign = c /\ r.period = key
     THEN /\ NotThisOne(h)
          /\ UNCHANGED <<cmRows, cmSeen, cmTwice, cmLast, cmTooSoon>>
     ELSE /\ cmRows' = cmRows \cup {[campaign |-> c, period |-> key, at |-> cmAt[h],
                                     expires |-> ImpressionExpiry(often, cmAt[h]), clicked |-> FALSE]}
          /\ cmSeen' = cmSeen \cup {<<c, key>>}
          /\ cmTwice' = IF <<c, key>> \in cmSeen THEN cmTwice \cup {<<c, key>>} ELSE cmTwice
          /\ cmTooSoon' = IF often = "EVERY_APP_OPEN" /\ cmLast[c] >= cmAt[h] - CmFloor
                             /\ cmLast[c] >= 0 /\ h \notin cmCheckedPast
                          THEN cmTooSoon \cup {c} ELSE cmTooSoon
          /\ cmLast' = [cmLast EXCEPT ![c] = cmAt[h]]
          /\ cmpc' = [cmpc EXCEPT ![h] = "idle"] /\ cmList' = [cmList EXCEPT ![h] = {}]
          /\ cmOften' = [cmOften EXCEPT ![h] = <<>>] /\ cmAt' = [cmAt EXCEPT ![h] = 0]
          /\ cmSession' = [cmSession EXCEPT ![h] = CmNoSession]
          /\ cmCheckedPast' = (cmCheckedPast \cup {g \in CmRequests : cmpc[g] = "insert"}) \ {h}
  /\ UNCHANGED <<cmNow, cmCampaign, cmEdit, cmCalls, cmExcused>>

\* findOneAndUpdate of the newest showing that has no such stamp.
RecordInteraction(c) ==
  LET open == {r \in cmRows : r.campaign = c /\ ~r.clicked} IN
  /\ open # {} /\ Called
  /\ \E r \in open :
       /\ \A s \in open : s.at <= r.at
       /\ cmRows' = (cmRows \ {r}) \cup {[r EXCEPT !.clicked = TRUE]}
  /\ UNCHANGED <<cmNow, cmCampaign, cmpc, cmList, cmOften, cmAt, cmSession, cmEdit,
                 cmSeen, cmTwice, cmLast, cmCheckedPast, cmTooSoon, cmExcused>>

-----------------------------------------------------------------------------
(* Edits *)

\* The ?? of update: an explicit null falls back to what is stored, as an absent field does.
After(input, stored, field) ==
  IF field \in DOMAIN input /\ (field \in {"promo", "link"} => input[field]) THEN input[field] ELSE stored[field]

\* assertActionIsCoherent of the merged fields
EditAllowed(input, stored) ==
  Coherent(After(input, stored, "action"), After(input, stored, "promo"), After(input, stored, "link"))

BeginUpdate(h, c, input) ==
  /\ cmpc[h] = "idle" /\ EditAllowed(input, cmCampaign[c]) /\ Called
  /\ cmpc' = [cmpc EXCEPT ![h] = "edit"] /\ cmList' = [cmList EXCEPT ![h] = {c}]
  /\ cmEdit' = [cmEdit EXCEPT ![h] = input]
  /\ UNCHANGED <<cmNow, cmCampaign, cmRows, cmOften, cmAt, cmSession, cmSeen, cmTwice,
                 cmLast, cmCheckedPast, cmTooSoon, cmExcused>>

\* findByIdAndUpdate(id, { $set: input }): an explicit null is stored.
WriteUpdate(h) ==
  LET c == MostImportant(cmList[h])
      input == cmEdit[h]
  IN
  /\ cmpc[h] = "edit"
  /\ cmCampaign' = [cmCampaign EXCEPT ![c] =
       [f \in DOMAIN cmCampaign[c] |-> IF f \in DOMAIN input THEN input[f] ELSE cmCampaign[c][f]]]
  /\ cmExcused' = IF \/ \E f \in DOMAIN input \cap {"promo", "link"} : ~input[f]
                     \/ \E g \in CmRequests \ {h} : cmpc[g] = "edit" /\ cmList[g] = {c}
                  THEN cmExcused \cup {c} ELSE cmExcused
  /\ cmpc' = [cmpc EXCEPT ![h] = "idle"] /\ cmList' = [cmList EXCEPT ![h] = {}]
  /\ cmEdit' = [cmEdit EXCEPT ![h] = <<>>]
  /\ UNCHANGED <<cmNow, cmRows, cmOften, cmAt, cmSession, cmCalls, cmSeen, cmTwice,
                 cmLast, cmCheckedPast, cmTooSoon>>

\* The TTL monitor: rows with an expiry that has passed.
SweepImpressions ==
  /\ \E r \in cmRows : \E e \in r.expires : e <= cmNow
  /\ cmRows' = {r \in cmRows : \A e \in r.expires : e > cmNow}
  /\ UNCHANGED <<cmNow, cmCampaign, cmpc, cmList, cmOften, cmAt, cmSession, cmEdit, cmCalls,
                 cmSeen, cmTwice, cmLast, cmCheckedPast, cmTooSoon, cmExcused>>

\* A request does not outlive its time limit, and so no window.
CmTick ==
  /\ \A h \in CmRequests : cmpc[h] \in {"ask", "insert"} => cmNow < cmAt[h] + CmLongestRequest
  /\ cmNow < CmLastTick /\ cmNow' = cmNow + 1
  /\ UNCHANGED <<cmCampaign, cmRows, cmpc, cmList, cmOften, cmAt, cmSession, cmEdit, cmCalls,
                 cmSeen, cmTwice, cmLast, cmCheckedPast, cmTooSoon, cmExcused>>

CmNext ==
  \/ \E h \in CmRequests :
       \/ \E s \in CmSessions \cup {CmNoSession} : NextFor(h, s)
       \/ AskFloor(h) \/ RecordImpression(h)
       \/ \E c \in CmCampaigns, input \in CmInputs : BeginUpdate(h, c, input)
       \/ WriteUpdate(h)
  \/ \E c \in CmCampaigns : RecordInteraction(c)
  \/ SweepImpressions \/ CmTick

CmSpec == CmInit /\ [][CmNext]_cmVars

-----------------------------------------------------------------------------
(* Properties *)

CmTypeOK ==
  /\ cmNow \in 0..CmLastTick /\ cmCalls \in 0..CmMostCalls
  /\ \A c \in CmCampaigns : cmCampaign[c].often \in Frequencies /\ cmCampaign[c].action \in ActionTypes
  /\ \A r \in cmRows : r.campaign \in CmCampaigns /\ r.at \in 0..CmLastTick /\ r.clicked \in BOOLEAN
  /\ cmpc \in [CmRequests -> {"idle", "ask", "insert", "edit"}]
  /\ cmList \in [CmRequests -> SUBSET CmCampaigns]

\* A campaign is shown once in a day, a week or a lifetime, whichever requests cross and
\* whatever the database has swept since (impressionExpiryFor keeps the lifetime rows).
OneShowingPerWindow == \A s \in cmTwice : s[2][1] = "login"

\* Two openings of the app show one campaign only after the floor has passed, on either side
\* of a bucket too, unless one request asked before the other's row (shownWithinFloor).
OpeningsKeepTheFloor == cmTooSoon = {}

\* A campaign that was due to a request and is not shown to it: it lacks a session, is within
\* the floor, or has had its window.
PassedOver(h, c) ==
  LET often == cmOften[h][c]
      keys == PeriodKey(often, cmAt[h], cmSession[h])
  IN
  \/ keys = {}
  \/ often = "EVERY_APP_OPEN" /\ ShownWithinFloor(c, cmAt[h])
  \/ \E key \in keys : <<c, key>> \in cmSeen

\* What is shown is the most important of what was due when the app asked: all above it were
\* rightly passed over, on the rows that are still there when it is shown (nextFor).
MostImportantFirst ==
  \A h \in CmRequests : \A r \in cmRows' \ cmRows :
    (cmpc[h] = "insert" /\ cmpc'[h] = "idle") =>
      \A c \in DOMAIN cmOften[h] :
        CmImportance[c] > CmImportance[r.campaign] => PassedOver(h, c)

\* A campaign's button has what it acts on, over any order of partial updates, unless two of
\* them crossed or one carried an explicit null (assertActionIsCoherent).
ButtonsLeadSomewhere ==
  \A c \in CmCampaigns \ cmExcused :
    Coherent(cmCampaign[c].action, cmCampaign[c].promo, cmCampaign[c].link)

(* Two opens of the app at once get one showing per window and keep the floor
   between showings, its button leads somewhere, and what is shown is the most
   important of what is due. *)
ShowingsAreSound ==
  [][cmVars' # cmVars =>
       /\ (CmTypeOK /\ OneShowingPerWindow /\ OpeningsKeepTheFloor /\ ButtonsLeadSomewhere)'
       /\ MostImportantFirst]_cmVars

=============================================================================
