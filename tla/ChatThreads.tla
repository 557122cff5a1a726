---------------------------- MODULE ChatThreads ----------------------------
(* The conversations of one order: the customer with the provider, and
   with the courier of each leg.

   A conversation keeps two unread counters, one for the customer and one
   for everybody who answers her.  Storing a message and raising a counter
   are two writes; so are clearing a counter and fetching the messages.
   Whether a conversation has ended is derived from the order on every
   request. *)
EXTENDS Integers, FiniteSets

CONSTANTS
  ChatCouriers, ChatStaff, ChatOwner, ChatCustomer, SupportAgent,
  NoCourier, NoThread,
  ChatRequests,
  MaxMessages, MaxChatCalls, MaxLegChanges,  \* bounds
  MaxChatSteps       \* bound: calls and changes of the order together

ASSUME ChatBoundAssumption == MaxMessages \in Nat

VARIABLES
  chStage, chLeg,      \* the order, and its two assignments
  staffOnBranch,       \* staff whose approved device stands at the order's branch
  threads, unread,     \* conversations, and the counters of each
  messages,
  chPc, chUser, chThread, chSaw,   \* a request: step, caller, conversation, what it read
  chatCalls, legChanges,
  readsLost            \* history: <<thread, side>> cleared by a request that never answered

chatOrder == <<chStage, chLeg, staffOnBranch, legChanges>>
chatRequest == <<chPc, chUser, chThread, chSaw>>
chatVars == <<chatOrder, threads, unread, messages, chatRequest, chatCalls, readsLost>>

Legs == {"pickup", "return"}
Sides == {"customer", "provider"}
ProviderThread == [kind |-> "provider", with |-> ChatOwner, leg |-> "none"]
CourierThreads == [kind : {"courier"}, with : ChatCouriers, leg : Legs]
ChatThreadIds == {ProviderThread} \cup CourierThreads
MessageIds == 1..MaxMessages
NoMessage == [thread |-> NoThread, from |-> "none", counted |-> FALSE, seen |-> {}]
ChatUsers == ChatCouriers \cup ChatStaff \cup {ChatOwner, ChatCustomer}

ChatInit ==
  /\ chStage = "accepted" /\ chLeg = [l \in Legs |-> [rider |-> NoCourier, done |-> FALSE]]
  /\ staffOnBranch \in SUBSET ChatStaff
  /\ threads = {} /\ unread = [t \in ChatThreadIds |-> [s \in Sides |-> 0]]
  /\ messages = [i \in MessageIds |-> NoMessage]
  /\ chPc = [h \in ChatRequests |-> "idle"] /\ chUser = [h \in ChatRequests |-> NoCourier]
  /\ chThread = [h \in ChatRequests |-> NoThread] /\ chSaw = [h \in ChatRequests |-> FALSE]
  /\ chatCalls = 0 /\ legChanges = 0 /\ readsLost = {}

-----------------------------------------------------------------------------
(* The order, as far as conversations read it. *)
LegChange ==
  /\ legChanges < MaxLegChanges /\ legChanges + chatCalls < MaxChatSteps
  /\ legChanges' = legChanges + 1
  /\ UNCHANGED <<staffOnBranch, threads, unread, messages, chatRequest, chatCalls, readsLost>>

AssignLeg(l, r) ==
  /\ chStage \in (IF l = "pickup" THEN {"accepted"} ELSE {"at_shop"}) \cup {l}
  /\ chStage' = l /\ chLeg' = [chLeg EXCEPT ![l] = [rider |-> r, done |-> FALSE]]
  /\ LegChange

StartLeg(l) ==
  /\ chStage = l /\ chStage' = IF l = "pickup" THEN "pickup_live" ELSE "return_live"
  /\ UNCHANGED chLeg /\ LegChange

LegLive(l) == chStage = (IF l = "pickup" THEN "pickup_live" ELSE "return_live")

HandOverLeg(l) ==
  /\ LegLive(l)
  /\ chStage' = IF l = "pickup" THEN "at_shop" ELSE "concluded"
  /\ chLeg' = [chLeg EXCEPT ![l].done = TRUE] /\ LegChange

(* A failed attempt: the laundry or the courier goes back, the assignment stays. *)
FailLeg(l) ==
  /\ LegLive(l) /\ chStage' = IF l = "pickup" THEN "accepted" ELSE "at_shop"
  /\ UNCHANGED chLeg /\ LegChange

ChatCancelOrder ==
  /\ chStage = "accepted" /\ chStage' = "concluded" /\ UNCHANGED chLeg /\ LegChange

-----------------------------------------------------------------------------
ChatSide(u) == IF u = ChatCustomer THEN "customer" ELSE "provider"

(* findParticipantConversation: staff take part through their employer, on the
   branch they are working. *)
IsParticipant(t, u, branchSent) ==
  \/ u = ChatCustomer
  \/ u = t.with
  \/ u \in ChatStaff /\ t = ProviderThread /\ u \in staffOnBranch /\ branchSent

(* isCourierLegOver, activeCourierLeg and isCourierThreadLive. *)
CourierLegOver(t) ==
  chStage = "concluded" \/ chLeg[t.leg].rider # t.with \/ chLeg[t.leg].done

(* Mutant: whichever leg the courier is riding keeps all of her threads open. *)
CourierRidesAny(t) == \E l \in Legs : LegLive(l) /\ chLeg[l].rider = t.with

CourierRidesLeg(t) == LegLive(t.leg) /\ chLeg[t.leg].rider = t.with

ThreadEnded(t, u) ==
  IF t.kind = "provider" THEN chStage = "concluded"
  ELSE IF u # t.with THEN CourierLegOver(t) ELSE ~CourierRidesLeg(t)

BeginChat(h, u, t, at) ==
  /\ chPc[h] = "idle" /\ chatCalls < MaxChatCalls /\ legChanges + chatCalls < MaxChatSteps
  /\ chatCalls' = chatCalls + 1
  /\ chPc' = [chPc EXCEPT ![h] = at] /\ chUser' = [chUser EXCEPT ![h] = u]
  /\ chThread' = [chThread EXCEPT ![h] = t]
EndChat(h) ==
  /\ chPc' = [chPc EXCEPT ![h] = "idle"] /\ chUser' = [chUser EXCEPT ![h] = NoCourier]
  /\ chThread' = [chThread EXCEPT ![h] = NoThread] /\ chSaw' = [chSaw EXCEPT ![h] = FALSE]

(* startConversation: the order is read, the thread looked up and, in a later
   step, created; a second insert is refused by the index on customer,
   provider, order and leg. *)
BeginProviderThread(h) ==
  /\ ProviderThread \notin threads
  /\ BeginChat(h, ChatCustomer, ProviderThread, "create")
  /\ UNCHANGED <<chatOrder, threads, unread, messages, chSaw, readsLost>>

(* startCourierConversation: the customer as soon as a courier is assigned,
   the courier while she rides the leg. *)
BeginCourierThread(h, u, t) ==
  /\ chLeg[t.leg].rider = t.with
  /\ u = ChatCustomer \/ (u = t.with /\ CourierRidesLeg(t))
  /\ t \notin threads
  /\ BeginChat(h, u, t, "create")
  /\ UNCHANGED <<chatOrder, threads, unread, messages, chSaw, readsLost>>

CreateThread(h) ==
  /\ chPc[h] = "create" /\ EndChat(h)
  /\ threads' = threads \cup {chThread[h]}
  /\ UNCHANGED <<chatOrder, unread, messages, chatCalls, readsLost>>

(* sendMessage: the caller's branch is not passed on, so no member of staff
   takes part. *)
MaySend(t, u) == IsParticipant(t, u, FALSE) /\ ~ThreadEnded(t, u)

BeginSend(h, u, t) ==
  /\ t \in threads /\ MaySend(t, u)
  /\ BeginChat(h, u, t, "store")
  /\ UNCHANGED <<chatOrder, threads, unread, messages, chSaw, readsLost>>

(* adminSendMessage: no participant, and no end. *)
BeginSupport(h, t) ==
  /\ t \in threads /\ BeginChat(h, SupportAgent, t, "store")
  /\ UNCHANGED <<chatOrder, threads, unread, messages, chSaw, readsLost>>

StoreMessage(h) ==
  /\ chPc[h] = "store" /\ chPc' = [chPc EXCEPT ![h] = "count"]
  /\ \E i \in MessageIds :
       /\ messages[i] = NoMessage /\ \A j \in MessageIds : j < i => messages[j] # NoMessage
       /\ messages' = [messages EXCEPT ![i] =
            [thread |-> chThread[h], counted |-> FALSE, seen |-> {},
             from |-> IF chUser[h] = SupportAgent THEN "support" ELSE ChatSide(chUser[h])]]
  /\ UNCHANGED <<chatOrder, threads, unread, chUser, chThread, chSaw, chatCalls, readsLost>>

(* The unread counter of the other side, or of both for the support agent. *)
Hears(from) == Sides \ {from}
Uncounted(t, u) ==
  {i \in MessageIds : /\ messages[i].thread = t /\ ~messages[i].counted
                      /\ messages[i].from = IF u = SupportAgent THEN "support" ELSE ChatSide(u)}

CountMessage(h) ==
  /\ chPc[h] = "count" /\ EndChat(h)
  /\ \E i \in Uncounted(chThread[h], chUser[h]) :
       /\ messages' = [messages EXCEPT ![i].counted = TRUE]
       /\ unread' = [unread EXCEPT ![chThread[h]] =
            [s \in Sides |-> IF s \in Hears(messages[i].from) THEN @[s] + 1 ELSE @[s]]]
  /\ UNCHANGED <<chatOrder, threads, chatCalls, readsLost>>

(* messages: the counter is cleared if it was read above zero, then the
   messages are fetched. *)
BeginRead(h, u, t) ==
  /\ t \in threads /\ IsParticipant(t, u, TRUE)
  /\ BeginChat(h, u, t, IF unread[t][ChatSide(u)] > 0 THEN "clear" ELSE "fetch")
  /\ UNCHANGED <<chatOrder, threads, unread, messages, chSaw, readsLost>>

ClearUnread(h) ==
  /\ chPc[h] = "clear" /\ chPc' = [chPc EXCEPT ![h] = "fetch"]
  /\ unread' = [unread EXCEPT ![chThread[h]][ChatSide(chUser[h])] = 0]
  /\ chSaw' = [chSaw EXCEPT ![h] = TRUE]
  /\ UNCHANGED <<chatOrder, threads, messages, chUser, chThread, chatCalls, readsLost>>

FetchMessages(h) ==
  /\ chPc[h] = "fetch" /\ EndChat(h)
  /\ messages' = [i \in MessageIds |->
       IF messages[i].thread = chThread[h]
       THEN [messages[i] EXCEPT !.seen = @ \cup {ChatSide(chUser[h])}] ELSE messages[i]]
  /\ UNCHANGED <<chatOrder, threads, unread, chatCalls, readsLost>>

(* The server process is lost, with the request. *)
LoseChatRequest(h) ==
  /\ chPc[h] # "idle" /\ EndChat(h)
  /\ readsLost' = readsLost \cup (IF chSaw[h] THEN {<<chThread[h], ChatSide(chUser[h])>>} ELSE {})
  /\ UNCHANGED <<chatOrder, threads, unread, messages, chatCalls>>

ChatNext ==
  \/ \E l \in Legs : (\E r \in ChatCouriers : AssignLeg(l, r)) \/ StartLeg(l) \/ HandOverLeg(l) \/ FailLeg(l)
  \/ ChatCancelOrder
  \/ \E h \in ChatRequests :
       \/ BeginProviderThread(h)
       \/ \E t \in CourierThreads, u \in ChatUsers : BeginCourierThread(h, u, t)
       \/ \E t \in ChatThreadIds :
            \/ \E u \in ChatUsers : BeginSend(h, u, t) \/ BeginRead(h, u, t)
            \/ BeginSupport(h, t)
       \/ CreateThread(h) \/ StoreMessage(h) \/ CountMessage(h)
       \/ ClearUnread(h) \/ FetchMessages(h) \/ LoseChatRequest(h)

ChatSpec == ChatInit /\ [][ChatNext]_chatVars

-----------------------------------------------------------------------------
ChatTypeOK ==
  /\ chLeg \in [Legs -> [rider : ChatCouriers \cup {NoCourier}, done : BOOLEAN]]
  /\ threads \subseteq ChatThreadIds /\ unread \in [ChatThreadIds -> [Sides -> 0..MaxMessages]]
  /\ \A h \in ChatRequests : chThread[h] \in ChatThreadIds \cup {NoThread}

(* A side's badge covers every message counted for it that it has not been
   shown: the counter is cleared before the messages are fetched, never after.
   Only while the answer is being fetched, or when it was lost on the way, is
   the badge behind. *)
BadgeCoversUnseen ==
  \A t \in ChatThreadIds, s \in Sides :
    \/ \E h \in ChatRequests : chSaw[h] /\ chThread[h] = t /\ ChatSide(chUser[h]) = s
    \/ <<t, s>> \in readsLost
    \/ unread[t][s] >= Cardinality({i \in MessageIds :
         /\ messages[i].thread = t /\ messages[i].counted
         /\ s \in Hears(messages[i].from) \ messages[i].seen})

(* A conversation that is over takes no new message from either side: the
   provider's once the order is concluded, a courier's once the leg is handed
   over or given to somebody else.  It ends "for BOTH sides, not just the
   rider" (isCourierLegOver), although the two sides are decided from different
   fields of the order and the same courier may be riding the other leg.  The
   comment over the `ended` field says otherwise, that it never ends for the
   customer; the code follows the first.  What was on its way arrives. *)
SessionOver(t) ==
  \/ chStage = "concluded"
  \/ t \in CourierThreads /\ (chLeg[t.leg].done \/ chLeg[t.leg].rider # t.with)
InFlight(t) == {h \in ChatRequests : chPc[h] = "store" /\ chThread[h] = t /\ chUser[h] # SupportAgent}
SilentOnceOver ==
  \A t \in ChatThreadIds : SessionOver(t) /\ SessionOver(t)' => InFlight(t)' \subseteq InFlight(t)

(* The badge of a conversation covers what its reader has not seen, and the
   conversation that is over falls silent for both. *)
ChatIsSound ==
  [][chatVars' # chatVars =>
       /\ (ChatTypeOK /\ BadgeCoversUnseen)'
       /\ SilentOnceOver]_chatVars

=============================================================================
