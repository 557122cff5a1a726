---------------------------- MODULE SupportDesk ----------------------------
(* Support tickets: opened by or for a requester, answered, assigned,
   moved between statuses, resolved and closed, with one event per change.

   An operation loads the ticket, writes by identity what it decided from
   it, and then adds an event.  There is no transaction, and the status
   has no table of allowed changes: any status may follow any other.

   Wording, attachments, categories, priorities and numbers are left out,
   and of the events those of an assignment, ASSIGNED and UNASSIGNED: the
   trail is that of the status, and no operation reads the others. *)
EXTENDS Naturals, FiniteSets

CONSTANTS
  Tickets, Agents, NoAgent,
  DeskRequests,     \* requests in progress, of agents and of the requester
  MaxDeskCalls,     \* bound: requests ever made, and mishaps
  MaxDeskMishaps    \* bound: server processes lost

VARIABLES
  tkStatus, tkAssignee, tkFirst, tkResolvedAt,  \* support_tickets
  tkTrail,                    \* toValue and kind of the newest status event
  kpcT, ktick, kold, kto, kreason,  \* a request in progress
  deskCalls, deskMishaps,
  tkAnswered, tkSelf,         \* history: who wrote notes the requester can read
  tkCrossed, tkTaken          \* history: writes that rested on a stale read

ticketRows == <<tkStatus, tkAssignee, tkFirst, tkResolvedAt>>
deskRequest == <<kpcT, ktick, kold, kto, kreason>>
deskBounds == <<deskCalls, deskMishaps>>
deskHistory == <<tkAnswered, tkSelf, tkCrossed, tkTaken>>
deskVars == <<ticketRows, tkTrail, deskRequest, deskBounds, deskHistory>>

ACTIVE == {"OPEN", "IN_PROGRESS", "ESCALATED"}
TicketStatus == ACTIVE \cup {"none", "WAITING_ON_CUSTOMER", "RESOLVED", "CLOSED"}
StatusEvent == {"CREATED", "ESCALATED", "RESOLVED", "REOPENED", "STATUS_CHANGED"}
NoTrail == <<"none", "CREATED">>

DeskInit ==
  /\ tkStatus = [t \in Tickets |-> "none"]
  /\ tkAssignee = [t \in Tickets |-> NoAgent]
  /\ tkFirst = [t \in Tickets |-> FALSE] /\ tkResolvedAt = [t \in Tickets |-> FALSE]
  /\ tkTrail = [t \in Tickets |-> NoTrail]
  /\ kpcT = [h \in DeskRequests |-> "idle"]
  /\ ktick = [h \in DeskRequests |-> "none"]
  /\ kold = [h \in DeskRequests |-> "none"] /\ kto = [h \in DeskRequests |-> "none"]
  /\ kreason = [h \in DeskRequests |-> FALSE]
  /\ deskCalls = 0 /\ deskMishaps = 0
  /\ tkAnswered = {} /\ tkSelf = {} /\ tkCrossed = {} /\ tkTaken = {}

-----------------------------------------------------------------------------
DeskBegin(h, at, t, old, to, reason) ==
  /\ kpcT[h] = "idle" /\ deskCalls < MaxDeskCalls /\ deskCalls' = deskCalls + 1
  /\ kpcT' = [kpcT EXCEPT ![h] = at]
  /\ ktick' = [ktick EXCEPT ![h] = t]
  /\ kold' = [kold EXCEPT ![h] = old]
  /\ kto' = [kto EXCEPT ![h] = to]
  /\ kreason' = [kreason EXCEPT ![h] = reason]
  /\ UNCHANGED deskMishaps

DeskDone(h) ==
  /\ kpcT' = [kpcT EXCEPT ![h] = "idle"]
  /\ ktick' = [ktick EXCEPT ![h] = "none"]
  /\ kold' = [kold EXCEPT ![h] = "none"] /\ kto' = [kto EXCEPT ![h] = "none"]
  /\ kreason' = [kreason EXCEPT ![h] = FALSE]

DeskGoto(h, at) ==
  /\ kpcT' = [kpcT EXCEPT ![h] = at]
  /\ UNCHANGED <<ktick, kold, kto, kreason>>

(* create, by an agent or the requester, with its event. *)
CreateTicket(h, t) ==
  /\ tkStatus[t] = "none"
  /\ DeskBegin(h, "event", t, "none", "OPEN", FALSE)
  /\ tkStatus' = [tkStatus EXCEPT ![t] = "OPEN"]
  /\ UNCHANGED <<tkAssignee, tkFirst, tkResolvedAt, tkTrail, deskHistory>>

-----------------------------------------------------------------------------
(* addNote: what the requester can read stops the clock of the first response,
   whoever wrote it; the note itself is there before the stamp. *)
ClockRuns(t) == ~tkFirst[t]

AddNote(h, t, visible, own) ==
  /\ tkStatus[t] # "none" /\ (own => visible)
  /\ DeskBegin(h, IF visible /\ ClockRuns(t) THEN "stamp" ELSE "noted", t, "none", "none", own)
  /\ tkAnswered' = IF visible /\ ~own THEN tkAnswered \cup {t} ELSE tkAnswered
  /\ tkSelf' = IF own THEN tkSelf \cup {t} ELSE tkSelf
  /\ UNCHANGED <<ticketRows, tkTrail, tkCrossed, tkTaken>>

StampFirstResponse(h) ==
  /\ kpcT[h] \in {"stamp", "noted"}
  /\ tkFirst' = IF kpcT[h] = "noted" THEN tkFirst ELSE [tkFirst EXCEPT ![ktick[h]] = TRUE]
  /\ DeskDone(h)
  /\ UNCHANGED <<tkStatus, tkAssignee, tkResolvedAt, tkTrail, deskBounds, deskHistory>>

-----------------------------------------------------------------------------
(* changeStatus: an escalation states its reason; nothing happens when the
   ticket already is there.  closeMySupportTicket and resolve call it too. *)
LoadStatus(h, t, to, reason) ==
  /\ tkStatus[t] \notin {"none", to}
  /\ to = "ESCALATED" => reason
  /\ DeskBegin(h, "status", t, tkStatus[t], to, FALSE)
  /\ UNCHANGED <<ticketRows, tkTrail, deskHistory>>

(* Resolving stamps the date; leaving RESOLVED, as it was read, clears it. *)
WriteStatusOf(h) ==
  LET t == ktick[h] IN
  /\ kpcT[h] = "status"
  /\ tkStatus' = [tkStatus EXCEPT ![t] = kto[h]]
  /\ tkResolvedAt' = [tkResolvedAt EXCEPT ![t] =
                        IF kto[h] = "RESOLVED" THEN TRUE
                        ELSE IF kold[h] = "RESOLVED" THEN FALSE ELSE @]
  /\ tkCrossed' = IF tkStatus[t] = kold[h] /\ \A g \in DeskRequests : ktick[g] = t => kpcT[g] # "event"
                  THEN tkCrossed ELSE tkCrossed \cup {t}
  /\ DeskGoto(h, "event")
  /\ UNCHANGED <<tkAssignee, tkFirst, tkTrail, deskBounds, tkAnswered, tkSelf, tkTaken>>

EventOf(old, to) ==
  IF to \in {"ESCALATED", "RESOLVED"} THEN to
  ELSE IF old = "none" THEN "CREATED"
  ELSE IF old \in {"RESOLVED", "CLOSED"} THEN "REOPENED" ELSE "STATUS_CHANGED"

RecordEvent(h) ==
  /\ kpcT[h] = "event"
  /\ tkTrail' = [tkTrail EXCEPT ![ktick[h]] = <<kto[h], EventOf(kold[h], kto[h])>>]
  /\ DeskDone(h)
  /\ UNCHANGED <<ticketRows, deskBounds, deskHistory>>

-----------------------------------------------------------------------------
(* Mutant: nobody is asked for a reason. *)
LoadUnreasoned(h, t, a, reason) ==
  /\ tkStatus[t] # "none"
  /\ DeskBegin(h, "assign", t, tkAssignee[t], a, reason)
  /\ UNCHANGED <<ticketRows, tkTrail, deskHistory>>

(* assign: taking a ticket from another agent asks for a reason, of the ticket
   that was read; handing it back asks for none. *)
LoadAssignment(h, t, a, reason) ==
  /\ tkStatus[t] # "none"
  /\ a # NoAgent /\ tkAssignee[t] \notin {NoAgent, a} => reason
  /\ DeskBegin(h, "assign", t, tkAssignee[t], a, reason)
  /\ UNCHANGED <<ticketRows, tkTrail, deskHistory>>

WriteAssignment(h) ==
  LET t == ktick[h] IN
  /\ kpcT[h] = "assign"
  /\ tkAssignee' = [tkAssignee EXCEPT ![t] = kto[h]]
  /\ tkTaken' = IF tkAssignee[t] = kold[h] THEN tkTaken ELSE tkTaken \cup {t}
  /\ DeskDone(h)
  /\ UNCHANGED <<tkStatus, tkFirst, tkResolvedAt, tkTrail, deskBounds,
                 tkAnswered, tkSelf, tkCrossed>>

(* The server process is lost. *)
LoseDeskRequest(h) ==
  /\ kpcT[h] \in {"stamp", "event"}
  /\ deskMishaps < MaxDeskMishaps /\ deskMishaps' = deskMishaps + 1
  /\ deskCalls < MaxDeskCalls /\ deskCalls' = deskCalls + 1
  /\ tkAnswered' = IF kpcT[h] = "stamp" THEN tkAnswered \ {ktick[h]} ELSE tkAnswered
  /\ tkCrossed' = IF kpcT[h] = "event" THEN tkCrossed \cup {ktick[h]} ELSE tkCrossed
  /\ DeskDone(h)
  /\ UNCHANGED <<ticketRows, tkTrail, tkSelf, tkTaken>>

DeskNext ==
  \E h \in DeskRequests :
    \/ \E t \in Tickets :
         \/ CreateTicket(h, t)
         \/ \E visible, own \in BOOLEAN : AddNote(h, t, visible, own)
         \/ \E to \in TicketStatus \ {"none"}, reason \in BOOLEAN : LoadStatus(h, t, to, reason)
         \/ \E a \in Agents \cup {NoAgent}, reason \in BOOLEAN : LoadAssignment(h, t, a, reason)
    \/ StampFirstResponse(h) \/ WriteStatusOf(h) \/ RecordEvent(h)
    \/ WriteAssignment(h) \/ LoseDeskRequest(h)

DeskSpec == DeskInit /\ [][DeskNext]_deskVars

-----------------------------------------------------------------------------
DeskTypeOK ==
  /\ tkStatus \in [Tickets -> TicketStatus]
  /\ tkAssignee \in [Tickets -> Agents \cup {NoAgent}]
  /\ tkFirst \in [Tickets -> BOOLEAN] /\ tkResolvedAt \in [Tickets -> BOOLEAN]
  /\ tkTrail \in [Tickets -> TicketStatus \X StatusEvent]

TicketAtRest(t) == \A h \in DeskRequests : ktick[h] # t

(* The first-response clock tells how long the requester waited: once an agent
   wrote what she can read it is stopped, and while nobody did it runs, unless
   she stopped it herself by writing on, which addNote does not tell apart. *)
ClockStopsOnAnswer ==
  \A t \in Tickets : TicketAtRest(t) =>
    /\ t \in tkAnswered => tkFirst[t]
    /\ tkFirst[t] => t \in tkAnswered \cup tkSelf \/ deskMishaps > 0

(* A resolution date stands exactly on a resolved ticket, and the newest event
   of the trail tells its status, unless two changes of status overlapped. *)
TrailExplainsTicket ==
  \A t \in Tickets : TicketAtRest(t) /\ t \notin tkCrossed /\ tkStatus[t] # "none" =>
    /\ tkResolvedAt[t] <=> tkStatus[t] = "RESOLVED"
    /\ tkTrail[t][1] = tkStatus[t]

(* No agent loses a ticket to another without a word: a reason is given, or
   both read the ticket before either was written down. *)
NoSilentTakeover ==
  \A t \in Tickets :
    tkAssignee[t] # NoAgent /\ tkAssignee'[t] \notin {NoAgent, tkAssignee[t]} =>
      \/ t \in tkTaken'
      \/ \E h \in DeskRequests : kpcT[h] = "assign" /\ ktick[h] = t /\ kreason[h]

(* Over agents who work on one ticket at a time: the clock of the first answer
   stops once, the trail explains the ticket, and nobody loses one without a
   word. *)
TicketsAreSound ==
  [][deskVars' # deskVars =>
       /\ (DeskTypeOK /\ ClockStopsOnAnswer /\ TrailExplainsTicket)'
       /\ NoSilentTakeover]_deskVars

=============================================================================
