--------------------------- MODULE OrderLifecycle ---------------------------
(* The life of one online order: OnlineOrdersService and its two sweeps.

   Every mutation loads the order document outside any transaction, checks
   and edits the copy in memory, and then runs one transaction (a few run
   two) that saves the edits and calls applyTransition, which filters on
   the version the copy was loaded with.  Four writers do without: a note,
   a courier's ping, the row of a rejected assignment and the stamp of a
   promo on a new order save what they read, over whatever is there.
   Calls of different actors interleave between the load and the
   transaction; a transaction that the
   database aborts is run again with the same copy, whose status and
   version the aborted attempt has already moved; a process can die
   between the two transactions of one call.

   A transaction is one step here: it holds the document from its first
   write to its commit, and a concurrent writer is made to start over.
   Money is in OrderSettlement; a surcharge is a count here. *)
EXTENDS OrderStatuses

CONSTANTS
  Callers,        \* requests that may be in progress at the same time
  Sweeps,         \* instances of the scheduled jobs
  Couriers,       \* people who may be given a leg
  NoOne,          \* no assignment
  PickupModes,    \* the fulfilment modes an order may be created with
  Issued,         \* the mutations the callers issue
  Promoted,       \* whether the order may be, or is, booked with a promo code
  MaxVersion,     \* bound: calls begin only below this document version
  MaxStamped,     \* bound: and below this one while the stamp is to come
  MaxHolds,       \* bound: blocking quality holds raised on the order
  MaxExtras       \* bound: transactions aborted and run again, processes lost,
                  \* calls that run no transaction, stamps

ASSUME PickupModesKnown ==
  PickupModes \subseteq {"provider_pickup", "customer_dropoff"}
ASSUME HandlersDisjoint == Callers \cap Sweeps = {}
ASSUME NoOneIsNoCourier == NoOne \notin Couriers
ASSUME PromotedIsKnown == Promoted \subseteq BOOLEAN
ASSUME BoundsAreNaturals ==
  MaxVersion \in Nat /\ MaxStamped \in Nat /\ MaxHolds \in Nat /\ MaxExtras \in Nat

VARIABLES
  status, version,   \* of the stored document
  doc,               \* its other fields
  lastEvent,         \* the newest rows a transition left in the event log
  audit,             \* the status of an audit row newer than those, or "none"
  windowOver,        \* the response window of the stored hold has passed
  stamping,          \* createOrder has still to save the promo's id
  pc, call, known, edit, moved, todo,  \* each handler: see below
  seen,              \* history: the document version each copy was made of
  raised, extras,  \* used up so far, against the bounds
  overridden,        \* history: support used overrideStatus
  rewound,           \* history: a write went over a newer version
  unrecorded,        \* history: so did the stamp, and nobody moved on since
  overtaken,         \* history: the audit row is of a copy overtaken by then
  restored           \* history: a ping saved a copy overtaken by then

document == <<status, version, doc, lastEvent, audit>>
history  == <<overridden, rewound, unrecorded, overtaken, restored>>
handlers == <<pc, call, known, edit, moved, todo, seen>>
vars == <<document, windowOver, stamping, handlers, raised, extras, history>>

Handlers == Callers \cup Sweeps

-----------------------------------------------------------------------------
(* The document's other fields, as far as the control flow reads them:
   who holds each leg, how the laundry goes back, the quality hold and how
   many surcharges the customer was charged. *)
Legs == {"pickup", "return"}
Field == Legs \cup {"inbound", "returnMode", "hold", "surcharges"}
Assignee == Couriers \cup {NoOne}
ReturnModes == {"delivery", "self_pickup"}
Hold == {"none", "pending", "approved", "declined", "noted"}
Resolved == {"approved", "declined"}

(* Fields of the document, all of them or the edited ones, hold their values. *)
WellTyped(fields) ==
  /\ DOMAIN fields \subseteq Field
  /\ \A leg \in Legs \cap DOMAIN fields : fields[leg] \in Assignee
  /\ "inbound" \in DOMAIN fields
       => fields.inbound \in {"provider_pickup", "customer_dropoff"}
  /\ "returnMode" \in DOMAIN fields => fields.returnMode \in ReturnModes
  /\ "hold" \in DOMAIN fields => fields.hold \in Hold
  /\ "surcharges" \in DOMAIN fields => fields.surcharges \in Nat

NoEdit == [f \in {} |-> NoOne]

(* A handler's copy of the document: the status and version it knows, the
   fields it has edited and not yet saved (Mongoose's modified paths), and
   whether status and version are themselves modified paths, which they
   are once applyTransition has run on the copy.  todo is the list of
   transactions still to run, each the list of statuses it moves through. *)
Known == [status : Status, version : Nat]

ReturnLeg == IF doc.returnMode = "self_pickup"
             THEN "awaiting_customer_pickup" ELSE "awaiting_return_assignment"

InBounds == version < (IF stamping THEN MaxStamped ELSE MaxVersion)

(* findOrderOrThrow, the call's own checks and edits, up to its first
   transaction.  A call whose first transition the table refuses ends
   there and changes nothing, so it is not begun. *)
Load(h, name, edits, txns) ==
  /\ pc[h] = "idle"
  /\ h \in Callers => name \in Issued /\ InBounds
  /\ Legal(status, txns[1])
  /\ pc' = [pc EXCEPT ![h] = "ready"]
  /\ call' = [call EXCEPT ![h] = name]
  /\ known' = [known EXCEPT ![h] = [status |-> status, version |-> version]]
  /\ seen' = [seen EXCEPT ![h] = version]
  /\ edit' = [edit EXCEPT ![h] = edits]
  /\ moved' = [moved EXCEPT ![h] = FALSE]
  /\ todo' = [todo EXCEPT ![h] = txns]
  /\ raised' = IF name = "raiseQualityHold" THEN raised + 1 ELSE raised
  /\ UNCHANGED <<document, windowOver, stamping, extras, history>>

(* The same for a call that runs no transaction: nothing of the status or
   the version stands in its way. *)
LoadOnly(h, name, edits) ==
  /\ pc[h] = "idle"
  /\ name \in Issued /\ InBounds
  /\ extras < MaxExtras /\ extras' = extras + 1
  /\ pc' = [pc EXCEPT ![h] = "ready"]
  /\ call' = [call EXCEPT ![h] = name]
  /\ known' = [known EXCEPT ![h] = [status |-> status, version |-> version]]
  /\ seen' = [seen EXCEPT ![h] = version]
  /\ edit' = [edit EXCEPT ![h] = edits]
  /\ UNCHANGED <<document, windowOver, stamping, moved, todo, raised, history>>

(* saveAndTransition marks both assignments modified, whatever the caller
   edited, so it writes them back as they were loaded. *)
Marked(edits) ==
  [f \in Legs \cup DOMAIN edits |->
     IF f \in DOMAIN edits THEN edits[f] ELSE doc[f]]

(* save writes the modified paths and leaves the others. *)
Saved(h) == [f \in Field |-> IF f \in DOMAIN edit[h] THEN edit[h][f] ELSE doc[f]]

(* The call is over, with an answer or an error. *)
Finish(h) ==
  /\ pc' = [pc EXCEPT ![h] = "idle"]
  /\ call' = [call EXCEPT ![h] = "none"]
  /\ todo' = [todo EXCEPT ![h] = <<>>]
  /\ edit' = [edit EXCEPT ![h] = NoEdit]
  /\ moved' = [moved EXCEPT ![h] = FALSE]
  /\ known' = [known EXCEPT ![h] = [status |-> "draft", version |-> 0]]
  /\ seen' = [seen EXCEPT ![h] = 0]

-----------------------------------------------------------------------------
(* The provider's decision, and the customer's answer to a proposal. *)
Accepted == IF doc.inbound = "provider_pickup"
            THEN <<"accepted_by_provider", "awaiting_pickup_assignment">>
            ELSE <<"accepted_by_provider">>

AcceptOrder(h) == Load(h, "acceptOrder", NoEdit, <<Accepted>>)

RejectOrder(h) ==
  Load(h, "rejectOrder", NoEdit, <<<<"rejected_by_provider">>>>)

ProposeOrderChange(h) ==
  Load(h, "proposeOrderChange", NoEdit, <<<<"provider_change_proposed">>>>)

RespondToProviderChange(h) ==
  \E txn \in {Accepted, <<"cancelled">>} :
    Load(h, "respondToProviderChange", NoEdit, <<txn>>)

CancelOrder(h) ==
  Load(h, "cancelOrder", NoEdit, <<<<"cancelled">>>>)

(* Pickup by a courier. *)
AssignPickupStaff(h) ==
  \E c \in Couriers :
    Load(h, "assignPickupStaff", [pickup |-> c], <<<<"pickup_assigned">>>>)

(* assertAssignableCourier, of either assignment, turns the courier down:
   appendAuditEvent writes a row of its own, outside any transaction, with
   the status of the copy, before the call fails.  The log has one row to a
   number: when another row has taken it, the insert is refused.  (A
   transaction that loses its number is run again or fails: AbortAndRetry,
   Crash.) *)
RejectAssignment(h) == LoadOnly(h, "rejectAssignment", NoEdit)

AppendAuditEvent(h) ==
  /\ pc[h] = "ready" /\ call[h] = "rejectAssignment"
  /\ \/ /\ audit' = known[h].status
        /\ overtaken' = (version # seen[h])
     \/ UNCHANGED <<audit, overtaken>>
  /\ Finish(h)
  /\ UNCHANGED <<status, version, doc, lastEvent, windowOver, stamping, raised, extras,
                 overridden, rewound, unrecorded, restored>>

(* A courier's ping: the whole assignment is saved as it was loaded, with
   the new place in it, whatever has become of the leg meanwhile.  (A
   completed leg takes no pings; it is not handed on either, so that a ping
   on it would change nothing here.) *)
UpdateCourierLocation(h) ==
  \E leg \in Legs :
    /\ doc[leg] \in Couriers
    /\ LoadOnly(h, "updateCourierLocation", [l \in {leg} |-> doc[l]])

SaveLocation(h) ==
  /\ pc[h] = "ready" /\ call[h] = "updateCourierLocation"
  /\ doc' = Saved(h)
  /\ restored' = (restored \/ version # seen[h])
  /\ Finish(h)
  /\ UNCHANGED <<status, version, lastEvent, audit, windowOver, stamping, raised, extras,
                 overridden, rewound, unrecorded, overtaken>>

(* assertAssignedCourier: some courier makes the call and holds the leg. *)
CourierCall(h, leg, name, edits, targets) ==
  /\ doc[leg] \in Couriers
  /\ Load(h, name, edits, <<targets>>)

StartPickupRoute(h) ==
  CourierCall(h, "pickup", "startPickupRoute", Marked(NoEdit), <<"pickup_en_route">>)
ArriveAtPickup(h) ==
  CourierCall(h, "pickup", "arriveAtPickup", Marked(NoEdit), <<"pickup_arrived">>)
RecordPickupWeight(h) ==
  CourierCall(h, "pickup", "recordPickupWeight", NoEdit, <<"pickup_weighed">>)
RecordPickupPayment(h) ==
  CourierCall(h, "pickup", "recordPickupPayment", [pickup |-> doc.pickup],
              <<"picked_up_from_customer", "laundry_in_progress">>)
RecordFailedPickupAttempt(h) ==
  CourierCall(h, "pickup", "recordFailedPickupAttempt", Marked(NoEdit),
              <<"pickup_attempt_failed">>)

RetryPickupSameDay(h) ==
  Load(h, "retryPickupSameDay", Marked(NoEdit), <<<<"pickup_assigned">>>>)

(* Mutant: the leg is given up with the attempt. *)
EscalateAndUnassign(h) ==
  Load(h, "escalateToReschedule", Marked([pickup |-> NoOne]),
       <<<<"awaiting_pickup_reschedule">>>>)

EscalateToReschedule(h) ==
  Load(h, "escalateToReschedule", Marked(NoEdit),
       <<<<"awaiting_pickup_reschedule">>>>)

ReschedulePickup(h) ==
  Load(h, "reschedulePickup", Marked([pickup |-> NoOne]),
       <<<<"pickup_assigned">>>>)

CancelAfterFailedPickup(h) ==
  Load(h, "cancelAfterFailedPickup", Marked(NoEdit), <<<<"cancelled">>>>)

(* Drop-off, and the work itself. *)
ReceiveAtCounter(h) ==
  Load(h, "receiveAtCounter", NoEdit,
       <<<<"received_by_provider", "laundry_in_progress">>>>)

MarkLaundryReady(h) ==
  Load(h, "markLaundryReady", Marked(NoEdit),
       <<<<"laundry_ready">>, <<ReturnLeg>>>>)

-----------------------------------------------------------------------------
(* Quality holds. *)
RaiseQualityHold(h) ==
  /\ doc.hold # "pending"
  /\ raised < MaxHolds
  /\ Load(h, "raiseQualityHold", Marked([hold |-> "pending"]),
          <<<<"laundry_quality_hold">>>>)

(* A hold that does not block is resolved as it is raised and saved on its
   own (saveOrderOnly): no transition, no version, in whatever status. *)
NoteQualityIssue(h) ==
  /\ pc[h] = "idle"
  /\ h \in Callers /\ "noteQualityIssue" \in Issued
  /\ InBounds
  /\ doc.hold # "pending"
  /\ pc' = [pc EXCEPT ![h] = "ready"]
  /\ call' = [call EXCEPT ![h] = "noteQualityIssue"]
  /\ UNCHANGED <<document, windowOver, stamping, known, edit, moved, todo, seen, raised,
                 extras, history>>

SaveOrderOnly(h) ==
  /\ pc[h] = "ready" /\ call[h] = "noteQualityIssue"
  /\ doc' = [doc EXCEPT !.hold = "noted"]
  /\ windowOver' = FALSE
  /\ pc' = [pc EXCEPT ![h] = "idle"]
  /\ call' = [call EXCEPT ![h] = "none"]
  /\ UNCHANGED <<status, version, lastEvent, audit, stamping, known, edit, moved, todo, seen,
                 raised, extras, history>>

Answer(approve) ==
  IF approve
  THEN [hold |-> "approved", surcharges |-> doc.surcharges + 1]
  ELSE [hold |-> "declined"]

(* Mutant: resolvedAt is not looked at. *)
RespondAgain(h) ==
  /\ doc.hold # "none" /\ ~windowOver
  /\ \E approve \in BOOLEAN :
       Load(h, "respondToQualityHold", Marked(Answer(approve)),
            <<<<"laundry_in_progress">>>>)

RespondToQualityHold(h) ==
  /\ doc.hold = "pending" /\ ~windowOver
  /\ \E approve \in BOOLEAN :
       Load(h, "respondToQualityHold", Marked(Answer(approve)),
            <<<<"laundry_in_progress">>>>)

(* Mutant: the deadline is compared the wrong way round. *)
AutoResolveEarly(h) ==
  /\ h \in Sweeps
  /\ status = "laundry_quality_hold" /\ doc.hold = "pending" /\ ~windowOver
  /\ Load(h, "autoResolveExpiredQualityHold", [hold |-> "declined"],
          <<<<"laundry_in_progress">>>>)

(* sweepExpiredQualityHolds and autoResolveExpiredQualityHold. *)
AutoResolveExpiredQualityHold(h) ==
  /\ h \in Sweeps
  /\ status = "laundry_quality_hold" /\ doc.hold = "pending" /\ windowOver
  /\ Load(h, "autoResolveExpiredQualityHold", [hold |-> "declined"],
          <<<<"laundry_in_progress">>>>)

ResponseWindowPasses ==
  /\ doc.hold = "pending" /\ ~windowOver
  /\ windowOver' = TRUE
  /\ UNCHANGED <<document, stamping, handlers, raised, extras, history>>

-----------------------------------------------------------------------------
(* The way back to the customer.  The mode is assigned inside fulfillment,
   an untyped path that nobody marks modified: the choice decides the status
   and is not saved. *)
ChooseReturnOption(h) ==
  \E mode \in ReturnModes :
    Load(h, "chooseReturnOption", Marked(NoEdit),
         <<<<IF mode = "self_pickup" THEN "awaiting_customer_pickup"
             ELSE "awaiting_return_assignment">>>>)

AssignReturnStaff(h) ==
  \E c \in Couriers :
    Load(h, "assignReturnStaff", Marked([return |-> c]),
         <<<<"return_assigned">>>>)

StartReturnRoute(h) ==
  CourierCall(h, "return", "startReturnRoute", Marked(NoEdit), <<"return_en_route">>)
ArriveAtReturn(h) ==
  CourierCall(h, "return", "arriveAtReturn", Marked(NoEdit), <<"return_arrived">>)
RecordDelivery(h) ==
  CourierCall(h, "return", "recordDelivery", [return |-> doc.return],
              <<"delivered_to_customer", "completed">>)
RecordFailedDeliveryAttempt(h) ==
  CourierCall(h, "return", "recordFailedDeliveryAttempt", Marked(NoEdit),
              <<"delivery_attempted">>)

ConfirmReturnedToProvider(h) ==
  Load(h, "confirmReturnedToProvider", Marked(NoEdit),
       <<<<"returned_to_provider">>, <<"awaiting_redelivery_selection">>>>)

ScheduleRedelivery(h) ==
  Load(h, "scheduleRedelivery", Marked([return |-> NoOne]),
       <<<<"redelivery_scheduled">>, <<"return_assigned">>>>)

VerifySelfPickup(h) ==
  Load(h, "verifySelfPickup", NoEdit,
       <<<<"customer_pickup_verified", "completed">>>>)

(* By support, or by the sweep over orders whose deadline has passed. *)
AbandonUnsettledOrder(h) ==
  Load(h, "abandonUnsettledOrder", NoEdit, <<<<"abandoned_unsettled">>>>)

ReinstateAbandonedOrder(h) ==
  /\ status = "abandoned_unsettled"
  /\ Load(h, "reinstateAbandonedOrder", Marked(NoEdit),
          <<<<IF doc.returnMode = "self_pickup"
              THEN "awaiting_customer_pickup"
              ELSE "awaiting_redelivery_selection">>>>)

OverrideStatus(h) ==
  \E to \in Status \ {status} :
    Load(h, "overrideStatus", Marked(NoEdit), <<<<to>>>>)

-----------------------------------------------------------------------------
(* One attempt at a handler's next transaction: save the modified paths,
   then applyTransition to each target.  If status and version are modified
   paths of the copy, the save writes them too, and the filter on the
   version that follows matches what the save has just written. *)
Lone == {"noteQualityIssue", "rejectAssignment", "updateCourierLocation"}

InTransaction(h) == pc[h] = "ready" /\ call[h] \notin Lone

Targets(h) == todo[h][1]

(* Mutant: the update is filtered by _id alone. *)
AnyVersion(h) == moved[h] \/ version \in Nat

VersionMatches(h) == moved[h] \/ version = known[h].version

Passes(h) == Legal(known[h].status, Targets(h)) /\ VersionMatches(h)

Advanced(h) ==
  [status |-> Last(Targets(h)), version |-> known[h].version + Len(Targets(h))]

(* The second transaction of a call runs saveAndTransition on the copy the
   first one left: assignments marked again, status and version modified. *)
GoOn(h) ==
  /\ todo' = [todo EXCEPT ![h] = Tail(todo[h])]
  /\ edit' = [edit EXCEPT ![h] = [f \in DOMAIN edit[h] \cap Legs |-> edit[h][f]]]
  /\ moved' = [moved EXCEPT ![h] = TRUE]
  /\ known' = [known EXCEPT ![h] = Advanced(h)]
  /\ seen' = [seen EXCEPT ![h] = Advanced(h).version]
  /\ UNCHANGED <<pc, call>>

(* The rows applyTransition appends.  Mutant: one row for two moves. *)
FirstEvent(h) == [from |-> known[h].status, to |-> Targets(h)[1]]

Events(h) == [from |-> known[h].status, to |-> Advanced(h).status]

Commit(h) ==
  /\ InTransaction(h) /\ Passes(h)
  /\ status' = Advanced(h).status
  /\ version' = Advanced(h).version
  /\ doc' = Saved(h)
  /\ lastEvent' = Events(h) /\ audit' = "none"
  /\ windowOver' = (windowOver /\ "hold" \notin DOMAIN edit[h])
  /\ overridden' = (overridden \/ call[h] = "overrideStatus")
  /\ rewound' = (rewound \/ version # seen[h])
  /\ unrecorded' = FALSE /\ overtaken' = FALSE
  /\ IF Len(todo[h]) = 1 THEN Finish(h) ELSE GoOn(h)
  /\ UNCHANGED <<stamping, raised, extras, restored>>

(* assertValidTransition or the version filter throws: the call fails and
   its transaction is rolled back. *)
Refuse(h) ==
  /\ InTransaction(h) /\ ~Passes(h)
  /\ Finish(h)
  /\ UNCHANGED <<document, windowOver, stamping, raised, extras, history>>

(* The database aborts the attempt after the save, before or after
   applyTransition has moved the copy, and withTransaction runs it again:
   the saved paths are clean now, and status and version are modified if
   the copy was moved.  acceptOrder puts both back before each attempt. *)
AbortAndRetry(h) ==
  /\ InTransaction(h) /\ Passes(h) /\ call[h] # "acceptOrder"
  /\ extras < MaxExtras
  /\ extras' = extras + 1
  /\ edit' = [edit EXCEPT ![h] = NoEdit]
  /\ \/ /\ moved' = [moved EXCEPT ![h] = TRUE]
        /\ known' = [known EXCEPT ![h] = Advanced(h)]
     \/ UNCHANGED <<moved, known>>
  /\ UNCHANGED <<document, windowOver, stamping, pc, call, todo, seen, raised, history>>

(* The process is lost; what it has committed stays. *)
Crash(h) ==
  /\ pc[h] = "ready" /\ extras < MaxExtras
  /\ extras' = extras + 1
  /\ Finish(h)
  /\ UNCHANGED <<document, windowOver, stamping, raised, history>>

(* The end of createOrder, once the promo slot is reserved: the document it
   created is saved a second time for the promo's id.  Its status, version
   and pricing go with it, as they were when it was created, with no filter
   and no row in the log. *)
AsCreated ==
  status = "pending_provider_acceptance" /\ version = 2 /\ doc.surcharges = 0

StampCreated ==
  /\ stamping /\ stamping' = FALSE
  /\ extras < MaxExtras /\ extras' = extras + 1
  /\ status' = "pending_provider_acceptance" /\ version' = 2
  /\ doc' = [doc EXCEPT !.surcharges = 0]
  /\ IF AsCreated THEN UNCHANGED <<rewound, unrecorded>>
     ELSE rewound' = TRUE /\ unrecorded' = TRUE
  /\ UNCHANGED <<lastEvent, audit, windowOver, handlers, raised, overridden, overtaken,
                 restored>>

-----------------------------------------------------------------------------
(* createOrder commits the document through two transitions. *)
Init ==
  /\ status = "pending_provider_acceptance" /\ version = 2
  /\ \E inbound \in PickupModes, mode \in ReturnModes :
       doc = [pickup |-> NoOne, return |-> NoOne, inbound |-> inbound,
              returnMode |-> mode, hold |-> "none", surcharges |-> 0]
  /\ lastEvent = [from |-> "pricing_validated", to |-> "pending_provider_acceptance"]
  /\ audit = "none" /\ windowOver = FALSE /\ stamping \in Promoted
  /\ pc = [h \in Handlers |-> "idle"]
  /\ call = [h \in Handlers |-> "none"]
  /\ known = [h \in Handlers |-> [status |-> "draft", version |-> 0]]
  /\ edit = [h \in Handlers |-> NoEdit]
  /\ moved = [h \in Handlers |-> FALSE]
  /\ todo = [h \in Handlers |-> <<>>]
  /\ seen = [h \in Handlers |-> 0]
  /\ raised = 0 /\ extras = 0
  /\ overridden = FALSE /\ rewound = FALSE /\ unrecorded = FALSE
  /\ overtaken = FALSE /\ restored = FALSE

Request(h) ==
  \/ AcceptOrder(h) \/ RejectOrder(h) \/ ProposeOrderChange(h)
  \/ RespondToProviderChange(h) \/ CancelOrder(h)
  \/ AssignPickupStaff(h) \/ StartPickupRoute(h) \/ ArriveAtPickup(h)
  \/ RecordPickupWeight(h) \/ RecordPickupPayment(h)
  \/ RecordFailedPickupAttempt(h) \/ RetryPickupSameDay(h)
  \/ EscalateToReschedule(h) \/ ReschedulePickup(h)
  \/ CancelAfterFailedPickup(h) \/ ReceiveAtCounter(h) \/ MarkLaundryReady(h)
  \/ RaiseQualityHold(h) \/ NoteQualityIssue(h) \/ RespondToQualityHold(h)
  \/ ChooseReturnOption(h) \/ AssignReturnStaff(h) \/ StartReturnRoute(h)
  \/ ArriveAtReturn(h) \/ RecordDelivery(h) \/ RecordFailedDeliveryAttempt(h)
  \/ ConfirmReturnedToProvider(h) \/ ScheduleRedelivery(h)
  \/ VerifySelfPickup(h) \/ AbandonUnsettledOrder(h)
  \/ ReinstateAbandonedOrder(h) \/ OverrideStatus(h)
  \/ RejectAssignment(h) \/ UpdateCourierLocation(h)

Job(h) == AutoResolveExpiredQualityHold(h) \/ AbandonUnsettledOrder(h)

Run(h) ==
  Commit(h) \/ Refuse(h) \/ SaveOrderOnly(h) \/ AppendAuditEvent(h) \/ SaveLocation(h)

Next ==
  \/ \E h \in Callers : Request(h)
  \/ \E h \in Sweeps : Job(h)
  \/ \E h \in Handlers : Run(h) \/ AbortAndRetry(h) \/ Crash(h)
  \/ ResponseWindowPasses \/ StampCreated

Spec == Init /\ [][Next]_vars

(* The scheduler calls the sweep again and again, a handler that has begun
   is run by the event loop, and time passes.  Nobody has to issue a call. *)
FairSpec ==
  /\ Spec
  /\ WF_vars(ResponseWindowPasses)
  /\ \A h \in Sweeps : WF_vars(AutoResolveExpiredQualityHold(h))
  /\ \A h \in Handlers : WF_vars(Run(h))

-----------------------------------------------------------------------------
(* Types: a copy's edits name fields and hold values of those fields, and a
   handler in progress has a transaction left. *)
TypeOK ==
  /\ status \in Status /\ version \in Nat
  /\ DOMAIN doc = Field /\ WellTyped(doc)
  /\ lastEvent \in [from : Status, to : Status]
  /\ audit \in Status \cup {"none"}
  /\ windowOver \in BOOLEAN /\ stamping \in BOOLEAN
  /\ pc \in [Handlers -> {"idle", "ready"}]
  /\ known \in [Handlers -> Known] /\ seen \in [Handlers -> Nat]
  /\ moved \in [Handlers -> BOOLEAN]
  /\ DOMAIN call = Handlers
  /\ DOMAIN edit = Handlers /\ \A h \in Handlers : WellTyped(edit[h])
  /\ todo \in [Handlers -> Seq(Seq(Status) \ {<<>>})]
  /\ \A h \in Handlers : InTransaction(h) => todo[h] # <<>>
  /\ raised \in Nat /\ extras \in Nat
  /\ overridden \in BOOLEAN /\ rewound \in BOOLEAN /\ unrecorded \in BOOLEAN
  /\ overtaken \in BOOLEAN /\ restored \in BOOLEAN

(* Optimistic concurrency, as far as the code gives it: a transaction whose
   copy has not been moved by an earlier one continues the recorded history
   (it starts from the newest event's status, at the stored version, and
   raises it), until a moved copy has gone over a newer document: version
   numbers are used again after that.  applyTransition. *)
FreshCommitsSerialise ==
  [][\A h \in Handlers :
       Commit(h) /\ ~moved[h] /\ ~rewound
         => /\ known[h].status = lastEvent.to
            /\ version' = known[h].version + Len(Targets(h))
            /\ version' > version]_vars

(* The status is the one the newest transition row moved to, even after a
   chained or retried write; only the promo's stamp can take it back without
   a row, until the next call moves on.  applyTransition, createOrder. *)
StatusIsRecorded == unrecorded \/ status = lastEvent.to

(* An audit row says the status the order had, unless its call's copy was
   overtaken before the row was written or a write went over a newer
   version.  appendAuditEvent. *)
AuditIsTruthful == audit = "none" \/ audit = lastEvent.to \/ overtaken \/ rewound

(* No call, chained, retried, turned down or cut off, leaves an order out of
   shape or out of step with the newest rows of its history.
   saveAndTransition. *)
HistoryIsKept == TypeOK /\ StatusIsRecorded /\ AuditIsTruthful

(* A quality hold resolves exactly once, by the customer or by the sweep,
   and the customer is charged only by the approval that resolves it, as
   long as no moved copy has gone over a newer document. *)
HoldResolvedOnce ==
  [][~rewound' =>
       /\ doc'.hold \in Resolved /\ doc'.hold # doc.hold
            => doc.hold \notin Resolved
       /\ doc'.surcharges # doc.surcharges
            => /\ doc'.surcharges = doc.surcharges + 1
               /\ doc'.hold = "approved" /\ doc.hold \notin Resolved]_vars

(* A leg changes hands only with the transition that says so, although every
   saveAndTransition and every ping writes assignments back from its own
   copy: until a ping is saved from a copy somebody has overtaken. *)
AssignmentMovesWithStatus ==
  ~rewound' /\ ~restored' =>
    /\ doc'.pickup # doc.pickup => version' > version /\ status' = "pickup_assigned"
    /\ doc'.return # doc.return
         => version' > version /\ status' \in {"return_assigned", "redelivery_scheduled"}

(* Whoever travels holds the leg: unless support overrode a status or a moved
   copy went over a newer document, an order on its way has a courier, late
   pings or none.  assertAssignedCourier looks at a copy, before the
   transaction. *)
TravellingLegHasCourier ==
  overridden \/ rewound \/
    /\ status \in {"pickup_en_route", "pickup_arrived", "pickup_weighed"}
         => doc.pickup \in Couriers
    /\ status \in {"return_en_route", "return_arrived", "delivered_to_customer"}
         => doc.return \in Couriers

(* Couriers stay on their legs: nobody loses one but by the transition that
   says so, or by a ping that comes late, and nobody travels without one.
   saveAndTransition, updateCourierLocation. *)
CouriersStay ==
  [][TravellingLegHasCourier' /\ AssignmentMovesWithStatus]_vars

(* A blocking hold nobody answers does not stop the laundry: the order leaves
   the hold, or a note takes the hold's place.  The sweep. *)
HoldTimesOut ==
  (status = "laundry_quality_hold" /\ doc.hold = "pending")
    ~> (status # "laundry_quality_hold" \/ doc.hold # "pending")
====
