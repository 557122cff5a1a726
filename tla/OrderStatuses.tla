---------------------------- MODULE OrderStatuses ----------------------------
(* The statuses of an online order and the table of its legal transitions. *)
EXTENDS Naturals, Sequences

Status ==
  {"draft", "pricing_validated", "pending_provider_acceptance",
   "provider_change_proposed", "accepted_by_provider", "rejected_by_provider",
   "cancelled", "awaiting_pickup_assignment", "pickup_assigned",
   "pickup_en_route", "pickup_arrived", "pickup_weighed",
   "picked_up_from_customer", "pickup_attempt_failed",
   "awaiting_pickup_reschedule", "received_by_provider", "laundry_in_progress",
   "laundry_quality_hold", "laundry_ready", "awaiting_return_selection",
   "awaiting_return_assignment", "return_assigned", "return_en_route",
   "return_arrived", "delivered_to_customer", "delivery_attempted",
   "returned_to_provider", "awaiting_redelivery_selection",
   "redelivery_scheduled", "awaiting_customer_pickup",
   "customer_pickup_verified", "completed", "refunded", "disputed",
   "abandoned_unsettled"}

(* The transition table.  Skipped, reversed or invented moves are refused. *)
Edge ==
  ({"draft"} \X {"pricing_validated", "cancelled"})
  \cup ({"pricing_validated"} \X {"pending_provider_acceptance", "cancelled"})
  \cup ({"pending_provider_acceptance"} \X
         {"accepted_by_provider", "provider_change_proposed",
          "rejected_by_provider", "cancelled"})
  \cup ({"provider_change_proposed"} \X {"accepted_by_provider", "cancelled"})
  \cup ({"accepted_by_provider"} \X
         {"awaiting_pickup_assignment", "received_by_provider", "cancelled"})
  \cup {<<"awaiting_pickup_assignment", "pickup_assigned">>,
        <<"pickup_assigned", "pickup_en_route">>,
        <<"pickup_en_route", "pickup_arrived">>}
  \cup ({"pickup_arrived"} \X {"pickup_weighed", "pickup_attempt_failed"})
  \cup ({"pickup_weighed"} \X {"pickup_weighed", "picked_up_from_customer"})
  \cup ({"pickup_attempt_failed"} \X
         {"pickup_assigned", "awaiting_pickup_reschedule"})
  \cup ({"awaiting_pickup_reschedule"} \X {"pickup_assigned", "cancelled"})
  \cup ({"picked_up_from_customer", "received_by_provider",
         "laundry_quality_hold"} \X {"laundry_in_progress"})
  \cup ({"laundry_in_progress"} \X {"laundry_quality_hold", "laundry_ready"})
  \cup ({"laundry_ready"} \X
         {"awaiting_return_selection", "awaiting_return_assignment",
          "awaiting_customer_pickup"})
  \cup ({"awaiting_return_selection"} \X
         {"awaiting_return_assignment", "awaiting_customer_pickup"})
  \cup ({"awaiting_return_assignment", "redelivery_scheduled"}
         \X {"return_assigned"})
  \cup {<<"return_assigned", "return_en_route">>,
        <<"return_en_route", "return_arrived">>}
  \cup ({"return_arrived"} \X {"delivered_to_customer", "delivery_attempted"})
  \cup {<<"delivered_to_customer", "completed">>,
        <<"delivery_attempted", "returned_to_provider">>,
        <<"returned_to_provider", "awaiting_redelivery_selection">>}
  \cup ({"awaiting_redelivery_selection"} \X
         {"redelivery_scheduled", "abandoned_unsettled"})
  \cup ({"awaiting_customer_pickup"} \X
         {"customer_pickup_verified", "abandoned_unsettled"})
  \cup {<<"customer_pickup_verified", "completed">>,
        <<"completed", "disputed">>}
  \cup ({"abandoned_unsettled"} \X
         {"awaiting_redelivery_selection", "awaiting_customer_pickup"})

(* assertValidTransition for each move of a transaction in turn. *)
Legal(from, targets) ==
  \A i \in 1 .. Len(targets) :
    <<IF i = 1 THEN from ELSE targets[i - 1], targets[i]>> \in Edge

Last(s) == s[Len(s)]
=============================================================================
