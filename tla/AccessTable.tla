---------------------------- MODULE AccessTable ----------------------------
(* Who may call what: the operations of the resolvers, each with the roles
   its guards admit, the permissions it asks of shop accounts, and the
   gates of the sign-in check it may pass.  Field resolvers run no guard. *)

AllRoles == {"admin", "support", "customer", "merchant", "washer", "staff", "courier"}
BackOffice == {"admin", "support"}
ProviderOwners == {"merchant", "washer"}
ShopFloor == {"merchant", "staff"}
ProviderSide == {"merchant", "washer", "staff"}
Carriers == {"courier", "washer"}
AppRoles == AllRoles \ BackOffice
AnyRole == AllRoles  \* no roles are named

Entry(roles, needs, allows, public, names) ==
  {[name |-> n, roles |-> roles, needs |-> needs, allows |-> allows, public |-> public] : n \in names}
Ops(roles, names) == Entry(roles, {}, {}, FALSE, names)
Gated(roles, needs, names) == Entry(roles, needs, {}, FALSE, names)   \* @RequirePermissions
Open(roles, allows, names) == Entry(roles, {}, allows, FALSE, names)  \* @Allow...
Public(names) == Entry(AllRoles, {}, {}, TRUE, names)                 \* no sign-in

-----------------------------------------------------------------------------
AccountDeletionOps ==
  Open(AnyRole, {"AllowUnverifiedCourier"}, {"accountDeletionBlockers", "requestAccountDeletion"})
  \cup Open(AnyRole, {"AllowDeletionPending", "AllowUnverifiedCourier"}, {"cancelAccountDeletion"})
  \cup Ops(BackOffice, {"accountDeletionQueue", "runScheduledAccountDeletions"})

ActivityLogsOps ==
  Gated(AnyRole, {"log_view"}, {"getMyActivityLogs"})

AddressesOps ==
  Ops({"customer"}, {"myAddresses", "createAddress", "updateAddress", "setDefaultAddress",
      "deleteAddress"})

AdminAuditOps ==
  Ops({"admin"}, {"adminAuditLog"})

AnalyticsOps ==
  Gated(AnyRole, {"report_view"}, {"getRevenueSummary", "getRevenueSummaryByBranch",
      "getRevenueOverTime"})
  \cup Gated(AnyRole, {"report_export"}, {"assertReportExport"})

AppOps ==
  Public({"getHealthCheck"})

BiometricOps ==
  Ops(AnyRole, {"enrollBiometric", "myBiometricCredentials", "revokeBiometric"})
  \cup Public({"requestBiometricChallenge", "biometricLogin"})

BookingAvailabilityOps1 ==
  Ops(BackOffice, {"bookingProviders", "bookingAvailability", "bookingSpecialDates"})
  \cup Ops({"admin"}, {"updateBookingAvailability", "copyBookingDay", "upsertBookingDateOverride",
           "removeBookingDateOverride", "createBookingBlackout", "removeBookingBlackout"})
  \cup Ops({"admin", "merchant", "washer"}, {"myBookingAvailability"})
  \cup Ops(ProviderOwners, {"updateMyBookingCapacity"})

BookingAvailabilityOps2 ==
  Ops({"admin", "merchant", "washer"}, {"updateMyFulfillmentPricing", "myBookingSpecialDates"})
  \cup Ops(AnyRole, {"providerBookingCalendar", "providerBookingDay"})

BookingPolicyOps1 ==
  Ops({"admin"}, {"bookingPolicy", "bookingPolicyHistory", "publishBookingPolicy",
      "upsertBookingMilestone", "removeBookingMilestone", "bookingCampaigns",
      "upsertBookingCampaign", "removeBookingCampaign", "bookingCampaignImpact",
      "simulateBookingPolicy"})
  \cup Ops({"admin", "merchant", "support", "washer"}, {"maxServiceRadiusKm"})
  \cup Ops({"admin", "merchant", "washer"}, {"bookingMilestones", "myBookingEntitlement"})
  \cup Ops({"admin", "washer"}, {"myMilestoneProgress"})

BookingPolicyOps2 ==
  Ops({"admin"}, {"providerBookingEntitlement"})

BranchesOps ==
  Ops({"merchant"}, {"createBranch", "updateBranch", "setBranchOnline", "archiveBranch",
      "restoreBranch"})
  \cup Ops(AnyRole, {"getMyBranches", "getBranch"})
  \cup Ops(ProviderOwners, {"setPayAtHandover"})

CampaignsAdminOps ==
  Ops({"admin"}, {"list", "one", "createCampaign", "updateCampaign"})

CampaignsDeliveryOps ==
  Ops(AnyRole, {"next", "claimCampaignOffer", "markCampaignClicked", "markCampaignDismissed"})

ChatOps ==
  Ops(AppRoles, {"myConversations", "conversationMessages", "sendMessage", "uploadChatImage"})
  \cup Ops(BackOffice, {"adminConversations", "adminConversationMessages", "adminSendMessage"})
  \cup Ops({"customer"}, {"startConversation"})
  \cup Ops(AnyRole, {"startCourierConversation"})

ConsentsOps ==
  Ops(AnyRole, {"myConsents"})
  \cup Ops(BackOffice, {"userConsents"})

CostingOps ==
  Gated(AnyRole, {"costing_create", "costing_update"}, {"getCostingConfig", "getCostingReports",
      "upsertCostingReport"})
  \cup Gated(AnyRole, {"costing_update"}, {"upsertCostingConfig"})

CourierVerificationOps ==
  Open({"courier"}, {"AllowUnverifiedCourier"}, {"submitCourierSelfie", "myCourierSelfie"})
  \cup Ops(BackOffice, {"courierSelfieQueue", "revokeCourierSelfie"})

DevicesOps ==
  Open(ShopFloor, {"AllowUnregisteredDevice"}, {"registerDevice", "getMyDevice", "myBranchOptions",
      "myOwner", "claimDevice", "remindDeviceApproval"})
  \cup Ops({"merchant"}, {"getMyDevices", "devicesByBranch", "approveDevice", "disapproveDevice",
           "blockDevice", "unblockDevice", "deleteDevice", "updateDevice"})

DirectoryOps ==
  Ops(BackOffice, {"directoryUsers", "directoryUser"})
  \cup Ops({"admin"}, {"impersonateUser"})

DiscoveryOps ==
  Ops({"customer"}, {"discoverProviders", "providerPickupDays"})
  \cup Ops(ProviderOwners, {"myProviderCard", "myProviderCards", "myProviderProfile"})
  \cup Ops({"customer", "merchant", "staff", "washer"}, {"providerProfile"})
  \cup Ops({"customer", "merchant", "washer"}, {"providerServices"})

FavoritesOps ==
  Ops({"customer"}, {"myFavorites", "addFavorite", "removeFavorite"})

InventoryOps1 ==
  Gated(ShopFloor, {"inventory_create"}, {"createInventory"})
  \cup Ops(ShopFloor, {"getMyInventory", "getInventory", "getInventoryTransactions",
           "getAllInventoryTransactions"})
  \cup Gated(ShopFloor, {"inventory_edit"}, {"updateInventory", "restockInventory",
           "adjustInventory", "damageInventory"})
  \cup Gated(ShopFloor, {"inventory_archive"}, {"archiveInventory"})

InventoryOps2 ==
  Gated(ShopFloor, {"inventory_archive"}, {"restoreInventory"})

KycOps1 ==
  Ops(ProviderOwners, {"submitKycDocument", "myKycStatus"})
  \cup Ops(BackOffice, {"kycReviewQueue", "claimKycCase", "releaseKycCase",
           "claimKycDocumentForReview", "approveKycDocument", "rejectKycDocument"})

KycOps2 ==
  Ops(BackOffice, {"completeKycCaseReview", "kycProviders", "kycProviderDetail", "kycAuditLog",
      "kycMetrics"})
  \cup Ops({"admin", "merchant", "support", "washer"}, {"kycDocumentUrl"})

MaintenanceOps ==
  Ops(BackOffice, {"maintenanceConfig"})
  \cup Ops({"admin"}, {"updateMaintenanceConfig"})
  \cup Open(AppRoles, {"AllowDuringMaintenance"}, {"maintenanceStatus"})

PublicMaintenanceOps ==
  Public({"publicMaintenanceStatus"})

MediaOps ==
  Ops({"admin", "merchant", "staff", "support", "washer"}, {"uploadMedia"})

BroadcastsOps ==
  Ops({"admin"}, {"broadcastPreview", "broadcastHistory", "sendBroadcast"})

NotificationsFeedOps ==
  Ops(AnyRole, {"myNotifications", "myUnreadNotificationCount", "markNotificationRead",
      "markAllNotificationsRead"})

NotificationsOps ==
  Open(AnyRole, {"AllowUnregisteredDevice"}, {"saveFcmToken", "removeFcmToken"})
  \cup Ops(AnyRole, {"notifyStaffLogin"})

NowQueueOps ==
  Ops(BackOffice, {"nowQueue"})

OnlineOrdersOps1 ==
  Ops({"customer"}, {"myOnlineOrders", "quoteOnlineOrder", "createOnlineOrder",
      "respondToProviderChange"})
  \cup Ops(AnyRole, {"onlineOrder", "onlineOrderTimeline"})
  \cup Ops(ProviderSide, {"incomingOnlineOrders", "assignableCouriers", "acceptOnlineOrder",
           "rejectOnlineOrder", "proposeOnlineOrderChange"})
  \cup Ops(Carriers, {"myAssignedOnlineOrders"})
  \cup Ops({"customer", "merchant", "staff", "washer"}, {"cancelOnlineOrder"})

OnlineOrdersOps2 ==
  Ops(ProviderSide, {"assignPickupStaff", "retryPickupSameDay", "escalateToPickupReschedule",
      "receiveOrderAtCounter", "markLaundryReady", "raiseQualityHold"})
  \cup Ops(Carriers, {"updateCourierLocation", "startPickupRoute", "arriveAtPickup",
           "recordPickupWeight", "recordPickupPayment", "recordFailedPickupAttempt"})
  \cup Ops({"customer"}, {"reschedulePickup", "cancelAfterFailedPickup", "respondToQualityHold"})

OnlineOrdersOps3 ==
  Ops({"customer"}, {"chooseReturnOption"})
  \cup Ops(ProviderSide, {"assignReturnStaff"})
  \cup Ops(Carriers, {"startReturnRoute", "arriveAtReturn", "recordDelivery",
           "recordFailedDeliveryAttempt"})
  \cup Ops({"courier", "merchant", "staff", "washer"}, {"uploadHandoverProof"})
  \cup Ops(BackOffice, {"adminOrders", "unsettledOrders"})

OnlineOrdersOps4 ==
  Ops(BackOffice, {"orderStatusOptions", "overrideOrderStatus", "reinstateAbandonedOrder"})
  \cup Ops(ProviderSide, {"confirmReturnedToProvider", "verifySelfPickup"})
  \cup Ops({"customer", "merchant", "staff", "washer"}, {"scheduleRedelivery"})

OperationalContextOps ==
  Ops(BackOffice, {"operationalContext"})

OrderDashboardOps ==
  Ops(ProviderSide, {"orderDashboard"})

PermissionsOps ==
  Ops({"admin"}, {"createPermission", "updatePermission", "deletePermission"})
  \cup Ops(ShopFloor, {"myPermissionGroups", "listPermissions", "getPermission"})
  \cup Ops(BackOffice, {"listAdminPermissions"})

PlatformAnalyticsOps ==
  Ops({"admin"}, {"platformOverview"})

PlatformFeeOps1 ==
  Ops({"admin", "merchant", "staff", "support", "washer"}, {"myEffectiveCommission"})
  \cup Ops({"admin", "customer", "merchant", "staff", "support", "washer"},
           {"currentPlatformFeePercent"})
  \cup Ops(BackOffice, {"platformStatsToday"})
  \cup Ops({"admin"}, {"platformFeeRules", "platformFeeRuleHistory", "previewPlatformFeeRule",
           "createPlatformFeeRule", "updatePlatformFeeRule", "setPlatformFeeRuleActive",
           "seedPlatformFeeRules", "platformFeeHistory"})

PlatformFeeOps2 ==
  Ops({"admin"}, {"setPlatformFee"})

PosOrdersOps1 ==
  Gated(ShopFloor, {"order_create"}, {"createOrder"})
  \cup Ops(ShopFloor, {"getMyOrders", "getOrderHistory", "getOrder", "getOrderByClaimCode",
           "getOrderTransactions", "getMyTransactions", "getReceipt"})
  \cup Gated(ShopFloor, {"order_update_status"}, {"updateOrderDetails", "markOrderInProgress"})

PosOrdersOps2 ==
  Gated(ShopFloor, {"order_update_status"}, {"markOrderReady", "rescheduleOrder", "addOrderItems"})
  \cup Gated(ShopFloor, {"order_confirm_pickup", "order_create"}, {"processPayment"})
  \cup Gated(ShopFloor, {"order_confirm_pickup"}, {"processPickup"})
  \cup Gated(ShopFloor, {"order_cancel"}, {"cancelOrder", "voidOrder"})

PresenceOps ==
  Ops(AnyRole, {"pingPresence", "presence"})

ProductsOps ==
  Ops(ShopFloor, {"getMyProducts", "getInventoryProducts", "getProduct"})
  \cup Gated(ShopFloor, {"product_create"}, {"createProduct"})
  \cup Gated(ShopFloor, {"product_update"}, {"updateProduct"})
  \cup Gated(ShopFloor, {"product_archive"}, {"archiveProduct", "restoreProduct"})

PromotionsOps ==
  Ops({"admin"}, {"promoCodes", "promoCode", "promoUsageSummary", "validatePromoCode",
      "createPromoCode", "updatePromoCode", "setPromoCodeActive", "redeemPromoCode"})

UserVouchersOps ==
  Ops(AnyRole, {"myVouchers"})

RatingsOps ==
  Ops({"customer"}, {"submitRating", "updateRating", "myRatingForOrder"})
  \cup Ops({"customer", "merchant", "washer"}, {"reportRating"})
  \cup Ops(BackOffice, {"moderateTakedown", "restoreRating", "dismissRatingReport",
           "ratingModerationQueue"})
  \cup Ops(ProviderOwners, {"respondToReview"})
  \cup Ops({"admin", "customer", "merchant", "support", "washer"}, {"shopRatings"})

RolesOps ==
  Ops({"admin"}, {"createRole", "listRoles", "getRole", "updateRole", "deleteRole"})
  \cup Public({"signupRoles"})

SearchOps ==
  Ops(BackOffice, {"searchOperationalEntities"})

ServicesOps ==
  Gated(ShopFloor, {"service_create"}, {"createService"})
  \cup Ops(ShopFloor, {"getMyServices", "getService"})
  \cup Gated(ShopFloor, {"service_edit"}, {"updateService"})
  \cup Gated(ShopFloor, {"service_archive"}, {"archiveService", "restoreService", "deleteService"})

SiteContentOps1 ==
  Ops({"admin"}, {"siteFaqEntries", "createSiteFaqEntry", "updateSiteFaqEntry",
      "deleteSiteFaqEntry", "siteServiceAreas", "createSiteServiceArea", "updateSiteServiceArea",
      "deleteSiteServiceArea", "siteAnnouncements", "createSiteAnnouncement"})

SiteContentOps2 ==
  Ops({"admin"}, {"updateSiteAnnouncement", "deleteSiteAnnouncement"})

StaffOps ==
  Ops(ProviderOwners, {"createStaff", "getMyStaff", "getStaff", "updateStaff", "archiveStaff",
      "restoreStaff", "generateStaffResetLink"})

MySupportTicketsOps ==
  Ops({"customer", "merchant", "washer"}, {"myOpenSupportTicket", "mySupportTicketNotes",
      "createMySupportTicket", "addMySupportTicketNote", "uploadMySupportTicketImage",
      "markMySupportTicketRead", "closeMySupportTicket"})

SupportTicketsOps ==
  Ops(BackOffice, {"supportTickets", "supportTicket", "supportTicketMetrics", "createSupportTicket",
      "addSupportTicketNote", "uploadSupportTicketImage", "setSupportTicketStatus",
      "assignSupportTicket", "setSupportTicketPriority", "resolveSupportTicket"})

TasksOps ==
  Ops(ShopFloor, {"getMyTasks", "completeTask"})
  \cup Ops({"merchant"}, {"createTask", "updateTask", "deleteTask"})

UsersOps1 ==
  Public({"registerUser"})
  \cup Open(AnyRole, {"AllowUnregisteredDevice", "AllowUnverifiedCourier"}, {"getMe"})
  \cup Ops(AnyRole, {"updateUser", "revokeMySessions"})
  \cup Ops({"admin"}, {"listUsers", "createAdminUser", "revokeUserSessions", "resendAdminInvite"})
  \cup Ops(BackOffice, {"listAdminUsers", "listMerchants"})

UsersOps2 ==
  Ops(BackOffice, {"countUsersByRole"})
  \cup Ops({"admin"}, {"deactivateUser", "reactivateUser"})

WalletsAdminOps ==
  Ops({"admin"}, {"adminWallets", "adminWalletLedger", "adminTopUps", "walletThresholds",
      "adjustWalletBalance"})

WalletsOps ==
  Ops(ProviderOwners, {"walletSummary", "walletLedger", "topUpHistory", "initializeTopUp",
      "topUpStatus"})
  \cup Ops({"admin"}, {"walletReconciliationReport"})

WasherServiceOfferingsOps ==
  Ops({"washer"}, {"myWasherServiceOfferings", "setWasherServiceOffering",
      "removeWasherServiceOffering"})

WasherServiceProductsOps ==
  Ops({"washer"}, {"setServiceProductDefault", "removeServiceProductDefault"})
  \cup Ops({"customer", "washer"}, {"serviceProductSlots"})

WasherServiceTemplatesOps ==
  Ops({"admin", "washer"}, {"availableWasherServiceTemplates"})
  \cup Ops({"admin"}, {"allWasherServiceTemplates", "createWasherServiceTemplate",
           "updateWasherServiceTemplate", "setWasherServiceTemplateActive"})

WasherAdminOps ==
  Ops({"admin"}, {"setWasherDailyOrderCap", "suspendWasher", "reactivateWasher"})

WasherCertificationOps ==
  Ops({"admin", "support", "washer"}, {"certificationProofUrls"})

WasherOps ==
  Ops({"washer"}, {"getWasherProfile", "toggleWasherAvailability", "updateWasherProfile",
      "getWasherStats", "getWasherReport", "submitCertificationProof"})

Operations ==
  UNION {AccountDeletionOps, ActivityLogsOps, AddressesOps, AdminAuditOps, AnalyticsOps, AppOps,
         BiometricOps, BookingAvailabilityOps1, BookingAvailabilityOps2, BookingPolicyOps1,
         BookingPolicyOps2, BranchesOps, CampaignsAdminOps, CampaignsDeliveryOps, ChatOps,
         ConsentsOps, CostingOps, CourierVerificationOps, DevicesOps, DirectoryOps,
         DiscoveryOps, FavoritesOps, InventoryOps1, InventoryOps2, KycOps1, KycOps2,
         MaintenanceOps, PublicMaintenanceOps, MediaOps, BroadcastsOps, NotificationsFeedOps,
         NotificationsOps, NowQueueOps, OnlineOrdersOps1, OnlineOrdersOps2, OnlineOrdersOps3,
         OnlineOrdersOps4, OperationalContextOps, OrderDashboardOps, PermissionsOps,
         PlatformAnalyticsOps, PlatformFeeOps1, PlatformFeeOps2, PosOrdersOps1, PosOrdersOps2,
         PresenceOps, ProductsOps, PromotionsOps, UserVouchersOps, RatingsOps, RolesOps,
         SearchOps, ServicesOps, SiteContentOps1, SiteContentOps2, StaffOps,
         MySupportTicketsOps, SupportTicketsOps, TasksOps, UsersOps1, UsersOps2,
         WalletsAdminOps, WalletsOps, WasherServiceOfferingsOps, WasherServiceProductsOps,
         WasherServiceTemplatesOps, WasherAdminOps, WasherCertificationOps, WasherOps}

=============================================================================
