------------------------------- MODULE PageTable -------------------------------
(***************************************************************************)
(* The choices each store and each page of the front end makes, in the     *)
(* terms of DashboardPages and DashboardForms.                             *)
(*                                                                         *)
(* A store: the loads its early returns drop while one is under way        *)
(* (drops), whether it keeps a list it has (caches), whether it refuses a  *)
(* plain load after an error (shy), whether it is the page's own state     *)
(* (own), whether a failed load empties it (empties) and whether its loads *)
(* leave isLoading alone (quiet).                                          *)
(* A view: how the page loads on entry, what its error box and its reload  *)
(* button do, what it hides while loading or on an error, and whether it   *)
(* has a filter the server applies (keyed), an effect with a cleanup       *)
(* (guarded), a timer (polls), an effect that loads an empty list (eager). *)
(* A write: what it does at its start (mark: it puts itself into the list),*)
(* what its answer causes, what its failure sets.  An operation: a write,  *)
(* the lock of its control, what the user is told, and whether it belongs  *)
(* to a row of the list.  Operations that differ in their wording are one. *)
(***************************************************************************)
EXTENDS TLC

Store == [drops |-> {}, caches |-> FALSE, shy |-> FALSE, own |-> FALSE, empties |-> FALSE, quiet |-> FALSE]
OwnState == [own |-> TRUE] @@ Store

View == [opens |-> "plain", retry |-> "no", refresh |-> "no", hides |-> {},
         keyed |-> FALSE, guarded |-> FALSE, polls |-> FALSE, eager |-> FALSE]

Write(starts, after, failing) == [starts |-> starts, after |-> after, fails |-> failing]
OwnWrite(after) == Write({}, after, {})

Op(write, lock, says)    == write @@ [lock |-> lock, says |-> says, row |-> FALSE]
RowOp(write, lock, says) == write @@ [lock |-> lock, says |-> says, row |-> TRUE]

NoForm == [fills |-> "none"]
Form(fills, switches, upload, done, save) ==
  [fills |-> fills, switches |-> switches, upload |-> upload, done |-> done, save |-> save]

Page(name, store, view, operations, form) ==
  view @@ [name |-> name, store |-> store, ops |-> operations, form |-> form]

ReadOnly(name, store, view) == Page(name, store, view, {}, NoForm)

-----------------------------------------------------------------------------
(* The stores *)

useUserStore    == [drops |-> {"plain", "forced"}, caches |-> TRUE] @@ Store
UserWrite       == Write({}, "reload", {"error"})
PasswordReset   == Write({}, "none", {"error"})

useCabangStore  == [drops |-> {"plain"}, caches |-> TRUE] @@ Store
CabangWrite     == Write({"spin", "clear"}, "reload", {"unspin", "error"})

usePartnerStore == [drops |-> {"plain"}, caches |-> TRUE] @@ Store
PartnerWrite    == Write({"spin", "clear"}, "reload", {"unspin", "error"})
PartnerDelete   == Write({"clear"}, "patch", {"unspin", "error"})

useCareerStore  == Store
JobWrite        == Write({}, "reload", {"error"})

usePromoStore   == [drops |-> {"plain", "forced"}, caches |-> TRUE] @@ Store
PromoWrite      == Write({"spin", "clear"}, "restart", {"unspin", "error"})

useBlogStore    == [drops |-> {"plain", "forced"}, caches |-> TRUE] @@ Store
PostWrite       == Write({"spin", "clear"}, "restart", {"unspin", "error"})

useProductStore == [drops |-> {"plain"}, caches |-> TRUE, shy |-> TRUE] @@ Store
ProductWrite    == Write({"spin", "clear"}, "restart", {"unspin", "error"})

useLandingStore == [drops |-> {"plain", "forced"}, caches |-> TRUE] @@ Store
SlideWrite      == Write({}, "patch", {})

useCatalogStore == [drops |-> {"plain", "forced"}] @@ Store

useAdminNetworkStore == Store
NetworkWrite    == Write({}, "reload", {"error"})

useAgentStore   == Store
AgentClaims     == [quiet |-> TRUE] @@ Store
ClaimWrite      == Write({"spin"}, "reload", {"unspin", "error"})

useDashboardNotificationsStore == Store
NotificationWrite == Write({}, "patch", {})

useKaryawanProspekStore == Store
ProspekWrite    == Write({}, "reload", {})
ProspekDelete   == Write({}, "patch", {})

usePicRaportStore == Store
ReviewWrite     == Write({}, "patch", {})
DivisionWrite   == Write({"mark"}, "kept", {"error"})

useOffRequestStore == Store
OffWrite        == Write({}, "reload", {})

useJobdeskReportSettingsStore == Store
WindowWrite     == Write({"clear", "mark"}, "patch", {"error"})

-----------------------------------------------------------------------------
(* The admin's lists *)

AdminUsersView == [hides |-> {"loading", "error"}] @@ View
AdminUsersOps  == {RowOp(UserWrite, "free", "checked"), RowOp(PasswordReset, "reset", "checked"),
                   RowOp(UserWrite, "delete", "checked")}
AdminUsers == Page("AdminUsers", useUserStore, AdminUsersView, AdminUsersOps, NoForm)

AdminCabangView == [retry |-> "forced"] @@ View
AdminCabangOps  == {Op(CabangWrite, "save", "silent"), RowOp(CabangWrite, "free", "silent")}
AdminCabang == Page("AdminCabang", useCabangStore, AdminCabangView, AdminCabangOps, NoForm)

AdminPartnersView == [opens |-> "forced"] @@ View
AdminPartnersOps  == {Op(PartnerWrite, "free", "silent"), RowOp(PartnerWrite, "flag", "checked"),
                      RowOp(PartnerDelete, "free", "silent")}
AdminPartners == Page("AdminPartners", usePartnerStore, AdminPartnersView, AdminPartnersOps, NoForm)

AdminProductCategoriesOps == {Op(OwnWrite("later"), "save", "checked"),
                              RowOp(OwnWrite("later"), "free", "checked")}
AdminProductCategories ==
  Page("AdminProductCategories", OwnState, View, AdminProductCategoriesOps, NoForm)

AdminCareersView == [retry |-> "plain"] @@ View
AdminCareersOps  == {Op(JobWrite, "free", "always"), RowOp(JobWrite, "free", "always")}
AdminCareers == Page("AdminCareers", useCareerStore, AdminCareersView, AdminCareersOps, NoForm)

AdminPromoView == [opens |-> "no", hides |-> {"loading", "error"}] @@ View
AdminPromo     == ReadOnly("AdminPromo", usePromoStore, AdminPromoView)

AdminContentView == [opens |-> "no", hides |-> {"loading", "error"}] @@ View
AdminContent     == ReadOnly("AdminContent", useBlogStore, AdminContentView)

AdminLeadsView == [refresh |-> "flag"] @@ View
AdminLeadsOps  == {RowOp(NetworkWrite, "free", "checked")}
AdminLeads == Page("AdminLeads", useAdminNetworkStore, AdminLeadsView, AdminLeadsOps, NoForm)

AdminAgentsOps == {RowOp(Write({"mark"}, "reload", {"error"}), "free", "silent"),
                   RowOp(NetworkWrite, "free", "silent"), RowOp(PasswordReset, "free", "checked")}
AdminAgents == Page("AdminAgents", useAdminNetworkStore, View, AdminAgentsOps, NoForm)

AdminFinanceView == [retry |-> "plain", hides |-> {}] @@ View
AdminFinanceOps  == {RowOp(NetworkWrite, "free", "silent")}
AdminFinance == Page("AdminFinance", useAdminNetworkStore, AdminFinanceView, AdminFinanceOps, NoForm)

AdminLeaderboardOps == {RowOp(NetworkWrite, "free", "silent")}
AdminLeaderboard == Page("AdminLeaderboard", useAdminNetworkStore, View, AdminLeaderboardOps, NoForm)

AdminDashboardOps == {RowOp(NetworkWrite, "free", "silent")}
AdminDashboard == Page("AdminDashboard", useAdminNetworkStore, View, AdminDashboardOps, NoForm)

AdminTelemetry      == ReadOnly("AdminTelemetry", useAdminNetworkStore, View)
AdminAgentDirectory == ReadOnly("AdminAgentDirectory", useAdminNetworkStore, View)

AdminCatalogView == [keyed |-> TRUE, hides |-> {"loading", "error"}] @@ View
AdminCatalogOps  == {RowOp(OwnWrite("last"), "free", "checked"), Op(OwnWrite("last"), "markup", "checked")}
AdminCatalog == Page("AdminCatalog", useCatalogStore, AdminCatalogView, AdminCatalogOps, NoForm)

-----------------------------------------------------------------------------
(* WhatsApp and pixel *)

AdminWaAccountsView == [polls |-> TRUE] @@ View
AdminWaAccountsOps  == {Op(OwnWrite("later"), "save", "checked"), RowOp(OwnWrite("later"), "free", "checked")}
AdminWaAccounts == Page("AdminWaAccounts", OwnState, AdminWaAccountsView, AdminWaAccountsOps, NoForm)

AdminWaCampaignsOps == {RowOp(OwnWrite("later"), "free", "checked"), RowOp(OwnWrite("reload"), "import", "checked")}
AdminWaCampaigns == Page("AdminWaCampaigns", OwnState, View, AdminWaCampaignsOps, NoForm)

AdminWaBlastContactsView == [keyed |-> TRUE] @@ View
\* The upload of a file and the save of one contact have a lock each.
AdminWaBlastContactsOps  == {RowOp(OwnWrite("later"), "free", "always"),
                             Op(OwnWrite("later"), "save", "checked")}
AdminWaBlastContacts ==
  Page("AdminWaBlastContacts", OwnState, AdminWaBlastContactsView, AdminWaBlastContactsOps, NoForm)

AdminWaCampaignDetailView == [polls |-> TRUE, refresh |-> "flag"] @@ View
AdminWaCampaignDetailOps  == {RowOp(OwnWrite("reload"), "action", "checked"), RowOp(OwnWrite("later"), "free", "checked"),
                              RowOp(OwnWrite("later"), "import", "checked")}
AdminWaCampaignDetailForm == Form("select", FALSE, "none", "close", RowOp(OwnWrite("reload"), "save", "checked"))
AdminWaCampaignDetail ==
  Page("AdminWaCampaignDetail", OwnState, AdminWaCampaignDetailView, AdminWaCampaignDetailOps,
       AdminWaCampaignDetailForm)

AdminWaCampaignFormSave == Form("blank", FALSE, "free", "leave", Op(OwnWrite("none"), "save", "checked"))
AdminWaCampaignForm == Page("AdminWaCampaignForm", OwnState, View, {}, AdminWaCampaignFormSave)

AdminPixelCampaignsView == [keyed |-> TRUE] @@ View
AdminPixelCampaignsOps  == {RowOp(OwnWrite("later"), "free", "silent")}
AdminPixelCampaigns ==
  Page("AdminPixelCampaigns", OwnState, AdminPixelCampaignsView, AdminPixelCampaignsOps, NoForm)

AdminPixelCampaignFormSave == Form("late", FALSE, "none", "leave", Op(OwnWrite("none"), "save", "checked"))
AdminPixelCampaignForm ==
  Page("AdminPixelCampaignForm", OwnState, View, {}, AdminPixelCampaignFormSave)

AdminPixelEventTesterForm == Form("blank", FALSE, "none", "stay", Op(OwnWrite("none"), "save", "checked"))
AdminPixelEventTester ==
  Page("AdminPixelEventTester", OwnState, View, {}, AdminPixelEventTesterForm)

PixelState == [empties |-> TRUE] @@ OwnState
PixelView  == [keyed |-> TRUE, refresh |-> "free"] @@ View
AdminPixelAnalytics == ReadOnly("AdminPixelAnalytics", PixelState, PixelView)
AgentPixelAnalytics == ReadOnly("AgentPixelAnalytics", PixelState, PixelView)
SalesPixelAnalytics == ReadOnly("SalesPixelAnalytics", PixelState, PixelView)

-----------------------------------------------------------------------------
(* Editors of the shop and of the accounts *)

AdminLandingSlidesView == [retry |-> "forced"] @@ View
AdminLandingSlidesOps  == {RowOp(SlideWrite, "free", "checked")}
AdminLandingSlidesForm == Form("select", TRUE, "free", "refill", RowOp(SlideWrite, "save", "checked"))
AdminLandingSlides ==
  Page("AdminLandingSlides", useLandingStore, AdminLandingSlidesView, AdminLandingSlidesOps,
       AdminLandingSlidesForm)

AdminArticleFormSave == Form("store", FALSE, "free", "leave", Op(PostWrite, "save", "checked"))
AdminArticleForm == Page("AdminArticleForm", useBlogStore, View, {}, AdminArticleFormSave)

AdminPromoFormSave == Form("store", FALSE, "none", "leave", Op(PromoWrite, "save", "checked"))
AdminPromoForm == Page("AdminPromoForm", usePromoStore, View, {}, AdminPromoFormSave)

AdminFormOps  == {RowOp(UserWrite, "free", "checked")}
AdminFormSave == Form("mirror", FALSE, "none", "leave", Op(UserWrite, "save", "checked"))
AdminForm == Page("AdminForm", useUserStore, View, AdminFormOps, AdminFormSave)

AdminProductFormView == [opens |-> "absent"] @@ View
AdminProductFormSave == Form("follow", FALSE, "free", "stay", Op(ProductWrite, "save", "checked"))
AdminProductForm == Page("AdminProductForm", useProductStore, AdminProductFormView, {}, AdminProductFormSave)

FormOnlyView == [opens |-> "none"] @@ View
CheckedSave  == Op(OwnWrite("none"), "save", "checked")

AccountSettingsForm == Form("blank", FALSE, "none", "stay", CheckedSave)
AccountSettings == Page("AccountSettings", OwnState, FormOnlyView, {}, AccountSettingsForm)
AgentSettingsForm == Form("blank", FALSE, "none", "stay", CheckedSave)
AgentSettings == Page("AgentSettings", OwnState, FormOnlyView, {}, AgentSettingsForm)

-----------------------------------------------------------------------------
(* Agents, sales and notifications *)

AgentLeads       == ReadOnly("AgentLeads", useAgentStore, View)
AgentDashboard   == ReadOnly("AgentDashboard", useAgentStore, View)
AgentLeaderboard == ReadOnly("AgentLeaderboard", useAgentStore, View)

AgentKnowledgeView == [hides |-> {"loading"}] @@ View
AgentKnowledge     == ReadOnly("AgentKnowledge", useProductStore, AgentKnowledgeView)

AgentEarningsOps == {Op(ClaimWrite, "withdraw", "checked")}
AgentEarnings == Page("AgentEarnings", AgentClaims, View, AgentEarningsOps, NoForm)

SalesDeliveryView == [refresh |-> "free"] @@ View
SalesDeliverySave == Form("blank", FALSE, "none", "clear", Op(OwnWrite("reload"), "save", "checked"))
SalesDelivery == Page("SalesDelivery", OwnState, SalesDeliveryView, {}, SalesDeliverySave)

NotificationsView == [refresh |-> "flag"] @@ View
NotificationsOps  == {RowOp(NotificationWrite, "free", "silent"), Op(NotificationWrite, "markAll", "checked")}
Notifications ==
  Page("Notifications", useDashboardNotificationsStore, NotificationsView, NotificationsOps, NoForm)

-----------------------------------------------------------------------------
(* Performance: prospects, raport, OFF requests *)

GuardedState == [empties |-> TRUE] @@ OwnState
PeriodView   == [keyed |-> TRUE, guarded |-> TRUE] @@ View
OwnerProspek           == ReadOnly("OwnerProspek", GuardedState, PeriodView)
OwnerProspekFineReport == ReadOnly("OwnerProspekFineReport", GuardedState, PeriodView)

OwnerDashboard == ReadOnly("OwnerDashboard", usePicRaportStore, View)
OwnerTargetActual == ReadOnly("OwnerTargetActual", useCabangStore, View)

OwnerRaportView == [keyed |-> TRUE] @@ View
OwnerRaportOps  == {Op(WindowWrite, "free", "checked")}
OwnerRaport == Page("OwnerRaport", usePicRaportStore, OwnerRaportView, OwnerRaportOps, NoForm)
OwnerRaportEmployeeDetail == ReadOnly("OwnerRaportEmployeeDetail", usePicRaportStore, View)

PicRaportDashboardOps  == {RowOp(OffWrite, "off", "checked")}
PicRaportDashboardForm == Form("select", TRUE, "none", "next", RowOp(ReviewWrite, "review", "checked"))
PicRaportDashboard ==
  Page("PicRaportDashboard", usePicRaportStore, View, PicRaportDashboardOps, PicRaportDashboardForm)

PicRaportMasterOps == {Op(DivisionWrite, "free", "always")}
PicRaportMaster == Page("PicRaportMaster", usePicRaportStore, View, PicRaportMasterOps, NoForm)

PicRaportHistoryView == [keyed |-> TRUE] @@ View
PicRaportHistory == ReadOnly("PicRaportHistory", usePicRaportStore, PicRaportHistoryView)
PicRaportEmployeeDetail == ReadOnly("PicRaportEmployeeDetail", usePicRaportStore, View)

KaryawanDashboardOps == {Op(OffWrite, "off", "checked")}
KaryawanDashboard == Page("KaryawanDashboard", useOffRequestStore, View, KaryawanDashboardOps, NoForm)

KaryawanProspekSave == Form("blank", FALSE, "none", "clear", Op(ProspekWrite, "save", "checked"))
KaryawanProspek == Page("KaryawanProspek", useKaryawanProspekStore, View, {}, KaryawanProspekSave)

KaryawanProspekDatabaseOps == {RowOp(ProspekWrite, "free", "checked"), RowOp(ProspekDelete, "free", "checked")}
KaryawanProspekDatabase ==
  Page("KaryawanProspekDatabase", useKaryawanProspekStore, View, KaryawanProspekDatabaseOps, NoForm)

KaryawanRaportOps == {Op(OwnWrite("reload"), "free", "always")}
KaryawanRaport == Page("KaryawanRaport", usePicRaportStore, View, KaryawanRaportOps, NoForm)
KaryawanRaportHistory == ReadOnly("KaryawanRaportHistory", usePicRaportStore, View)

-----------------------------------------------------------------------------
(* The public pages *)

CareerView == [retry |-> "plain", hides |-> {"loading", "error"}] @@ View
CareerForm == Form("blank", FALSE, "none", "clear", Op(OwnWrite("none"), "apply", "checked"))
Career == Page("Career", useCareerStore, CareerView, {}, CareerForm)

AgencyRegistrationForm == Form("blank", FALSE, "none", "leave", CheckedSave)
AgencyRegistration == Page("AgencyRegistration", OwnState, FormOnlyView, {}, AgencyRegistrationForm)

ForgotPasswordForm == Form("blank", FALSE, "none", "leave", CheckedSave)
ForgotPassword == Page("ForgotPassword", OwnState, FormOnlyView, {}, ForgotPasswordForm)

ResetPasswordForm == Form("blank", FALSE, "none", "leave", CheckedSave)
ResetPassword == Page("ResetPassword", OwnState, FormOnlyView, {}, ResetPasswordForm)

SpinnerView == [hides |-> {"loading"}] @@ View
Catalog     == ReadOnly("Catalog", useProductStore, SpinnerView)
Promo       == ReadOnly("Promo", usePromoStore, SpinnerView)
Blog        == ReadOnly("Blog", useBlogStore, SpinnerView)

EagerView     == [hides |-> {"loading"}, eager |-> TRUE] @@ View
Home          == ReadOnly("Home", useProductStore, EagerView)
ProductDetail == ReadOnly("ProductDetail", useProductStore, EagerView)
ArticleDetail == ReadOnly("ArticleDetail", useBlogStore, SpinnerView)
=============================================================================
