--------------------------- MODULE MCDashboardForms ---------------------------
EXTENDS DashboardForms, PageTable
MCPages ==
  {AdminUsers, AdminCabang, AdminPartners, AdminProductCategories, AdminCareers, AdminPromo,
   AdminContent, AdminLeads, AdminAgents, AdminFinance, AdminLeaderboard, AdminDashboard,
   AdminTelemetry, AdminAgentDirectory, AdminCatalog, AdminWaAccounts, AdminWaCampaigns,
   AdminWaBlastContacts, AdminWaCampaignDetail, AdminWaCampaignForm, AdminPixelCampaigns,
   AdminPixelCampaignForm, AdminPixelEventTester, AgencyRegistration, ForgotPassword,
   ResetPassword, AdminPixelAnalytics, AgentPixelAnalytics, SalesPixelAnalytics,
   AdminLandingSlides, AdminArticleForm, AdminPromoForm, AdminForm, AdminProductForm,
   AccountSettings, AgentSettings, AgentLeads, AgentDashboard, AgentLeaderboard, AgentKnowledge,
   AgentEarnings, SalesDelivery, Notifications, OwnerProspek, OwnerProspekFineReport,
   OwnerDashboard, OwnerTargetActual, OwnerRaport, OwnerRaportEmployeeDetail, PicRaportDashboard,
   PicRaportMaster, PicRaportHistory, PicRaportEmployeeDetail, KaryawanDashboard, KaryawanProspek,
   KaryawanProspekDatabase, KaryawanRaport, KaryawanRaportHistory, Career, Catalog, Promo, Blog,
   Home, ProductDetail, ArticleDetail}
=============================================================================
