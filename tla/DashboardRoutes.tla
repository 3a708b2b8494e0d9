---------------------------- MODULE DashboardRoutes ----------------------------
(***************************************************************************)
(* The dashboard's navigation: the router's table with its role guards     *)
(* (App.tsx), the layout that sends a user away from a page its role may   *)
(* not open, the menus the layout offers, and the session that comes, goes *)
(* and changes role under all of them.                                     *)
(*                                                                         *)
(* Three tables, written in three files, have to agree for every role: the *)
(* prefixes of dashboardAccess.ts, the guards of App.tsx and the menus of  *)
(* DashboardLayout.tsx.  Where they do not, a link leads somewhere else,   *)
(* or two redirects chase each other.                                      *)
(*                                                                         *)
(* A path is its sequence of segments, so that the code's test             *)
(* `path === prefix || path.startsWith(prefix + '/')` is IsPrefix.         *)
(***************************************************************************)
EXTENDS Naturals, Sequences, SequencesExt

CONSTANTS
  Unrouted,    \* addresses under /dashboard that no route names
  MaxHops      \* bound: the counter of redirects stays there

ASSUME HopsAssumption == MaxHops \in Nat /\ MaxHops > 3

Roles == {"admin", "owner", "pic_raport", "karyawan", "operator", "admin-sales", "agent"}

NoRole == "none"      \* no signed-in user
NoPath == <<"nowhere">>

D(s)     == <<"dashboard">> \o s
Admin(s) == <<"dashboard", "admin">> \o s

LoginPath   == <<"login">>
UsersAlias  == <<"admin", "users">>          \* the one guarded path outside /dashboard
RootPath    == <<"dashboard">>
SettingsPath == D(<<"settings">>)

-----------------------------------------------------------------------------
(* dashboardAccess.ts *)

getDashboardHomeByRole(role) ==
  CASE role = "admin"       -> Admin(<<>>)
    [] role = "owner"       -> D(<<"owner">>)
    [] role = "pic_raport"  -> D(<<"pic-raport">>)
    [] role = "karyawan"    -> D(<<"karyawan">>)
    [] role = "operator"    -> Admin(<<"wa", "campaigns">>)
    [] role = "admin-sales" -> D(<<"sales">>)
    [] OTHER                -> D(<<"agent">>)

\* Mutant: the sales role's WhatsApp pages are left out.
PrefixesWithoutBlast(role) ==
  {SettingsPath} \cup
  CASE role = "admin"       -> {Admin(<<>>)}
    [] role = "owner"       -> {D(<<"owner">>)}
    [] role = "pic_raport"  -> {D(<<"pic-raport">>)}
    [] role = "karyawan"    -> {D(<<"karyawan">>)}
    [] role = "operator"    -> {D(<<"operator", "prospek">>)} \cup
         {Admin(<<s>>) : s \in {"catalog", "categories", "promo", "content",
                                "partners", "notifications", "wa", "pixel"}}
    [] role = "admin-sales" -> {D(<<"sales">>)}
    [] role = "agent"       -> {D(<<"agent">>)}
    [] OTHER                -> {}

allowedPrefixesByRole(role) ==
  {SettingsPath} \cup
  CASE role = "admin"       -> {Admin(<<>>)}
    [] role = "owner"       -> {D(<<"owner">>)}
    [] role = "pic_raport"  -> {D(<<"pic-raport">>)}
    [] role = "karyawan"    -> {D(<<"karyawan">>)}
    [] role = "operator"    -> {D(<<"operator", "prospek">>)} \cup
         {Admin(<<s>>) : s \in {"catalog", "categories", "promo", "content",
                                "partners", "notifications", "wa", "pixel"}}
    [] role = "admin-sales" -> {D(<<"sales">>), Admin(<<"wa">>)}
    [] role = "agent"       -> {D(<<"agent">>)}
    [] OTHER                -> {}

canAccessDashboardPath(role, path) ==
  role # NoRole /\ \E prefix \in allowedPrefixesByRole(role) : IsPrefix(prefix, path)

-----------------------------------------------------------------------------
(* App.tsx: which roles the RoleGuard of each route lets through.  "1" stands
   for the :id of a parameterised route.                                     *)

AdminRoutes ==
  {Admin(<<>>)} \cup
  {Admin(<<s>>) : s \in {"agents", "cabang", "telemetry", "users", "finance",
                         "leaderboard", "leads", "careers"}} \cup
  {Admin(<<"users", "new">>), Admin(<<"users", "edit", "1">>), Admin(<<"agents", "directory">>)}

ContentRoutes ==
  {Admin(<<s>>) : s \in {"catalog", "categories", "promo", "content", "partners", "notifications"}} \cup
  {Admin(<<s, "new">>) : s \in {"catalog", "promo", "content"}} \cup
  {Admin(<<s, "edit", "1">>) : s \in {"catalog", "promo", "content"}} \cup
  {Admin(<<"catalog", "bulk-import">>), Admin(<<"content", "landing-slides">>)}

\* Mutant: the list of campaigns is only the admin's (its guard sends the operator home, to itself).
BlastRoutesButCampaigns ==
  {Admin(<<"wa", s>>) : s \in {"accounts", "blast-contacts"}} \cup
  {Admin(<<"wa", "campaign", s>>) : s \in {"new", "1"}}

BlastRoutes ==
  {Admin(<<"wa", s>>) : s \in {"campaigns", "accounts", "blast-contacts"}} \cup
  {Admin(<<"wa", "campaign", s>>) : s \in {"new", "1"}}

PixelRoutes ==
  {Admin(<<s>>) : s \in {"pixel-campaigns", "pixel-analytics", "pixel-tester"}} \cup
  {Admin(<<"pixel-campaigns", s>>) : s \in {"new", "1"}}

OwnerRoutes ==
  {D(<<"owner">>)} \cup
  {D(<<"owner", s>>) : s \in {"prospek", "omset-cabang", "omset-realtime", "target-actual",
                              "top-sales", "top-nonsales", "raport"}} \cup
  {D(<<"owner", "prospek", "denda">>), D(<<"owner", "raport", "1">>)}

PicRaportRoutes ==
  {D(<<"pic-raport">>), D(<<"pic-raport", "karyawan", "1">>)} \cup
  {D(<<"pic-raport", s>>) : s \in {"master", "history"}}

KaryawanRoutes ==
  {D(<<"karyawan">>)} \cup
  {D(<<"karyawan", s>>) : s \in {"prospek", "raport"}} \cup
  {D(<<"karyawan", "prospek", "database">>), D(<<"karyawan", "raport", "history">>)}

OperatorRoutes == {D(<<"operator", "prospek">>), D(<<"operator", "prospek", "database">>)}

AgentRoutes ==
  {D(<<"agent">>), D(<<"agent", "prospek", "database">>)} \cup
  {D(<<"agent", s>>) : s \in {"knowledge", "leads", "earnings", "pixel-analytics", "prospek",
                              "leaderboard", "settings", "notifications"}}

SalesRoutes ==
  {D(<<"sales">>), D(<<"sales", "prospek", "database">>)} \cup
  {D(<<"sales", s>>) : s \in {"knowledge", "delivery", "pixel-analytics", "prospek",
                              "settings", "notifications"}}

Guarded == AdminRoutes \cup ContentRoutes \cup BlastRoutes \cup PixelRoutes \cup OwnerRoutes
             \cup PicRaportRoutes \cup KaryawanRoutes \cup OperatorRoutes \cup AgentRoutes
             \cup SalesRoutes \cup {SettingsPath}

GuardRoles(path) ==
  CASE path = SettingsPath             -> Roles
    [] path \in AdminRoutes            -> {"admin"}
    [] path \in ContentRoutes          -> {"admin", "operator"}
    [] path \in BlastRoutes            -> {"admin", "operator", "admin-sales"}
    [] path \in PixelRoutes            -> {"admin", "operator"}
    [] path \in OwnerRoutes            -> {"owner"}
    [] path \in PicRaportRoutes        -> {"pic_raport"}
    [] path \in KaryawanRoutes         -> {"karyawan"}
    [] path \in OperatorRoutes         -> {"operator"}
    [] path \in AgentRoutes            -> {"agent"}
    [] path \in SalesRoutes            -> {"admin-sales"}

\* Routes whose element is a bare <Navigate to=... replace />.
SalesMoved == {D(<<"sales", s>>) : s \in {"referral", "push-prospek"}}
AgentMoved == {D(<<"agent", s>>) : s \in {"push", "push-prospek"}}

Moved ==
  [p \in SalesMoved \cup AgentMoved |->
     IF p \in SalesMoved THEN D(<<"sales", "prospek">>) ELSE D(<<"agent", "prospek">>)]

\* DashboardAliasRedirect: short paths of the admin's pages.
Aliases ==
  [p \in {D(<<s>>) : s \in {"agen", "katalog", "promo", "telemetri"}} |->
     CASE p = D(<<"agen">>)      -> Admin(<<"agents">>)
       [] p = D(<<"katalog">>)   -> Admin(<<"catalog">>)
       [] p = D(<<"promo">>)     -> Admin(<<"promo">>)
       [] p = D(<<"telemetri">>) -> Admin(<<"telemetry">>)]

InDashboard(path) == IsPrefix(RootPath, path)

ASSUME AddressAssumption == \A path \in Unrouted : InDashboard(path)

\* What a user may type that concerns the dashboard.
Addresses == Guarded \cup DOMAIN Moved \cup DOMAIN Aliases
               \cup {RootPath, LoginPath, UsersAlias} \cup Unrouted

-----------------------------------------------------------------------------
(* DashboardLayout.tsx: what it offers to each role *)

adminSections ==
  {Admin(<<>>), SettingsPath, Admin(<<"agents", "directory">>), Admin(<<"wa", "campaigns">>),
   Admin(<<"content", "landing-slides">>)} \cup
  {Admin(<<s>>) : s \in {"telemetry", "pixel-analytics", "agents", "leaderboard", "leads", "careers",
                         "pixel-campaigns", "pixel-tester", "catalog", "categories", "promo",
                         "content", "partners", "finance", "users", "cabang"}}

agentSections ==
  {D(<<"agent">>), D(<<"agent", "prospek", "database">>), SettingsPath} \cup
  {D(<<"agent", s>>) : s \in {"leaderboard", "knowledge", "leads", "prospek",
                              "pixel-analytics", "earnings"}}

salesSections ==
  {D(<<"sales">>), D(<<"sales", "prospek", "database">>), SettingsPath} \cup
  {D(<<"sales", s>>) : s \in {"knowledge", "delivery", "prospek", "pixel-analytics"}} \cup
  {Admin(<<"wa", s>>) : s \in {"campaigns", "accounts", "blast-contacts"}}

operatorSections ==
  {Admin(<<s>>) : s \in {"catalog", "categories", "promo", "content", "partners",
                         "pixel-campaigns", "pixel-analytics", "pixel-tester"}} \cup
  {Admin(<<"wa", s>>) : s \in {"campaigns", "accounts", "blast-contacts"}} \cup
  {Admin(<<"content", "landing-slides">>), D(<<"operator", "prospek">>),
   D(<<"operator", "prospek", "database">>), SettingsPath}

ownerSections ==
  {D(<<"owner">>), D(<<"owner", "prospek", "denda">>), SettingsPath} \cup
  {D(<<"owner", s>>) : s \in {"prospek", "raport", "omset-cabang", "omset-realtime",
                              "target-actual", "top-sales", "top-nonsales"}}

picRaportSections ==
  {D(<<"pic-raport">>), D(<<"pic-raport", "history">>), D(<<"pic-raport", "master">>), SettingsPath}

karyawanSections ==
  {D(<<"karyawan">>), D(<<"karyawan", "prospek">>), D(<<"karyawan", "prospek", "database">>),
   D(<<"karyawan", "raport">>), D(<<"karyawan", "raport", "history">>), SettingsPath}

navSections(role) ==
  CASE role = "admin"       -> adminSections
    [] role = "owner"       -> ownerSections
    [] role = "pic_raport"  -> picRaportSections
    [] role = "karyawan"    -> karyawanSections
    [] role = "operator"    -> operatorSections
    [] role = "admin-sales" -> salesSections
    [] OTHER                -> agentSections

quickActions(role) ==
  CASE role = "admin"       -> {Admin(<<"catalog">>), Admin(<<"agents">>), Admin(<<"finance">>)}
    [] role = "operator"    -> {Admin(<<"catalog">>), Admin(<<"wa", "campaigns">>),
                                Admin(<<"pixel-campaigns">>), D(<<"operator", "prospek">>)}
    [] role \in {"owner", "karyawan"} -> {}
    [] role = "pic_raport"  -> picRaportSections \ {SettingsPath}
    [] role = "admin-sales" -> {D(<<"sales", "knowledge">>), D(<<"sales", "prospek">>),
                                Admin(<<"wa", "campaigns">>)}
    [] OTHER                -> {D(<<"agent", "knowledge">>), D(<<"agent", "prospek">>)}

notificationsPath(role) ==
  CASE role \in {"admin", "operator"} -> Admin(<<"notifications">>)
    [] role = "admin-sales"           -> D(<<"sales", "notifications">>)
    [] role = "pic_raport"            -> D(<<"pic-raport">>)
    [] role = "karyawan"              -> D(<<"karyawan">>)
    [] OTHER                          -> D(<<"agent", "notifications">>)

\* The row actions of the agents' directory, the page links that no menu has.
directoryLinks == {Admin(<<"agents">>), Admin(<<"agents", "edit", "1">>)}

\* Every link a page of the dashboard shows to a role: the menu, the shortcuts, the
\* bell, the must-change-password banner and, in the directory, its own rows.
Offered(role, path) ==
  navSections(role) \cup quickActions(role) \cup {notificationsPath(role), SettingsPath}
    \cup IF role = "admin" /\ path = Admin(<<"agents", "directory">>) THEN directoryLinks ELSE {}

-----------------------------------------------------------------------------
VARIABLES
  session,   \* "restoring" (isInitializing), "in", "out": useAuthStore
  role,      \* the signed-in user's role
  leaving,   \* the logout request has been sent and its answer is awaited
  loc,       \* location.pathname
  wanted,    \* the link or address the user chose last
  hops       \* redirects since then

vars == <<session, role, leaving, loc, wanted, hops>>

Init ==
  /\ session = "restoring" /\ role = NoRole /\ leaving = FALSE
  /\ loc \in Addresses
  /\ wanted = loc /\ hops = 0

-----------------------------------------------------------------------------
(* Redirects.  PrivateRoute wraps everything under /dashboard; under it the
   layout's effect and the matched route's element may both navigate.  React
   runs the child's effect first, so the layout's navigate is the one that
   stays.  Each is the set of its targets: empty when it does nothing.       *)

PrivateRoute == IF session = "out" THEN {LoginPath} ELSE {}

LayoutRedirect ==
  IF session = "in" /\ ~canAccessDashboardPath(role, loc) /\ loc # getDashboardHomeByRole(role)
    THEN {getDashboardHomeByRole(role)} ELSE {}

RoleGuard(roles) == IF role \in roles THEN {} ELSE {getDashboardHomeByRole(role)}

DashboardAliasRedirect(path) ==
  {IF role = "admin" THEN Aliases[path] ELSE getDashboardHomeByRole(role)}

RouteElement ==
  CASE loc \in Guarded        -> RoleGuard(GuardRoles(loc))
    [] loc \in DOMAIN Moved   -> {Moved[loc]}
    [] loc \in DOMAIN Aliases -> DashboardAliasRedirect(loc)
    [] OTHER                  -> {getDashboardHomeByRole(role)}     \* index and `*`: DashboardRoot

\* Where the application sends the user from where they are, {} if it leaves them there.
Redirects ==
  IF session = "restoring" THEN {}
  ELSE CASE InDashboard(loc) ->
              IF PrivateRoute # {} THEN PrivateRoute
              ELSE IF LayoutRedirect # {} THEN LayoutRedirect ELSE RouteElement
         [] loc = UsersAlias ->
              IF RoleGuard({"admin"}) # {} THEN RoleGuard({"admin"}) ELSE {Admin(<<"users">>)}
         [] OTHER -> {}

Settled == session # "restoring" /\ Redirects = {}

Redirect ==
  /\ \E to \in Redirects : loc' = to
  /\ hops' = IF hops < MaxHops THEN hops + 1 ELSE hops
  /\ UNCHANGED <<session, role, leaving, wanted>>

-----------------------------------------------------------------------------
(* The user *)

Choose(path) == loc' = path /\ wanted' = path /\ hops' = 0

\* A link of the dashboard.
Follow ==
  /\ Settled /\ session = "in" /\ InDashboard(loc)
  /\ \E link \in Offered(role, loc) : Choose(link)
  /\ UNCHANGED <<session, role, leaving>>

\* An address typed or a bookmark opened: the page loads anew and restores the session.
Open ==
  /\ Settled
  /\ \E path \in Addresses : Choose(path)
  /\ session' = "restoring" /\ role' = NoRole /\ leaving' = FALSE

\* LoginPage.handleSubmit: the page kept in state.from is not used.
Login ==
  /\ loc = LoginPath /\ session # "restoring"
  /\ \E r \in Roles, mustChange \in BOOLEAN :
       /\ role' = r
       /\ loc' = IF mustChange /\ r = "agent" THEN D(<<"agent", "settings">>) ELSE RootPath
  /\ session' = "in" /\ wanted' = NoPath /\ hops' = 0
  /\ UNCHANGED leaving

\* DashboardLayout.handleLogout does not wait for the request ...
HandleLogout ==
  /\ Settled /\ session = "in" /\ InDashboard(loc) /\ ~leaving
  /\ leaving' = TRUE
  /\ Choose(LoginPath)
  /\ UNCHANGED <<session, role>>

LogoutEnds ==
  /\ leaving /\ leaving' = FALSE
  /\ session' = "out" /\ role' = NoRole
  /\ UNCHANGED <<loc, wanted, hops>>

-----------------------------------------------------------------------------
(* The session *)

RestoreSucceeds ==
  /\ session = "restoring"
  /\ session' = "in" /\ role' \in Roles
  /\ UNCHANGED <<leaving, loc, wanted, hops>>

RestoreFails ==
  /\ session = "restoring"
  /\ session' = "out" /\ role' = NoRole
  /\ UNCHANGED <<leaving, loc, wanted, hops>>

\* refreshAccessToken is refused.
SessionEnds ==
  /\ session = "in"
  /\ session' = "out" /\ role' = NoRole
  /\ UNCHANGED <<leaving, loc, wanted, hops>>

\* A refresh brings the user's record, whose role an administrator has changed.
RoleChanges ==
  /\ session = "in" /\ Settled
  /\ role' \in Roles \ {role}
  /\ hops' = 0 /\ wanted' = NoPath
  /\ UNCHANGED <<session, leaving, loc>>

Next == Redirect \/ Follow \/ Open \/ Login \/ HandleLogout \/ LogoutEnds
          \/ RestoreSucceeds \/ RestoreFails \/ SessionEnds \/ RoleChanges

Spec == Init /\ [][Next]_vars

-----------------------------------------------------------------------------
(* Properties *)

\* No address and no role makes the guards, the layout and the aliases send the user
\* round in a circle: three redirects are enough from anywhere (an alias, the role's
\* home, and the login page when the session ends on the way).
NoRedirectLoop == hops =< 3

\* Links a role is shown and can not reach.  The operator's prefix '/dashboard/admin/pixel'
\* is followed by '/' or nothing, so it matches none of the pixel pages its menu lists;
\* the owner's bell falls through to the agent's notifications; the directory's edit
\* link has no route at all.
DeadLinks(r) ==
  CASE r = "operator" -> {Admin(<<s>>) : s \in {"pixel-campaigns", "pixel-analytics", "pixel-tester"}}
    [] r = "owner"    -> {D(<<"agent", "notifications">>)}
    [] OTHER          -> directoryLinks \ Guarded

\* A link the dashboard offers leads to its page: the menu, the guards and the prefixes
\* agree for every role, whatever the session did before.
LinksArrive ==
  \A r \in Roles :
    (Settled /\ session = "in" /\ role = r /\ wanted \in Offered(r, Admin(<<"agents", "directory">>)) \ DeadLinks(r))
      => loc = wanted

=============================================================================
