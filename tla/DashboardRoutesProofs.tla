------------------------- MODULE DashboardRoutesProofs -------------------------
(***************************************************************************)
(* No circles, and links that arrive, for every address a user may type:   *)
(* the lemmas read the tables of the router, the layout and the prefixes   *)
(* segment by segment, the invariants count the redirects that are left.   *)
(***************************************************************************)
EXTENDS DashboardRoutes, TLAPS

-----------------------------------------------------------------------------
(* Paths                                                                    *)

\* The segments of a path and the prefixes it has.
LEMMA Short ==
  ASSUME NEW a
  PROVE  /\ D(<<a>>)[2] = a /\ InDashboard(D(<<a>>)) /\ IsPrefix(D(<<a>>), D(<<a>>))
         /\ Admin(<<a>>)[2] = "admin" /\ Admin(<<a>>)[3] = a /\ Admin(<<a>>) # Admin(<<>>)
         /\ InDashboard(Admin(<<a>>))
         /\ IsPrefix(Admin(<<>>), Admin(<<a>>)) /\ IsPrefix(Admin(<<a>>), Admin(<<a>>))
BY DEF D, Admin, InDashboard, RootPath, IsPrefix

LEMMA Long ==
  ASSUME NEW a, NEW b
  PROVE  /\ D(<<a, b>>)[2] = a /\ InDashboard(D(<<a, b>>))
         /\ IsPrefix(D(<<a>>), D(<<a, b>>)) /\ IsPrefix(D(<<a, b>>), D(<<a, b>>))
         /\ Admin(<<a, b>>)[2] = "admin" /\ Admin(<<a, b>>)[3] = a /\ Admin(<<a, b>>) # Admin(<<>>)
         /\ InDashboard(Admin(<<a, b>>))
         /\ IsPrefix(Admin(<<>>), Admin(<<a, b>>)) /\ IsPrefix(Admin(<<a>>), Admin(<<a, b>>))
<1>1. /\ D(<<a, b>>)[2] = a
      /\ Admin(<<a, b>>)[2] = "admin" /\ Admin(<<a, b>>)[3] = a
  BY DEF D, Admin
<1>2. InDashboard(D(<<a, b>>)) /\ InDashboard(Admin(<<a, b>>))
  BY DEF D, Admin, InDashboard, RootPath, IsPrefix
<1>3. /\ IsPrefix(Admin(<<>>), Admin(<<a, b>>)) /\ IsPrefix(Admin(<<a>>), Admin(<<a, b>>))
      /\ Admin(<<a, b>>) # Admin(<<>>)
  BY DEF Admin, IsPrefix
<1>4. IsPrefix(D(<<a>>), D(<<a, b>>)) /\ IsPrefix(D(<<a, b>>), D(<<a, b>>))
  BY DEF D, IsPrefix
<1>. QED BY <1>1, <1>2, <1>3, <1>4

LEMMA Longer ==
  \A a, b, c :
    /\ D(<<a, b, c>>)[2] = a /\ InDashboard(D(<<a, b, c>>))
    /\ IsPrefix(D(<<a>>), D(<<a, b, c>>)) /\ IsPrefix(D(<<a, b>>), D(<<a, b, c>>))
<1>. TAKE a, b, c
<1>1. D(<<a, b, c>>)[2] = a /\ InDashboard(D(<<a, b, c>>))
  BY DEF D, InDashboard, RootPath, IsPrefix
<1>2. IsPrefix(D(<<a>>), D(<<a, b, c>>)) /\ IsPrefix(D(<<a, b>>), D(<<a, b, c>>))
  BY DEF D, IsPrefix
<1>. QED BY <1>1, <1>2

LEMMA AdminLonger ==
  \A a, b, c :
    /\ Admin(<<a, b, c>>)[2] = "admin" /\ Admin(<<a, b, c>>)[3] = a
    /\ Admin(<<a, b, c>>) # Admin(<<>>) /\ InDashboard(Admin(<<a, b, c>>))
    /\ IsPrefix(Admin(<<>>), Admin(<<a, b, c>>)) /\ IsPrefix(Admin(<<a>>), Admin(<<a, b, c>>))
<1>. TAKE a, b, c
<1>1. Admin(<<a, b, c>>)[2] = "admin" /\ Admin(<<a, b, c>>)[3] = a
  BY DEF Admin
<1>2. InDashboard(Admin(<<a, b, c>>))
  BY DEF Admin, InDashboard, RootPath, IsPrefix
<1>3. /\ IsPrefix(Admin(<<>>), Admin(<<a, b, c>>)) /\ IsPrefix(Admin(<<a>>), Admin(<<a, b, c>>))
      /\ Admin(<<a, b, c>>) # Admin(<<>>)
  BY DEF Admin, IsPrefix
<1>. QED BY <1>1, <1>2, <1>3

LEMMA AdminHome ==
  /\ Admin(<<>>)[2] = "admin" /\ InDashboard(Admin(<<>>))
  /\ IsPrefix(Admin(<<>>), Admin(<<>>))
BY DEF Admin, InDashboard, RootPath, IsPrefix

LEMMA Outside ==
  /\ ~InDashboard(LoginPath) /\ ~InDashboard(UsersAlias) /\ ~InDashboard(NoPath)
  /\ LoginPath # UsersAlias
BY DEF InDashboard, RootPath, LoginPath, UsersAlias, NoPath, IsPrefix

-----------------------------------------------------------------------------
(* The router's table                                                       *)

AdminNames == {"agents", "cabang", "telemetry", "users", "finance", "leaderboard",
               "leads", "careers"}
ContentNames == {"catalog", "categories", "promo", "content", "partners", "notifications"}
PixelNames == {"pixel-campaigns", "pixel-analytics", "pixel-tester"}

LEMMA AdminTable ==
  ASSUME NEW p \in AdminRoutes
  PROVE  /\ p[2] = "admin" /\ InDashboard(p) /\ IsPrefix(Admin(<<>>), p)
         /\ p = Admin(<<>>) \/ p[3] \in AdminNames
<1>1. CASE p = Admin(<<>>)
  BY <1>1, AdminHome
<1>2. CASE p \in {Admin(<<s>>) : s \in AdminNames}
  <2>1. PICK s \in AdminNames : p = Admin(<<s>>)
    BY <1>2
  <2>. QED BY <2>1, Short
<1>3. CASE p = Admin(<<"users", "new">>)
  BY <1>3, Long DEF AdminNames
<1>4. CASE p = Admin(<<"users", "edit", "1">>)
  <2>1. p[2] = "admin" /\ p[3] = "users" /\ InDashboard(p) /\ IsPrefix(Admin(<<>>), p)
    BY <1>4, AdminLonger, Zenon
  <2>. QED BY <2>1 DEF AdminNames
<1>5. CASE p = Admin(<<"agents", "directory">>)
  BY <1>5, Long DEF AdminNames
<1>. QED BY <1>1, <1>2, <1>3, <1>4, <1>5 DEF AdminRoutes, AdminNames

LEMMA ContentTable ==
  ASSUME NEW p \in ContentRoutes
  PROVE  /\ p[2] = "admin" /\ InDashboard(p) /\ IsPrefix(Admin(<<>>), p) /\ p # Admin(<<>>)
         /\ p[3] \in ContentNames /\ IsPrefix(Admin(<<p[3]>>), p)
<1>. DEFINE Edited == {"catalog", "promo", "content"}
<1>1. Edited \subseteq ContentNames
  BY DEF ContentNames
<1>2. CASE p \in {Admin(<<s>>) : s \in ContentNames}
  <2>1. PICK s \in ContentNames : p = Admin(<<s>>)
    BY <1>2
  <2>. QED BY <2>1, Short
<1>3. CASE p \in {Admin(<<s, "new">>) : s \in Edited}
  <2>1. PICK s \in Edited : p = Admin(<<s, "new">>)
    BY <1>3
  <2>. QED BY <2>1, <1>1, Long
<1>4. CASE p \in {Admin(<<s, "edit", "1">>) : s \in Edited}
  <2>1. PICK s \in Edited : p = Admin(<<s, "edit", "1">>)
    BY <1>4
  <2>. QED BY <2>1, <1>1, AdminLonger
<1>5. CASE p = Admin(<<"catalog", "bulk-import">>)
  BY <1>5, Long DEF ContentNames
<1>6. CASE p = Admin(<<"content", "landing-slides">>)
  BY <1>6, Long DEF ContentNames
<1>. QED BY <1>2, <1>3, <1>4, <1>5, <1>6 DEF ContentRoutes, ContentNames

LEMMA BlastTable ==
  ASSUME NEW p \in BlastRoutes
  PROVE  /\ p[2] = "admin" /\ InDashboard(p) /\ IsPrefix(Admin(<<>>), p) /\ p # Admin(<<>>)
         /\ p[3] = "wa" /\ IsPrefix(Admin(<<"wa">>), p)
<1>1. CASE p \in {Admin(<<"wa", s>>) : s \in {"campaigns", "accounts", "blast-contacts"}}
  <2>1. PICK s \in {"campaigns", "accounts", "blast-contacts"} : p = Admin(<<"wa", s>>)
    BY <1>1
  <2>. QED BY <2>1, Long
<1>2. CASE p \in {Admin(<<"wa", "campaign", s>>) : s \in {"new", "1"}}
  <2>1. PICK s \in {"new", "1"} : p = Admin(<<"wa", "campaign", s>>)
    BY <1>2
  <2>. QED BY <2>1, AdminLonger
<1>. QED BY <1>1, <1>2 DEF BlastRoutes

LEMMA PixelTable ==
  ASSUME NEW p \in PixelRoutes
  PROVE  /\ p[2] = "admin" /\ InDashboard(p) /\ IsPrefix(Admin(<<>>), p) /\ p # Admin(<<>>)
         /\ p[3] \in PixelNames
<1>1. CASE p \in {Admin(<<s>>) : s \in PixelNames}
  <2>1. PICK s \in PixelNames : p = Admin(<<s>>)
    BY <1>1
  <2>. QED BY <2>1, Short
<1>2. CASE p \in {Admin(<<"pixel-campaigns", s>>) : s \in {"new", "1"}}
  <2>1. PICK s \in {"new", "1"} : p = Admin(<<"pixel-campaigns", s>>)
    BY <1>2
  <2>. QED BY <2>1, Long DEF PixelNames
<1>. QED BY <1>1, <1>2 DEF PixelRoutes, PixelNames

LEMMA OwnTable ==
  /\ \A p \in OwnerRoutes :
       p[2] = "owner" /\ InDashboard(p) /\ IsPrefix(D(<<"owner">>), p)
  /\ \A p \in PicRaportRoutes :
       p[2] = "pic-raport" /\ InDashboard(p) /\ IsPrefix(D(<<"pic-raport">>), p)
  /\ \A p \in KaryawanRoutes :
       p[2] = "karyawan" /\ InDashboard(p) /\ IsPrefix(D(<<"karyawan">>), p)
  /\ \A p \in AgentRoutes :
       p[2] = "agent" /\ InDashboard(p) /\ IsPrefix(D(<<"agent">>), p)
  /\ \A p \in SalesRoutes :
       p[2] = "sales" /\ InDashboard(p) /\ IsPrefix(D(<<"sales">>), p)
  /\ \A p \in OperatorRoutes :
       p[2] = "operator" /\ InDashboard(p) /\ IsPrefix(D(<<"operator", "prospek">>), p)
<1>1. \A p \in OwnerRoutes : p[2] = "owner" /\ InDashboard(p) /\ IsPrefix(D(<<"owner">>), p)
  BY Short, Long, Longer DEF OwnerRoutes
<1>2. \A p \in PicRaportRoutes :
        p[2] = "pic-raport" /\ InDashboard(p) /\ IsPrefix(D(<<"pic-raport">>), p)
  <2>1. ASSUME NEW p, p = D(<<"pic-raport", "karyawan", "1">>)
        PROVE  p[2] = "pic-raport" /\ InDashboard(p) /\ IsPrefix(D(<<"pic-raport">>), p)
    BY <2>1, Longer, Zenon
  <2>2. ASSUME NEW p, NEW s, p = D(<<"pic-raport", s>>)
        PROVE  p[2] = "pic-raport" /\ InDashboard(p) /\ IsPrefix(D(<<"pic-raport">>), p)
    BY <2>2, Long, Zenon
  <2>. QED BY <2>1, <2>2, Short DEF PicRaportRoutes
<1>3. \A p \in KaryawanRoutes :
        p[2] = "karyawan" /\ InDashboard(p) /\ IsPrefix(D(<<"karyawan">>), p)
  BY Short, Long, Longer DEF KaryawanRoutes
<1>4. \A p \in AgentRoutes : p[2] = "agent" /\ InDashboard(p) /\ IsPrefix(D(<<"agent">>), p)
  BY Short, Long, Longer DEF AgentRoutes
<1>5. \A p \in SalesRoutes : p[2] = "sales" /\ InDashboard(p) /\ IsPrefix(D(<<"sales">>), p)
  BY Short, Long, Longer DEF SalesRoutes
<1>6. \A p \in OperatorRoutes :
        p[2] = "operator" /\ InDashboard(p) /\ IsPrefix(D(<<"operator", "prospek">>), p)
  <2>1. /\ D(<<"operator", "prospek">>)[2] = "operator"
        /\ InDashboard(D(<<"operator", "prospek">>))
        /\ IsPrefix(D(<<"operator", "prospek">>), D(<<"operator", "prospek">>))
    BY Long, Zenon
  <2>2. /\ D(<<"operator", "prospek", "database">>)[2] = "operator"
        /\ InDashboard(D(<<"operator", "prospek", "database">>))
        /\ IsPrefix(D(<<"operator", "prospek">>), D(<<"operator", "prospek", "database">>))
    BY Longer, Zenon
  <2>. QED BY <2>1, <2>2 DEF OperatorRoutes
<1>. QED BY <1>1, <1>2, <1>3, <1>4, <1>5, <1>6

LEMMA SettingsTable ==
  /\ SettingsPath[2] = "settings" /\ InDashboard(SettingsPath)
  /\ IsPrefix(SettingsPath, SettingsPath)
BY Short DEF SettingsPath

\* No two families of routes have a path in common, so that the guard is that of the family.
LEMMA Guards ==
  /\ GuardRoles(SettingsPath) = Roles
  /\ \A p \in AdminRoutes     : GuardRoles(p) = {"admin"}
  /\ \A p \in ContentRoutes   : GuardRoles(p) = {"admin", "operator"}
  /\ \A p \in BlastRoutes     : GuardRoles(p) = {"admin", "operator", "admin-sales"}
  /\ \A p \in PixelRoutes     : GuardRoles(p) = {"admin", "operator"}
  /\ \A p \in OwnerRoutes     : GuardRoles(p) = {"owner"}
  /\ \A p \in PicRaportRoutes : GuardRoles(p) = {"pic_raport"}
  /\ \A p \in KaryawanRoutes  : GuardRoles(p) = {"karyawan"}
  /\ \A p \in OperatorRoutes  : GuardRoles(p) = {"operator"}
  /\ \A p \in AgentRoutes     : GuardRoles(p) = {"agent"}
  /\ \A p \in SalesRoutes     : GuardRoles(p) = {"admin-sales"}
<1>1. GuardRoles(SettingsPath) = Roles
  BY SettingsTable, AdminTable, ContentTable, BlastTable, PixelTable, OwnTable DEF GuardRoles
<1>2. \A p \in AdminRoutes : GuardRoles(p) = {"admin"}
  BY SettingsTable, AdminTable, ContentTable, BlastTable, PixelTable, OwnTable
     DEF GuardRoles, AdminNames, ContentNames, PixelNames
<1>3. \A p \in ContentRoutes : GuardRoles(p) = {"admin", "operator"}
  BY SettingsTable, AdminTable, ContentTable, BlastTable, PixelTable, OwnTable
     DEF GuardRoles, AdminNames, ContentNames, PixelNames
<1>4. \A p \in BlastRoutes : GuardRoles(p) = {"admin", "operator", "admin-sales"}
  BY SettingsTable, AdminTable, ContentTable, BlastTable, PixelTable, OwnTable
     DEF GuardRoles, AdminNames, ContentNames, PixelNames
<1>5. \A p \in PixelRoutes : GuardRoles(p) = {"admin", "operator"}
  BY SettingsTable, AdminTable, ContentTable, BlastTable, PixelTable, OwnTable
     DEF GuardRoles, AdminNames, ContentNames, PixelNames
<1>6. /\ \A p \in OwnerRoutes     : GuardRoles(p) = {"owner"}
      /\ \A p \in PicRaportRoutes : GuardRoles(p) = {"pic_raport"}
      /\ \A p \in KaryawanRoutes  : GuardRoles(p) = {"karyawan"}
      /\ \A p \in OperatorRoutes  : GuardRoles(p) = {"operator"}
      /\ \A p \in AgentRoutes     : GuardRoles(p) = {"agent"}
      /\ \A p \in SalesRoutes     : GuardRoles(p) = {"admin-sales"}
  BY SettingsTable, AdminTable, ContentTable, BlastTable, PixelTable, OwnTable DEF GuardRoles
<1>. QED BY <1>1, <1>2, <1>3, <1>4, <1>5, <1>6

-----------------------------------------------------------------------------
(* Who reaches what                                                         *)

Reaches(r, p) ==
  /\ p \in Guarded /\ r \in GuardRoles(p)
  /\ InDashboard(p) /\ canAccessDashboardPath(r, p)

LEMMA AllReach ==
  /\ \A r \in Roles : Reaches(r, SettingsPath)
  /\ \A p \in AdminRoutes \cup ContentRoutes \cup BlastRoutes \cup PixelRoutes : Reaches("admin", p)
  /\ \A p \in OwnerRoutes     : Reaches("owner", p)
  /\ \A p \in PicRaportRoutes : Reaches("pic_raport", p)
  /\ \A p \in KaryawanRoutes  : Reaches("karyawan", p)
  /\ \A p \in ContentRoutes \cup BlastRoutes \cup OperatorRoutes : Reaches("operator", p)
  /\ \A p \in BlastRoutes \cup SalesRoutes : Reaches("admin-sales", p)
  /\ \A p \in AgentRoutes     : Reaches("agent", p)
<1>. USE DEF Reaches, Guarded, canAccessDashboardPath, NoRole
<1>1. \A r \in Roles : Reaches(r, SettingsPath)
  BY Guards, SettingsTable DEF Roles, allowedPrefixesByRole
<1>2. \A p \in AdminRoutes \cup ContentRoutes \cup BlastRoutes \cup PixelRoutes :
        Reaches("admin", p)
  <2>1. Admin(<<>>) \in allowedPrefixesByRole("admin")
    BY DEF allowedPrefixesByRole
  <2>. QED BY <2>1, Guards, AdminTable, ContentTable, BlastTable, PixelTable
<1>3. \A p \in OwnerRoutes : Reaches("owner", p)
  <2>1. D(<<"owner">>) \in allowedPrefixesByRole("owner")
    BY DEF allowedPrefixesByRole
  <2>. QED BY <2>1, Guards, OwnTable
<1>4. \A p \in PicRaportRoutes : Reaches("pic_raport", p)
  <2>1. D(<<"pic-raport">>) \in allowedPrefixesByRole("pic_raport")
    BY DEF allowedPrefixesByRole
  <2>. QED BY <2>1, Guards, OwnTable
<1>5. \A p \in KaryawanRoutes : Reaches("karyawan", p)
  <2>1. D(<<"karyawan">>) \in allowedPrefixesByRole("karyawan")
    BY DEF allowedPrefixesByRole
  <2>. QED BY <2>1, Guards, OwnTable
<1>6. \A p \in ContentRoutes \cup BlastRoutes \cup OperatorRoutes : Reaches("operator", p)
  <2>1. /\ D(<<"operator", "prospek">>) \in allowedPrefixesByRole("operator")
        /\ \A s \in ContentNames \cup {"wa"} : Admin(<<s>>) \in allowedPrefixesByRole("operator")
    BY DEF allowedPrefixesByRole, ContentNames
  <2>2. \A p \in ContentRoutes : Reaches("operator", p)
    BY <2>1, Guards, ContentTable
  <2>3. \A p \in BlastRoutes : Reaches("operator", p)
    BY <2>1, Guards, BlastTable
  <2>4. \A p \in OperatorRoutes : Reaches("operator", p)
    BY <2>1, Guards, OwnTable
  <2>. QED BY <2>2, <2>3, <2>4
<1>7. \A p \in BlastRoutes \cup SalesRoutes : Reaches("admin-sales", p)
  <2>1. {D(<<"sales">>), Admin(<<"wa">>)} \subseteq allowedPrefixesByRole("admin-sales")
    BY DEF allowedPrefixesByRole
  <2>. QED BY <2>1, Guards, BlastTable, OwnTable
<1>8. \A p \in AgentRoutes : Reaches("agent", p)
  <2>1. D(<<"agent">>) \in allowedPrefixesByRole("agent")
    BY DEF allowedPrefixesByRole
  <2>. QED BY <2>1, Guards, OwnTable
<1>. QED BY <1>1, <1>2, <1>3, <1>4, <1>5, <1>6, <1>7, <1>8

\* A role's home is one of its own pages.
LEMMA HomeReached ==
  ASSUME NEW r \in Roles
  PROVE  Reaches(r, getDashboardHomeByRole(r))
<1>1. /\ Admin(<<>>) \in AdminRoutes /\ D(<<"owner">>) \in OwnerRoutes
      /\ D(<<"pic-raport">>) \in PicRaportRoutes /\ D(<<"karyawan">>) \in KaryawanRoutes
      /\ Admin(<<"wa", "campaigns">>) \in BlastRoutes
      /\ D(<<"sales">>) \in SalesRoutes /\ D(<<"agent">>) \in AgentRoutes
  BY DEF AdminRoutes, OwnerRoutes, PicRaportRoutes, KaryawanRoutes, BlastRoutes, SalesRoutes,
         AgentRoutes
<1>. QED BY <1>1, AllReach DEF Roles, getDashboardHomeByRole

\* The menus of each role are made of its own pages and the settings.
LEMMA MenuReached ==
  ASSUME NEW r \in Roles,
         NEW p \in navSections(r) \cup quickActions(r) \cup {notificationsPath(r)},
         p \notin DeadLinks(r)
  PROVE  Reaches(r, p)
<1>1. CASE r = "admin"
  <2>1. navSections(r) \cup quickActions(r) \cup {notificationsPath(r)} \subseteq
          AdminRoutes \cup ContentRoutes \cup BlastRoutes \cup PixelRoutes \cup {SettingsPath}
    BY <1>1 DEF navSections, quickActions, notificationsPath, adminSections,
                AdminRoutes, ContentRoutes, BlastRoutes, PixelRoutes
  <2>. QED BY <1>1, <2>1, AllReach
<1>2. CASE r = "owner"
  <2>1. navSections(r) \subseteq OwnerRoutes \cup {SettingsPath}
    BY <1>2 DEF navSections, ownerSections, OwnerRoutes
  <2>2. quickActions(r) = {} /\ notificationsPath(r) \in DeadLinks(r)
    BY <1>2 DEF quickActions, notificationsPath, DeadLinks
  <2>. QED BY <1>2, <2>1, <2>2, AllReach
<1>3. CASE r = "pic_raport"
  <2>1. navSections(r) \cup quickActions(r) \cup {notificationsPath(r)} \subseteq
          PicRaportRoutes \cup {SettingsPath}
    BY <1>3 DEF navSections, quickActions, notificationsPath, picRaportSections, PicRaportRoutes
  <2>. QED BY <1>3, <2>1, AllReach
<1>4. CASE r = "karyawan"
  <2>1. navSections(r) \cup quickActions(r) \cup {notificationsPath(r)} \subseteq
          KaryawanRoutes \cup {SettingsPath}
    BY <1>4 DEF navSections, quickActions, notificationsPath, karyawanSections, KaryawanRoutes
  <2>. QED BY <1>4, <2>1, AllReach
<1>5. CASE r = "operator"
  <2>1. navSections(r) \cup quickActions(r) \cup {notificationsPath(r)} \subseteq
          ContentRoutes \cup BlastRoutes \cup OperatorRoutes \cup {SettingsPath} \cup DeadLinks(r)
    BY <1>5 DEF navSections, quickActions, notificationsPath, operatorSections, DeadLinks,
                ContentRoutes, BlastRoutes, OperatorRoutes
  <2>. QED BY <1>5, <2>1, AllReach
<1>6. CASE r = "admin-sales"
  <2>1. navSections(r) \cup quickActions(r) \cup {notificationsPath(r)} \subseteq
          BlastRoutes \cup SalesRoutes \cup {SettingsPath}
    BY <1>6 DEF navSections, quickActions, notificationsPath, salesSections,
                BlastRoutes, SalesRoutes
  <2>. QED BY <1>6, <2>1, AllReach
<1>7. CASE r = "agent"
  <2>1. navSections(r) \cup quickActions(r) \cup {notificationsPath(r)} \subseteq
          AgentRoutes \cup {SettingsPath}
    BY <1>7 DEF navSections, quickActions, notificationsPath, agentSections, AgentRoutes
  <2>. QED BY <1>7, <2>1, AllReach
<1>. QED BY <1>1, <1>2, <1>3, <1>4, <1>5, <1>6, <1>7 DEF Roles

\* The links of the directory that have a route are the admin's pages.
LEMMA DirectoryReached ==
  ASSUME NEW p \in directoryLinks, p \notin DeadLinks("admin")
  PROVE  Reaches("admin", p)
<1>1. p \in Guarded
  BY DEF DeadLinks
<1>2. p[2] = "admin"
  <2>1. CASE p = Admin(<<"agents">>)
    BY <2>1, Short, Zenon
  <2>2. CASE p = Admin(<<"agents", "edit", "1">>)
    BY <2>2, AdminLonger, Zenon
  <2>. QED BY <2>1, <2>2 DEF directoryLinks
<1>3. p \in AdminRoutes \cup ContentRoutes \cup BlastRoutes \cup PixelRoutes
  BY <1>1, <1>2, OwnTable, SettingsTable DEF Guarded
<1>. QED BY <1>3, AllReach

\* What the dashboard offers to a role, but for the dead links, is for that role.
LEMMA OfferReached ==
  ASSUME NEW r \in Roles,
         NEW p \in Offered(r, Admin(<<"agents", "directory">>)) \ DeadLinks(r)
  PROVE  Reaches(r, p)
BY MenuReached, DirectoryReached, AllReach DEF Offered

-----------------------------------------------------------------------------
(* The session                                                              *)

\* Nobody has a role who is not signed in, and the address of a page that loads is the
\* one the user wanted.
SessionInv ==
  /\ session \in {"restoring", "in", "out"}
  /\ IF session = "in" THEN role \in Roles ELSE role = NoRole
  /\ session = "restoring" => hops = 0 /\ loc = wanted

\* Addresses whose route redirects to a page that may redirect again.
TwoAway == DOMAIN Moved \cup DOMAIN Aliases \cup {UsersAlias}

\* How many redirects there have been: the session may end between two of them, which
\* costs one more, to the login page, and two from the guarded alias.
Hopping ==
  /\ hops \in Nat
  /\ session = "in" =>
       /\ hops <= 2
       /\ loc \in TwoAway => hops = 0
       /\ Redirects # {}  => hops <= 1
  /\ session = "out" =>
       /\ hops <= 3
       /\ InDashboard(loc) => hops <= 2
       /\ loc = UsersAlias => hops <= 1

RoutesInv == SessionInv /\ Hopping

LEMMA OneSegment == \A a, b : D(<<a>>) = D(<<b>>) => a = b
BY Short

LEMMA TwoSegments ==
  \A a, b, c, d : D(<<a, b>>) # D(<<c>>) /\ (D(<<a, b>>) = D(<<c, d>>) => b = d)
<1>. TAKE a, b, c, d
<1>1. D(<<a, b>>) # D(<<c>>)
  BY DEF D
<1>2. D(<<a, b>>)[3] = b /\ D(<<c, d>>)[3] = d
  BY DEF D
<1>. QED BY <1>1, <1>2

LEMMA ThreeSegments == \A a, b, c, d, e : D(<<a, b>>) # D(<<c, d, e>>)
BY DEF D

\* No path is in two of the tables that redirect.
LEMMA MovedApart == DOMAIN Moved \cap DOMAIN Aliases = {}
BY TwoSegments DEF Moved, Aliases, SalesMoved, AgentMoved

\* A page is no route that redirects to another address whatever the role.
LEMMA PagesStay ==
  ASSUME NEW p \in Guarded
  PROVE  p \notin TwoAway
<1>1. p # UsersAlias
  BY Outside, AdminTable, ContentTable, BlastTable, PixelTable, OwnTable, SettingsTable
     DEF Guarded
<1>2. ASSUME NEW s \in {"agen", "katalog", "promo", "telemetri"}
      PROVE  p # D(<<s>>)
  <2>1. D(<<s>>)[2] = s
    BY Short
  <2>. QED BY <2>1, AdminTable, ContentTable, BlastTable, PixelTable, OwnTable, SettingsTable
           DEF Guarded
<1>3. ASSUME NEW s \in {"referral", "push-prospek"}
      PROVE  p # D(<<"sales", s>>)
  <2>1. D(<<"sales", s>>)[2] = "sales"
    BY Long, Zenon
  <2>2. D(<<"sales", s>>) \notin SalesRoutes
    <3>1. D(<<"sales", s>>) # D(<<"sales">>)
      BY TwoSegments
    <3>2. D(<<"sales", s>>) # D(<<"sales", "prospek", "database">>)
      BY ThreeSegments, Zenon
    <3>3. ASSUME NEW t \in {"knowledge", "delivery", "pixel-analytics", "prospek",
                     "settings", "notifications"}
          PROVE  D(<<"sales", s>>) # D(<<"sales", t>>)
      <4>1. s # t
        OBVIOUS
      <4>. QED BY <4>1, TwoSegments
    <3>. QED BY <3>1, <3>2, <3>3 DEF SalesRoutes
  <2>. QED BY <2>1, <2>2, AdminTable, ContentTable, BlastTable, PixelTable, OwnTable,
              SettingsTable DEF Guarded
<1>4. ASSUME NEW s \in {"push", "push-prospek"}
      PROVE  p # D(<<"agent", s>>)
  <2>1. D(<<"agent", s>>)[2] = "agent"
    BY Long, Zenon
  <2>2. D(<<"agent", s>>) \notin AgentRoutes
    <3>1. D(<<"agent", s>>) # D(<<"agent">>)
      BY TwoSegments
    <3>2. D(<<"agent", s>>) # D(<<"agent", "prospek", "database">>)
      BY ThreeSegments, Zenon
    <3>3. ASSUME NEW t \in {"knowledge", "leads", "earnings", "pixel-analytics", "prospek",
                     "leaderboard", "settings", "notifications"}
          PROVE  D(<<"agent", s>>) # D(<<"agent", t>>)
      <4>1. s # t
        OBVIOUS
      <4>. QED BY <4>1, TwoSegments
    <3>. QED BY <3>1, <3>2, <3>3 DEF AgentRoutes
  <2>. QED BY <2>1, <2>2, AdminTable, ContentTable, BlastTable, PixelTable, OwnTable,
              SettingsTable DEF Guarded
<1>. QED BY <1>1, <1>2, <1>3, <1>4 DEF TwoAway, Moved, Aliases, SalesMoved, AgentMoved

\* Every redirect but the one to the login leads to a page.
LEMMA Targets ==
  /\ \A p \in DOMAIN Moved : Moved[p] \in Guarded
  /\ \A p \in DOMAIN Aliases : Aliases[p] \in Guarded
  /\ Admin(<<"users">>) \in Guarded
  /\ \A r \in Roles \cup {NoRole} : getDashboardHomeByRole(r) \in Guarded
<1>1. \A p \in DOMAIN Moved : Moved[p] \in Guarded
  <2>1. D(<<"sales", "prospek">>) \in SalesRoutes /\ D(<<"agent", "prospek">>) \in AgentRoutes
    BY DEF SalesRoutes, AgentRoutes
  <2>. QED BY <2>1 DEF Guarded, Moved
<1>2. \A p \in DOMAIN Aliases : Aliases[p] \in Guarded
  <2>1. /\ Admin(<<"agents">>) \in AdminRoutes /\ Admin(<<"telemetry">>) \in AdminRoutes
        /\ Admin(<<"catalog">>) \in ContentRoutes /\ Admin(<<"promo">>) \in ContentRoutes
    BY DEF AdminRoutes, ContentRoutes
  <2>2. ASSUME NEW s \in {"agen", "katalog", "promo", "telemetri"}
        PROVE  Aliases[D(<<s>>)] \in {Admin(<<"agents">>), Admin(<<"catalog">>),
                                      Admin(<<"promo">>), Admin(<<"telemetry">>)}
    <3>1. \A t : D(<<s>>) = D(<<t>>) => s = t
      BY OneSegment
    <3>. QED BY <3>1 DEF Aliases
  <2>. QED BY <2>1, <2>2 DEF Guarded, Aliases
<1>3. Admin(<<"users">>) \in Guarded
  BY DEF AdminRoutes, Guarded
<1>4. ASSUME NEW r \in Roles PROVE getDashboardHomeByRole(r) \in Guarded
  BY HomeReached DEF Reaches
<1>5. getDashboardHomeByRole(NoRole) \in Guarded
  BY DEF getDashboardHomeByRole, NoRole, AgentRoutes, Guarded
<1>. QED BY <1>1, <1>2, <1>3, <1>4, <1>5

\* Whoever is on a page of their own stays there.
LEMMA AtRest ==
  session = "in" /\ role \in Roles /\ Reaches(role, loc) => Redirects = {}
<1>. SUFFICES ASSUME session = "in", role \in Roles, Reaches(role, loc)
              PROVE  Redirects = {}
  OBVIOUS
<1>1. PrivateRoute = {} /\ LayoutRedirect = {}
  BY DEF Reaches, PrivateRoute, LayoutRedirect
<1>2. RouteElement = {}
  BY PagesStay DEF Reaches, RouteElement, RoleGuard, TwoAway
<1>. QED BY <1>1, <1>2, Outside DEF Reaches, Redirects

LEMMA HomeIsRest ==
  session = "in" /\ role \in Roles /\ loc = getDashboardHomeByRole(role) => Redirects = {}
BY HomeReached, AtRest

\* A redirect of a signed-in user leads to a page, and to the role's home from every
\* address but the few that name another page.
LEMMA Leads ==
  ASSUME session = "in", role \in Roles, NEW to \in Redirects
  PROVE  /\ to \in Guarded
         /\ loc \notin TwoAway => to = getDashboardHomeByRole(role)
<1>1. getDashboardHomeByRole(role) \in Guarded
  BY Targets
<1>2. CASE InDashboard(loc)
  <2>1. to \in LayoutRedirect \cup RouteElement
    <3>1. PrivateRoute = {}
      BY DEF PrivateRoute
    <3>2. Redirects = IF LayoutRedirect # {} THEN LayoutRedirect ELSE RouteElement
      BY <1>2, <3>1, Outside DEF Redirects
    <3>. QED BY <3>2
  <2>2. CASE to \in LayoutRedirect
    BY <2>2, <1>1 DEF LayoutRedirect
  <2>3. CASE to \in RouteElement
    <3>1. CASE loc \in Guarded
      <4>1. RouteElement = RoleGuard(GuardRoles(loc))
        BY <3>1, PagesStay DEF RouteElement, TwoAway
      <4>. QED BY <2>3, <4>1, <1>1 DEF RoleGuard
    <3>2. CASE loc \in DOMAIN Moved
      <4>1. loc \notin Guarded
        BY <3>2, PagesStay DEF TwoAway
      <4>2. RouteElement = {Moved[loc]}
        BY <3>2, <4>1, MovedApart DEF RouteElement
      <4>. QED BY <2>3, <3>2, <4>2, Targets DEF TwoAway
    <3>3. CASE loc \in DOMAIN Aliases /\ loc \notin DOMAIN Moved
      <4>1. loc \notin Guarded
        BY <3>3, PagesStay DEF TwoAway
      <4>2. to \in DashboardAliasRedirect(loc)
        BY <2>3, <3>3, <4>1 DEF RouteElement
      <4>. QED BY <3>3, <4>2, <1>1, Targets DEF DashboardAliasRedirect, TwoAway
    <3>4. CASE loc \notin Guarded /\ loc \notin DOMAIN Moved /\ loc \notin DOMAIN Aliases
      BY <2>3, <3>4, <1>1 DEF RouteElement
    <3>. QED BY <3>1, <3>2, <3>3, <3>4
  <2>. QED BY <2>1, <2>2, <2>3
<1>3. CASE ~InDashboard(loc)
  BY <1>1, <1>3, Targets DEF Redirects, RoleGuard, TwoAway
<1>. QED BY <1>2, <1>3

\* Without a user the pages lead to the login, and the guarded alias to a page.
LEMMA LeadsOut ==
  ASSUME session = "out", role = NoRole, NEW to \in Redirects
  PROVE  \/ InDashboard(loc) /\ to = LoginPath
         \/ loc = UsersAlias /\ ~InDashboard(loc) /\ to = getDashboardHomeByRole(NoRole)
<1>1. NoRole \notin {"admin"}
  BY DEF NoRole
<1>. QED BY <1>1, Outside DEF Redirects, PrivateRoute, RoleGuard

-----------------------------------------------------------------------------
LEMMA NoneWhileRestoring == session = "restoring" => Redirects = {}
BY DEF Redirects

LEMMA SessionInit == Init => SessionInv
BY DEF Init, SessionInv

LEMMA SessionStep == SessionInv /\ [Next]_vars => SessionInv'
<1>. SUFFICES ASSUME SessionInv, [Next]_vars PROVE SessionInv'
  OBVIOUS
<1>. USE DEF SessionInv
<1>1. CASE Redirect
  BY <1>1, NoneWhileRestoring DEF Redirect
<1>2. CASE Follow
  BY <1>2 DEF Follow, Choose
<1>3. CASE Open
  BY <1>3 DEF Open, Choose
<1>4. CASE Login
  BY <1>4 DEF Login
<1>5. CASE HandleLogout
  BY <1>5 DEF HandleLogout, Choose
<1>6. CASE LogoutEnds
  BY <1>6 DEF LogoutEnds
<1>7. CASE RestoreSucceeds
  BY <1>7 DEF RestoreSucceeds
<1>8. CASE RestoreFails
  BY <1>8 DEF RestoreFails
<1>9. CASE SessionEnds
  BY <1>9 DEF SessionEnds
<1>10. CASE RoleChanges
  BY <1>10 DEF RoleChanges
<1>11. CASE UNCHANGED vars
  BY <1>11 DEF vars
<1>. QED BY <1>1, <1>2, <1>3, <1>4, <1>5, <1>6, <1>7, <1>8, <1>9, <1>10, <1>11 DEF Next

LEMMA HoppingInit == Init => Hopping
BY DEF Init, Hopping

\* A redirect: the one from an alias is followed by at most one more, to the home.
LEMMA HoppingRedirect == RoutesInv /\ Redirect => Hopping'
<1>. SUFFICES ASSUME RoutesInv, Redirect PROVE Hopping'
  OBVIOUS
<1>. USE DEF RoutesInv, SessionInv
<1>1. PICK to \in Redirects : loc' = to
  BY DEF Redirect
<1>2. UNCHANGED <<session, role>> /\ session \in {"in", "out"}
  BY <1>1, NoneWhileRestoring DEF Redirect
<1>3. CASE session = "in"
  <2>1. to \in Guarded /\ to \notin TwoAway
        /\ (loc \notin TwoAway => to = getDashboardHomeByRole(role))
    BY <1>1, <1>3, Leads, PagesStay
  <2>2. hops <= 1 /\ (loc \in TwoAway => hops = 0) /\ hops \in Nat
    BY <1>1, <1>3 DEF Hopping
  <2>3. hops' = hops + 1
    BY <2>2, HopsAssumption DEF Redirect
  <2>4. loc \notin TwoAway => Redirects' = {}
    <3>1. (session = "in" /\ role \in Roles /\ loc = getDashboardHomeByRole(role)
             => Redirects = {})'
      BY HomeIsRest, PTL
    <3>2. loc \notin TwoAway => loc' = getDashboardHomeByRole(role)'
      BY <1>1, <1>2, <2>1 DEF getDashboardHomeByRole
    <3>. QED BY <1>2, <1>3, <3>1, <3>2
  <2>. QED BY <1>1, <1>2, <1>3, <2>1, <2>2, <2>3, <2>4 DEF Hopping
<1>4. CASE session = "out"
  <2>1. \/ InDashboard(loc) /\ to = LoginPath
        \/ loc = UsersAlias /\ ~InDashboard(loc) /\ to = getDashboardHomeByRole(NoRole)
    BY <1>1, <1>4, LeadsOut
  <2>2. hops \in Nat /\ (InDashboard(loc) => hops <= 2) /\ (loc = UsersAlias => hops <= 1)
    BY <1>4 DEF Hopping
  <2>3. hops' = hops + 1
    BY <2>1, <2>2, HopsAssumption DEF Redirect
  <2>4. InDashboard(loc') => hops' <= 2
    BY <1>1, <2>1, <2>2, <2>3, Outside
  <2>5. loc' # UsersAlias
    <3>1. getDashboardHomeByRole(NoRole) # UsersAlias
      BY Targets, PagesStay DEF TwoAway
    <3>. QED BY <1>1, <2>1, <3>1, Outside
  <2>6. InDashboard(loc') = InDashboard(loc)'
    BY DEF InDashboard
  <2>. QED BY <1>2, <1>4, <2>1, <2>2, <2>3, <2>4, <2>5, <2>6 DEF Hopping
<1>. QED BY <1>2, <1>3, <1>4

LEMMA HoppingStep == RoutesInv /\ [Next]_vars => Hopping'
<1>. SUFFICES ASSUME RoutesInv, [Next]_vars PROVE Hopping'
  OBVIOUS
<1>. USE DEF RoutesInv, SessionInv
<1>1. CASE Redirect
  BY <1>1, HoppingRedirect
<1>2. CASE hops' = 0
  BY <1>2 DEF Hopping
<1>3. CASE Follow \/ Open \/ Login \/ HandleLogout \/ RoleChanges
  BY <1>2, <1>3 DEF Follow, Open, Login, HandleLogout, RoleChanges, Choose
<1>4. CASE RestoreSucceeds \/ RestoreFails
  BY <1>2, <1>4 DEF RestoreSucceeds, RestoreFails
<1>5. CASE LogoutEnds \/ SessionEnds
  <2>1. session' = "out" /\ loc' = loc /\ hops' = hops
    BY <1>5 DEF LogoutEnds, SessionEnds
  <2>2. UsersAlias \in TwoAway
    BY DEF TwoAway
  <2>3. hops \in Nat /\ hops <= 3 /\ (InDashboard(loc) => hops <= 2)
          /\ (loc = UsersAlias => hops <= 1)
    BY <2>2 DEF Hopping
  <2>. QED BY <2>1, <2>3 DEF Hopping, InDashboard
<1>6. CASE UNCHANGED vars
  <2>1. Redirects' = Redirects
    BY <1>6 DEF vars, Redirects, PrivateRoute, LayoutRedirect, RouteElement,
                DashboardAliasRedirect, RoleGuard, InDashboard, canAccessDashboardPath,
                getDashboardHomeByRole, allowedPrefixesByRole, GuardRoles
  <2>. QED BY <1>6, <2>1 DEF vars, Hopping, InDashboard
<1>. QED BY <1>1, <1>3, <1>4, <1>5, <1>6 DEF Next

\* No address and no role makes the guards of App.tsx, the redirect of DashboardLayout and
\* the aliases send the user round in a circle: three redirects are enough from every
\* address, known to the router or not, whenever the session ends or the role changes.
THEOREM NoCircle == Spec => []NoRedirectLoop
<1>1. Init => RoutesInv
  BY SessionInit, HoppingInit DEF RoutesInv
<1>2. RoutesInv /\ [Next]_vars => RoutesInv'
  BY SessionStep, HoppingStep DEF RoutesInv
<1>3. RoutesInv => NoRedirectLoop
  BY DEF RoutesInv, SessionInv, Hopping, NoRedirectLoop
<1>. QED BY <1>1, <1>2, <1>3, PTL DEF Spec

-----------------------------------------------------------------------------
(* Links                                                                    *)

Live(r) == Offered(r, Admin(<<"agents", "directory">>)) \ DeadLinks(r)

\* A user of whom the last choice is a live link of the role is where the link leads,
\* not only once the redirects are over.
Arriving == session = "in" /\ wanted \in Live(role) => loc = wanted

LinksInv == SessionInv /\ Arriving

LEMMA NowhereIsDead == \A r \in Roles : NoPath \notin Live(r)
BY OfferReached, Outside DEF Live, Reaches

LEMMA ArrivingStep == LinksInv /\ [Next]_vars => Arriving'
<1>. SUFFICES ASSUME LinksInv, [Next]_vars PROVE Arriving'
  OBVIOUS
<1>. USE DEF LinksInv, SessionInv
<1>1. CASE Redirect
  <2>1. CASE session = "in" /\ wanted \in Live(role)
    <3>1. loc = wanted
      BY <2>1 DEF Arriving
    <3>2. Reaches(role, loc)
      BY <2>1, <3>1, OfferReached DEF Live
    <3>. QED BY <1>1, <2>1, <3>2, AtRest DEF Redirect
  <2>2. CASE ~(session = "in" /\ wanted \in Live(role))
    <3>1. session' = session /\ wanted' = wanted /\ Live(role)' = Live(role)
      BY <1>1 DEF Redirect, Live, Offered, DeadLinks, navSections, quickActions,
                  notificationsPath
    <3>. QED BY <2>2, <3>1 DEF Arriving
  <2>. QED BY <2>1, <2>2
<1>2. CASE Follow \/ HandleLogout
  BY <1>2 DEF Follow, HandleLogout, Choose, Arriving
<1>3. CASE Open \/ RestoreFails \/ LogoutEnds \/ SessionEnds
  BY <1>3 DEF Open, RestoreFails, LogoutEnds, SessionEnds, Arriving
<1>4. CASE RestoreSucceeds
  BY <1>4 DEF RestoreSucceeds, Arriving
<1>5. CASE Login \/ RoleChanges
  <2>1. wanted' = NoPath /\ role' \in Roles
    BY <1>5 DEF Login, RoleChanges
  <2>2. wanted' \notin Live(role')
    BY <2>1, NowhereIsDead
  <2>3. Live(role)' = Live(role')
    BY DEF Live, Offered, DeadLinks, navSections, quickActions, notificationsPath
  <2>. QED BY <2>2, <2>3 DEF Arriving
<1>6. CASE UNCHANGED vars
  <2>1. Live(role)' = Live(role)
    BY <1>6 DEF vars, Live, Offered, DeadLinks, navSections, quickActions, notificationsPath
  <2>. QED BY <1>6, <2>1 DEF vars, Arriving
<1>. QED BY <1>1, <1>2, <1>3, <1>4, <1>5, <1>6 DEF Next

\* A link that the menus, the shortcuts, the bell or the directory of DashboardLayout show
\* to a role, and that is not one of the dead links, leads to its page: no guard of
\* App.tsx and no prefix of dashboardAccess.ts sends the user elsewhere, whatever the
\* session did before.
THEOREM LinksLead == Spec => []LinksArrive
<1>1. Init => LinksInv
  BY SessionInit DEF Init, LinksInv, Arriving
<1>2. LinksInv /\ [Next]_vars => LinksInv'
  BY SessionStep, ArrivingStep DEF LinksInv
<1>3. LinksInv => LinksArrive
  BY DEF LinksInv, Arriving, Live, LinksArrive
<1>. QED BY <1>1, <1>2, <1>3, PTL DEF Spec
=============================================================================
