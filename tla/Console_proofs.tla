---------------------------- MODULE Console_proofs ----------------------------
(**************************************************************************)
(* What the console displays is what was chosen, however the answers are  *)
(* reordered, on a page that only reads and whose effects have a cleanup; *)
(* and what it offers to somebody, the backend grants him.                *)
(**************************************************************************)
EXTENDS Console, TLAPS

-----------------------------------------------------------------------------
(* The pages                                                              *)

\* The pages by their routes.
LEMMA Routes ==
    /\ PageOf["tickets"] = TicketsPage /\ PageOf["ticket"] = TicketDetailDrawer
    /\ PageOf["plantTickets"] = CompanyPlantTable /\ PageOf["help"] = HelpCenterPage
    /\ PageOf["schedules"] = SchedulesPage /\ PageOf["schedule"] = ScheduleDetailPage
    /\ PageOf["intraday"] = IntradayQueuePage /\ PageOf["engineers"] = SeList
    /\ PageOf["engineer"] = SeManagementPage /\ PageOf["planner"] = PlannerPage
    /\ PageOf["verification"] = VerificationReviewPage
    /\ PageOf["vehicles"] = VehicleUnavailabilityPage
    /\ PageOf["nonOp"] = NonOperationalQueuePage
    /\ PageOf["recovery"] = RecoveryDecisionQueuePage
    /\ PageOf["leave"] = LeaveRequestsPage /\ PageOf["vouchers"] = VoucherReviewPage
    /\ PageOf["blocked"] = ComponentBlockedPage
    /\ PageOf["oversight"] = ComponentOversightPage /\ PageOf["reports"] = ReportsPage
    /\ PageOf["approvalShare"] = CsmApprovalSharePage /\ PageOf["coverage"] = TerritoryPage
    /\ PageOf["settingsCompanies"] = CompaniesSection
    /\ PageOf["requests"] = ComponentRequestsPage /\ PageOf["shadow"] = ShadowUseQueuePage
    /\ PageOf["receipt"] = RecoveryReceiptQueuePage
    /\ PageOf["settingsZones"] = ZonesSection /\ PageOf["settingsPlants"] = PlantsSection
    /\ PageOf["settingsUsers"] = UsersSection
    /\ PageOf["settingsSlaRules"] = SlaRulesSection
    /\ PageOf["settingsWeights"] = ScoringWeightsSection
    /\ PageOf["settingsEngineers"] = SeCoverageSection
    /\ PageOf["settingsKit"] = CommonKitSection
  BY DEF PageOf

LEMMA RouteNames ==
    Paths = {"login", "home", "tickets", "ticket", "plantTickets", "help", "schedules",
             "schedule", "intraday", "engineers", "engineer", "planner", "verification",
             "vehicles", "nonOp", "recovery", "leave", "vouchers", "blocked", "oversight",
             "reports", "approvalShare", "coverage", "settingsZones", "settingsPlants",
             "settingsCompanies", "settingsUsers", "settingsSlaRules", "settingsWeights",
             "settingsEngineers", "settingsKit", "requests", "shadow", "receipt"}
  BY DEF Paths, PageOf

\* A page whose load depends on a choice and whose effect has a cleanup has no form.
Formless(page) == page.keyed /\ page.guarded => page.forms = Nothing

LEMMA FormlessViews ==
    /\ Formless(WarehouseDashboard) /\ Formless(ManagerDashboard)
    /\ Formless(CompanyPlantTable) /\ Formless(TicketsPage) /\ Formless(TicketDetailDrawer)
    /\ Formless(HelpCenterPage)
<1> USE DEF Formless, View
<1>1. Formless(WarehouseDashboard)
  BY DEF WarehouseDashboard
<1>2. Formless(ManagerDashboard)
  BY DEF ManagerDashboard
<1>3. Formless(CompanyPlantTable) /\ Formless(HelpCenterPage)
  BY DEF CompanyPlantTable, HelpCenterPage
<1>4. Formless(TicketsPage)
  BY DEF TicketsPage
<1>5. Formless(TicketDetailDrawer)
  BY DEF TicketDetailDrawer
<1> QED BY <1>1, <1>2, <1>3, <1>4, <1>5

LEMMA FormlessManagerViews ==
    /\ Formless(SchedulesPage) /\ Formless(ScheduleDetailPage) /\ Formless(IntradayQueuePage)
    /\ Formless(SeList) /\ Formless(SeManagementPage) /\ Formless(PlannerPage)
    /\ Formless(VerificationReviewPage) /\ Formless(VehicleUnavailabilityPage)
    /\ Formless(NonOperationalQueuePage) /\ Formless(RecoveryDecisionQueuePage)
    /\ Formless(LeaveRequestsPage) /\ Formless(VoucherReviewPage)
    /\ Formless(ComponentBlockedPage) /\ Formless(ComponentOversightPage)
    /\ Formless(ReportsPage)
<1> USE DEF Formless, View, ManagerView
<1>1. Formless(SchedulesPage) /\ Formless(IntradayQueuePage) /\ Formless(SeList)
  BY DEF SchedulesPage, IntradayQueuePage, SeList
<1>2. Formless(ComponentBlockedPage) /\ Formless(ComponentOversightPage) /\ Formless(ReportsPage)
  BY DEF ComponentBlockedPage, ComponentOversightPage, ReportsPage
<1>3. Formless(ScheduleDetailPage)
  BY DEF ScheduleDetailPage
<1>4. Formless(SeManagementPage)
  BY DEF SeManagementPage
<1>5. Formless(PlannerPage)
  BY DEF PlannerPage
<1>6. Formless(VerificationReviewPage)
  BY DEF VerificationReviewPage
<1>7. Formless(VehicleUnavailabilityPage)
  BY DEF VehicleUnavailabilityPage
<1>8. Formless(NonOperationalQueuePage)
  BY DEF NonOperationalQueuePage
<1>9. Formless(RecoveryDecisionQueuePage)
  BY DEF RecoveryDecisionQueuePage
<1>10. Formless(LeaveRequestsPage)
  BY DEF LeaveRequestsPage
<1>11. Formless(VoucherReviewPage)
  BY DEF VoucherReviewPage
<1> QED BY <1>1, <1>2, <1>3, <1>4, <1>5, <1>6, <1>7, <1>8, <1>9, <1>10, <1>11

LEMMA FormlessOtherViews ==
    /\ Formless(CsmApprovalSharePage) /\ Formless(TerritoryPage)
    /\ Formless(CompaniesSection)
    /\ \A calls, writes : Formless(Section(calls, writes))
    /\ Formless(ComponentRequestsPage) /\ Formless(ShadowUseQueuePage)
    /\ Formless(RecoveryReceiptQueuePage)
<1> USE DEF Formless, View, OpsHeadView, WarehouseView
<1>1. Formless(CsmApprovalSharePage)
  BY DEF CsmApprovalSharePage
<1>2. Formless(TerritoryPage)
  BY DEF TerritoryPage
<1>3. Formless(CompaniesSection)
  BY DEF CompaniesSection, Section
<1>4. ASSUME NEW calls, NEW writes PROVE Formless(Section(calls, writes))
  BY DEF Section
<1>5. Formless(ComponentRequestsPage)
  BY DEF ComponentRequestsPage
<1>6. Formless(ShadowUseQueuePage)
  BY DEF ShadowUseQueuePage
<1>7. Formless(RecoveryReceiptQueuePage)
  BY DEF RecoveryReceiptQueuePage
<1> QED BY <1>1, <1>2, <1>3, <1>4, <1>5, <1>6, <1>7

\* Whatever page is open, a form is offered on none that waits for a choice with a cleanup.
LEMMA FormlessPages ==
    ASSUME NEW p \in Paths \ {"login"}, NEW role \in Role,
           Page(p, role).keyed, Page(p, role).guarded
    PROVE  Page(p, role).forms[role] = {}
<1>1. p \in {"settingsZones", "settingsPlants", "settingsUsers", "settingsSlaRules",
             "settingsWeights", "settingsEngineers", "settingsKit"} =>
         \E calls, writes : PageOf[p] = Section(calls, writes)
  BY Routes
     DEF ZonesSection, PlantsSection, UsersSection, SlaRulesSection, ScoringWeightsSection,
         SeCoverageSection, CommonKitSection
<1>2. Formless(Page(p, role))
  BY <1>1, Routes, RouteNames, FormlessViews, FormlessManagerViews, FormlessOtherViews DEF Page
<1> QED BY <1>2 DEF Formless, Nothing

-----------------------------------------------------------------------------
(* The loads that are not answered                                        *)

\* A page with one choice waits for that choice; a page that is asked for another, reads only
\* and has a cleanup waits for the present one.
Awaits ==
    path # "login" =>
       /\ ~Opened.keyed => key = 1 /\ \A r \in sent : r.key = 1
       /\ Opened.keyed /\ Opened.guarded /\ Opened.rows[session] = {} =>
             \A r \in sent : r.guarded /\ r.key = key

\* Somebody is signed in wherever a page is open, and nothing is waited for at the login.
SignedIn ==
    /\ path \in Paths /\ session \in People \cup {"none"}
    /\ path # "login" => session \in People
    /\ path = "login" => sent = {}
    /\ token.fresh => token.role \in People

ConsoleInv == SignedIn /\ Awaits

\* A page that was just mounted waits for its first choice only.
LEMMA MountAwaits ==
    ASSUME NEW p, NEW tok, Mount(p, session', tok), p \in Paths,
           session' \in People \cup {"none"}, p # "login" => session' \in People
    PROVE  /\ Awaits'
           /\ path' \in Paths
           /\ path' # "login" => session' \in People
           /\ path' = "login" => sent' = {}
           /\ shown' = 0
<1>1. path' = p /\ key' = 1 /\ shown' = 0
  BY DEF Mount
<1>2. CASE p = "login"
  BY <1>1, <1>2 DEF Mount, Awaits
<1>3. CASE p # "login"
  <2>1. \A r \in sent' : r.key = 1 /\ r.guarded = Page(p, session').guarded
    BY <1>3 DEF Mount
  <2>2. Opened' = Page(p, session')
    BY <1>1 DEF Opened
  <2> QED BY <1>1, <1>3, <2>1, <2>2 DEF Awaits
<1> QED BY <1>2, <1>3

LEMMA InitInv == ConsoleInit => ConsoleInv
  BY DEF ConsoleInit, ConsoleInv, SignedIn, Awaits, Paths, NoToken

\* The rows that a step puts on display, where the property is about them.
RightRows ==
    shown' \notin {0, shown} /\ Opened'.guarded /\ Opened'.rows[session'] = {} => shown' = key'

\* Steps that open a page, or go to the login.
LEMMA MountsKeep ==
    ASSUME ConsoleInv,
           \/ Enter \/ Logout \/ ReloadTab
           \/ \E p \in Paths : Open(p)
           \/ \E c \in Offered : CloseTicketOfDrawer(c)
    PROVE  ConsoleInv' /\ RightRows
<1>1. "home" \in Paths /\ "login" \in Paths /\ "tickets" \in Paths
  BY DEF Paths, PageOf
<1>2. CASE Enter
  <2>1. session' = token.role /\ token.role \in People /\ token' = token
    BY <1>2 DEF Enter, ConsoleInv, SignedIn
  <2>2. Mount("home", session', token)
    BY <1>2, <2>1 DEF Enter
  <2> QED BY <1>1, <2>1, <2>2, MountAwaits DEF ConsoleInv, SignedIn, RightRows
<1>3. CASE Logout
  <2>1. session' = "none" /\ token' = NoToken /\ Mount("login", session', NoToken)
    BY <1>3 DEF Logout
  <2> QED BY <1>1, <2>1, MountAwaits DEF ConsoleInv, SignedIn, RightRows, NoToken
<1>4. CASE ReloadTab
  <2>1. session' = "none" /\ token' = token /\ Mount("login", session', token)
    BY <1>4 DEF ReloadTab
  <2> QED BY <1>1, <2>1, MountAwaits DEF ConsoleInv, SignedIn, RightRows
<1>5. ASSUME NEW p \in Paths, Open(p) PROVE ConsoleInv' /\ RightRows
  <2>1. session' = session /\ session \in People /\ token' = token
    BY <1>5 DEF Open, ConsoleInv, SignedIn
  <2>2. \E q \in Paths : Mount(q, session', token)
    BY <1>1, <1>5, <2>1 DEF Open
  <2> QED BY <2>1, <2>2, MountAwaits DEF ConsoleInv, SignedIn, RightRows
<1>6. ASSUME NEW c \in Offered, CloseTicketOfDrawer(c) PROVE ConsoleInv' /\ RightRows
  <2>1. session' = session /\ session \in People /\ token' = token
    BY <1>6 DEF CloseTicketOfDrawer, ConsoleInv, SignedIn
  <2>2. Mount("tickets", session', token)
    BY <1>6, <2>1 DEF CloseTicketOfDrawer
  <2> QED BY <1>1, <2>1, <2>2, MountAwaits DEF ConsoleInv, SignedIn, RightRows
<1> QED BY <1>2, <1>3, <1>4, <1>5, <1>6

\* Steps that leave the page and its loads alone.
LEMMA OthersKeep ==
    ASSUME ConsoleInv, UNCHANGED <<path, session, key, sent, shown>>,
           token'.fresh => token'.role \in People
    PROVE  ConsoleInv' /\ RightRows
  BY DEF ConsoleInv, SignedIn, Awaits, Opened, RightRows

\* Another choice: the requests of a guarded page are given up.
LEMMA ChooseKeeps ==
    ASSUME ConsoleInv, NEW k \in 1..MaxKeys, Choose(k)
    PROVE  ConsoleInv' /\ RightRows
<1>1. Opened' = Opened /\ path # "login" /\ Opened.keyed /\ key' = k
  BY DEF Choose, Opened
<1>2. Opened.guarded /\ Opened.rows[session] = {} => \A r \in sent' : r.guarded /\ r.key = k
  BY <1>1 DEF Choose, ConsoleInv, Awaits
<1>3. Awaits'
  BY <1>1, <1>2 DEF Awaits, Choose
<1> QED BY <1>1, <1>3 DEF Choose, ConsoleInv, SignedIn, RightRows

\* An answer is displayed with the choice it was asked for.
LEMMA AnsweredKeeps ==
    ASSUME ConsoleInv, NEW r \in sent, Answered(r)
    PROVE  ConsoleInv' /\ RightRows
<1>1. path # "login" /\ Opened' = Opened /\ sent' \subseteq sent
  BY DEF Answered, ConsoleInv, SignedIn, Opened
<1>2. ConsoleInv'
  BY <1>1 DEF Answered, ConsoleInv, SignedIn, Awaits
<1>3. RightRows
  BY <1>1 DEF Answered, ConsoleInv, SignedIn, Awaits, RightRows
<1> QED BY <1>2, <1>3

\* A page that only reads offers nothing, so that it never loads again of itself.
LEMMA ActKeeps ==
    ASSUME ConsoleInv, People \subseteq Role, NEW c \in Offered, Act(c)
    PROVE  ConsoleInv' /\ RightRows
<1>1. path \in Paths \ {"login"} /\ session \in Role /\ Opened' = Opened
  BY DEF Act, Offered, ConsoleInv, SignedIn, Opened
<1>2. Opened.keyed /\ Opened.guarded => Opened.forms[session] = {}
  BY <1>1, FormlessPages DEF Opened
<1>3. RowActions(path, session, acting) \in {{}, Opened.rows[session]}
  BY DEF RowActions, Opened
<1>4. ~(Opened.keyed /\ Opened.guarded /\ Opened.rows[session] = {})
  BY <1>2, <1>3 DEF Offered
<1>5. ~Opened.keyed => \A r \in sent' : r.key = 1
  BY <1>1 DEF Act, ConsoleInv, Awaits
<1>6. Awaits'
  BY <1>1, <1>4, <1>5 DEF Act, ConsoleInv, Awaits
<1> QED BY <1>1, <1>6 DEF Act, ConsoleInv, SignedIn, RightRows

LEMMA NextKeeps ==
    ASSUME ConsoleInv, [ConsoleNext]_consoleVars
    PROVE  ConsoleInv' /\ RightRows
<1>1. CASE UNCHANGED consoleVars
  BY <1>1, OthersKeep DEF consoleVars, ConsoleInv, SignedIn
<1>2. ASSUME NEW role \in People, SignIn(role) PROVE ConsoleInv' /\ RightRows
  BY <1>2, OthersKeep DEF SignIn
<1>3. CASE EnterFails
  BY <1>3, OthersKeep DEF EnterFails, ConsoleInv, SignedIn
<1>4. CASE TokenExpires
  <2>1. token'.fresh = FALSE
    BY <1>4 DEF TokenExpires
  <2> QED BY <1>4, <2>1, OthersKeep DEF TokenExpires
<1>5. ASSUME NEW on \in BOOLEAN, SetActing(on) PROVE ConsoleInv' /\ RightRows
  BY <1>5, OthersKeep DEF SetActing, ConsoleInv, SignedIn
<1> QED
  BY <1>1, <1>2, <1>3, <1>4, <1>5, MountsKeep, ChooseKeeps, AnsweredKeeps, ActKeeps,
     ConsoleAssumption
     DEF ConsoleNext

\* On a page that only reads and whose effects have a cleanup, the rows put on display are
\* those of the present choice, in whatever order the answers arrive (useApiResource), for
\* any people, choices and number of loads under way.
THEOREM ShownIsChosenHolds == ConsoleSpec => ShownIsChosen
<1>1. ConsoleInv /\ [ConsoleNext]_consoleVars => ConsoleInv'
  BY NextKeeps
<1>2. ConsoleInv /\ [ConsoleNext]_consoleVars => [RightRows]_consoleVars
  BY NextKeeps
<1> QED BY InitInv, <1>1, <1>2, PTL DEF ConsoleSpec, ShownIsChosen, RightRows

-----------------------------------------------------------------------------
(* What the pages offer, and to whom                                      *)

\* Every mutation on the page is granted to every role it is offered to.
Granted(page) ==
    \A role \in Role : \A c \in page.forms[role] \cup page.rows[role] : role \in Handler(c).may

\* What the page displays is granted to these roles, and what it asks on the side is granted or
\* known to be refused.
Served(page, roles) ==
    \A role \in roles :
       /\ \A c \in page.load : role \in Handler(c).may
       /\ \A c \in SnapshotBanner.side \cup page.side :
             role \in Handler(c).may \/ <<role, c>> \in Swallowed

Calls(c, handlers, roles) == \A h \in handlers : Handler(<<c, h>>).may = roles

LEMMA Controllers1 ==
    /\ API["schedules"] = Schedules /\ API["batches"] = Batches /\ API["engineers"] = Engineers
    /\ API["planner"] = Planner /\ API["verification"] = Verification
    /\ API["vehicles"] = VehicleUnavailability /\ API["nonOp"] = NonOp
    /\ API["recovery"] = Recovery /\ API["leave"] = LeaveRequests
    /\ API["vouchers"] = VoucherCalls /\ API["tickets"] = TicketCalls
    /\ API["requests"] = ComponentRequests /\ API["updates"] = IntradayUpdates
    /\ API["blocked"] = ComponentBlocked /\ API["dashboard"] = Dashboard
    /\ API["snapshots"] = Snapshots /\ API["devices"] = Devices
  BY DEF API

LEMMA Controllers2 ==
    /\ API["warehouse"] = Warehouse /\ API["shadow"] = ShadowUse
    /\ API["backup"] = RoleBackup /\ API["territory"] = SeTerritory /\ API["zones"] = OrgZones
    /\ API["plants"] = OrgPlants /\ API["companies"] = Companies /\ API["users"] = Users
    /\ API["slaRules"] = SlaRules /\ API["weights"] = ScoringWeights
    /\ API["orgEngineers"] = OrgEngineers /\ API["coverage"] = SeCoverage /\ API["kit"] = CommonKit
    /\ API["reports"] = Reports /\ API["geo"] = Geography
  BY DEF API

LEMMA ManagersMay ==
    /\ Calls("schedules", {"assign", "list", "zoneEngineers", "detail"}, Mgr)
    /\ Calls("batches", {"override"}, Mgr)
    /\ Calls("engineers", {"list", "detail"}, Mgr)
    /\ Calls("planner", {"list", "plants", "create", "remove"}, Mgr)
    /\ Calls("verification", {"review", "escalate", "markAutoRecovery"}, Mgr)
    /\ Calls("vehicles", {"list", "confirmDate", "resume"}, Mgr)
    /\ Calls("nonOp", {"request", "queue", "confirm"}, Mgr)
    /\ Calls("recovery", {"zmQueue", "reschedule", "closeFailed", "escalate", "manualClose"}, Mgr)
    /\ Calls("leave", {"list"}, Mgr)
    /\ Calls("vouchers", {"queue", "review"}, Mgr)
    /\ Calls("tickets", {"list", "getOne"}, Mgr)
    /\ Calls("requests", {"oversight", "byTicket"}, Mgr)
    /\ Calls("updates", {"list"}, Mgr)
    /\ Calls("blocked", {"list"}, Mgr)
    /\ Calls("dashboard", Handlers("dashboard"), Mgr)
    /\ Calls("snapshots", {"latest"}, Mgr)
    /\ Calls("devices", {"get"}, Mgr)
    /\ Calls("reports", {"fleetUptime"}, Mgr)
<1> USE Controllers1, Controllers2 DEF Calls, Handler, Of, AsActor
<1>1. Calls("schedules", {"assign", "list", "zoneEngineers", "detail"}, Mgr)
      /\ Calls("batches", {"override"}, Mgr)
  BY DEF Schedules, Batches
<1>2. Calls("engineers", {"list", "detail"}, Mgr)
      /\ Calls("planner", {"list", "plants", "create", "remove"}, Mgr)
  BY DEF Engineers, Planner
<1>3. Calls("verification", {"review", "escalate", "markAutoRecovery"}, Mgr)
      /\ Calls("vehicles", {"list", "confirmDate", "resume"}, Mgr)
  BY DEF Verification, VehicleUnavailability
<1>4. /\ Calls("nonOp", {"request", "queue", "confirm"}, Mgr)
      /\ Calls("recovery", {"zmQueue", "reschedule", "closeFailed", "escalate", "manualClose"}, Mgr)
  BY DEF NonOp, Recovery
<1>5. Calls("leave", {"list"}, Mgr) /\ Calls("vouchers", {"queue", "review"}, Mgr)
      /\ Calls("tickets", {"list", "getOne"}, Mgr)
      /\ Calls("requests", {"oversight", "byTicket"}, Mgr)
  BY DEF LeaveRequests, VoucherCalls, TicketCalls, ComponentRequests
<1>6. Calls("updates", {"list"}, Mgr) /\ Calls("blocked", {"list"}, Mgr)
      /\ Calls("snapshots", {"latest"}, Mgr) /\ Calls("devices", {"get"}, Mgr)
      /\ Calls("reports", {"fleetUptime"}, Mgr)
  BY DEF IntradayUpdates, ComponentBlocked, Snapshots, Devices, Reports
<1>7. Calls("dashboard", Handlers("dashboard"), Mgr)
  BY DEF Dashboard, Handlers
<1> QED BY <1>1, <1>2, <1>3, <1>4, <1>5, <1>6, <1>7

LEMMA OthersMay ==
    /\ Calls("leave", {"approve", "reject"}, {ZM, CSM})
    /\ Calls("engineers", {"setAvailability"}, {ZM, CSM, SE})
    /\ Calls("nonOp", {"override"}, {OH})
    /\ Calls("vouchers", {"export", "markPaid"}, {OH})
    /\ Calls("reports", {"softInactiveTrend"}, {OH})
    /\ Calls("backup", {"report"}, {OH})
    /\ Calls("territory", {"list", "add", "remove"}, {OH})
    /\ Calls("zones", {"list", "create"}, {OH})
    /\ Calls("plants", {"list", "create"}, {OH})
    /\ Calls("companies", {"list", "create", "update"}, {OH})
    /\ Calls("users", {"list", "create"}, {OH})
    /\ Calls("slaRules", {"list", "upsert"}, {OH})
    /\ Calls("weights", {"list", "upsert"}, {OH})
    /\ Calls("orgEngineers", {"list", "create"}, {OH})
    /\ Calls("coverage", {"list", "add"}, {OH})
    /\ Calls("kit", {"list", "upsert"}, {OH})
    /\ Calls("warehouse", {"list", "approve", "ship", "reject"}, {WM})
    /\ Calls("shadow", {"list", "reconcile", "dispute"}, {WM})
    /\ Calls("recovery", {"receipt"}, {WM})
    /\ Calls("recovery", {"awaitingReceipt"}, Mgr \cup {WM})
    /\ Calls("geo", Handlers("geo"), Role)
<1> USE Controllers1, Controllers2 DEF Calls, Handler, Of, AsActor
<1>1. /\ Calls("leave", {"approve", "reject"}, {ZM, CSM})
      /\ Calls("engineers", {"setAvailability"}, {ZM, CSM, SE})
  BY DEF LeaveRequests, Engineers
<1>2. /\ Calls("nonOp", {"override"}, {OH}) /\ Calls("vouchers", {"export", "markPaid"}, {OH})
      /\ Calls("reports", {"softInactiveTrend"}, {OH})
  BY DEF NonOp, VoucherCalls, Reports
<1>3. /\ Calls("backup", {"report"}, {OH}) /\ Calls("territory", {"list", "add", "remove"}, {OH})
      /\ Calls("zones", {"list", "create"}, {OH}) /\ Calls("plants", {"list", "create"}, {OH})
  BY DEF RoleBackup, SeTerritory, OrgZones, OrgPlants
<1>4. /\ Calls("companies", {"list", "create", "update"}, {OH})
      /\ Calls("users", {"list", "create"}, {OH}) /\ Calls("slaRules", {"list", "upsert"}, {OH})
      /\ Calls("weights", {"list", "upsert"}, {OH})
  BY DEF Companies, Users, SlaRules, ScoringWeights
<1>5. /\ Calls("orgEngineers", {"list", "create"}, {OH}) /\ Calls("coverage", {"list", "add"}, {OH})
      /\ Calls("kit", {"list", "upsert"}, {OH})
  BY DEF OrgEngineers, SeCoverage, CommonKit
<1>6. /\ Calls("warehouse", {"list", "approve", "ship", "reject"}, {WM})
      /\ Calls("shadow", {"list", "reconcile", "dispute"}, {WM})
  BY DEF Warehouse, ShadowUse
<1>7. /\ Calls("recovery", {"receipt"}, {WM})
      /\ Calls("recovery", {"awaitingReceipt"}, Mgr \cup {WM})
  BY DEF Recovery
<1>8. Calls("geo", Handlers("geo"), Role)
  BY DEF Geography, Handlers
<1> QED BY <1>1, <1>2, <1>3, <1>4, <1>5, <1>6, <1>7, <1>8

LEMMA GrantedViews ==
    /\ Granted(WarehouseDashboard) /\ Granted(CompanyPlantTable) /\ Granted(TicketsPage)
    /\ Granted(TicketDetailDrawer) /\ Granted(HelpCenterPage)
    /\ \A role \in Mgr : \A c \in ManagerDashboard.forms[role] \cup ManagerDashboard.rows[role] :
          role \in Handler(c).may
<1> USE ManagersMay DEF Granted, Calls, View, For, Nothing
<1>1. Granted(WarehouseDashboard) /\ Granted(CompanyPlantTable) /\ Granted(HelpCenterPage)
  BY DEF WarehouseDashboard, CompanyPlantTable, HelpCenterPage
<1>2. Granted(TicketsPage) /\ Granted(TicketDetailDrawer)
  BY DEF TicketsPage, TicketDetailDrawer
<1>3. \A role \in Mgr : \A c \in ManagerDashboard.forms[role] \cup ManagerDashboard.rows[role] :
          role \in Handler(c).may
  BY DEF ManagerDashboard, Mgr, Role
<1> QED BY <1>1, <1>2, <1>3

LEMMA GrantedManagerViews ==
    /\ Granted(SchedulesPage) /\ Granted(ScheduleDetailPage) /\ Granted(IntradayQueuePage)
    /\ Granted(SeList) /\ Granted(SeManagementPage) /\ Granted(PlannerPage)
    /\ Granted(VerificationReviewPage) /\ Granted(VehicleUnavailabilityPage)
    /\ Granted(NonOperationalQueuePage) /\ Granted(RecoveryDecisionQueuePage)
    /\ Granted(LeaveRequestsPage) /\ Granted(VoucherReviewPage)
    /\ Granted(ComponentBlockedPage) /\ Granted(ComponentOversightPage)
    /\ Granted(ReportsPage)
<1> USE ManagersMay, OthersMay DEF Granted, Calls, View, ManagerView, For, Nothing
<1>1. Granted(SchedulesPage) /\ Granted(IntradayQueuePage) /\ Granted(SeList)
  BY DEF SchedulesPage, IntradayQueuePage, SeList
<1>2. Granted(ComponentBlockedPage) /\ Granted(ComponentOversightPage) /\ Granted(ReportsPage)
  BY DEF ComponentBlockedPage, ComponentOversightPage, ReportsPage
<1>3. Granted(ScheduleDetailPage) /\ Granted(SeManagementPage)
  BY DEF ScheduleDetailPage, SeManagementPage
<1>4. Granted(PlannerPage) /\ Granted(VerificationReviewPage)
  BY DEF PlannerPage, VerificationReviewPage
<1>5. Granted(VehicleUnavailabilityPage)
  BY DEF VehicleUnavailabilityPage
<1>9. Granted(RecoveryDecisionQueuePage)
  <2>1. \A role \in Role : \A c \in RecoveryDecisionQueuePage.forms[role]
                                     \cup RecoveryDecisionQueuePage.rows[role] :
           role \in Mgr
            /\ \E h \in {"reschedule", "closeFailed", "escalate"} : c = <<"recovery", h>>
    BY DEF RecoveryDecisionQueuePage
  <2> QED BY <2>1
<1>6. Granted(NonOperationalQueuePage)
  BY DEF NonOperationalQueuePage, And
<1>7. Granted(LeaveRequestsPage)
  BY DEF LeaveRequestsPage
<1>8. Granted(VoucherReviewPage)
  <2>1. VoucherReviewPage.forms = For({OH}, {<<"vouchers", "export">>})
    BY DEF VoucherReviewPage
  <2>2. VoucherReviewPage.rows = And(For(Mgr, {<<"vouchers", "review">>}),
                                     For({OH}, {<<"vouchers", "markPaid">>}))
    BY DEF VoucherReviewPage
  <2>3. \A role \in Role : \A c \in VoucherReviewPage.forms[role]
                                     \cup VoucherReviewPage.rows[role] :
           \/ role = OH /\ c \in {<<"vouchers", "export">>, <<"vouchers", "markPaid">>}
           \/ role \in Mgr /\ c = <<"vouchers", "review">>
    BY <2>1, <2>2 DEF And
  <2> QED BY <2>3
<1> QED BY <1>1, <1>2, <1>3, <1>4, <1>5, <1>6, <1>7, <1>8, <1>9

LEMMA GrantedOtherViews ==
    /\ Granted(CsmApprovalSharePage) /\ Granted(TerritoryPage) /\ Granted(ZonesSection)
    /\ Granted(PlantsSection) /\ Granted(CompaniesSection) /\ Granted(UsersSection)
    /\ Granted(SlaRulesSection) /\ Granted(ScoringWeightsSection) /\ Granted(SeCoverageSection)
    /\ Granted(CommonKitSection) /\ Granted(ComponentRequestsPage)
    /\ Granted(ShadowUseQueuePage) /\ Granted(RecoveryReceiptQueuePage)
<1> USE OthersMay DEF Granted, Calls, View, OpsHeadView, WarehouseView, Section, For, Nothing
<1>1. Granted(CsmApprovalSharePage) /\ Granted(TerritoryPage)
  BY DEF CsmApprovalSharePage, TerritoryPage
<1>2. Granted(ZonesSection) /\ Granted(PlantsSection) /\ Granted(UsersSection)
  BY DEF ZonesSection, PlantsSection, UsersSection
<1>3. Granted(CompaniesSection) /\ Granted(SlaRulesSection)
  BY DEF CompaniesSection, SlaRulesSection
<1>4. Granted(ScoringWeightsSection) /\ Granted(SeCoverageSection) /\ Granted(CommonKitSection)
  BY DEF ScoringWeightsSection, SeCoverageSection, CommonKitSection
<1>5. Granted(ComponentRequestsPage)
  <2> SUFFICES ASSUME NEW role \in Role,
                      NEW c \in ComponentRequestsPage.forms[role]
                                \cup ComponentRequestsPage.rows[role]
               PROVE  role \in Handler(c).may
    OBVIOUS
  <2>1. role = WM /\ \E h \in {"approve", "ship", "reject"} : c = <<"warehouse", h>>
    BY DEF ComponentRequestsPage
  <2>2. \A h \in {"approve", "ship", "reject"} : Handler(<<"warehouse", h>>).may = {WM}
    OBVIOUS
  <2> QED BY <2>1, <2>2
<1>6. Granted(ShadowUseQueuePage) /\ Granted(RecoveryReceiptQueuePage)
  BY DEF ShadowUseQueuePage, RecoveryReceiptQueuePage
<1> QED BY <1>1, <1>2, <1>3, <1>4, <1>5, <1>6

LEMMA BannerServed ==
    \A role \in Role \ {SE} : \A c \in SnapshotBanner.side :
       role \in Handler(c).may \/ <<role, c>> \in Swallowed
  BY ManagersMay DEF Calls, SnapshotBanner, View, Swallowed, Role, Mgr

LEMMA ServedLandings ==
    /\ Served(WarehouseDashboard, {WM}) /\ Served(ManagerDashboard, Mgr)
    /\ Served(HelpCenterPage, Role \ {SE}) /\ Served(TicketsPage, Mgr)
<1>1. Mgr \subseteq Role \ {SE} /\ WM \in Role \ {SE}
  BY DEF Mgr, Role, ZM, CSM, OH, WM, SE
<1>2. Served(WarehouseDashboard, {WM})
  <2>1. /\ WarehouseDashboard.load = {}
        /\ WarehouseDashboard.side = {<<"warehouse", "list">>, <<"blocked", "list">>,
                                    <<"shadow", "list">>}
    BY DEF WarehouseDashboard, View
  <2>2. <<WM, <<"blocked", "list">>>> \in Swallowed
    BY DEF Swallowed
  <2>3. \A c \in WarehouseDashboard.side : WM \in Handler(c).may \/ <<WM, c>> \in Swallowed
    BY <2>1, <2>2, OthersMay DEF Calls
  <2> QED BY <1>1, <2>1, <2>3, BannerServed DEF Served
<1>3. Served(ManagerDashboard, Mgr)
  <2>1. /\ ManagerDashboard.load = {<<"dashboard", h>> : h \in Handlers("dashboard")}
        /\ ManagerDashboard.side = {<<"schedules", "zoneEngineers">>}
    BY DEF ManagerDashboard, View
  <2>2. \A c \in ManagerDashboard.load \cup ManagerDashboard.side : Handler(c).may = Mgr
    BY <2>1, ManagersMay DEF Calls
  <2> QED BY <1>1, <2>2, BannerServed DEF Served
<1>4. Served(HelpCenterPage, Role \ {SE})
  BY BannerServed DEF HelpCenterPage, View, Served
<1>5. Served(TicketsPage, Mgr)
  BY <1>1, BannerServed, ManagersMay DEF TicketsPage, View, Served, Calls
<1> QED BY <1>2, <1>3, <1>4, <1>5

LEMMA ServedManagerViews ==
    /\ Served(SchedulesPage, Mgr) /\ Served(IntradayQueuePage, Mgr) /\ Served(SeList, Mgr)
    /\ Served(SeManagementPage, Mgr) /\ Served(PlannerPage, Mgr)
    /\ Served(VerificationReviewPage, Mgr) /\ Served(VehicleUnavailabilityPage, Mgr)
    /\ Served(NonOperationalQueuePage, Mgr) /\ Served(RecoveryDecisionQueuePage, Mgr)
    /\ Served(LeaveRequestsPage, Mgr) /\ Served(VoucherReviewPage, Mgr)
    /\ Served(ComponentBlockedPage, Mgr) /\ Served(ComponentOversightPage, Mgr)
    /\ Served(ReportsPage, Mgr)
<1>1. Mgr \subseteq Role \ {SE}
  BY DEF Mgr, Role, ZM, CSM, OH, WM, SE
<1> USE <1>1, BannerServed, ManagersMay DEF Served, Calls, View, ManagerView
<1>2. Served(SchedulesPage, Mgr) /\ Served(IntradayQueuePage, Mgr) /\ Served(SeList, Mgr)
  BY DEF SchedulesPage, IntradayQueuePage, SeList
<1>3. Served(SeManagementPage, Mgr) /\ Served(VerificationReviewPage, Mgr)
  BY DEF SeManagementPage, VerificationReviewPage
<1>4. Served(PlannerPage, Mgr)
  BY DEF PlannerPage
<1>5. Served(VehicleUnavailabilityPage, Mgr) /\ Served(RecoveryDecisionQueuePage, Mgr)
  BY DEF VehicleUnavailabilityPage, RecoveryDecisionQueuePage
<1>6. Served(NonOperationalQueuePage, Mgr)
  BY DEF NonOperationalQueuePage
<1>7. Served(LeaveRequestsPage, Mgr) /\ Served(VoucherReviewPage, Mgr)
  BY DEF LeaveRequestsPage, VoucherReviewPage
<1>8. Served(ComponentBlockedPage, Mgr) /\ Served(ComponentOversightPage, Mgr)
  BY DEF ComponentBlockedPage, ComponentOversightPage
<1>9. Served(ReportsPage, Mgr)
  <2>1. /\ ReportsPage.load = {}
        /\ ReportsPage.side = {<<"reports", "fleetUptime">>, <<"dashboard", "zoneOverview">>,
                               <<"reports", "softInactiveTrend">>}
    BY DEF ReportsPage
  <2>2. "zoneOverview" \in Handlers("dashboard")
    BY Controllers1 DEF Handlers, Dashboard
  <2>3. \A role \in Mgr : \/ role \in Handler(<<"reports", "softInactiveTrend">>).may
                           \/ <<role, <<"reports", "softInactiveTrend">>>> \in Swallowed
    BY OthersMay DEF Swallowed, Mgr
  <2>4. \A role \in Mgr : \A c \in ReportsPage.side :
            role \in Handler(c).may \/ <<role, c>> \in Swallowed
    BY <2>1, <2>2, <2>3
  <2> QED BY <2>1, <2>4
<1> QED BY <1>2, <1>3, <1>4, <1>5, <1>6, <1>7, <1>8, <1>9

LEMMA ServedOtherViews ==
    /\ Served(CsmApprovalSharePage, {OH}) /\ Served(TerritoryPage, {OH})
    /\ Served(ZonesSection, {OH}) /\ Served(ComponentRequestsPage, {WM})
    /\ Served(ShadowUseQueuePage, {WM}) /\ Served(RecoveryReceiptQueuePage, {WM})
<1>1. OH \in Role \ {SE} /\ WM \in Role \ {SE}
  BY DEF Mgr, Role, ZM, CSM, OH, WM, SE
<1> USE <1>1, BannerServed, OthersMay DEF Served, Calls, View, OpsHeadView, WarehouseView
<1>2. Served(CsmApprovalSharePage, {OH}) /\ Served(ZonesSection, {OH})
  BY DEF CsmApprovalSharePage, ZonesSection, Section
<1>3. Served(TerritoryPage, {OH})
  <2>1. /\ TerritoryPage.load = {<<"territory", "list">>}
        /\ TerritoryPage.side = {<<"orgEngineers", "list">>}
                               \cup {<<"geo", h>> : h \in Handlers("geo")}
    BY DEF TerritoryPage
  <2>2. \A c \in TerritoryPage.side : OH \in Handler(c).may
    BY <2>1
  <2> QED BY <2>1, <2>2
<1>4. Served(ComponentRequestsPage, {WM})
  BY DEF ComponentRequestsPage
<1>5. Served(ShadowUseQueuePage, {WM}) /\ Served(RecoveryReceiptQueuePage, {WM})
  BY DEF ShadowUseQueuePage, RecoveryReceiptQueuePage
<1> QED BY <1>2, <1>3, <1>4, <1>5

\* Whatever page is open, what it offers is granted; a service engineer at the managers' landing
\* page is the exception.
LEMMA PagesGranted ==
    ASSUME NEW p \in Paths \ {"login"}, NEW role \in Role, p # "home" \/ role # SE
    PROVE  \A c \in Page(p, role).forms[role] \cup Page(p, role).rows[role] :
              role \in Handler(c).may
<1>1. CASE p = "home"
  <2>1. role = WM \/ role \in Mgr
    BY <1>1 DEF Role, Mgr
  <2> QED BY <1>1, <2>1, GrantedViews DEF Page, Granted
<1>2. CASE p # "home"
  <2>1. Granted(PageOf[p])
    BY <1>2, Routes, RouteNames, GrantedViews, GrantedManagerViews, GrantedOtherViews
  <2> QED BY <1>2, <2>1 DEF Page, Granted
<1> QED BY <1>1, <1>2

\* The roles of the pages the sidebar links to.
LEMMA LinkedRoles ==
    ASSUME NEW role \in Role, NEW p \in Nav(role)
    PROVE  role \in Page(p, role).roles
<1> USE DEF View, ManagerView, OpsHeadView, WarehouseView
<1>1. WarehouseDashboard.roles = Role /\ ManagerDashboard.roles = Role
  BY DEF WarehouseDashboard, ManagerDashboard
<1>2. HelpCenterPage.roles = Role /\ TicketsPage.roles = Role
  BY DEF HelpCenterPage, TicketsPage
<1>3. SchedulesPage.roles = Mgr /\ IntradayQueuePage.roles = Mgr /\ SeList.roles = Mgr
  BY DEF SchedulesPage, IntradayQueuePage, SeList
<1>4. PlannerPage.roles = Mgr /\ VerificationReviewPage.roles = Mgr
      /\ VehicleUnavailabilityPage.roles = Mgr
  BY DEF PlannerPage, VerificationReviewPage, VehicleUnavailabilityPage
<1>5. NonOperationalQueuePage.roles = Mgr /\ RecoveryDecisionQueuePage.roles = Mgr
  BY DEF NonOperationalQueuePage, RecoveryDecisionQueuePage
<1>6. LeaveRequestsPage.roles = Mgr /\ VoucherReviewPage.roles = Mgr /\ ReportsPage.roles = Mgr
  BY DEF LeaveRequestsPage, VoucherReviewPage, ReportsPage
<1>7. ComponentBlockedPage.roles = Mgr /\ ComponentOversightPage.roles = Mgr
  BY DEF ComponentBlockedPage, ComponentOversightPage
<1>8. /\ CsmApprovalSharePage.roles = {OH} /\ TerritoryPage.roles = {OH}
      /\ ZonesSection.roles = {OH}
  BY DEF CsmApprovalSharePage, TerritoryPage, ZonesSection, Section
<1>9. /\ ComponentRequestsPage.roles = {WM} /\ ShadowUseQueuePage.roles = {WM}
      /\ RecoveryReceiptQueuePage.roles = {WM}
  BY DEF ComponentRequestsPage, ShadowUseQueuePage, RecoveryReceiptQueuePage
<1> QED BY <1>1, <1>2, <1>3, <1>4, <1>5, <1>6, <1>7, <1>8, <1>9, Routes DEF Nav, Page

LEMMA LinkedServed ==
    ASSUME NEW role \in Role \ {SE}, NEW p \in Nav(role)
    PROVE  /\ \A c \in Page(p, role).load : role \in Handler(c).may
           /\ \A c \in SideCalls(p, role) : role \in Handler(c).may \/ <<role, c>> \in Swallowed
<1>1. role \in Mgr \/ role = WM
  BY DEF Role, Mgr
<1>2. WM \notin Mgr /\ OH \in Mgr
  BY DEF Mgr, ZM, CSM, OH, WM
<1>3. \E roles : role \in roles /\ Served(Page(p, role), roles)
  <2>1. CASE p = "home"
    BY <1>1, <1>2, <2>1, ServedLandings DEF Page
  <2>2. CASE p \in {"help", "tickets"}
    BY <1>1, <1>2, <2>2, Routes, ServedLandings DEF Page, Nav
  <2>3. CASE p \in {"requests", "shadow", "receipt", "coverage", "approvalShare", "settingsZones"}
    BY <1>1, <1>2, <2>3, Routes, ServedOtherViews DEF Page, Nav
  <2>4. CASE p \in {"schedules", "intraday", "engineers", "planner", "verification", "vehicles",
                    "nonOp", "recovery", "leave", "vouchers", "blocked", "oversight", "reports"}
    BY <1>1, <1>2, <2>4, Routes, ServedManagerViews DEF Page, Nav
  <2> QED BY <2>1, <2>2, <2>3, <2>4 DEF Nav
<1> QED BY <1>3 DEF Served, SideCalls

-----------------------------------------------------------------------------
(* Nobody is offered what he may not do                                   *)

\* A sign-in is under way at the login only, what is waited for was asked for with a token of the
\* role of the present one, and the managers' landing page shows a service engineer nothing.
OfferedInv ==
    /\ ConsoleInv
    /\ entering => path = "login"
    /\ \A r \in sent : r.token.role = token.role
    /\ path = "home" /\ session = SE /\ token.role = SE => shown = 0

\* What is left to show when the page may display something else.
LEMMA OfferedSuffices ==
    ASSUME OfferedInv, [ConsoleNext]_consoleVars, entering' => path' = "login",
           \A r \in sent' : r.token.role = token'.role,
           path' = "home" /\ session' = SE /\ token'.role = SE => shown' = 0
    PROVE  OfferedInv'
  BY NextKeeps DEF OfferedInv

LEMMA MountWaits ==
    ASSUME NEW p, NEW role, NEW tok, Mount(p, role, tok)
    PROVE  shown' = 0 /\ path' = p /\ \A r \in sent' : r.token = tok
  BY DEF Mount

\* The landing page of a service engineer asks for what only managers may see.
LEMMA EngineerSeesNothing ==
    ASSUME NEW tok, tok.role = SE
    PROVE  \E c \in Page("home", SE).load : Answer(tok, c) # 200
<1>1. <<"dashboard", "zoneOverview">> \in ManagerDashboard.load
  BY Controllers1 DEF ManagerDashboard, View, Handlers, Dashboard
<1>2. Handler(<<"dashboard", "zoneOverview">>).may = Mgr
  BY Controllers1 DEF Handler, Dashboard, Of
<1>3. SE \notin Mgr /\ SE # WM
  BY DEF Mgr, ZM, CSM, OH, WM, SE
<1>4. Answer(tok, <<"dashboard", "zoneOverview">>) # 200
  BY <1>2, <1>3 DEF Answer
<1> QED BY <1>1, <1>3, <1>4 DEF Page

LEMMA OfferedNext ==
    ASSUME OfferedInv, [ConsoleNext]_consoleVars
    PROVE  OfferedInv'
<1> USE DEF OfferedInv
<1>1. CASE UNCHANGED consoleVars
  BY <1>1, OfferedSuffices DEF consoleVars
<1>2. ASSUME NEW role \in People, SignIn(role) PROVE OfferedInv'
  <2>1. path = "login" /\ sent = {}
    BY <1>2 DEF SignIn, ConsoleInv, SignedIn
  <2> QED BY <1>2, <2>1, OfferedSuffices DEF SignIn
<1>3. CASE Enter
  BY <1>3, MountWaits, OfferedSuffices DEF Enter
<1>4. CASE EnterFails
  BY <1>4, OfferedSuffices DEF EnterFails
<1>5. CASE Logout
  <2>1. path' = "login" /\ sent' = {} /\ shown' = 0
    BY <1>5 DEF Logout, Mount
  <2> QED BY <1>5, <2>1, OfferedSuffices DEF Logout
<1>6. CASE ReloadTab
  <2>1. path' = "login" /\ sent' = {} /\ shown' = 0
    BY <1>6 DEF ReloadTab, Mount
  <2> QED BY <1>6, <2>1, OfferedSuffices DEF ReloadTab
<1>7. CASE TokenExpires
  <2>1. token'.role = token.role
    BY <1>7 DEF TokenExpires
  <2> QED BY <1>7, <2>1, OfferedSuffices DEF TokenExpires
<1>8. ASSUME NEW on \in BOOLEAN, SetActing(on) PROVE OfferedInv'
  BY <1>8, OfferedSuffices DEF SetActing
<1>9. ASSUME NEW p \in Paths, Open(p) PROVE OfferedInv'
  <2>1. PICK q : Mount(q, session, token)
    BY <1>9 DEF Open
  <2>2. shown' = 0 /\ \A r \in sent' : r.token = token
    BY <2>1, MountWaits
  <2> QED BY <1>9, <2>2, OfferedSuffices DEF Open
<1>10. ASSUME NEW k \in 1..MaxKeys, Choose(k) PROVE OfferedInv'
  <2>1. \A r \in sent' : r \in sent \/ r.token = token
    BY <1>10 DEF Choose
  <2>2. shown' \in {0, shown}
    BY <1>10 DEF Choose
  <2> QED BY <1>10, <2>1, <2>2, OfferedSuffices DEF Choose
<1>11. ASSUME NEW r \in sent, Answered(r) PROVE OfferedInv'
  <2>1. path = "home" /\ session = SE /\ token.role = SE => shown' = shown
    <3> SUFFICES ASSUME path = "home", session = SE, token.role = SE PROVE shown' = shown
      OBVIOUS
    <3>1. \E c \in Opened.load : Answer(r.token, c) # 200
      BY EngineerSeesNothing DEF Opened
    <3> QED BY <1>11, <3>1 DEF Answered
  <2> QED BY <1>11, <2>1, OfferedSuffices DEF Answered
<1>12. ASSUME NEW c \in Offered, Act(c) PROVE OfferedInv'
  <2>1. \A r \in sent' : r \in sent \/ r.token = token
    BY <1>12 DEF Act
  <2> QED BY <1>12, <2>1, OfferedSuffices DEF Act
<1>13. ASSUME NEW c \in Offered, CloseTicketOfDrawer(c) PROVE OfferedInv'
  <2>1. path' = "tickets" /\ shown' = 0 /\ \A r \in sent' : r.token = token
    BY <1>13, MountWaits DEF CloseTicketOfDrawer
  <2>2. entering' = entering /\ token' = token /\ path = "ticket"
    BY <1>13 DEF CloseTicketOfDrawer
  <2> QED BY <2>1, <2>2, OfferedSuffices
<1> QED
  BY <1>1, <1>2, <1>3, <1>4, <1>5, <1>6, <1>7, <1>8, <1>9, <1>10, <1>11, <1>12, <1>13
     DEF ConsoleNext

LEMMA OfferedInvImplies == ASSUME OfferedInv PROVE OfferedIsAllowed
<1> SUFFICES ASSUME session # "none", token.role = session PROVE OfferedIsAllowed
  BY DEF OfferedIsAllowed
<1>1. session \in Role
  BY ConsoleAssumption DEF OfferedInv, ConsoleInv, SignedIn
<1>2. ASSUME NEW c \in Offered PROVE session \in Handler(c).may
  <2>1. path \in Paths \ {"login"}
    BY <1>2 DEF Offered, OfferedInv, ConsoleInv, SignedIn
  <2>2. c \in Opened.forms[session] \/ (shown # 0 /\ c \in Opened.rows[session])
    BY <1>2 DEF Offered, RowActions, Opened
  <2>3. CASE path = "home" /\ session = SE
    <3>1. shown = 0
      BY <2>3 DEF OfferedInv
    <3>2. SE # WM
      BY DEF SE, WM
    <3>3. Opened.forms[session] = {}
      BY <1>1, <2>3, <3>2 DEF Opened, Page, ManagerDashboard, View, Nothing
    <3> QED BY <2>2, <3>1, <3>3
  <2>4. CASE path # "home" \/ session # SE
    BY <1>1, <2>1, <2>2, <2>4, PagesGranted DEF Opened
  <2> QED BY <2>3, <2>4
<1>3. ASSUME NEW p \in Nav(session) PROVE session \in Page(p, session).roles
  BY <1>1, LinkedRoles
<1>4. ASSUME NEW p \in Nav(session), session # SE
      PROVE  /\ \A c \in Page(p, session).load : session \in Handler(c).may
             /\ \A c \in SideCalls(p, session) :
                   session \in Handler(c).may \/ <<session, c>> \in Swallowed
  BY <1>1, <1>4, LinkedServed
<1> QED BY <1>2, <1>3, <1>4 DEF OfferedIsAllowed

\* The console offers nobody what the backend refuses him: every mutation on an open page, with
\* rows that came in any order and under whatever token, and every link of the sidebar with the
\* calls of its page (RoleRoute, canDecide, isOpsHead, buildNav; Roles), for any people, choices
\* and number of loads under way.
THEOREM OfferedIsAllowedHolds == ConsoleSpec => []OfferedIsAllowed
<1>1. ConsoleInit => OfferedInv
  <2>1. ConsoleInit => entering = FALSE /\ sent = {} /\ path = "login"
    BY DEF ConsoleInit
  <2> QED BY <2>1, InitInv DEF OfferedInv
<1>2. OfferedInv /\ [ConsoleNext]_consoleVars => OfferedInv'
  BY OfferedNext
<1>3. OfferedInv => OfferedIsAllowed
  BY OfferedInvImplies
<1> QED BY <1>1, <1>2, <1>3, PTL DEF ConsoleSpec

===============================================================================
