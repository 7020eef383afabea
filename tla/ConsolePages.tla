---------------------------- MODULE ConsolePages ----------------------------
(**************************************************************************)
(* The pages of the admin console: who reaches each, what it asks the     *)
(* backend when it opens, and the mutations it offers to whom.            *)
(*                                                                        *)
(* load: the calls whose answers are displayed.  side: calls that fill a  *)
(* picker or a tile and whose failure is swallowed.  keyed: the load      *)
(* depends on something chosen on the page (filters, a tab, an engineer). *)
(* guarded: its effect drops an answer that is no longer waited for.      *)
(* forms: offered as soon as the page is open.  rows: offered on the rows *)
(* that are displayed.  After a mutation the page loads again, unguarded. *)
(**************************************************************************)
EXTENDS Endpoints

Nothing == [r \in Role |-> {}]
For(roles, calls) == [r \in Role |-> IF r \in roles THEN calls ELSE {}]
And(f, g) == [r \in Role |-> f[r] \cup g[r]]

View(calls) ==
    [roles |-> Role, load |-> calls, side |-> {}, keyed |-> FALSE, guarded |-> TRUE,
     forms |-> Nothing, rows |-> Nothing]

ManagerView(calls) == [View(calls) EXCEPT !.roles = Mgr]

-----------------------------------------------------------------------------
(* The landing page and the tickets: any role                             *)

WarehouseDashboard ==
    [View({}) EXCEPT !.side = {<<"warehouse", "list">>, <<"blocked", "list">>, <<"shadow", "list">>}]

\* Every variant; only the zonal manager's lists the critical queue with its assign picker.
ManagerDashboard ==
    [View({<<"dashboard", h>> : h \in Handlers("dashboard")}) EXCEPT
        !.side = {<<"schedules", "zoneEngineers">>},
        !.rows = For(Role, {<<"schedules", "assign">>})]

\* One list per plant, loaded once.
CompanyPlantTable == View({<<"tickets", "list">>})

TicketsPage == [View({<<"tickets", "list">>}) EXCEPT !.keyed = TRUE]

TicketDetailDrawer ==
    [View({<<"tickets", "getOne">>}) EXCEPT
        !.side = {<<"requests", "byTicket">>}, !.keyed = TRUE,
        !.rows = For(Mgr, {<<"recovery", "manualClose">>})]

HelpCenterPage == View({})

\* Above every page, once somebody is signed in.
SnapshotBanner == [View({}) EXCEPT !.side = {<<"snapshots", "latest">>}]

-----------------------------------------------------------------------------
(* The managers' pages                                                    *)

SchedulesPage == ManagerView({<<"schedules", "list">>})

ScheduleDetailPage ==
    [ManagerView({<<"schedules", "detail">>}) EXCEPT
        !.side = {<<"schedules", "zoneEngineers">>}, !.keyed = TRUE,
        !.rows = For(Mgr, {<<"batches", "override">>})]

IntradayQueuePage == [ManagerView({<<"updates", "list">>}) EXCEPT !.guarded = FALSE]

SeList == ManagerView({<<"engineers", "list">>})

\* The engineer's panel: an answer is displayed whichever engineer was opened since.
SeManagementPage ==
    [ManagerView({<<"engineers", "detail">>}) EXCEPT
        !.keyed = TRUE, !.guarded = FALSE,
        !.rows = For({ZM, CSM}, {<<"engineers", "setAvailability">>})]

PlannerPage ==
    [ManagerView({<<"schedules", "zoneEngineers">>, <<"planner", "plants">>, <<"planner", "list">>})
        EXCEPT !.side = {<<"schedules", "list">>}, !.keyed = TRUE,
               !.rows = For(Mgr, {<<"planner", "create">>, <<"planner", "remove">>})]

VerificationReviewPage ==
    [ManagerView({<<"verification", "review">>}) EXCEPT
        !.keyed = TRUE,
        !.rows = For(Mgr, {<<"verification", "escalate">>, <<"verification", "markAutoRecovery">>})]

VehicleUnavailabilityPage ==
    [ManagerView({<<"vehicles", "list">>}) EXCEPT
        !.rows = For(Mgr, {<<"vehicles", "confirmDate">>, <<"vehicles", "resume">>})]

NonOperationalQueuePage ==
    [ManagerView({<<"nonOp", "queue">>}) EXCEPT
        !.side = {<<"devices", "get">>},
        !.forms = For(Mgr, {<<"nonOp", "request">>}),
        !.rows = And(For(Mgr, {<<"nonOp", "confirm">>}), For({OH}, {<<"nonOp", "override">>}))]

RecoveryDecisionQueuePage ==
    [ManagerView({<<"recovery", "zmQueue">>}) EXCEPT
        !.rows = For(Mgr, {<<"recovery", h>> : h \in {"reschedule", "closeFailed", "escalate"}})]

\* Fault: every manager is offered the decision.
LeaveRequestsUndecided ==
    [ManagerView({<<"leave", "list">>}) EXCEPT
        !.guarded = FALSE,
        !.rows = For(Mgr, {<<"leave", "approve">>, <<"leave", "reject">>})]

\* canDecide
LeaveRequestsPage ==
    [ManagerView({<<"leave", "list">>}) EXCEPT
        !.guarded = FALSE,
        !.rows = For({ZM, CSM}, {<<"leave", "approve">>, <<"leave", "reject">>})]

\* The tabs load their vouchers without a guard.
VoucherReviewPage ==
    [ManagerView({<<"vouchers", "queue">>}) EXCEPT
        !.keyed = TRUE, !.guarded = FALSE,
        !.forms = For({OH}, {<<"vouchers", "export">>}),
        !.rows = And(For(Mgr, {<<"vouchers", "review">>}), For({OH}, {<<"vouchers", "markPaid">>}))]

ComponentBlockedPage == ManagerView({<<"blocked", "list">>})

\* readOnly
ComponentOversightPage == ManagerView({<<"requests", "oversight">>})

ReportsPage ==
    [ManagerView({}) EXCEPT
        !.side = {<<"reports", "fleetUptime">>, <<"dashboard", "zoneOverview">>,
                  <<"reports", "softInactiveTrend">>}]

-----------------------------------------------------------------------------
(* The pages of the Operations Head                                       *)

OpsHeadView(calls) == [View(calls) EXCEPT !.roles = {OH}]

CsmApprovalSharePage == OpsHeadView({<<"backup", "report">>})

TerritoryPage ==
    [OpsHeadView({<<"territory", "list">>}) EXCEPT
        !.side = {<<"orgEngineers", "list">>} \cup {<<"geo", h>> : h \in Handlers("geo")},
        !.keyed = TRUE, !.guarded = FALSE,
        !.forms = For({OH}, {<<"territory", "add">>}),
        !.rows = For({OH}, {<<"territory", "remove">>})]

Section(calls, writes) == [OpsHeadView(calls) EXCEPT !.forms = For({OH}, writes)]

ZonesSection == Section({<<"zones", "list">>}, {<<"zones", "create">>})

PlantsSection ==
    Section({<<"plants", "list">>, <<"zones", "list">>}, {<<"plants", "create">>})

CompaniesSection ==
    [Section({<<"companies", "list">>}, {<<"companies", "create">>}) EXCEPT
        !.rows = For({OH}, {<<"companies", "update">>})]

UsersSection == Section({<<"users", "list">>}, {<<"users", "create">>})

SlaRulesSection == Section({<<"slaRules", "list">>}, {<<"slaRules", "upsert">>})

ScoringWeightsSection == Section({<<"weights", "list">>}, {<<"weights", "upsert">>})

SeCoverageSection ==
    Section({<<"orgEngineers", "list">>, <<"coverage", "list">>, <<"plants", "list">>},
            {<<"orgEngineers", "create">>, <<"coverage", "add">>})

CommonKitSection == Section({<<"kit", "list">>}, {<<"kit", "upsert">>})

-----------------------------------------------------------------------------
(* The warehouse's pages                                                  *)

WarehouseView(calls) == [View(calls) EXCEPT !.roles = {WM}]

ComponentRequestsPage ==
    [WarehouseView({<<"warehouse", "list">>}) EXCEPT
        !.rows = For({WM}, {<<"warehouse", h>> : h \in {"approve", "ship", "reject"}})]

ShadowUseQueuePage ==
    [WarehouseView({<<"shadow", "list">>}) EXCEPT
        !.rows = For({WM}, {<<"shadow", "reconcile">>, <<"shadow", "dispute">>})]

RecoveryReceiptQueuePage ==
    [WarehouseView({<<"recovery", "awaitingReceipt">>}) EXCEPT
        !.rows = For({WM}, {<<"recovery", "receipt">>})]

-----------------------------------------------------------------------------
(* The routes                                                             *)

PageOf ==
    [tickets |-> TicketsPage, ticket |-> TicketDetailDrawer, plantTickets |-> CompanyPlantTable,
     help |-> HelpCenterPage, schedules |-> SchedulesPage, schedule |-> ScheduleDetailPage,
     intraday |-> IntradayQueuePage, engineers |-> SeList, engineer |-> SeManagementPage,
     planner |-> PlannerPage, verification |-> VerificationReviewPage,
     vehicles |-> VehicleUnavailabilityPage, nonOp |-> NonOperationalQueuePage,
     recovery |-> RecoveryDecisionQueuePage, leave |-> LeaveRequestsPage,
     vouchers |-> VoucherReviewPage, blocked |-> ComponentBlockedPage,
     oversight |-> ComponentOversightPage, reports |-> ReportsPage,
     approvalShare |-> CsmApprovalSharePage, coverage |-> TerritoryPage,
     settingsZones |-> ZonesSection, settingsPlants |-> PlantsSection,
     settingsCompanies |-> CompaniesSection, settingsUsers |-> UsersSection,
     settingsSlaRules |-> SlaRulesSection, settingsWeights |-> ScoringWeightsSection,
     settingsEngineers |-> SeCoverageSection, settingsKit |-> CommonKitSection,
     requests |-> ComponentRequestsPage, shadow |-> ShadowUseQueuePage,
     receipt |-> RecoveryReceiptQueuePage]

Paths == {"login", "home"} \cup DOMAIN PageOf

SettingsPages ==
    {"settingsZones", "settingsPlants", "settingsCompanies", "settingsUsers", "settingsSlaRules",
     "settingsWeights", "settingsEngineers", "settingsKit"}

\* DashboardHome selects by the session's role.
Page(path, role) ==
    IF path # "home" THEN PageOf[path]
    ELSE IF role = WM THEN WarehouseDashboard ELSE ManagerDashboard

\* What page and banner ask on the side.
SideCalls(path, role) == SnapshotBanner.side \cup Page(path, role).side

\* Side calls the backend refuses to a role; the tile, or the banner, then stays empty.
Swallowed ==
    {<<WM, <<"blocked", "list">>>>, <<WM, <<"snapshots", "latest">>>>,
     <<ZM, <<"reports", "softInactiveTrend">>>>, <<CSM, <<"reports", "softInactiveTrend">>>>}

\* buildNav: the links of the sidebar.
Nav(role) ==
    {"home", "help"}
    \cup (IF role = WM THEN {"requests", "shadow", "receipt"} ELSE {"tickets"})
    \cup (IF role \in Mgr
          THEN {"schedules", "intraday", "engineers", "planner", "verification", "vehicles",
                "nonOp", "recovery", "leave", "vouchers", "blocked", "oversight", "reports"}
          ELSE {})
    \cup (IF role = OH THEN {"coverage", "approvalShare", "settingsZones"} ELSE {})

\* After these the page keeps its rows, or patches them with the answer.
Patched ==
    {<<"vouchers", "export">>}
    \cup UNION {{<<c, h>> : h \in Handlers(c) \ {"list"}} :
                   c \in {"zones", "plants", "companies", "users", "slaRules", "weights",
                          "orgEngineers", "coverage", "kit"}}

\* The API modules that send X-Acting-As-Zone, by the controller they call; the form of a
\* non-operational request looks the device up through nonOp.ts.
SendsActingZone == {"engineers", "leave", "nonOp", "recovery", "backup", "vouchers", "devices"}

\* The critical queue of the landing page is shown to a zonal manager, and to whoever acts
\* as one.
RowActions(path, role, acting) ==
    IF path = "home" /\ role \in {CSM, OH} /\ ~acting THEN {} ELSE Page(path, role).rows[role]

=============================================================================
