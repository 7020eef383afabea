----------------------------- MODULE Endpoints ------------------------------
(****************************************************************************)
(* The backend as its callers see it: the handlers behind the role guard,   *)
(* who may call them, and whether they pass on the zone the caller acts in. *)
(* Signing in and the customer's link are not behind it.                    *)
(*                                                                          *)
(* A handler declared with CurrentActor resolves X-Acting-As-Zone; one with *)
(* CurrentUser builds its actor with actedAsRole null.                      *)
(****************************************************************************)

ZM == "ZONAL_MANAGER"
CSM == "CENTRAL_SERVICE_MANAGER"
OH == "OPERATIONS_HEAD"
WM == "WAREHOUSE_MANAGER"
SE == "SERVICE_ENGINEER"

Role == {ZM, CSM, OH, WM, SE}
Mgr == {ZM, CSM, OH}

Of(roles) == [may |-> roles, actor |-> FALSE]
AsActor(roles) == [may |-> roles, actor |-> TRUE]

AuditTrail == [ticket |-> Of(Mgr)]

ComponentRequests ==
    [oversight |-> Of(Mgr), byTicket |-> Of(Mgr), confirmReceipt |-> Of({SE}),
     confirmResubmit |-> Of(Mgr)]

Warehouse == [list |-> Of({WM}), approve |-> Of({WM}), ship |-> Of({WM}), reject |-> Of({WM})]

CrossZoneDesk ==
    [list |-> Of(Mgr), sweep |-> Of({CSM, OH}), flag |-> Of({ZM, CSM}),
     approve |-> Of({CSM, OH}), deny |-> Of({CSM, OH}), defer |-> Of({CSM, OH}),
     reEscalate |-> Of({ZM})]

Dashboard ==
    [zoneOverview |-> Of(Mgr), companyPlantOverview |-> Of(Mgr), criticalQueue |-> Of(Mgr),
     actionRequired |-> Of(Mgr)]

Devices ==
    [get |-> Of(Mgr), cycles |-> Of(Mgr), downtimeTrend |-> Of(Mgr), tagDealType |-> Of({OH})]

Engineers ==
    [list |-> Of(Mgr), detail |-> Of(Mgr), setAvailability |-> Of({ZM, CSM, SE})]

LeaveRequests ==
    [submit |-> Of({SE, ZM, CSM}), list |-> Of(Mgr), approve |-> Of({ZM, CSM}),
     reject |-> Of({ZM, CSM})]

Snapshots == [latest |-> Of(Mgr), listRuns |-> Of({OH}), run |-> Of({OH})]

Insertions ==
    [list |-> Of(Mgr), fire |-> Of(Mgr), sweepTimeouts |-> Of({OH, CSM}), accept |-> Of({SE}),
     decline |-> Of({SE}), availableSes |-> Of(Mgr), manualAssign |-> Of(Mgr)]

ComponentBlocked == [list |-> Of(Mgr)]

VanStock == [vanStock |-> Of({SE})]

ShadowUse == [list |-> Of({WM}), reconcile |-> Of({WM}), dispute |-> Of({WM})]

Me == [me |-> AsActor(Role)]

Notifications == [list |-> Of(Role), markAllRead |-> Of(Role), markRead |-> Of(Role)]

CommonKit == [list |-> Of({OH}), upsert |-> AsActor({OH})]

Companies == [list |-> Of({OH}), create |-> AsActor({OH}), update |-> AsActor({OH})]

Geography == [states |-> Of(Role), regions |-> Of(Role), districts |-> Of(Role)]

OrgPlants == [list |-> Of({OH}), create |-> AsActor({OH})]

ScoringWeights == [list |-> Of({OH}), upsert |-> AsActor({OH})]

OrgEngineers == [list |-> Of({OH}), create |-> AsActor({OH})]

SeCoverage == [list |-> Of({OH}), add |-> AsActor({OH}), remove |-> AsActor({OH})]

SeTerritory == [list |-> Of({OH}), add |-> AsActor({OH}), remove |-> AsActor({OH})]

SlaRules == [list |-> Of({OH}), upsert |-> AsActor({OH})]

Users == [list |-> Of({OH}), create |-> AsActor({OH}), setStatus |-> AsActor({OH})]

OrgZones == [list |-> Of({OH}), create |-> AsActor({OH})]

Planner == [list |-> Of(Mgr), plants |-> Of(Mgr), create |-> Of(Mgr), remove |-> Of(Mgr)]

\* recompute: the four recomputations of the monthly tables.
Reports ==
    [fleetUptime |-> Of(Mgr), rootCause |-> Of(Mgr), efficiency |-> Of(Mgr),
     softInactiveTrend |-> Of({OH}), zmScorecard |-> Of({OH}), recompute |-> Of({OH})]

RoleBackup == [mark |-> Of({OH, CSM}), report |-> Of({OH})]

Batches == [override |-> Of(Mgr)]

IntradayUpdates ==
    [list |-> Of(Mgr), add |-> Of(Mgr), remove |-> Of(Mgr), reorder |-> Of(Mgr)]

Schedules ==
    [me |-> Of({SE}), assign |-> Of(Mgr), list |-> Of(Mgr), zoneEngineers |-> Of(Mgr),
     detail |-> Of(Mgr)]

Settings == [list |-> Of({OH}), update |-> AsActor({OH})]

SharedPoolOf == [list |-> Of({SE})]

SoftStateCalls == [setSoftState |-> Of({SE}), activityPing |-> Of({SE})]

Install ==
    [createSingle |-> AsActor(Mgr), upload |-> AsActor(Mgr), schedule |-> AsActor(Mgr),
     onSite |-> AsActor({SE}), fitted |-> AsActor({SE}), getOne |-> Of(Mgr \cup {WM, SE})]

NonOp ==
    [request |-> AsActor(Mgr), queue |-> Of(Mgr), confirm |-> AsActor(Mgr),
     override |-> AsActor({OH})]

Recovery ==
    [schedule |-> AsActor(Mgr), onSite |-> AsActor({SE}), collected |-> AsActor({SE}),
     unable |-> AsActor({SE}), receipt |-> AsActor({WM}), awaitingReceipt |-> Of(Mgr \cup {WM}),
     zmQueue |-> Of(Mgr), stalled |-> Of(Mgr), nonStandard |-> Of(Mgr),
     reschedule |-> AsActor(Mgr), closeFailed |-> AsActor(Mgr), escalate |-> AsActor(Mgr),
     manualClose |-> AsActor(Mgr)]

TicketCalls == [list |-> Of(Mgr), getOne |-> Of(Mgr), autoRecoveryClose |-> Of(Mgr)]

Troubleshoot == [submit |-> Of({SE})]

VehicleUnavailability ==
    [file |-> Of(Mgr \cup {SE}), list |-> Of(Mgr), confirmDate |-> Of(Mgr), resume |-> Of(Mgr)]

Verification ==
    [review |-> Of(Mgr), escalate |-> Of(Mgr), markAutoRecovery |-> Of(Mgr),
     forTicket |-> Of(Mgr \cup {SE}), fraudFlags |-> Of(Mgr)]

VoucherCalls ==
    [create |-> Of({SE}), queue |-> Of(Mgr), export |-> Of({OH}), markPaid |-> AsActor({OH}),
     review |-> AsActor(Mgr), resubmit |-> AsActor({SE})]

API ==
    [audit |-> AuditTrail, requests |-> ComponentRequests, warehouse |-> Warehouse,
     crossZone |-> CrossZoneDesk, dashboard |-> Dashboard, devices |-> Devices,
     engineers |-> Engineers, leave |-> LeaveRequests, snapshots |-> Snapshots,
     insertions |-> Insertions, blocked |-> ComponentBlocked, van |-> VanStock,
     shadow |-> ShadowUse, me |-> Me, notifications |-> Notifications, kit |-> CommonKit,
     companies |-> Companies, geo |-> Geography, plants |-> OrgPlants,
     weights |-> ScoringWeights, orgEngineers |-> OrgEngineers, coverage |-> SeCoverage,
     territory |-> SeTerritory, slaRules |-> SlaRules, users |-> Users, zones |-> OrgZones,
     planner |-> Planner, reports |-> Reports, backup |-> RoleBackup, batches |-> Batches,
     updates |-> IntradayUpdates, schedules |-> Schedules, settings |-> Settings,
     pool |-> SharedPoolOf, soft |-> SoftStateCalls, install |-> Install, nonOp |-> NonOp,
     recovery |-> Recovery, tickets |-> TicketCalls, troubleshoot |-> Troubleshoot,
     vehicles |-> VehicleUnavailability, verification |-> Verification,
     vouchers |-> VoucherCalls]

Controllers == DOMAIN API
Handlers(c) == DOMAIN API[c]
Handler(call) == API[call[1]][call[2]]

\* The guards: 401 without a valid token, 403 when the allow-list lacks the token's role.
Answer(token, call) ==
    IF ~token.fresh THEN 401
    ELSE IF token.role \in Handler(call).may THEN 200 ELSE 403

\* The role written to the audit row as acted_as_role, if any: the header is read for the
\* roles that may stand in for a zonal manager.
ActedAs(role, header, call) ==
    IF header /\ Handler(call).actor /\ role \in {CSM, OH} THEN role ELSE "none"

=============================================================================
