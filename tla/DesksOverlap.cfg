\* Two executions overlap; any of them may be abandoned at any statement.
SPECIFICATION DesksSpec
CONSTANTS
    p1 = p1  p2 = p2  t1 = t1  t3 = t3
    u1 = u1  u2 = u2  u3 = u3  c1 = c1  c2 = c2
    Workers = {w1, w2}
    Tickets = {t1, t3}
    Engineers = {e1, e2}
    Plants = {p1, p2}
    PlantOf <- MCPlantOf
    MaxSchedules = 1
    MaxBatches = 2
    MaxRows = 2
    MaxRecs = 1
    RecoveryTickets = {r1}
    FieldEngineers = {e1, e2}
    FreeDevices = {d1}
    BareVehicles = {v1}
    MaxInstalls = 1
    MaxTime = 3
    MaxRequests = 1
    MaxReports = 1
    Floating = TRUE
    Claims = {c1, c2}
    ClaimantOf <- MCClaimantOf
    Reviewers = {u1, u3}
    Wide = {u3}
    ZoneOf <- MCZoneOf
    MaxMonth = 1
    XTickets = {x1}
    Platinum = {x1}
    Takers = {e1, e2}
    MaxEscalations = 2
    Staff = {e1}
    Days <- MCDays
    MaxLeaves = 2
    MaxWindows = 2
    Places = {x1}
    PlantOfPlace <- MCPlantOfPlace
    Crew = {e1}
    MaxSoft = 4
    Coverage <- MCCoverage
    Trackers = {d1, d2}
    Hours <- MCHours
    Never = Never
    ChunkSize = 2
    MaxAttempts = 2
    MaxPings = 2
    MaxRuns = 1
    Work = {1, 2, 4}
    Attr <- MCAttr
    Candidates = {2}
    Covering <- MCCovering
    Capacity <- MCCapacity
    PlannerNames <- MCPlannerNames
    MaxRecommendations = 2
SYMMETRY WorkerSymmetry
INVARIANTS
    DesksTypeOK
    ReceivedWasCollected
    OffOnApprovedLeave
    NoStepSkipped
    FourEyes
    RunIsFair
    StopsCoherent

    
CHECK_DEADLOCK FALSE
