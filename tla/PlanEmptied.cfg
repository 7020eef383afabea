\* Executions do not overlap: a dispatched plan and one override of it.
SPECIFICATION PlanSpec
CONSTANTS
    p1 = p1  p2 = p2  t3 = t3
    Tickets = {t1, t2}
    Engineers = {e1, e2}
    Plants = {p1, p2}
    PlantOf <- MCPlantOf
    Workers = {w1}
    MaxSchedules = 2
    MaxBatches = 2
    MaxRows = 2
    MaxRecs = 2
INVARIANT HeldTicketVisible
CHECK_DEADLOCK FALSE
