\* Two executions overlap; any of them may be abandoned at any statement.
SPECIFICATION Spec
CONSTANTS
    p1 = p1
    Tickets = {t1}
    Engineers = {e1, e2, e3}
    Plants = {p1}
    PlantOf <- MCPlantOf
    Workers = {w1, w2}
    MaxSchedules = 1
    MaxBatches = 1
    MaxRows = 1
    MaxRecs = 0
    MaxRetries = 2
    MaxInsertions = 1
SYMMETRY Symmetry
INVARIANTS
    InsertionTypeOK
    
CHECK_DEADLOCK FALSE
