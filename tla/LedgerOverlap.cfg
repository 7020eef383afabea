\* Two executions overlap; short stock, one engineer without a stock row.
SPECIFICATION Spec
CONSTANTS
    e1 = e1  e2 = e2  t1 = t1  t2 = t2  a = a  b = b  c = c  w1 = w1  w2 = w2
    Engineers = {e1, e2}
    Tickets = {t1, t2}
    Drafts = {a, b, c}
    EngineerOf <- MCEngineerOf
    TicketOf <- MCTicketOf
    Qty <- MCQty
    Tracked = {e1}
    Issued <- MCIssued
    Workers = {w1, w2}
    MaxShadow = 1
CHECK_DEADLOCK FALSE
SYMMETRY WorkerSymmetry
INVARIANTS
    TypeOK
    OutcomeSettlesAll
PROPERTIES
    SettlementFinal
