\* Two executions overlap; one device, two episodes.
SPECIFICATION Spec
CONSTANTS
    d1 = d1  t1 = t1  t2 = t2  x1 = x1  x2 = x2  None = None
    Devices = {d1}
    Tickets = {t1, t2}
    DeviceOf <- OneDevice
    Drafts = {x1, x2}
    TicketOf <- DraftTickets
    Unavailable = {x1}
    Workers = {w1, w2}
    RepeatThreshold = 1
SYMMETRY WorkerSymmetry
INVARIANTS
    TypeOK
    OneActiveCycle
    OpenFlagBacked
    WorkableTicketBacked
    OneWorkableTicket
    ClosedTicketStamped
PROPERTIES
    ImplementsEpisodeSlot
