-------------------------- MODULE FailureLifecycle --------------------------
(***************************************************************************)
(* The life of a device's failure episodes: the rows of device_states,     *)
(* failure_cycles, tickets (TROUBLESHOOT), troubleshooting_submissions and *)
(* component_request, and every service that writes a cycle's state or a   *)
(* troubleshoot ticket's status.                                           *)
(*                                                                         *)
(* Every service reads and tests rows outside a transaction and writes     *)
(* afterwards, by primary key, without testing again.  An execution is     *)
(* therefore two steps of a worker: a step that reads and remembers what   *)
(* it decided (job[w]), and a step that runs the transaction.  The number  *)
(* of workers is the number of executions that can overlap.                *)
(*                                                                         *)
(* Time is abstracted: a window test (24 h, 7 days) may come out either    *)
(* way.  A ticket and its failure cycle share an identifier, because one   *)
(* transaction creates both and tickets.failure_cycle_id is unique.        *)
(***************************************************************************)
EXTENDS Naturals, FiniteSets

CONSTANTS
    Devices,         \* devices with a fitment (plant and company known)
    Tickets,         \* identifiers of a ticket and its failure cycle
    DeviceOf,        \* the device an identifier's rows are created for
    Drafts,          \* (se_id, client_submission_id) pairs of the mobile app
    TicketOf,        \* the ticket a draft is filled in for
    Unavailable,     \* the drafts that report component_unavailable
    Workers,         \* executions that may be in progress at a time
    RepeatThreshold  \* REPEAT_THRESHOLD of repeat-escalation.service.ts

ASSUME LifecycleAssumption ==
    /\ DeviceOf \in [Tickets -> Devices]
    /\ TicketOf \in [Drafts -> Tickets]
    /\ Unavailable \subseteq Drafts
    /\ RepeatThreshold \in Nat

VARIABLES
    inactive,   \* device_states.is_inactive
    eligible,   \* device_states.eligible_for_uptime
    hasOpen,    \* device_states.has_open_failure_cycle
    nonOp,      \* a CONFIRMED non_operational_markings row of the device exists
    cycle,      \* failure_cycles.state, "NONE" before the row exists
    closedAt,   \* failure_cycles.closed_at is set
    repeat,     \* failure_cycles.repeat_failure
    ticket,     \* tickets.status, "NONE" before the row exists
    run,        \* the state of the ticket's latest verification_runs row
    fraud,      \* a verification_runs row of the ticket has fraud_flag
    submitted,  \* drafts with a troubleshooting_submissions row
    request,    \* component_request.status of the draft's request
    job         \* what each worker has read and decided, not yet written

rows == <<inactive, eligible, hasOpen, nonOp, cycle, closedAt, repeat,
          ticket, run, fraud, submitted, request>>
vars == <<inactive, eligible, hasOpen, nonOp, cycle, closedAt, repeat,
          ticket, run, fraud, submitted, request, job>>

-----------------------------------------------------------------------------
(* Row types                                                              *)

\* The predicate of the partial unique index failure_cycles_one_active_per_device.
ActiveCycle == {"OPEN", "WAITING_COMPONENT", "SUBMITTED", "REPEAT", "ESCALATED"}
ActiveNonEscalated == ActiveCycle \ {"ESCALATED"}
CycleState == ActiveCycle \cup {"VERIFIED", "FAILED"}

InFlightTicket == {"OPEN", "SUBMITTED", "VERIFICATION_PENDING", "ESCALATED"}
ClosedTicket == {"CLOSED", "CLOSED_AUTO_RECOVERY", "CLOSED_NON_OPERATIONAL"}
TicketStatus == InFlightTicket \cup ClosedTicket \cup {"FAILED_VERIFICATION"}

\* A verification run in flight (outcome null) or its outcome.
RunState == {"IN_FLIGHT", "CLOSED", "FAILED_VERIFICATION", "CLOSED_AUTO_RECOVERY"}
RequestStatus == {"REQUESTED", "APPROVED", "REJECTED", "SHIPPED", "RECEIVED"}

Idle == [op |-> "idle"]
Job == [op : {"idle"}]
       \cup [op : {"create"}, d : Devices]
       \cup [op : {"recompute"}, d : Devices, nonOp : BOOLEAN]
       \cup [op : {"autoRecover", "verify", "escalate", "escalateFraud",
                   "markAutoRecovery"}, t : Tickets]
       \cup [op : {"submit", "resubmit"}, x : Drafts]
       \cup [op : {"nonOp"}, d : Devices, ts : SUBSET Tickets]

TypeOK ==
    /\ inactive \in [Devices -> BOOLEAN]
    /\ eligible \in [Devices -> BOOLEAN]
    /\ hasOpen \in [Devices -> BOOLEAN]
    /\ nonOp \in [Devices -> BOOLEAN]
    /\ cycle \in [Tickets -> CycleState \cup {"NONE"}]
    /\ closedAt \in [Tickets -> BOOLEAN]
    /\ repeat \in [Tickets -> BOOLEAN]
    /\ ticket \in [Tickets -> TicketStatus \cup {"NONE"}]
    /\ run \in [Tickets -> RunState \cup {"NONE"}]
    /\ fraud \in [Tickets -> BOOLEAN]
    /\ submitted \in SUBSET Drafts
    /\ request \in [Drafts -> RequestStatus \cup {"NONE"}]
    /\ job \in [Workers -> Job]

Init ==
    /\ inactive = [d \in Devices |-> FALSE]
    /\ eligible = [d \in Devices |-> FALSE]
    /\ hasOpen = [d \in Devices |-> FALSE]
    /\ nonOp = [d \in Devices |-> FALSE]
    /\ cycle = [t \in Tickets |-> "NONE"]
    /\ closedAt = [t \in Tickets |-> FALSE]
    /\ repeat = [t \in Tickets |-> FALSE]
    /\ ticket = [t \in Tickets |-> "NONE"]
    /\ run = [t \in Tickets |-> "NONE"]
    /\ fraud = [t \in Tickets |-> FALSE]
    /\ submitted = {}
    /\ request = [x \in Drafts |-> "NONE"]
    /\ job = [w \in Workers |-> Idle]

-----------------------------------------------------------------------------
(* Helpers                                                                *)

\* A worker reads and decides: no row changes.
Begin(w, j) ==
    /\ job[w] = Idle
    /\ job' = [job EXCEPT ![w] = j]
    /\ UNCHANGED rows

Running(w, op) == job[w].op = op
Finish(w) == job' = [job EXCEPT ![w] = Idle]

\* Fault: the index as it was before it was widened to REPEAT and ESCALATED.
IndexBeforeWidening(t, s) ==
    LET Guarded == {"OPEN", "WAITING_COMPONENT", "SUBMITTED"} IN
    s \in Guarded =>
        \A u \in Tickets \ {t} : DeviceOf[u] = DeviceOf[t] => cycle[u] \notin Guarded

\* The partial unique index (invariant I1) accepts state s in t's cycle row.
IndexAllows(t, s) ==
    s \in ActiveCycle =>
        \A u \in Tickets \ {t} : DeviceOf[u] = DeviceOf[t] => cycle[u] \notin ActiveCycle

\* Fault: a closure that leaves has_open_failure_cycle alone.
CloseWithoutFlag(t, status) ==
    /\ ticket' = [ticket EXCEPT ![t] = status]
    /\ cycle' = [cycle EXCEPT ![t] = "VERIFIED"]
    /\ closedAt' = [closedAt EXCEPT ![t] = TRUE]
    /\ UNCHANGED hasOpen

\* Fault: a closure that does not set closed_at.
CloseWithoutStamp(t, status) ==
    /\ ticket' = [ticket EXCEPT ![t] = status]
    /\ cycle' = [cycle EXCEPT ![t] = "VERIFIED"]
    /\ hasOpen' = [hasOpen EXCEPT ![DeviceOf[t]] = FALSE]
    /\ UNCHANGED closedAt

\* The writes shared by every closure that counts the device as recovered.
CloseVerified(t, status) ==
    /\ ticket' = [ticket EXCEPT ![t] = status]
    /\ cycle' = [cycle EXCEPT ![t] = "VERIFIED"]
    /\ closedAt' = [closedAt EXCEPT ![t] = TRUE]
    /\ hasOpen' = [hasOpen EXCEPT ![DeviceOf[t]] = FALSE]

-----------------------------------------------------------------------------
(* DeviceStateService.recompute: the markings are read first, one device's *)
(* row is upserted later.  Pings and PGI are the environment's.            *)

RecomputeRead(w, d) == Begin(w, [op |-> "recompute", d |-> d, nonOp |-> nonOp[d]])

RecomputeUpsert(w) ==
    /\ Running(w, "recompute")
    /\ LET d == job[w].d IN
       /\ \E isInactive \in BOOLEAN : inactive' = [inactive EXCEPT ![d] = isInactive]
       /\ \E pgiInWindow \in BOOLEAN :
            eligible' = [eligible EXCEPT ![d] = ~job[w].nonOp /\ pgiInWindow]
    /\ Finish(w)
    /\ UNCHANGED <<hasOpen, nonOp, cycle, closedAt, repeat, ticket, run,
                   fraud, submitted, request>>

-----------------------------------------------------------------------------
(* TicketCreationService.createForInactiveEligible.                       *)

CreateScan(w, d) ==
    /\ inactive[d] /\ eligible[d] /\ ~hasOpen[d]
    /\ Begin(w, [op |-> "create", d |-> d])

\* A prior VERIFIED cycle of the device whose closed_at may be in the 24 h window.
PriorVerified(d) ==
    \E u \in Tickets : DeviceOf[u] = d /\ cycle[u] = "VERIFIED" /\ closedAt[u]

CreateEpisode(w) ==
    /\ Running(w, "create")
    /\ \E t \in Tickets, isRepeat \in BOOLEAN :
        /\ DeviceOf[t] = job[w].d
        /\ ticket[t] = "NONE"
        /\ isRepeat => PriorVerified(job[w].d)
        /\ IndexAllows(t, "OPEN")
        /\ cycle' = [cycle EXCEPT ![t] = IF isRepeat THEN "REPEAT" ELSE "OPEN"]
        /\ repeat' = [repeat EXCEPT ![t] = isRepeat]
        /\ ticket' = [ticket EXCEPT ![t] = "OPEN"]
    /\ hasOpen' = [hasOpen EXCEPT ![job[w].d] = TRUE]
    /\ Finish(w)
    /\ UNCHANGED <<inactive, eligible, nonOp, closedAt, run, fraud, submitted,
                   request>>

-----------------------------------------------------------------------------
(* AutoRecoveryService.runAutoRecovery and manualClose: both test OPEN and *)
(* close by id.  Whether the pings meet the criteria is the environment's. *)

AutoRecoverRead(w, t) ==
    /\ ticket[t] = "OPEN"
    /\ Begin(w, [op |-> "autoRecover", t |-> t])

CloseAsAutoRecovery(w) ==
    /\ Running(w, "autoRecover")
    /\ CloseVerified(job[w].t, "CLOSED_AUTO_RECOVERY")
    /\ Finish(w)
    /\ UNCHANGED <<inactive, eligible, nonOp, repeat, run, fraud, submitted, request>>

-----------------------------------------------------------------------------
(* TroubleshootSubmissionService.submit.  A draft already recorded is a   *)
(* DUPLICATE and a ticket that is not OPEN a CONFLICT: neither writes the *)
(* rows of this module (VanLedger models the conflict's inventory).       *)

SubmitRead(w, x) ==
    /\ x \notin submitted
    /\ ticket[TicketOf[x]] = "OPEN"
    /\ Begin(w, [op |-> "submit", x |-> x])

\* The unique index on (se_id, client_submission_id) refuses a second row.
SubmitUnavailable(w) ==
    /\ Running(w, "submit")
    /\ LET x == job[w].x  t == TicketOf[x] IN
       /\ x \in Unavailable \ submitted
       /\ IndexAllows(t, "WAITING_COMPONENT")
       /\ submitted' = submitted \cup {x}
       /\ cycle' = [cycle EXCEPT ![t] = "WAITING_COMPONENT"]
       /\ request' = [request EXCEPT ![x] = "REQUESTED"]
    /\ Finish(w)
    /\ UNCHANGED <<inactive, eligible, hasOpen, nonOp, closedAt, repeat, ticket,
                   run, fraud>>

\* Fault: the cycle is not moved to SUBMITTED.
SubmitRepairTicketOnly(w) ==
    /\ Running(w, "submit")
    /\ job[w].x \notin Unavailable \cup submitted
    /\ submitted' = submitted \cup {job[w].x}
    /\ ticket' = [ticket EXCEPT ![TicketOf[job[w].x]] = "VERIFICATION_PENDING"]
    /\ Finish(w)
    /\ UNCHANGED <<inactive, eligible, hasOpen, nonOp, cycle, closedAt, repeat, run,
                   fraud, request>>

SubmitRepair(w) ==
    /\ Running(w, "submit")
    /\ LET x == job[w].x  t == TicketOf[x] IN
       /\ x \notin Unavailable \cup submitted
       /\ IndexAllows(t, "SUBMITTED")
       /\ submitted' = submitted \cup {x}
       /\ ticket' = [ticket EXCEPT ![t] = "VERIFICATION_PENDING"]
       /\ cycle' = [cycle EXCEPT ![t] = "SUBMITTED"]
    /\ Finish(w)
    /\ UNCHANGED <<inactive, eligible, hasOpen, nonOp, closedAt, repeat, run, fraud,
                   request>>

-----------------------------------------------------------------------------
(* VerificationService.  runVerification lists the pending tickets, and   *)
(* for each one that has a submission opens a run or finds the open one   *)
(* (ux_vr_active: one in flight per ticket), then judges the pings.  What *)
(* the pings say is the environment's (VerificationCriteria is to model   *)
(* it); after 24 h the judgement is final.                                *)

VerifyScan(w, t) ==
    /\ job[w] = Idle
    /\ ticket[t] = "VERIFICATION_PENDING"
    /\ \E x \in submitted : TicketOf[x] = t
    /\ run' = [run EXCEPT ![t] = "IN_FLIGHT"]
    /\ job' = [job EXCEPT ![w] = [op |-> "verify", t |-> t]]
    /\ UNCHANGED <<inactive, eligible, hasOpen, nonOp, cycle, closedAt, repeat,
                   ticket, fraud, submitted, request>>

FinalizeClosed(w) ==
    /\ Running(w, "verify")
    /\ run' = [run EXCEPT ![job[w].t] = "CLOSED"]
    /\ CloseVerified(job[w].t, "CLOSED")
    /\ Finish(w)
    /\ UNCHANGED <<inactive, eligible, nonOp, repeat, fraud, submitted, request>>

\* A failed verification leaves the cycle and the open-cycle flag as they are.
FinalizeFailed(w) ==
    /\ Running(w, "verify")
    /\ run' = [run EXCEPT ![job[w].t] = "FAILED_VERIFICATION"]
    /\ ticket' = [ticket EXCEPT ![job[w].t] = "FAILED_VERIFICATION"]
    /\ \E isFraud \in BOOLEAN : fraud' = [fraud EXCEPT ![job[w].t] = @ \/ isFraud]
    /\ Finish(w)
    /\ UNCHANGED <<inactive, eligible, hasOpen, nonOp, cycle, closedAt, repeat,
                   submitted, request>>

\* Escalate is refused unless a run of the ticket is flagged; the ticket's own
\* status is not tested.
EscalateFraudRead(w, t) ==
    /\ fraud[t]
    /\ Begin(w, [op |-> "escalateFraud", t |-> t])

EscalateFraud(w) ==
    /\ Running(w, "escalateFraud")
    /\ ticket' = [ticket EXCEPT ![job[w].t] = "ESCALATED"]
    /\ Finish(w)
    /\ UNCHANGED <<inactive, eligible, hasOpen, nonOp, cycle, closedAt, repeat,
                   run, fraud, submitted, request>>

\* A manager marks a ticket as recovered: that it exists is all that is tested, so
\* that one that is closed already is closed again.
MarkAutoRecoveryRead(w, t) ==
    /\ ticket[t] # "NONE"
    /\ Begin(w, [op |-> "markAutoRecovery", t |-> t])

MarkAutoRecovery(w) ==
    /\ Running(w, "markAutoRecovery")
    /\ CloseVerified(job[w].t, "CLOSED_AUTO_RECOVERY")
    /\ run' = [run EXCEPT ![job[w].t] = IF @ = "IN_FLIGHT" THEN "CLOSED_AUTO_RECOVERY" ELSE @]
    /\ Finish(w)
    /\ UNCHANGED <<inactive, eligible, nonOp, repeat, fraud, submitted, request>>

-----------------------------------------------------------------------------
(* RepeatEscalationService.runEscalationScan                              *)

\* At least RepeatThreshold repeat cycles of the device; whether they opened in
\* the last 7 days may come out either way.
Chronic(d) ==
    Cardinality({t \in Tickets : DeviceOf[t] = d /\ repeat[t]}) >= RepeatThreshold

EscalateScan(w, t) ==
    /\ Chronic(DeviceOf[t])
    /\ cycle[t] \in ActiveNonEscalated
    /\ Begin(w, [op |-> "escalate", t |-> t])

Escalate(w) ==
    /\ Running(w, "escalate")
    /\ IndexAllows(job[w].t, "ESCALATED")
    /\ cycle' = [cycle EXCEPT ![job[w].t] = "ESCALATED"]
    /\ ticket' = [ticket EXCEPT ![job[w].t] = "ESCALATED"]
    /\ Finish(w)
    /\ UNCHANGED <<inactive, eligible, hasOpen, nonOp, closedAt, repeat, run,
                   fraud, submitted, request>>

-----------------------------------------------------------------------------
(* ComponentRequestService.  The warehouse legs touch only the request row *)
(* and are single steps here; confirmResubmit also writes the cycle.       *)

RequestLeg(x, from, to) ==
    /\ request[x] = from
    /\ request' = [request EXCEPT ![x] = to]
    /\ UNCHANGED <<inactive, eligible, hasOpen, nonOp, cycle, closedAt, repeat,
                   ticket, run, fraud, submitted, job>>

Approve(x) == RequestLeg(x, "REQUESTED", "APPROVED")
Reject(x) == RequestLeg(x, "REQUESTED", "REJECTED")
MarkShipped(x) == RequestLeg(x, "APPROVED", "SHIPPED")
\* Fault: the status of the planned six-state lifecycle is written.
ConfirmReceiptDelivered(x) == RequestLeg(x, "SHIPPED", "DELIVERED")

ConfirmReceipt(x) == RequestLeg(x, "SHIPPED", "RECEIVED")

ConfirmResubmitRead(w, x) ==
    /\ request[x] = "RECEIVED"
    /\ Begin(w, [op |-> "resubmit", x |-> x])

\* The request stays RECEIVED, and the cycle becomes OPEN whatever it was.
ConfirmResubmit(w) ==
    /\ Running(w, "resubmit")
    /\ LET t == TicketOf[job[w].x] IN
       /\ IndexAllows(t, "OPEN")
       /\ cycle' = [cycle EXCEPT ![t] = "OPEN"]
    /\ Finish(w)
    /\ UNCHANGED <<inactive, eligible, hasOpen, nonOp, closedAt, repeat, ticket,
                   run, fraud, submitted, request>>

-----------------------------------------------------------------------------
(* NonOperationalService.runConfirmedSideEffects: the in-flight tickets   *)
(* are listed, then closed one by one in the same transaction, which at   *)
(* READ COMMITTED does not keep other transactions away in between.       *)

NonOpList(w, d) ==
    /\ ~nonOp[d]
    /\ Begin(w, [op |-> "nonOp", d |-> d,
                 ts |-> {t \in Tickets : DeviceOf[t] = d /\ ticket[t] \in InFlightTicket}])

\* The cycle keeps its state and gets closed_at.
NonOpConfirm(w) ==
    /\ Running(w, "nonOp")
    /\ LET d == job[w].d  ts == job[w].ts IN
       /\ nonOp' = [nonOp EXCEPT ![d] = TRUE]
       /\ ticket' = [t \in Tickets |-> IF t \in ts THEN "CLOSED_NON_OPERATIONAL" ELSE ticket[t]]
       /\ closedAt' = [t \in Tickets |-> t \in ts \/ closedAt[t]]
       /\ eligible' = [eligible EXCEPT ![d] = FALSE]
       /\ hasOpen' = [hasOpen EXCEPT ![d] = FALSE]
    /\ Finish(w)
    /\ UNCHANGED <<inactive, cycle, repeat, run, fraud, submitted, request>>

-----------------------------------------------------------------------------
\* An execution ends without writing: the process dies, the transaction loses a
\* deadlock or violates a unique index and rolls back, a sweep leaves a ticket
\* PENDING, or its pings do not meet the criteria.
RollBack(w) ==
    /\ job[w] # Idle
    /\ Finish(w)
    /\ UNCHANGED rows

Read(w) ==
    \/ \E d \in Devices : RecomputeRead(w, d) \/ CreateScan(w, d) \/ NonOpList(w, d)
    \/ \E t \in Tickets : \/ AutoRecoverRead(w, t) \/ VerifyScan(w, t)
                          \/ EscalateFraudRead(w, t) \/ MarkAutoRecoveryRead(w, t)
                          \/ EscalateScan(w, t)
    \/ \E x \in Drafts : SubmitRead(w, x) \/ ConfirmResubmitRead(w, x)

Write(w) ==
    \/ RecomputeUpsert(w) \/ CreateEpisode(w) \/ CloseAsAutoRecovery(w)
    \/ SubmitUnavailable(w) \/ SubmitRepair(w)
    \/ FinalizeClosed(w) \/ FinalizeFailed(w) \/ EscalateFraud(w) \/ MarkAutoRecovery(w)
    \/ Escalate(w) \/ ConfirmResubmit(w) \/ NonOpConfirm(w)

Warehouse(x) == Approve(x) \/ Reject(x) \/ MarkShipped(x) \/ ConfirmReceipt(x)

Next ==
    \/ \E w \in Workers : Read(w) \/ Write(w) \/ RollBack(w)
    \/ \E x \in Drafts : Warehouse(x)

Spec == Init /\ [][Next]_vars

-----------------------------------------------------------------------------
(* Properties                                                             *)

Active(t) == cycle[t] \in ActiveCycle
Workable(t) == ticket[t] \in {"OPEN", "VERIFICATION_PENDING"}

\* Invariant I1: a device never holds two active failure cycles, through reopened
\* (confirmResubmit), escalated and repeat cycles and whatever overlaps.
OneActiveCycle ==
    \A t, u \in Tickets :
        Active(t) /\ Active(u) /\ DeviceOf[t] = DeviceOf[u] => t = u

\* A raised has_open_failure_cycle is never a leftover: some cycle of the device
\* is active, so the fast path of ticket creation never withholds a ticket from a
\* device that has no episode.
OpenFlagBacked ==
    \A d \in Devices : hasOpen[d] => \E t \in Tickets : DeviceOf[t] = d /\ Active(t)

\* A ticket an engineer or the verification can still work on belongs to an
\* active cycle, although the two statuses are written by six services.
WorkableTicketBacked == \A t \in Tickets : Workable(t) => Active(t)

\* A device never has two tickets an engineer can be sent out for: nothing in the
\* tickets table says so, it follows from the index on the cycles.
OneWorkableTicket ==
    \A t, u \in Tickets :
        Workable(t) /\ Workable(u) /\ DeviceOf[t] = DeviceOf[u] => t = u

\* A closed ticket's cycle has closed_at, which repeat detection and the reports
\* read, on each of the four closing paths.
ClosedTicketStamped == \A t \in Tickets : ticket[t] \in ClosedTicket => closedAt[t]

\* A marking that ends an episode ends it for the device too: "Terminate the parent
\* Failure Cycle ... the cycle is closed via `closedAt`" (non-operational.service.ts),
\* so it is no longer one of the active cycles that keep the next episode out.
TerminatedEpisodeFreesDevice ==
    \A t \in Tickets : ticket[t] = "CLOSED_NON_OPERATIONAL" => ~Active(t)

=============================================================================
