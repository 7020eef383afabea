------------------------------ MODULE SlaClock ------------------------------
(***************************************************************************)
(* The primary SLA clock of one failure cycle, and the two desks that stop *)
(* and restart it: component requests (the warehouse) and vehicle          *)
(* unavailability reports (the zonal manager).                             *)
(*                                                                         *)
(* A cycle keeps the time it was paused at and the pauses accumulated so   *)
(* far.  A pause by a report tests in its transaction whether the cycle is *)
(* paused already; a pause by the component-unavailable form does not.     *)
(* The unit of time is far longer than an execution: the clock advances    *)
(* only between two of them.                                               *)
(***************************************************************************)
EXTENDS Executions, Naturals, Sequences

CONSTANTS
    MaxTime,      \* bound: the clock
    MaxRequests,  \* bound: component requests of the cycle
    MaxReports,   \* bound: vehicle unavailability reports of the cycle
    Floating      \* engineer_master.coverage_type of the requester is FLOATING

ASSUME SlaAssumption ==
    MaxTime \in Nat /\ MaxRequests \in Nat /\ MaxReports \in Nat /\ Floating \in BOOLEAN

VARIABLES
    now,       \* time since the cycle was opened
    cycle,     \* the failure cycle
    ticket,    \* its ticket
    requests,  \* component_requests, by id
    reports    \* statuses of vehicle_unavailability_reports, by id

sla == <<now, cycle, ticket, requests, reports>>
slaVars == <<sla, job>>

ActiveRequest == {"REQUESTED", "APPROVED", "SHIPPED"}
Destination == {"NONE", "SE_LOCATION", "PLANT_WAREHOUSE"}

CycleRow == [state : {"OPEN", "WAITING_COMPONENT", "SUBMITTED"}, paused : BOOLEAN,
             at : 0..MaxTime, accumulated : 0..MaxTime]
RequestRow == [status : ActiveRequest \cup {"RECEIVED", "REJECTED"}, destination : Destination]

SlaTypeOK ==
    /\ now \in 0..MaxTime
    /\ cycle \in CycleRow
    /\ ticket \in [open : BOOLEAN, assigned : BOOLEAN]
    /\ requests \in Seq(RequestRow) /\ Len(requests) <= MaxRequests
    /\ reports \in Seq({"OPEN", "RESOLVED"}) /\ Len(reports) <= MaxReports

SlaInit ==
    /\ now = 0
    /\ cycle = [state |-> "OPEN", paused |-> FALSE, at |-> 0, accumulated |-> 0]
    /\ ticket = [open |-> TRUE, assigned |-> TRUE]
    /\ requests = <<>> /\ reports = <<>>

-----------------------------------------------------------------------------
(* The clock                                                              *)

CurrentPause(c) == IF c.paused THEN now - c.at ELSE 0

\* The clock shown to the manager (listForZone).
PrimaryClock ==
    LET counted == cycle.accumulated + CurrentPause(cycle)
    IN IF counted > now THEN 0 ELSE now - counted

Paused(c) == [c EXCEPT !.paused = TRUE, !.at = now]

\* Fault: the interval is folded in and the cycle stays paused.
ResumedKeepingPause(c) ==
    IF c.paused THEN [c EXCEPT !.accumulated = @ + CurrentPause(c)] ELSE c

\* Fault: the pause is cleared and its interval is not folded in.
ResumedUncounted(c) == IF c.paused THEN [c EXCEPT !.paused = FALSE, !.at = 0] ELSE c

\* resumeSla of both services: the interval is folded in and the pause is cleared.
Resumed(c) ==
    IF c.paused
    THEN [c EXCEPT !.paused = FALSE, !.at = 0, !.accumulated = @ + CurrentPause(c)]
    ELSE c

TimePasses ==
    /\ now < MaxTime /\ \A w \in Workers : job[w] = Idle
    /\ now' = now + 1
    /\ UNCHANGED <<cycle, ticket, requests, reports, job>>

-----------------------------------------------------------------------------
(* The engineer's form (TroubleshootSubmissionService.submit)             *)

FormRead(w, op) ==
    /\ ticket.open
    /\ Begin(w, [op |-> op])
    /\ UNCHANGED sla

\* Whatever the cycle is: the time of an earlier pause is overwritten.
ComponentUnavailable(w) ==
    /\ Running(w, "unavailable") /\ Len(requests) < MaxRequests
    /\ cycle' = [Paused(cycle) EXCEPT !.state = "WAITING_COMPONENT"]
    /\ requests' = Append(requests, [status |-> "REQUESTED", destination |-> "NONE"])
    /\ Finish(w)
    /\ UNCHANGED <<now, ticket, reports>>

NormalSubmission(w) ==
    /\ Running(w, "fixed")
    /\ cycle' = [cycle EXCEPT !.state = "SUBMITTED"]
    /\ ticket' = [ticket EXCEPT !.open = FALSE]
    /\ Finish(w)
    /\ UNCHANGED <<now, requests, reports>>

-----------------------------------------------------------------------------
(* ComponentRequestService                                                *)

\* The status is tested before the transaction; resume tells whether the clock is restarted.
RequestRead(w, r, from, data) ==
    /\ requests[r].status = from
    /\ Begin(w, [op |-> "request", r |-> r, data |-> data])
    /\ UNCHANGED sla

Approve(w, r) == RequestRead(w, r, "REQUESTED", [status |-> "APPROVED"])
Reject(w, r) == RequestRead(w, r, "REQUESTED", [status |-> "REJECTED"])
MarkShipped(w, r, d) ==
    RequestRead(w, r, "APPROVED", [status |-> "SHIPPED", destination |-> d])

RequestTransition(w) ==
    /\ Running(w, "request")
    /\ requests' = [requests EXCEPT ![job[w].r] = Updated(@, job[w].data)]
    /\ Finish(w)
    /\ UNCHANGED <<now, cycle, ticket, reports>>

\* resume: the switch sla_resume_on_receipt.
ReceiptRead(w, r, resume) ==
    /\ requests[r].status = "SHIPPED"
    /\ Begin(w, [op |-> "receipt", r |-> r, resume |-> resume])
    /\ UNCHANGED sla

ConfirmReceipt(w) ==
    /\ Running(w, "receipt")
    /\ requests' = [requests EXCEPT ![job[w].r].status = "RECEIVED"]
    /\ cycle' = IF job[w].resume THEN Resumed(cycle) ELSE cycle
    /\ Finish(w)
    /\ UNCHANGED <<now, ticket, reports>>

\* A floating engineer whose spare went to the plant gives the ticket back.
ComputeResubmitOwnership(destination) ==
    IF Floating /\ destination # "SE_LOCATION" THEN "RETURN_TO_POOL" ELSE "SOFT_OWN_ORIGINAL"

ResubmitRead(w, r) ==
    /\ requests[r].status = "RECEIVED"
    /\ Begin(w, [op |-> "resubmit",
                 ownership |-> ComputeResubmitOwnership(requests[r].destination)])
    /\ UNCHANGED sla

\* The request stays RECEIVED: the manager may confirm it again.
ConfirmResubmit(w) ==
    /\ Running(w, "resubmit")
    /\ cycle' = [Resumed(cycle) EXCEPT !.state = "OPEN"]
    /\ ticket' = IF job[w].ownership = "RETURN_TO_POOL"
                 THEN [ticket EXCEPT !.assigned = FALSE] ELSE ticket
    /\ Finish(w)
    /\ UNCHANGED <<now, requests, reports>>

-----------------------------------------------------------------------------
(* VehicleUnavailabilityService: what is read before its transactions     *)
(* decides only whether the caller may go on                              *)

FileReport(w) ==
    /\ job[w] = Idle /\ Len(reports) < MaxReports
    /\ reports' = Append(reports, "OPEN")
    /\ cycle' = IF cycle.paused THEN cycle ELSE Paused(cycle)
    /\ UNCHANGED <<now, ticket, requests, job>>

\* A report of either status, whatever the clock is paused for.
ResumeReport(w, r) ==
    /\ job[w] = Idle
    /\ reports' = [reports EXCEPT ![r] = "RESOLVED"]
    /\ cycle' = Resumed(cycle)
    /\ UNCHANGED <<now, ticket, requests, job>>

SlaStep(w) ==
    \/ FormRead(w, "unavailable") \/ FormRead(w, "fixed")
    \/ ComponentUnavailable(w) \/ NormalSubmission(w)
    \/ \E r \in DOMAIN requests :
          \/ Approve(w, r) \/ Reject(w, r) \/ ResubmitRead(w, r)
          \/ \E d \in Destination \ {"NONE"} : MarkShipped(w, r, d)
          \/ \E resume \in BOOLEAN : ReceiptRead(w, r, resume)
    \/ RequestTransition(w) \/ ConfirmReceipt(w) \/ ConfirmResubmit(w)
    \/ FileReport(w) \/ \E r \in DOMAIN reports : ResumeReport(w, r)
    \/ Abandon(w) /\ UNCHANGED sla

SlaSpec ==
    /\ SlaInit /\ job = [w \in Workers |-> Idle]
    /\ [][(\E w \in Workers : SlaStep(w)) \/ TimePasses]_slaVars

-----------------------------------------------------------------------------
(* Properties                                                             *)

\* The cycle as a stopwatch.
Watch == INSTANCE Stopwatch WITH
    time <- now,
    shown <- PrimaryClock,
    running <- ~cycle.paused,
    pause <- CurrentPause(cycle)

\* Whatever overlaps, the clock the manager is shown is a stopwatch: it advances with the time
\* unless the cycle is paused, a resumption leaves it where the pause found it, and the one
\* statement that takes a pause back, and charges it, is the form that pauses a paused cycle
\* (listForZone, fileReport, resumeSla, submit).
ImplementsStopwatch == Watch!Spec

\* It follows: over pauses and resumptions by three desks, the time charged to the SLA never
\* goes back, and it advances with the time exactly while the cycle is not paused (resumeSla,
\* listForZone).
ClockRunsUnlessPaused ==
    [][/\ PrimaryClock' >= PrimaryClock
       /\ now' = now + 1 =>
             PrimaryClock' = PrimaryClock + IF cycle.paused THEN 0 ELSE 1]_slaVars

=============================================================================
