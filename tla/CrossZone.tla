----------------------------- MODULE CrossZone ------------------------------
(****************************************************************************)
(* Cross-zone escalations: a Platinum ticket nobody takes is escalated by a *)
(* sweep, a Gold or Silver one by its zonal manager; the central managers   *)
(* decide.  An approval assigns the ticket in one transaction (assignTicket *)
(* of the override engine) and marks the escalation in another.             *)
(****************************************************************************)
EXTENDS Executions, Naturals, Sequences, FiniteSets

CONSTANTS
    XTickets,
    Platinum,       \* the tickets of Platinum companies
    Takers,         \* engineers of other zones
    MaxEscalations  \* bound: cross_zone_escalations

ASSUME CrossZoneAssumption ==
    /\ Platinum \subseteq XTickets /\ "unassigned" \notin Takers /\ MaxEscalations \in Nat

VARIABLES
    holder,      \* the engineer the ticket is formally assigned to
    openX,       \* tickets.status is OPEN
    escalation   \* cross_zone_escalations, by id

crossZone == <<holder, openX, escalation>>
crossZoneVars == <<crossZone, job>>

Unassigned == "unassigned"
Undecided == {"PENDING", "DEFERRED"}

EscalationRow ==
    [t : XTickets, type : {"AUTO_PLATINUM", "MANUAL_FLAG"},
     status : Undecided \cup {"APPROVED", "DENIED", "ESCALATED_TO_OPS"},
     se : Takers \cup {Unassigned}]

CrossZoneTypeOK ==
    /\ holder \in [XTickets -> Takers \cup {Unassigned}]
    /\ openX \in [XTickets -> BOOLEAN]
    /\ escalation \in Seq(EscalationRow) /\ Len(escalation) <= MaxEscalations

CrossZoneInit ==
    /\ holder = [t \in XTickets |-> Unassigned]
    /\ openX = [t \in XTickets |-> TRUE]
    /\ escalation = <<>>

EscalationsOf(t) == {i \in DOMAIN escalation : escalation[i].t = t}
IsOpen(i) == escalation[i].status \in Undecided

Escalated(t, type) ==
    /\ Len(escalation) < MaxEscalations
    /\ escalation' = Append(escalation, [t |-> t, type |-> type, status |-> "PENDING",
                                         se |-> Unassigned])

-----------------------------------------------------------------------------
(* sweepAutoEscalations and flag                                          *)

\* Platinum tickets without an escalation of any kind, ever.
SweepList == {t \in Platinum : openX[t] /\ holder[t] = Unassigned /\ EscalationsOf(t) = {}}

AutoSweepRead(w) ==
    /\ SweepList # {}
    /\ Begin(w, [op |-> "escalate", todo |-> SweepList])
    /\ UNCHANGED crossZone

\* A listed ticket is escalated unless it is still too young.
AutoEscalate(w) ==
    /\ Running(w, "escalate")
    /\ \E t \in job[w].todo :
          /\ IF job[w].todo = {t} THEN Finish(w)
             ELSE Proceed(w, [job[w] EXCEPT !.todo = @ \ {t}])
          /\ Escalated(t, "AUTO_PLATINUM") \/ UNCHANGED escalation
    /\ UNCHANGED <<holder, openX>>

\* Fault: only a pending escalation is looked for.
FlagReadPending(w, t) ==
    /\ t \notin Platinum
    /\ \A i \in EscalationsOf(t) : escalation[i].status # "PENDING"
    /\ Begin(w, [op |-> "flag", t |-> t])
    /\ UNCHANGED crossZone

FlagRead(w, t) ==
    /\ t \notin Platinum
    /\ \A i \in EscalationsOf(t) : ~IsOpen(i)
    /\ Begin(w, [op |-> "flag", t |-> t])
    /\ UNCHANGED crossZone

FlagTicket(w) ==
    /\ Running(w, "flag")
    /\ Escalated(job[w].t, "MANUAL_FLAG")
    /\ Finish(w)
    /\ UNCHANGED <<holder, openX>>

-----------------------------------------------------------------------------
(* approve, deny, defer and reEscalateToOps                               *)

ApproveRead(w, i, e) ==
    /\ IsOpen(i)
    /\ Begin(w, [op |-> "approve", i |-> i, se |-> e])
    /\ UNCHANGED crossZone

\* assignTicket refuses a ticket that is assigned, never one that is closed.
ApproveAssign(w) ==
    /\ Running(w, "approve") /\ holder[escalation[job[w].i].t] = Unassigned
    /\ holder' = [holder EXCEPT ![escalation[job[w].i].t] = job[w].se]
    /\ Proceed(w, [job[w] EXCEPT !.op = "mark"])
    /\ UNCHANGED <<openX, escalation>>

ApproveMark(w) ==
    /\ Running(w, "mark")
    /\ escalation' = [escalation EXCEPT ![job[w].i] =
                         [@ EXCEPT !.status = "APPROVED", !.se = job[w].se]]
    /\ Finish(w)
    /\ UNCHANGED <<holder, openX>>

\* deny and defer.
DecideRead(w, i, status) ==
    /\ IsOpen(i)
    /\ Begin(w, [op |-> "decide", i |-> i, status |-> status])
    /\ UNCHANGED crossZone

\* The home manager, of an automatic escalation that was denied.
ReEscalateRead(w, i) ==
    /\ escalation[i].status = "DENIED" /\ escalation[i].type = "AUTO_PLATINUM"
    /\ Begin(w, [op |-> "decide", i |-> i, status |-> "ESCALATED_TO_OPS"])
    /\ UNCHANGED crossZone

DecideEscalation(w) ==
    /\ Running(w, "decide")
    /\ escalation' = [escalation EXCEPT ![job[w].i].status = job[w].status]
    /\ Finish(w)
    /\ UNCHANGED <<holder, openX>>

-----------------------------------------------------------------------------
(* The rest of the system                                                 *)

\* Morning dispatch and the overrides of a zone give the ticket to an engineer, hand it from
\* one to another and take it away, between the two transactions of an approval too; closing
\* the ticket leaves its escalations alone.
Elsewhere(t) ==
    /\ \/ /\ \E e \in Takers \cup {Unassigned} : e # holder[t] /\ holder' = [holder EXCEPT ![t] = e]
          /\ UNCHANGED openX
       \/ /\ openX[t]
          /\ openX' = [openX EXCEPT ![t] = FALSE]
          /\ UNCHANGED holder
    /\ UNCHANGED <<escalation, job>>

CrossZoneStep(w) ==
    \/ AutoSweepRead(w) \/ AutoEscalate(w)
    \/ \E t \in XTickets : FlagRead(w, t)
    \/ FlagTicket(w)
    \/ \E i \in DOMAIN escalation :
          \/ \E e \in Takers : ApproveRead(w, i, e)
          \/ DecideRead(w, i, "DENIED") \/ DecideRead(w, i, "DEFERRED")
          \/ ReEscalateRead(w, i)
    \/ ApproveAssign(w) \/ ApproveMark(w) \/ DecideEscalation(w)
    \/ Abandon(w) /\ UNCHANGED crossZone

CrossZoneEnvironment == \E t \in XTickets : Elsewhere(t)

CrossZoneSpec ==
    /\ CrossZoneInit /\ job = [w \in Workers |-> Idle]
    /\ [][(\E w \in Workers : CrossZoneStep(w)) \/ CrossZoneEnvironment]_crossZoneVars

-----------------------------------------------------------------------------
(* Properties                                                             *)

\* A ticket waits for one decision at a time, over sweeps, flags, deferrals and denials
\* (sweepAutoEscalations, flag).
OneOpenEscalation == \A t \in XTickets : Cardinality({i \in EscalationsOf(t) : IsOpen(i)}) <= 1

=============================================================================
