------------------------------- MODULE Desks --------------------------------
(****************************************************************************)
(* The desks of the operation: the Day Plans, the field tickets, the SLA    *)
(* clock, the vouchers, the cross-zone escalations, the absences, the soft  *)
(* states, the telemetry and the recommender.  They run in the same node    *)
(* process, as executions.  Some share tables (tickets, leaves, schedules): *)
(* each desk has the columns it works with in variables of its own, and     *)
(* takes what the others write to them as steps of its environment.  So a   *)
(* behaviour of this specification works at one desk, chosen at the         *)
(* beginning.                                                               *)
(****************************************************************************)
EXTENDS DayPlan, FieldTickets, SlaClock, Vouchers, CrossZone, Absences, SoftStates,
        Telemetry, Recommender

VARIABLE desk

DeskNames == {"plan", "field", "sla", "vouchers", "cross-zone", "absences", "soft-states",
              "telemetry", "recommender"}

desksVars == <<desk, job, plan, field, sla, vouchers, crossZone, absences, softStates,
               telemetry, zone>>

DesksInit ==
    /\ desk \in DeskNames
    /\ job = [w \in Workers |-> Idle]
    /\ PlanInit /\ FieldInit /\ SlaInit /\ VouchersInit /\ CrossZoneInit /\ AbsencesInit
    /\ SoftInit /\ TelemetryInit /\ RecommenderInit

\* The behaviour works at desk d.
At(d) == desk = d /\ UNCHANGED desk

PlanDesk ==
    /\ At("plan")
    /\ (\E w \in Workers : PlanStep(w)) \/ PlanEnvironment
    /\ UNCHANGED <<field, sla, vouchers, crossZone, absences, softStates, telemetry, zone>>

FieldDesk ==
    /\ At("field")
    /\ (\E w \in Workers : FieldStep(w)) \/ FieldEnvironment
    /\ UNCHANGED <<plan, sla, vouchers, crossZone, absences, softStates, telemetry, zone>>

SlaDesk ==
    /\ At("sla")
    /\ (\E w \in Workers : SlaStep(w)) \/ TimePasses
    /\ UNCHANGED <<plan, field, vouchers, crossZone, absences, softStates, telemetry, zone>>

VoucherDesk ==
    /\ At("vouchers")
    /\ (\E w \in Workers : VouchersStep(w)) \/ VouchersEnvironment
    /\ UNCHANGED <<plan, field, sla, crossZone, absences, softStates, telemetry, zone>>

CrossZoneDesk ==
    /\ At("cross-zone")
    /\ (\E w \in Workers : CrossZoneStep(w)) \/ CrossZoneEnvironment
    /\ UNCHANGED <<plan, field, sla, vouchers, absences, softStates, telemetry, zone>>

AbsenceDesk ==
    /\ At("absences")
    /\ (\E w \in Workers : AbsencesStep(w)) \/ AbsencesEnvironment
    /\ UNCHANGED <<plan, field, sla, vouchers, crossZone, softStates, telemetry, zone>>

SoftStateDesk ==
    /\ At("soft-states")
    /\ (\E w \in Workers : SoftStep(w)) \/ SoftEnvironment
    /\ UNCHANGED <<plan, field, sla, vouchers, crossZone, absences, telemetry, zone>>

TelemetryDesk ==
    /\ At("telemetry")
    /\ (\E w \in Workers : TelemetryStep(w)) \/ TelemetryEnvironment
    /\ UNCHANGED <<plan, field, sla, vouchers, crossZone, absences, softStates, zone>>

RecommenderDesk ==
    /\ At("recommender")
    /\ (\E w \in Workers : RecommenderStep(w)) \/ ZoneChanges
    /\ UNCHANGED <<plan, field, sla, vouchers, crossZone, absences, softStates, telemetry>>

DesksNext ==
    \/ PlanDesk \/ FieldDesk \/ SlaDesk \/ VoucherDesk \/ CrossZoneDesk \/ AbsenceDesk
    \/ SoftStateDesk \/ TelemetryDesk \/ RecommenderDesk

DesksSpec == DesksInit /\ [][DesksNext]_desksVars

\* The tables of every desk have rows of their types (prisma/schema.prisma).
DesksTypeOK ==
    /\ PlanTypeOK /\ FieldTypeOK /\ SlaTypeOK /\ VouchersTypeOK /\ CrossZoneTypeOK
    /\ AbsencesTypeOK /\ SoftTypeOK /\ TelemetryTypeOK /\ RecommenderTypeOK

=============================================================================
