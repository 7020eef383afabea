---------------------------- MODULE FieldTickets ----------------------------
(**************************************************************************)
(* Recovery tickets (collect a device and bring it to the warehouse) and  *)
(* install tickets (fit a device and wait for its first ping).            *)
(*                                                                        *)
(* Every handler loads the ticket, tests it, and then updates some of its *)
(* columns by primary key: the job holds those columns.                   *)
(**************************************************************************)
EXTENDS Executions, Naturals, Sequences

CONSTANTS
    RecoveryTickets,  \* queued by a confirmed marking
    FieldEngineers,
    FreeDevices,      \* devices in stock, by whom an install ticket names one
    BareVehicles,     \* vehicles without a device
    MaxInstalls       \* bound: install tickets

ASSUME FieldAssumption == MaxInstalls \in Nat

VARIABLES
    recovery,  \* the RECOVERY tickets
    install    \* the INSTALL tickets, by id

field == <<recovery, install>>

Managers == {"ZONAL_MANAGER", "CENTRAL_SERVICE_MANAGER", "OPERATIONS_HEAD"}
Nobody == "nobody"

ClosureType == {"NONE", "AUTO_CLOSED_ON_WAREHOUSE_RECEIPT", "FAILED_RECOVERY_CLOSE",
                "ZM_MANUAL_CLOSE", "CSM_ACTING_CLOSE", "OPERATIONS_HEAD_OVERRIDE_CLOSE"}

\* serial: collected_device_serial is recorded; unable: unable_to_collect_reason is set.
RecoveryRow ==
    [status : {"REQUESTED", "SCHEDULED", "ON_SITE", "COLLECTED", "CLOSED", "FAILED_RECOVERY"},
     se : FieldEngineers \cup {Nobody}, serial : BOOLEAN, unable : BOOLEAN, closure : ClosureType]

\* heard: a snapshot of the device is newer than activated_at; late: 24 hours have passed since.
InstallRow ==
    [status : {"REQUESTED", "SCHEDULED", "ON_SITE", "ACTIVATED", "CLOSED", "FAILED_ACTIVATION"},
     d : FreeDevices, v : BareVehicles, se : FieldEngineers \cup {Nobody},
     heard : BOOLEAN, late : BOOLEAN]

FieldInit ==
    /\ recovery = [t \in RecoveryTickets |->
                      [status |-> "REQUESTED", se |-> Nobody, serial |-> FALSE,
                       unable |-> FALSE, closure |-> "NONE"]]
    /\ install = <<>>

-----------------------------------------------------------------------------
(* RecoveryService                                                        *)

Terminal(t) == recovery[t].status \in {"CLOSED", "FAILED_RECOVERY"}
DecisionQueue == {t \in RecoveryTickets : recovery[t].unable /\ ~Terminal(t)}
AwaitingReceipt == {t \in RecoveryTickets : recovery[t].status = "COLLECTED"}
NonStandardClosures ==
    {t \in RecoveryTickets :
        recovery[t].closure \notin {"NONE", "AUTO_CLOSED_ON_WAREHOUSE_RECEIPT"}}

DecideRecovery(w, t, data) ==
    /\ Begin(w, [op |-> "recovery", t |-> t, data |-> data])
    /\ UNCHANGED field

ScheduleRecovery(w, t, e) ==
    /\ recovery[t].status = "REQUESTED"
    /\ DecideRecovery(w, t, [status |-> "SCHEDULED", se |-> e])

\* The legs of the field take the assigned engineer only.
MarkOnSite(w, t, e) ==
    /\ recovery[t].status = "SCHEDULED" /\ recovery[t].se = e
    /\ DecideRecovery(w, t, [status |-> "ON_SITE"])

MarkCollected(w, t, e) ==
    /\ recovery[t].status = "ON_SITE" /\ recovery[t].se = e
    /\ DecideRecovery(w, t, [status |-> "COLLECTED", serial |-> TRUE])

MarkUnableToCollect(w, t, e) ==
    /\ recovery[t].status = "ON_SITE" /\ recovery[t].se = e
    /\ DecideRecovery(w, t, [unable |-> TRUE])

\* Fault: a ticket is received whatever its status.
ConfirmWarehouseReceiptAny(w, t) ==
    /\ ~Terminal(t)
    /\ DecideRecovery(w, t, [status |-> "CLOSED", closure |-> "AUTO_CLOSED_ON_WAREHOUSE_RECEIPT"])

ConfirmWarehouseReceipt(w, t) ==
    /\ t \in AwaitingReceipt
    /\ DecideRecovery(w, t, [status |-> "CLOSED", closure |-> "AUTO_CLOSED_ON_WAREHOUSE_RECEIPT"])

\* The queue is told by the flag alone: the ticket may have been collected since.
RescheduleRecovery(w, t, e) ==
    /\ t \in DecisionQueue
    /\ DecideRecovery(w, t, [status |-> "SCHEDULED", se |-> e, unable |-> FALSE])

CloseFailedRecovery(w, t) ==
    /\ t \in DecisionQueue
    /\ DecideRecovery(w, t, [status |-> "FAILED_RECOVERY", closure |-> "FAILED_RECOVERY_CLOSE"])

\* The transition writes the status it has read.
EscalateToOh(w, t) ==
    /\ t \in DecisionQueue
    /\ DecideRecovery(w, t, [status |-> recovery[t].status])

ManualClosureType(role) ==
    CASE role = "OPERATIONS_HEAD" -> "OPERATIONS_HEAD_OVERRIDE_CLOSE"
      [] role = "CENTRAL_SERVICE_MANAGER" -> "CSM_ACTING_CLOSE"
      [] OTHER -> "ZM_MANUAL_CLOSE"

ManualClose(w, t, role) ==
    /\ ~Terminal(t)
    /\ DecideRecovery(w, t, [status |-> "CLOSED", closure |-> ManualClosureType(role)])

RecoveryRead(w) ==
    \E t \in RecoveryTickets :
       \/ \E e \in FieldEngineers :
             ScheduleRecovery(w, t, e) \/ MarkOnSite(w, t, e) \/ MarkCollected(w, t, e)
             \/ MarkUnableToCollect(w, t, e) \/ RescheduleRecovery(w, t, e)
       \/ ConfirmWarehouseReceipt(w, t) \/ CloseFailedRecovery(w, t) \/ EscalateToOh(w, t)
       \/ \E role \in Managers : ManualClose(w, t, role)

RecoveryTransition(w) ==
    /\ Running(w, "recovery")
    /\ recovery' = [recovery EXCEPT ![job[w].t] = Updated(@, job[w].data)]
    /\ Finish(w)
    /\ UNCHANGED install

-----------------------------------------------------------------------------
(* InstallService                                                         *)

\* createSingle, and each row of a CSV: validateRow asks for a vehicle without a fitted device
\* and a device on no vehicle.  Neither is changed by fitting, and no other install ticket of
\* either is looked for.
Requested(d, v) ==
    [status |-> "REQUESTED", d |-> d, v |-> v, se |-> Nobody, heard |-> FALSE, late |-> FALSE]

CreateRead(w, rows) ==
    /\ Begin(w, [op |-> "create", rows |-> rows])
    /\ UNCHANGED field

\* All the rows of the file in one transaction.
CreateInstalls(w) ==
    /\ Running(w, "create") /\ Len(install) + Len(job[w].rows) <= MaxInstalls
    /\ install' = install \o job[w].rows
    /\ Finish(w)
    /\ UNCHANGED recovery

InstallFiles ==
    LET row == {Requested(d, v) : d \in FreeDevices, v \in BareVehicles}
    IN {<<r>> : r \in row} \cup {<<r, s>> : r, s \in row}

-----------------------------------------------------------------------------
(* InstallLifecycleService                                                *)

DecideInstall(w, i, data) ==
    /\ Begin(w, [op |-> "install", i |-> i, data |-> data])
    /\ UNCHANGED field

ScheduleInstall(w, i, e) ==
    /\ install[i].status = "REQUESTED"
    /\ DecideInstall(w, i, [status |-> "SCHEDULED", se |-> e])

InstallOnSite(w, i, e) ==
    /\ install[i].status = "SCHEDULED" /\ install[i].se = e
    /\ DecideInstall(w, i, [status |-> "ON_SITE"])

\* The form fits and activates at once; activated_at is now.
MarkFitted(w, i, e) ==
    /\ install[i].status = "ON_SITE" /\ install[i].se = e
    /\ DecideInstall(w, i, [status |-> "ACTIVATED", heard |-> FALSE, late |-> FALSE])

InstallTransition(w) ==
    /\ Running(w, "install")
    /\ install' = [install EXCEPT ![job[w].i] = Updated(@, job[w].data)]
    /\ Finish(w)
    /\ UNCHANGED recovery

InstallRead(w) ==
    \/ \E rows \in InstallFiles : Len(install) + Len(rows) <= MaxInstalls /\ CreateRead(w, rows)
    \/ \E i \in DOMAIN install, e \in FieldEngineers :
          ScheduleInstall(w, i, e) \/ InstallOnSite(w, i, e) \/ MarkFitted(w, i, e)

Activated == {i \in DOMAIN install : install[i].status = "ACTIVATED"}

VerifyRead(w) ==
    /\ Activated # {}
    /\ Begin(w, [op |-> "verify", todo |-> Activated])
    /\ UNCHANGED field

\* The next ticket of the sweep: its snapshots are looked up now, and its row is written
\* whatever it has become.
SweepOn(w, i) ==
    /\ Running(w, "verify") /\ i \in job[w].todo
    /\ IF job[w].todo = {i} THEN Finish(w)
       ELSE Proceed(w, [job[w] EXCEPT !.todo = @ \ {i}])
    /\ UNCHANGED recovery

CloseInstall(w, i) ==
    /\ SweepOn(w, i) /\ install[i].heard
    /\ install' = [install EXCEPT ![i].status = "CLOSED"]

FailActivation(w, i) ==
    /\ SweepOn(w, i) /\ ~install[i].heard /\ install[i].late
    /\ install' = [install EXCEPT ![i].status = "FAILED_ACTIVATION"]

StillPending(w, i) ==
    /\ SweepOn(w, i) /\ ~install[i].heard /\ ~install[i].late
    /\ UNCHANGED install

InstallVerify(w) ==
    \E i \in DOMAIN install : CloseInstall(w, i) \/ FailActivation(w, i) \/ StillPending(w, i)

-----------------------------------------------------------------------------
(* The devices and the clock                                              *)

\* Every ticket of the device that is activated sees the ping.
FirstPing(d) ==
    /\ \E i \in Activated : install[i].d = d /\ ~install[i].heard
    /\ install' = [i \in DOMAIN install |->
                      IF i \in Activated /\ install[i].d = d
                      THEN [install[i] EXCEPT !.heard = TRUE] ELSE install[i]]
    /\ UNCHANGED <<recovery, job>>

WindowElapses(i) ==
    /\ i \in Activated /\ ~install[i].late
    /\ install' = [install EXCEPT ![i].late = TRUE]
    /\ UNCHANGED <<recovery, job>>

FieldStep(w) ==
    \/ RecoveryRead(w) \/ RecoveryTransition(w)
    \/ InstallRead(w) \/ CreateInstalls(w) \/ InstallTransition(w)
    \/ VerifyRead(w) \/ InstallVerify(w)
    \/ Abandon(w) /\ UNCHANGED field

FieldEnvironment ==
    \/ \E d \in FreeDevices : FirstPing(d)
    \/ \E i \in DOMAIN install : WindowElapses(i)

fieldVars == <<field, job>>

FieldSpec ==
    /\ FieldInit /\ job = [w \in Workers |-> Idle]
    /\ [][(\E w \in Workers : FieldStep(w)) \/ FieldEnvironment]_fieldVars

-----------------------------------------------------------------------------
(* Properties                                                             *)

FieldTypeOK ==
    /\ recovery \in [RecoveryTickets -> RecoveryRow]
    /\ install \in Seq(InstallRow) /\ Len(install) <= MaxInstalls

\* The warehouse receives only what an engineer has collected and an unrecovered device is
\* never reported as received: over the flags, reschedules and closures in between
\* (confirmWarehouseReceipt, closeFailedRecovery).
ReceivedWasCollected ==
    \A t \in RecoveryTickets :
       recovery[t].closure = "AUTO_CLOSED_ON_WAREHOUSE_RECEIPT" => recovery[t].serial

=============================================================================
