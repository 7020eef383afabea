---------------------------- MODULE Desks_proofs -----------------------------
(*****************************************************************************)
(* Every desk keeps its tables of their types, also when executions overlap, *)
(* and a behaviour of the desks is one of the desk it works at.              *)
(*                                                                           *)
(* The rows alone are not inductive: a handler writes what it read before.   *)
(* The invariant XTyped of desk X says what its executions carry: the        *)
(* columns an update sets have values of their types, and the rows it        *)
(* points to exist.                                                          *)
(*****************************************************************************)
EXTENDS Desks, Plan_proofs, Requests_proofs, Runs_proofs

-----------------------------------------------------------------------------
(* Rows and sequences                                                     *)

\* A table of which some rows were rewritten has as many rows as before.
LEMMA Rewritten ==
    ASSUME NEW S, NEW s \in Seq(S), NEW u, u = [k \in DOMAIN s |-> u[k]],
           \A k \in DOMAIN s : u[k] \in S
    PROVE  u \in Seq(S) /\ Len(u) = Len(s)
<1>1. DOMAIN s = 1..Len(s) /\ Len(s) \in Nat
  OBVIOUS
<1>2. u \in [1..Len(s) -> S]
  BY <1>1
<1> QED BY <1>1, <1>2

-----------------------------------------------------------------------------
(* Field tickets                                                          *)

\* Columns a handler may update, with values of their types.
RecoveryData(data) ==
    /\ "status" \in DOMAIN data =>
          data.status \in {"REQUESTED", "SCHEDULED", "ON_SITE", "COLLECTED", "CLOSED",
                           "FAILED_RECOVERY"}
    /\ "se" \in DOMAIN data => data.se \in FieldEngineers \cup {Nobody}
    /\ "serial" \in DOMAIN data => data.serial \in BOOLEAN
    /\ "unable" \in DOMAIN data => data.unable \in BOOLEAN
    /\ "closure" \in DOMAIN data => data.closure \in ClosureType

InstallData(data) ==
    /\ "d" \notin DOMAIN data /\ "v" \notin DOMAIN data
    /\ "status" \in DOMAIN data =>
          data.status \in {"REQUESTED", "SCHEDULED", "ON_SITE", "ACTIVATED", "CLOSED",
                           "FAILED_ACTIVATION"}
    /\ "se" \in DOMAIN data => data.se \in FieldEngineers \cup {Nobody}
    /\ "heard" \in DOMAIN data => data.heard \in BOOLEAN
    /\ "late" \in DOMAIN data => data.late \in BOOLEAN

FieldJob(j) ==
    /\ j.op = "recovery" => RecoveryData(j.data)
    /\ j.op = "install" => InstallData(j.data)
    /\ j.op = "create" => j.rows \in Seq(InstallRow)
    /\ j.op = "verify" => {"op", "todo"} \subseteq DOMAIN j

FieldTyped == FieldTypeOK /\ DOMAIN job = Workers /\ \A w \in Workers : FieldJob(job[w])

LEMMA FieldTypedInit == FieldInit /\ job = [w \in Workers |-> Idle] => FieldTyped
<1> SUFFICES ASSUME FieldInit, job = [w \in Workers |-> Idle], MaxInstalls \in Nat
             PROVE  FieldTyped
  BY FieldAssumption
<1>1. FieldTypeOK
  BY DEF FieldInit, FieldTypeOK, RecoveryRow, ClosureType
<1> QED BY <1>1 DEF FieldTyped, FieldJob, Idle

LEMMA UpdatedRecovery ==
    ASSUME NEW r \in RecoveryRow, NEW data, RecoveryData(data)
    PROVE  Updated(r, data) \in RecoveryRow
<1>1. DOMAIN r = {"status", "se", "serial", "unable", "closure"}
  BY DEF RecoveryRow
<1> DEFINE u == Updated(r, data)
<1>2. u = [c \in {"status", "se", "serial", "unable", "closure"} |->
              IF c \in DOMAIN data THEN data[c] ELSE r[c]]
  BY <1>1 DEF Updated
<1>3. /\ u.status \in {"REQUESTED", "SCHEDULED", "ON_SITE", "COLLECTED", "CLOSED",
                       "FAILED_RECOVERY"}
      /\ u.se \in FieldEngineers \cup {Nobody}
      /\ u.serial \in BOOLEAN /\ u.unable \in BOOLEAN /\ u.closure \in ClosureType
  BY <1>2 DEF RecoveryData, RecoveryRow
<1>4. u = [status |-> u.status, se |-> u.se, serial |-> u.serial, unable |-> u.unable,
           closure |-> u.closure]
  BY <1>2
<1> QED BY <1>3, <1>4 DEF RecoveryRow

LEMMA UpdatedInstall ==
    ASSUME NEW r \in InstallRow, NEW data, InstallData(data)
    PROVE  Updated(r, data) \in InstallRow
<1>1. DOMAIN r = {"status", "d", "v", "se", "heard", "late"}
  BY DEF InstallRow
<1> DEFINE u == Updated(r, data)
<1>2. u = [c \in {"status", "d", "v", "se", "heard", "late"} |->
              IF c \in DOMAIN data THEN data[c] ELSE r[c]]
  BY <1>1 DEF Updated
<1>3. /\ u.status \in {"REQUESTED", "SCHEDULED", "ON_SITE", "ACTIVATED", "CLOSED",
                       "FAILED_ACTIVATION"}
      /\ u.d \in FreeDevices /\ u.v \in BareVehicles
      /\ u.se \in FieldEngineers \cup {Nobody}
      /\ u.heard \in BOOLEAN /\ u.late \in BOOLEAN
  BY <1>2 DEF InstallData, InstallRow
<1>4. u = [status |-> u.status, d |-> u.d, v |-> u.v, se |-> u.se, heard |-> u.heard,
           late |-> u.late]
  BY <1>2
<1> QED BY <1>3, <1>4 DEF InstallRow

\* One execution goes on to job j, and the tables keep their types.
LEMMA FieldJobsGoOn ==
    ASSUME FieldTyped, NEW w \in Workers, NEW j, FieldJob(j), job' = [job EXCEPT ![w] = j],
           FieldTypeOK'
    PROVE  FieldTyped'
<1>1. job'[w] = j
  BY DEF FieldTyped
<1>2. ASSUME NEW v \in Workers PROVE FieldJob(job'[v])
  BY <1>1 DEF FieldTyped
<1> QED BY <1>2 DEF FieldTyped

LEMMA FieldReadTyped ==
    ASSUME FieldTyped, NEW w \in Workers, RecoveryRead(w) \/ InstallRead(w) \/ VerifyRead(w)
    PROVE  FieldTyped'
<1>1. UNCHANGED field => FieldTypeOK'
  BY DEF field, FieldTyped, FieldTypeOK
<1>2. ASSUME NEW t \in RecoveryTickets, NEW data, RecoveryData(data), DecideRecovery(w, t, data)
      PROVE  FieldTyped'
  <2>1. FieldJob([op |-> "recovery", t |-> t, data |-> data])
    BY <1>2 DEF FieldJob
  <2> QED BY <1>1, <1>2, <2>1, FieldJobsGoOn DEF DecideRecovery, Begin
<1>3. ASSUME NEW i, NEW data, InstallData(data), DecideInstall(w, i, data)
      PROVE  FieldTyped'
  <2>1. FieldJob([op |-> "install", i |-> i, data |-> data])
    BY <1>3 DEF FieldJob
  <2> QED BY <1>1, <1>3, <2>1, FieldJobsGoOn DEF DecideInstall, Begin
<1>4. CASE RecoveryRead(w)
  <2>1. PICK t \in RecoveryTickets :
           \/ \E e \in FieldEngineers :
                 ScheduleRecovery(w, t, e) \/ MarkOnSite(w, t, e) \/ MarkCollected(w, t, e)
                 \/ MarkUnableToCollect(w, t, e) \/ RescheduleRecovery(w, t, e)
           \/ ConfirmWarehouseReceipt(w, t) \/ CloseFailedRecovery(w, t) \/ EscalateToOh(w, t)
           \/ \E role \in Managers : ManualClose(w, t, role)
    BY <1>4 DEF RecoveryRead
  <2>2. recovery[t].status \in {"REQUESTED", "SCHEDULED", "ON_SITE", "COLLECTED", "CLOSED",
                                "FAILED_RECOVERY"}
    BY DEF FieldTyped, FieldTypeOK, RecoveryRow
  <2>3. \E data : RecoveryData(data) /\ DecideRecovery(w, t, data)
    BY <2>1, <2>2 DEF ScheduleRecovery, MarkOnSite, MarkCollected, MarkUnableToCollect,
          RescheduleRecovery, ConfirmWarehouseReceipt, CloseFailedRecovery, EscalateToOh,
          ManualClose, ManualClosureType, RecoveryData, ClosureType
  <2> QED BY <1>2, <2>3
<1>5. CASE InstallRead(w)
  <2>1. CASE \E file \in InstallFiles : CreateRead(w, file)
    <3>1. PICK file \in InstallFiles : CreateRead(w, file)
      BY <2>1
    <3>2. ASSUME NEW d \in FreeDevices, NEW v \in BareVehicles
          PROVE  Requested(d, v) \in InstallRow
      BY DEF Requested, InstallRow
    <3>3. file \in Seq(InstallRow)
      <4>1. CASE \E d \in FreeDevices, v \in BareVehicles : file = <<Requested(d, v)>>
        BY <3>2, <4>1
      <4>2. CASE \E d, f \in FreeDevices, v, x \in BareVehicles :
                    file = <<Requested(d, v), Requested(f, x)>>
        <5>1. PICK d, f \in FreeDevices, v, x \in BareVehicles :
                 file = <<Requested(d, v), Requested(f, x)>>
          BY <4>2
        <5>2. Requested(d, v) \in InstallRow /\ Requested(f, x) \in InstallRow
          BY <3>2
        <5> QED BY <5>1, <5>2
      <4> QED BY <3>1, <4>1, <4>2 DEF InstallFiles
    <3>4. FieldJob([op |-> "create", rows |-> file])
      BY <3>3 DEF FieldJob
    <3> QED BY <1>1, <3>1, <3>4, FieldJobsGoOn DEF CreateRead, Begin
  <2>2. CASE \E i \in DOMAIN install, e \in FieldEngineers :
                ScheduleInstall(w, i, e) \/ InstallOnSite(w, i, e) \/ MarkFitted(w, i, e)
    <3>1. \E i, data : InstallData(data) /\ DecideInstall(w, i, data)
      BY <2>2 DEF ScheduleInstall, InstallOnSite, MarkFitted, InstallData
    <3> QED BY <1>3, <3>1
  <2> QED BY <1>5, <2>1, <2>2 DEF InstallRead
<1>6. CASE VerifyRead(w)
  <2>1. FieldJob([op |-> "verify", todo |-> Activated])
    BY DEF FieldJob
  <2> QED BY <1>1, <1>6, <2>1, FieldJobsGoOn DEF VerifyRead, Begin
<1> QED BY <1>4, <1>5, <1>6

LEMMA FieldWriteTyped ==
    ASSUME FieldTyped, NEW w \in Workers,
           RecoveryTransition(w) \/ CreateInstalls(w) \/ InstallTransition(w)
    PROVE  FieldTyped'
<1>0. FieldTypeOK /\ FieldJob(job[w]) /\ FieldJob(Idle)
  BY DEF FieldTyped, FieldJob, Idle
<1>1. CASE RecoveryTransition(w)
  <2>1. recovery' \in [RecoveryTickets -> RecoveryRow] /\ install' = install
    <3>1. PICK t, data : /\ RecoveryData(data)
                         /\ recovery' = [recovery EXCEPT ![t] = Updated(recovery[t], data)]
      BY <1>0, <1>1 DEF RecoveryTransition, Running, FieldJob
    <3>2. ASSUME NEW u \in RecoveryTickets PROVE recovery'[u] \in RecoveryRow
      <4>1. recovery[u] \in RecoveryRow
        BY <1>0 DEF FieldTypeOK
      <4>2. Updated(recovery[u], data) \in RecoveryRow
        BY <3>1, <4>1, UpdatedRecovery
      <4> QED BY <1>0, <3>1, <4>1, <4>2 DEF FieldTypeOK
    <3> QED BY <1>0, <1>1, <3>1, <3>2 DEF FieldTypeOK, RecoveryTransition
  <2> QED BY <1>0, <1>1, <2>1, FieldJobsGoOn DEF RecoveryTransition, Finish, FieldTypeOK
<1>2. CASE CreateInstalls(w)
  <2>1. PICK file \in Seq(InstallRow) : file = job[w].rows
    BY <1>0, <1>2 DEF CreateInstalls, Running, FieldJob
  <2>2. install' = install \o file /\ Len(install) + Len(file) <= MaxInstalls
        /\ recovery' = recovery
    BY <1>2, <2>1 DEF CreateInstalls
  <2>3. FieldTypeOK'
    BY <1>0, <2>2 DEF FieldTypeOK
  <2> QED BY <1>0, <1>2, <2>3, FieldJobsGoOn DEF CreateInstalls, Finish
<1>3. CASE InstallTransition(w)
  <2>1. PICK i, data : /\ InstallData(data)
                       /\ install' = [install EXCEPT ![i] = Updated(install[i], data)]
    BY <1>0, <1>3 DEF InstallTransition, Running, FieldJob
  <2>2. install \in Seq(InstallRow)
    BY <1>0 DEF FieldTypeOK
  <2>3. ASSUME NEW k \in DOMAIN install PROVE install'[k] \in InstallRow
    <3>1. install[k] \in InstallRow
      BY <2>2
    <3>2. Updated(install[k], data) \in InstallRow
      BY <2>1, <3>1, UpdatedInstall
    <3> QED BY <2>1, <3>1, <3>2
  <2>4. install' = [k \in DOMAIN install |-> install'[k]]
    BY <2>1
  <2>5. install' \in Seq(InstallRow) /\ Len(install') = Len(install)
    BY <2>2, <2>3, <2>4, Rewritten
  <2>6. FieldTypeOK'
    BY <1>0, <1>3, <2>5 DEF FieldTypeOK, InstallTransition
  <2> QED BY <1>0, <1>3, <2>6, FieldJobsGoOn DEF InstallTransition, Finish
<1> QED BY <1>1, <1>2, <1>3

\* The row of one install ticket is rewritten.
LEMMA InstallRowWritten ==
    ASSUME FieldTypeOK, NEW i \in DOMAIN install, recovery' = recovery,
           install' = [install EXCEPT ![i].status = "CLOSED"]
           \/ install' = [install EXCEPT ![i].status = "FAILED_ACTIVATION"]
           \/ install' = [install EXCEPT ![i].late = TRUE]
    PROVE  FieldTypeOK'
<1>1. install \in Seq(InstallRow)
  BY DEF FieldTypeOK
<1>2. ASSUME NEW k \in DOMAIN install PROVE install'[k] \in InstallRow
  <2>1. install[k] \in InstallRow
    BY <1>1
  <2>2. \/ install'[k] = install[k] \/ install'[k] = [install[k] EXCEPT !.status = "CLOSED"]
        \/ install'[k] = [install[k] EXCEPT !.status = "FAILED_ACTIVATION"]
        \/ install'[k] = [install[k] EXCEPT !.late = TRUE]
    OBVIOUS
  <2> QED BY <2>1, <2>2 DEF InstallRow
<1>3. install' = [k \in DOMAIN install |-> install'[k]]
  OBVIOUS
<1>4. install' \in Seq(InstallRow) /\ Len(install') = Len(install)
  BY <1>1, <1>2, <1>3, Rewritten
<1> QED BY <1>4 DEF FieldTypeOK

LEMMA InstallVerifyTyped ==
    ASSUME FieldTyped, NEW w \in Workers, InstallVerify(w)
    PROVE  FieldTyped'
<1>0. FieldTypeOK /\ FieldJob(job[w]) /\ FieldJob(Idle)
  BY DEF FieldTyped, FieldJob, Idle
<1>1. PICK i \in DOMAIN install : CloseInstall(w, i) \/ FailActivation(w, i) \/ StillPending(w, i)
  BY DEF InstallVerify
<1>2. SweepOn(w, i)
  BY <1>1 DEF CloseInstall, FailActivation, StillPending
<1>3. recovery' = recovery
  BY <1>2 DEF SweepOn
<1>4. FieldTypeOK'
  <2>1. CASE UNCHANGED install
    BY <1>0, <1>3, <2>1 DEF FieldTypeOK
  <2>2. CASE ~UNCHANGED install
    BY <1>0, <1>1, <1>3, <2>2, InstallRowWritten DEF CloseInstall, FailActivation, StillPending
  <2> QED BY <2>1, <2>2
<1>5. CASE job[w].todo = {i}
  BY <1>0, <1>2, <1>4, <1>5, FieldJobsGoOn DEF SweepOn, Finish
<1>6. CASE job[w].todo # {i}
  <2>1. PICK j : j = [job[w] EXCEPT !.todo = @ \ {i}]
    OBVIOUS
  <2>2. FieldJob(j)
    BY <1>0, <1>2, <2>1 DEF SweepOn, Running, FieldJob
  <2> QED BY <1>2, <1>4, <1>6, <2>1, <2>2, FieldJobsGoOn DEF SweepOn, Proceed
<1> QED BY <1>5, <1>6

LEMMA FieldEnvironmentTyped ==
    ASSUME FieldTyped, FieldEnvironment
    PROVE  FieldTyped'
<1>0. FieldTypeOK
  BY DEF FieldTyped
<1>1. ASSUME NEW d \in FreeDevices, FirstPing(d) PROVE FieldTyped'
  <2>1. install \in Seq(InstallRow)
    BY <1>0 DEF FieldTypeOK
  <2>2. ASSUME NEW k \in DOMAIN install PROVE install'[k] \in InstallRow
    <3>1. install[k] \in InstallRow
      BY <2>1
    <3>2. install'[k] = install[k] \/ install'[k] = [install[k] EXCEPT !.heard = TRUE]
      BY <1>1 DEF FirstPing
    <3> QED BY <3>1, <3>2 DEF InstallRow
  <2>3. install' = [k \in DOMAIN install |-> install'[k]]
    BY <1>1 DEF FirstPing
  <2>4. install' \in Seq(InstallRow) /\ Len(install') = Len(install)
    BY <2>1, <2>2, <2>3, Rewritten
  <2>5. FieldTypeOK' /\ UNCHANGED job
    BY <1>0, <1>1, <2>4 DEF FieldTypeOK, FirstPing
  <2> QED BY <2>5 DEF FieldTyped
<1>2. ASSUME NEW i \in DOMAIN install, WindowElapses(i) PROVE FieldTyped'
  <2>1. FieldTypeOK' /\ UNCHANGED job
    BY <1>0, <1>2, InstallRowWritten DEF WindowElapses
  <2> QED BY <2>1 DEF FieldTyped
<1> QED BY <1>1, <1>2 DEF FieldEnvironment

LEMMA FieldTypedNext == FieldTyped /\ [FieldNext]_fieldVars => FieldTyped'
<1> SUFFICES ASSUME FieldTyped, [FieldNext]_fieldVars PROVE FieldTyped'
  OBVIOUS
<1>1. CASE UNCHANGED fieldVars
  BY <1>1 DEF fieldVars, field, FieldTyped, FieldTypeOK
<1>2. ASSUME NEW w \in Workers, FieldStep(w) PROVE FieldTyped'
  <2>1. CASE Abandon(w) /\ UNCHANGED field
    <3>1. FieldJob(Idle) /\ FieldTypeOK'
      BY <2>1 DEF FieldJob, Idle, field, FieldTyped, FieldTypeOK
    <3> QED BY <2>1, <3>1, FieldJobsGoOn DEF Abandon, Finish
  <2> QED BY <1>2, <2>1, FieldReadTyped, FieldWriteTyped, InstallVerifyTyped DEF FieldStep
<1>3. CASE FieldEnvironment
  BY <1>3, FieldEnvironmentTyped
<1> QED BY <1>1, <1>2, <1>3 DEF FieldNext
-----------------------------------------------------------------------------
(* The SLA clock                                                          *)

RequestData(data) ==
    /\ "status" \in DOMAIN data => data.status \in ActiveRequest \cup {"RECEIVED", "REJECTED"}
    /\ "destination" \in DOMAIN data => data.destination \in Destination

SlaJob(j) == j.op = "request" => RequestData(j.data)

\* The pauses fit into the time there has been, and that fits into the bound.
SlaTyped ==
    /\ ClockInv /\ SlaTypeOK
    /\ job = [w \in Workers |-> job[w]] /\ \A w \in Workers : SlaJob(job[w])

LEMMA SlaTypedInit == SlaInit /\ job = [w \in Workers |-> Idle] => SlaTyped
<1> SUFFICES ASSUME SlaInit, job = [w \in Workers |-> Idle] PROVE SlaTyped
  OBVIOUS
<1>1. ClockInv
  BY ClockInit
<1>2. SlaTypeOK
  BY SlaAssumption DEF SlaInit, SlaTypeOK, CycleRow
<1> QED BY <1>1, <1>2 DEF SlaTyped, SlaJob, Idle

LEMMA UpdatedRequest ==
    ASSUME NEW r \in RequestRow, NEW data, RequestData(data)
    PROVE  Updated(r, data) \in RequestRow
<1>1. DOMAIN r = {"status", "destination"}
  BY DEF RequestRow
<1> DEFINE u == Updated(r, data)
<1>2. u = [c \in {"status", "destination"} |-> IF c \in DOMAIN data THEN data[c] ELSE r[c]]
  BY <1>1 DEF Updated
<1>3. u.status \in ActiveRequest \cup {"RECEIVED", "REJECTED"} /\ u.destination \in Destination
  BY <1>2 DEF RequestData, RequestRow
<1>4. u = [status |-> u.status, destination |-> u.destination]
  BY <1>2
<1> QED BY <1>3, <1>4 DEF RequestRow

\* The requests of the cycle, their rows and the reports.
DocumentsOK ==
    /\ ticket \in [open : BOOLEAN, assigned : BOOLEAN]
    /\ requests \in Seq(RequestRow) /\ Len(requests) <= MaxRequests
    /\ reports \in Seq({"OPEN", "RESOLVED"}) /\ Len(reports) <= MaxReports

LEMMA SlaSuffices ==
    ASSUME SlaTyped, NEW w \in Workers, NEW j, SlaJob(j), job' = [job EXCEPT ![w] = j],
           ClockInv', now' = now, DocumentsOK'
    PROVE  SlaTyped'
<1>1. job'[w] = j
  BY DEF SlaTyped
<1>2. \A v \in Workers : SlaJob(job'[v])
  BY <1>1 DEF SlaTyped
<1>3. now \in 0..MaxTime
  BY DEF SlaTyped, SlaTypeOK
<1>4. cycle' \in CycleRow
  <2>1. /\ now \in Nat /\ MaxTime \in Nat /\ now <= MaxTime
        /\ cycle' \in Clock /\ cycle'.at <= now
        /\ cycle'.accumulated + (IF cycle'.paused THEN now - cycle'.at ELSE 0) <= now
    BY <1>3, SlaAssumption DEF ClockInv, CurrentPause
  <2>2. cycle'.at \in 0..MaxTime
    BY <2>1 DEF Clock
  <2>3. cycle'.accumulated \in 0..MaxTime
    BY <2>1 DEF Clock
  <2> QED BY <2>1, <2>2, <2>3 DEF Clock, CycleRow
<1> QED BY <1>2, <1>3, <1>4 DEF SlaTyped, SlaTypeOK, DocumentsOK

LEMMA SlaReadTyped ==
    ASSUME SlaTyped, ClockInv', NEW w \in Workers, UNCHANGED sla,
           NEW j, SlaJob(j), job' = [job EXCEPT ![w] = j]
    PROVE  SlaTyped'
<1>1. now' = now /\ DocumentsOK'
  BY DEF sla, DocumentsOK, SlaTyped, SlaTypeOK
<1> QED BY <1>1, SlaSuffices

LEMMA SlaReadsAre ==
    ASSUME NEW w \in Workers,
           \/ FormRead(w, "unavailable") \/ FormRead(w, "fixed")
           \/ \E r \in DOMAIN requests :
                 \/ Approve(w, r) \/ Reject(w, r) \/ ResubmitRead(w, r)
                 \/ \E d \in Destination \ {"NONE"} : MarkShipped(w, r, d)
                 \/ \E resume \in BOOLEAN : ReceiptRead(w, r, resume)
           \/ Abandon(w) /\ UNCHANGED sla
    PROVE  UNCHANGED sla /\ \E j : SlaJob(j) /\ job' = [job EXCEPT ![w] = j]
<1>1. ASSUME NEW r \in DOMAIN requests, NEW d \in Destination \ {"NONE"}, MarkShipped(w, r, d)
      PROVE  UNCHANGED sla /\ \E j : SlaJob(j) /\ job' = [job EXCEPT ![w] = j]
  BY <1>1 DEF MarkShipped, RequestRead, Begin, SlaJob, RequestData, ActiveRequest
<1>2. ASSUME NEW r \in DOMAIN requests, Approve(w, r) \/ Reject(w, r)
      PROVE  UNCHANGED sla /\ \E j : SlaJob(j) /\ job' = [job EXCEPT ![w] = j]
  BY <1>2 DEF Approve, Reject, RequestRead, Begin, SlaJob, RequestData, ActiveRequest
<1>3. ASSUME NEW r \in DOMAIN requests,
             ResubmitRead(w, r) \/ \E resume \in BOOLEAN : ReceiptRead(w, r, resume)
      PROVE  UNCHANGED sla /\ \E j : SlaJob(j) /\ job' = [job EXCEPT ![w] = j]
  BY <1>3 DEF ResubmitRead, ReceiptRead, Begin, SlaJob
<1>4. CASE FormRead(w, "unavailable") \/ FormRead(w, "fixed")
  BY <1>4 DEF FormRead, Begin, SlaJob
<1>5. CASE Abandon(w) /\ UNCHANGED sla
  BY <1>5 DEF Abandon, Finish, Idle, SlaJob
<1> QED BY <1>1, <1>2, <1>3, <1>4, <1>5

LEMMA SlaWriteTyped ==
    ASSUME SlaTyped, ClockInv', NEW w \in Workers,
           \/ ComponentUnavailable(w) \/ NormalSubmission(w)
           \/ RequestTransition(w) \/ ConfirmReceipt(w) \/ ConfirmResubmit(w)
    PROVE  SlaTyped'
<1>0. /\ DocumentsOK /\ SlaJob(job[w]) /\ SlaJob(Idle)
      /\ MaxRequests \in Nat
  BY SlaAssumption DEF SlaTyped, SlaTypeOK, DocumentsOK, SlaJob, Idle
<1>1. ASSUME NEW r, NEW data, RequestData(data), UNCHANGED <<ticket, reports>>,
             requests' = [requests EXCEPT ![r] = Updated(requests[r], data)]
      PROVE  DocumentsOK'
  <2>1. requests \in Seq(RequestRow)
    BY <1>0 DEF DocumentsOK
  <2>2. ASSUME NEW k \in DOMAIN requests PROVE requests'[k] \in RequestRow
    <3>1. requests[k] \in RequestRow
      BY <2>1
    <3>2. Updated(requests[k], data) \in RequestRow
      BY <1>1, <3>1, UpdatedRequest
    <3> QED BY <1>1, <3>1, <3>2
  <2>3. requests' = [k \in DOMAIN requests |-> requests'[k]]
    BY <1>1
  <2>4. requests' \in Seq(RequestRow) /\ Len(requests') = Len(requests)
    BY <2>1, <2>2, <2>3, Rewritten
  <2> QED BY <1>0, <1>1, <2>4 DEF DocumentsOK
<1>2. CASE ComponentUnavailable(w)
  <2>1. PICK r \in RequestRow : r = [status |-> "REQUESTED", destination |-> "NONE"]
    BY DEF RequestRow, ActiveRequest, Destination
  <2>2. requests' = Append(requests, r) /\ Len(requests) < MaxRequests
        /\ UNCHANGED <<now, ticket, reports>>
    BY <1>2, <2>1 DEF ComponentUnavailable
  <2>3. DocumentsOK'
    BY <1>0, <2>2 DEF DocumentsOK
  <2> QED BY <1>0, <1>2, <2>2, <2>3, SlaSuffices DEF ComponentUnavailable, Finish
<1>3. CASE NormalSubmission(w)
  <2>1. DocumentsOK'
    BY <1>0, <1>3 DEF NormalSubmission, DocumentsOK
  <2> QED BY <1>0, <1>3, <2>1, SlaSuffices DEF NormalSubmission, Finish
<1>4. CASE RequestTransition(w)
  <2>1. \E r, data : RequestData(data)
                     /\ requests' = [requests EXCEPT ![r] = Updated(requests[r], data)]
    BY <1>0, <1>4 DEF RequestTransition, Running, SlaJob
  <2>2. DocumentsOK'
    BY <1>1, <1>4, <2>1 DEF RequestTransition
  <2> QED BY <1>0, <1>4, <2>2, SlaSuffices DEF RequestTransition, Finish
<1>5. CASE ConfirmReceipt(w)
  <2>1. PICK r : requests' = [requests EXCEPT ![r].status = "RECEIVED"]
    BY <1>5 DEF ConfirmReceipt
  <2>2. requests \in Seq(RequestRow)
    BY <1>0 DEF DocumentsOK
  <2>3. ASSUME NEW k \in DOMAIN requests PROVE requests'[k] \in RequestRow
    <3>1. requests[k] \in RequestRow
      BY <2>2
    <3>2. requests'[k] = requests[k] \/ requests'[k] = [requests[k] EXCEPT !.status = "RECEIVED"]
      BY <2>1
    <3> QED BY <3>1, <3>2 DEF RequestRow
  <2>4. requests' = [k \in DOMAIN requests |-> requests'[k]]
    BY <2>1
  <2>5. requests' \in Seq(RequestRow) /\ Len(requests') = Len(requests)
    BY <2>2, <2>3, <2>4, Rewritten
  <2>6. DocumentsOK'
    BY <1>0, <1>5, <2>5 DEF ConfirmReceipt, DocumentsOK
  <2> QED BY <1>0, <1>5, <2>6, SlaSuffices DEF ConfirmReceipt, Finish
<1>6. CASE ConfirmResubmit(w)
  <2>1. DocumentsOK'
    BY <1>0, <1>6 DEF ConfirmResubmit, DocumentsOK
  <2> QED BY <1>0, <1>6, <2>1, SlaSuffices DEF ConfirmResubmit, Finish
<1> QED BY <1>2, <1>3, <1>4, <1>5, <1>6

LEMMA ReportsTyped ==
    ASSUME SlaTyped, ClockInv', NEW w \in Workers,
           FileReport(w) \/ \E r \in DOMAIN reports : ResumeReport(w, r)
    PROVE  SlaTyped'
<1>0. DocumentsOK /\ SlaJob(job[w]) /\ MaxReports \in Nat
  BY SlaAssumption DEF SlaTyped, SlaTypeOK, DocumentsOK
<1>1. job' = [job EXCEPT ![w] = job[w]] /\ now' = now
  BY DEF FileReport, ResumeReport, SlaTyped
<1>2. CASE FileReport(w)
  <2>1. DocumentsOK'
    BY <1>0, <1>2 DEF FileReport, DocumentsOK
  <2> QED BY <1>0, <1>1, <2>1, SlaSuffices
<1>3. ASSUME NEW r \in DOMAIN reports, ResumeReport(w, r) PROVE SlaTyped'
  <2>1. DocumentsOK'
    BY <1>0, <1>3 DEF ResumeReport, DocumentsOK
  <2> QED BY <1>0, <1>1, <2>1, SlaSuffices
<1> QED BY <1>2, <1>3

LEMMA SlaTypedNext == SlaTyped /\ [SlaNext]_slaVars => SlaTyped'
<1> SUFFICES ASSUME SlaTyped, [SlaNext]_slaVars PROVE SlaTyped'
  OBVIOUS
<1>0. ClockInv'
  BY ClockNext DEF SlaTyped
<1>1. CASE UNCHANGED slaVars
  BY <1>0, <1>1 DEF slaVars, sla, SlaTyped, SlaTypeOK
<1>2. ASSUME NEW w \in Workers, SlaStep(w) PROVE SlaTyped'
  <2>1. CASE \/ ComponentUnavailable(w) \/ NormalSubmission(w)
             \/ RequestTransition(w) \/ ConfirmReceipt(w) \/ ConfirmResubmit(w)
    BY <1>0, <2>1, SlaWriteTyped
  <2>2. CASE FileReport(w) \/ \E r \in DOMAIN reports : ResumeReport(w, r)
    BY <1>0, <2>2, ReportsTyped
  <2>3. CASE ~(\/ ComponentUnavailable(w) \/ NormalSubmission(w)
               \/ RequestTransition(w) \/ ConfirmReceipt(w) \/ ConfirmResubmit(w)
               \/ FileReport(w) \/ \E r \in DOMAIN reports : ResumeReport(w, r))
    <3>1. UNCHANGED sla /\ \E j : SlaJob(j) /\ job' = [job EXCEPT ![w] = j]
      BY <1>2, <2>3, SlaReadsAre DEF SlaStep
    <3> QED BY <1>0, <3>1, SlaReadTyped
  <2> QED BY <2>1, <2>2, <2>3
<1>3. CASE TimePasses
  <2>1. now' \in 0..MaxTime
    BY <1>3, SlaAssumption DEF TimePasses, SlaTyped, SlaTypeOK
  <2> QED BY <1>0, <1>3, <2>1 DEF TimePasses, SlaTyped, SlaTypeOK
<1> QED BY <1>1, <1>2, <1>3 DEF SlaNext
-----------------------------------------------------------------------------
(* Escalations and absences                                               *)

\* An execution writes to an escalation there is, of a ticket it found, and assigns to a taker.
CrossZoneJob(j) ==
    /\ j.op = "escalate" => j.todo \subseteq XTickets
    /\ j.op = "flag" => j.t \in XTickets
    /\ j.op \in {"approve", "mark"} => j.i \in DOMAIN escalation /\ j.se \in Takers
    /\ j.op = "decide" =>
          j.i \in DOMAIN escalation /\ j.status \in {"DENIED", "DEFERRED", "ESCALATED_TO_OPS"}

CrossZoneTyped ==
    CrossZoneTypeOK /\ DOMAIN job = Workers /\ \A w \in Workers : CrossZoneJob(job[w])

LEMMA CrossZoneTypedInit == CrossZoneInit /\ job = [w \in Workers |-> Idle] => CrossZoneTyped
  BY CrossZoneAssumption DEF CrossZoneInit, CrossZoneTyped, CrossZoneTypeOK, CrossZoneJob, Idle

\* The escalations stay, and there may be more.
LEMMA CrossZoneSuffices ==
    ASSUME CrossZoneTyped, CrossZoneTypeOK', DOMAIN escalation \subseteq DOMAIN escalation',
           NEW w \in Workers, NEW j, CrossZoneJob(j), job' = [job EXCEPT ![w] = j]
    PROVE  CrossZoneTyped'
<1>1. \A v \in Workers : job'[v] = j \/ job'[v] = job[v]
  BY DEF CrossZoneTyped
<1>2. ASSUME NEW v \in Workers PROVE CrossZoneJob(job[v])'
  <2>1. PICK k : k = job'[v]
    OBVIOUS
  <2>2. CrossZoneJob(k)
    BY <1>1, <2>1 DEF CrossZoneTyped
  <2> QED BY <2>1, <2>2 DEF CrossZoneJob
<1>3. DOMAIN job' = Workers
  BY DEF CrossZoneTyped
<1> QED BY <1>2, <1>3 DEF CrossZoneTyped

LEMMA CrossZoneEnds ==
    ASSUME CrossZoneTyped, CrossZoneTypeOK', DOMAIN escalation \subseteq DOMAIN escalation',
           NEW w \in Workers, Finish(w)
    PROVE  CrossZoneTyped'
<1>1. PICK j : j = Idle
  OBVIOUS
<1>2. CrossZoneJob(j)
  BY <1>1 DEF CrossZoneJob, Idle
<1> QED BY <1>1, <1>2, CrossZoneSuffices DEF Finish

\* A row is added.
LEMMA EscalatedTyped ==
    ASSUME CrossZoneTyped, NEW t \in XTickets, NEW type \in {"AUTO_PLATINUM", "MANUAL_FLAG"},
           Escalated(t, type), UNCHANGED <<holder, openX>>
    PROVE  CrossZoneTypeOK' /\ DOMAIN escalation \subseteq DOMAIN escalation'
<1>1. /\ escalation \in Seq(EscalationRow) /\ Len(escalation) \in Nat
      /\ DOMAIN escalation = 1..Len(escalation)
  BY DEF CrossZoneTyped, CrossZoneTypeOK
<1>2. PICK r : r = [t |-> t, type |-> type, status |-> "PENDING", se |-> Unassigned]
  OBVIOUS
<1>3. r \in EscalationRow
  BY <1>2 DEF EscalationRow, Undecided
<1>4. escalation' = Append(escalation, r) /\ Len(escalation) < MaxEscalations
  BY <1>2 DEF Escalated
<1>5. /\ escalation' \in Seq(EscalationRow) /\ Len(escalation') = Len(escalation) + 1
      /\ DOMAIN escalation' = 1..(Len(escalation) + 1)
  BY <1>1, <1>3, <1>4
<1>6. Len(escalation') <= MaxEscalations
  BY <1>1, <1>4, <1>5, CrossZoneAssumption
<1> QED BY <1>1, <1>5, <1>6 DEF CrossZoneTyped, CrossZoneTypeOK

\* A row is written.
LEMMA DecidedTyped ==
    ASSUME CrossZoneTyped, NEW i \in DOMAIN escalation, NEW r \in EscalationRow,
           escalation' = [escalation EXCEPT ![i] = r], UNCHANGED <<holder, openX>>
    PROVE  CrossZoneTypeOK' /\ DOMAIN escalation' = DOMAIN escalation
<1>1. escalation \in Seq(EscalationRow)
  BY DEF CrossZoneTyped, CrossZoneTypeOK
<1>2. escalation' \in Seq(EscalationRow) /\ Len(escalation') = Len(escalation)
  BY <1>1
<1>3. DOMAIN escalation' = DOMAIN escalation
  BY <1>1
<1> QED BY <1>2, <1>3 DEF CrossZoneTyped, CrossZoneTypeOK

LEMMA CrossZoneReadTyped ==
    ASSUME CrossZoneTyped, NEW w \in Workers,
           \/ AutoSweepRead(w)
           \/ \E t \in XTickets : FlagRead(w, t)
           \/ \E i \in DOMAIN escalation :
                 \/ \E e \in Takers : ApproveRead(w, i, e)
                 \/ DecideRead(w, i, "DENIED") \/ DecideRead(w, i, "DEFERRED")
                 \/ ReEscalateRead(w, i)
    PROVE  CrossZoneTyped'
<1>1. UNCHANGED crossZone
  BY DEF AutoSweepRead, FlagRead, ApproveRead, DecideRead, ReEscalateRead
<1>2. CrossZoneTypeOK' /\ DOMAIN escalation \subseteq DOMAIN escalation'
  BY <1>1 DEF crossZone, CrossZoneTyped, CrossZoneTypeOK
<1>3. ASSUME NEW j, CrossZoneJob(j), Begin(w, j) PROVE CrossZoneTyped'
  BY <1>2, <1>3, CrossZoneSuffices DEF Begin
<1>4. CASE AutoSweepRead(w)
  <2>1. PICK j : j = [op |-> "escalate", todo |-> SweepList]
    OBVIOUS
  <2>2. SweepList \subseteq XTickets
    BY CrossZoneAssumption DEF SweepList
  <2>3. CrossZoneJob(j)
    BY <2>1, <2>2 DEF CrossZoneJob
  <2> QED BY <1>3, <1>4, <2>1, <2>3 DEF AutoSweepRead
<1>5. ASSUME NEW t \in XTickets, FlagRead(w, t) PROVE CrossZoneTyped'
  <2>1. PICK j : j = [op |-> "flag", t |-> t]
    OBVIOUS
  <2>2. CrossZoneJob(j)
    BY <2>1 DEF CrossZoneJob
  <2> QED BY <1>3, <1>5, <2>1, <2>2 DEF FlagRead
<1>6. ASSUME NEW i \in DOMAIN escalation, NEW e \in Takers, ApproveRead(w, i, e)
      PROVE  CrossZoneTyped'
  <2>1. PICK j : j = [op |-> "approve", i |-> i, se |-> e]
    OBVIOUS
  <2>2. CrossZoneJob(j)
    BY <2>1 DEF CrossZoneJob
  <2> QED BY <1>3, <1>6, <2>1, <2>2 DEF ApproveRead
<1>7. ASSUME NEW i \in DOMAIN escalation, NEW s \in {"DENIED", "DEFERRED", "ESCALATED_TO_OPS"},
             Begin(w, [op |-> "decide", i |-> i, status |-> s])
      PROVE  CrossZoneTyped'
  <2>1. PICK j : j = [op |-> "decide", i |-> i, status |-> s]
    OBVIOUS
  <2>2. CrossZoneJob(j)
    BY <2>1 DEF CrossZoneJob
  <2> QED BY <1>3, <1>7, <2>1, <2>2
<1> QED BY <1>4, <1>5, <1>6, <1>7 DEF DecideRead, ReEscalateRead

LEMMA CrossZoneWriteTyped ==
    ASSUME CrossZoneTyped, NEW w \in Workers,
           \/ AutoEscalate(w) \/ FlagTicket(w) \/ ApproveAssign(w) \/ ApproveMark(w)
           \/ DecideEscalation(w) \/ (Abandon(w) /\ UNCHANGED crossZone)
    PROVE  CrossZoneTyped'
<1>0. PICK j : j = job[w] /\ CrossZoneJob(j)
  BY DEF CrossZoneTyped
<1>1. CASE AutoEscalate(w)
  <2>1. PICK t \in j.todo : /\ \/ Finish(w) \/ Proceed(w, [j EXCEPT !.todo = @ \ {t}])
                            /\ Escalated(t, "AUTO_PLATINUM") \/ UNCHANGED escalation
    BY <1>0, <1>1 DEF AutoEscalate
  <2>2. j.op = "escalate" /\ j.todo \subseteq XTickets
    BY <1>0, <1>1 DEF AutoEscalate, Running, CrossZoneJob
  <2>3. UNCHANGED <<holder, openX>>
    BY <1>1 DEF AutoEscalate
  <2>4. CrossZoneTypeOK' /\ DOMAIN escalation \subseteq DOMAIN escalation'
    <3>1. CASE Escalated(t, "AUTO_PLATINUM")
      BY <2>2, <2>3, <3>1, EscalatedTyped
    <3>2. CASE UNCHANGED escalation
      BY <2>3, <3>2 DEF CrossZoneTyped, CrossZoneTypeOK
    <3> QED BY <2>1, <3>1, <3>2
  <2>5. PICK k : k = [j EXCEPT !.todo = @ \ {t}]
    OBVIOUS
  <2>6. k.op = "escalate" /\ (k.todo = j.todo \ {t} \/ k = j)
    BY <2>2, <2>5
  <2>7. CrossZoneJob(k)
    BY <2>2, <2>6 DEF CrossZoneJob
  <2> QED BY <2>1, <2>4, <2>5, <2>7, CrossZoneEnds, CrossZoneSuffices DEF Proceed
<1>2. CASE FlagTicket(w)
  <2>1. j.t \in XTickets /\ Escalated(j.t, "MANUAL_FLAG") /\ UNCHANGED <<holder, openX>>
    BY <1>0, <1>2 DEF FlagTicket, Running, CrossZoneJob
  <2> QED BY <1>2, <2>1, EscalatedTyped, CrossZoneEnds DEF FlagTicket
<1>3. CASE ApproveAssign(w)
  <2>1. j.op = "approve" /\ j.i \in DOMAIN escalation /\ j.se \in Takers
    BY <1>0, <1>3 DEF ApproveAssign, Running, CrossZoneJob
  <2>2. PICK k : k = [j EXCEPT !.op = "mark"]
    OBVIOUS
  <2>3. k.i = j.i
    BY <2>2
  <2>4. k.se = j.se
    BY <2>2
  <2>5. k.op \in {"mark", "approve"}
    BY <2>1, <2>2
  <2>6. CrossZoneJob(k)
    BY <2>1, <2>3, <2>4, <2>5 DEF CrossZoneJob
  <2>7. CrossZoneTypeOK' /\ DOMAIN escalation \subseteq DOMAIN escalation'
    BY <1>0, <1>3, <2>1 DEF ApproveAssign, CrossZoneTyped, CrossZoneTypeOK
  <2> QED BY <1>0, <1>3, <2>2, <2>6, <2>7, CrossZoneSuffices DEF ApproveAssign, Proceed
<1>4. CASE ApproveMark(w)
  <2>1. j.i \in DOMAIN escalation /\ j.se \in Takers
    BY <1>0, <1>4 DEF ApproveMark, Running, CrossZoneJob
  <2>2. PICK r : r = [escalation[j.i] EXCEPT !.status = "APPROVED", !.se = j.se]
    OBVIOUS
  <2>3. escalation[j.i] \in EscalationRow
    BY <2>1 DEF CrossZoneTyped, CrossZoneTypeOK
  <2>4. r \in EscalationRow
    BY <2>1, <2>2, <2>3 DEF EscalationRow
  <2>5. escalation' = [escalation EXCEPT ![j.i] = r] /\ UNCHANGED <<holder, openX>>
    BY <1>0, <1>4, <2>2 DEF ApproveMark
  <2> QED BY <1>4, <2>1, <2>4, <2>5, DecidedTyped, CrossZoneEnds DEF ApproveMark
<1>5. CASE DecideEscalation(w)
  <2>1. j.i \in DOMAIN escalation /\ j.status \in {"DENIED", "DEFERRED", "ESCALATED_TO_OPS"}
    BY <1>0, <1>5 DEF DecideEscalation, Running, CrossZoneJob
  <2>2. PICK r : r = [escalation[j.i] EXCEPT !.status = j.status]
    OBVIOUS
  <2>3. escalation[j.i] \in EscalationRow
    BY <2>1 DEF CrossZoneTyped, CrossZoneTypeOK
  <2>4. r \in EscalationRow
    BY <2>1, <2>2, <2>3 DEF EscalationRow, Undecided
  <2>5. escalation' = [escalation EXCEPT ![j.i] = r] /\ UNCHANGED <<holder, openX>>
    BY <1>0, <1>5, <2>2 DEF DecideEscalation
  <2> QED BY <1>5, <2>1, <2>4, <2>5, DecidedTyped, CrossZoneEnds DEF DecideEscalation
<1>6. CASE Abandon(w) /\ UNCHANGED crossZone
  <2>1. CrossZoneTypeOK' /\ DOMAIN escalation \subseteq DOMAIN escalation'
    BY <1>6 DEF crossZone, CrossZoneTyped, CrossZoneTypeOK
  <2> QED BY <1>6, <2>1, CrossZoneEnds DEF Abandon
<1> QED BY <1>1, <1>2, <1>3, <1>4, <1>5, <1>6

CrossZoneNext == (\E w \in Workers : CrossZoneStep(w)) \/ CrossZoneEnvironment

LEMMA CrossZoneTypedNext == CrossZoneTyped /\ [CrossZoneNext]_crossZoneVars => CrossZoneTyped'
<1> SUFFICES ASSUME CrossZoneTyped, [CrossZoneNext]_crossZoneVars PROVE CrossZoneTyped'
  OBVIOUS
<1>1. ASSUME NEW w \in Workers, CrossZoneStep(w) PROVE CrossZoneTyped'
  BY <1>1, CrossZoneReadTyped, CrossZoneWriteTyped DEF CrossZoneStep
<1>2. CASE CrossZoneEnvironment
  <2>1. CrossZoneTypeOK' /\ UNCHANGED <<escalation, job>>
    BY <1>2 DEF CrossZoneEnvironment, Elsewhere, CrossZoneTyped, CrossZoneTypeOK
  <2> QED BY <2>1 DEF CrossZoneTyped, CrossZoneJob
<1>3. CASE UNCHANGED crossZoneVars
  BY <1>3 DEF crossZoneVars, crossZone, CrossZoneTyped, CrossZoneTypeOK, CrossZoneJob
<1> QED BY <1>1, <1>2, <1>3 DEF CrossZoneNext

AbsencesTyped == AbsencesInv /\ AbsencesTypeOK

LEMMA AbsencesTypedInit == AbsencesInit /\ job = [w \in Workers |-> Idle] => AbsencesTyped
<1> SUFFICES ASSUME AbsencesInit, job = [w \in Workers |-> Idle] PROVE AbsencesTyped
  OBVIOUS
<1>1. AbsencesInv
  BY AbsencesInvInit
<1> QED BY <1>1, AbsencesAssumption DEF AbsencesInit, AbsencesTyped, AbsencesTypeOK

LEMMA AbsencesBounded ==
    ASSUME AbsencesTyped, [AbsencesNext]_absencesVars
    PROVE  today' \in Days /\ Len(leave') <= MaxLeaves /\ Len(window') <= MaxWindows
<1>0. /\ today \in Days
      /\ leave \in Seq(LeaveRow) /\ Len(leave) <= MaxLeaves
      /\ window \in Seq(WindowRow) /\ Len(window) <= MaxWindows
      /\ MaxLeaves \in Nat /\ MaxWindows \in Nat
  BY AbsencesAssumption DEF AbsencesTyped, AbsencesTypeOK
<1>1. ASSUME NEW r, window' = Append(window, r), Len(window) < MaxWindows
      PROVE  Len(window') <= MaxWindows
  <2>1. Len(window') = Len(window) + 1 /\ Len(window) \in Nat
    BY <1>0, <1>1
  <2> QED BY <1>0, <1>1, <2>1
<1>2. ASSUME NEW r, leave' = Append(leave, r), Len(leave) < MaxLeaves
      PROVE  Len(leave') <= MaxLeaves
  <2>1. Len(leave') = Len(leave) + 1 /\ Len(leave) \in Nat
    BY <1>0, <1>2
  <2> QED BY <1>0, <1>2, <2>1
<1>3. ASSUME NEW w \in Workers, AbsencesStep(w)
      PROVE  today' = today /\ Len(leave') <= MaxLeaves /\ Len(window') <= MaxWindows
  <2> USE DEF absences
  <2>1. ASSUME NEW e, NEW type, NEW span, SubmitLeave(w, e, type, span)
        PROVE  today' = today /\ Len(leave') <= MaxLeaves /\ Len(window') <= MaxWindows
    BY <1>0, <1>2, <2>1 DEF SubmitLeave
  <2>2. ASSUME NEW e, NEW status, NEW span, SetAvailability(w, e, status, span)
        PROVE  today' = today /\ Len(leave') <= MaxLeaves /\ Len(window') <= MaxWindows
    BY <1>0, <1>1, <2>2 DEF SetAvailability
  <2>3. CASE WriteWindow(w)
    BY <1>0, <1>1, <2>3 DEF WriteWindow
  <2>4. CASE DecideLeave(w)
    BY <1>0, <2>4 DEF DecideLeave
  <2>5. CASE UNCHANGED absences
    BY <1>0, <2>5
  <2> QED BY <1>3, <2>1, <2>2, <2>3, <2>4, <2>5 DEF AbsencesStep, ApproveLeaveRead, RejectLeaveRead
<1>4. CASE AbsencesEnvironment
  BY <1>0, <1>4 DEF AbsencesEnvironment, NextDay
<1>5. CASE UNCHANGED absencesVars
  BY <1>0, <1>5 DEF absencesVars, absences
<1> QED BY <1>0, <1>3, <1>4, <1>5 DEF AbsencesNext

LEMMA AbsencesTypedNext == AbsencesTyped /\ [AbsencesNext]_absencesVars => AbsencesTyped'
<1> SUFFICES ASSUME AbsencesTyped, [AbsencesNext]_absencesVars PROVE AbsencesTyped'
  OBVIOUS
<1>1. AbsencesInv'
  BY AbsencesInvNext DEF AbsencesTyped
<1> QED BY <1>1, AbsencesBounded DEF AbsencesTyped, AbsencesTypeOK, AbsencesInv

-----------------------------------------------------------------------------
(* Telemetry                                                              *)

RecomputeJob == [op : {"recompute"}, now : Hours, todo : SUBSET Trackers,
                 latest : [Trackers -> Hours \cup {Never}]]

\* What is stored has been heard by now, so that a device has a last ping.
TelemetryTyped ==
    /\ BannerInv /\ TelemetryTypeOK
    /\ \A r \in stored : r.at <= hour
    /\ \A w \in Workers : Running(w, "recompute") => job[w] \in RecomputeJob

LEMMA TelemetryTypedInit == TelemetryInit /\ job = [w \in Workers |-> Idle] => TelemetryTyped
<1> SUFFICES ASSUME TelemetryInit, job = [w \in Workers |-> Idle] PROVE TelemetryTyped
  OBVIOUS
<1>1. BannerInv
  BY BannerInvInit
<1>2. state \in [Trackers -> StateRow]
  BY DEF TelemetryInit, StateRow
<1>3. TelemetryTypeOK
  BY <1>1, <1>2, TelemetryAssumption DEF BannerInv, SourceOK, TelemetryInit, TelemetryTypeOK
<1> QED BY <1>1, <1>3 DEF TelemetryInit, TelemetryTyped, Running, Idle

\* A band is one of those in the table.
LEMMA BucketsAre ==
    ASSUME NEW h \in Nat
    PROVE  ClassifySlaBucket(h) \in {Buckets[i].bucket : i \in DOMAIN Buckets} \cup {"ACTIVE"}
<1> DEFINE reached == {i \in DOMAIN Buckets : Buckets[i].from <= h}
<1>1. DOMAIN Buckets = 1..8
  BY DEF Buckets
<1>2. reached \in SUBSET Nat /\ \A i \in reached : i <= 8
  BY <1>1
<1>3. CASE reached = {}
  BY <1>3 DEF ClassifySlaBucket
<1>4. CASE reached # {}
  <2>1. Max(reached) \in reached
    BY <1>2, <1>4, GreatestExists
  <2>2. ClassifySlaBucket(h) = Buckets[Max(reached)].bucket
    BY <1>4 DEF ClassifySlaBucket
  <2> QED BY <2>1, <2>2
<1> QED BY <1>3, <1>4

LEMMA BucketAtIs ==
    ASSUME NEW latest \in Hours \cup {Never}, NEW at \in Hours
    PROVE  BucketAt(latest, at) \in {Buckets[i].bucket : i \in DOMAIN Buckets}
                                     \cup {"ACTIVE", "NONE"}
<1>1. CASE latest = Never
  BY <1>1 DEF BucketAt
<1>2. CASE latest # Never
  <2>0. latest \in Nat /\ at \in Nat
    BY <1>2, TelemetryAssumption
  <2>1. PICK h \in Nat : h = IF latest < at THEN at - latest ELSE 0
    <3>1. PICK h : h = IF latest < at THEN at - latest ELSE 0
      OBVIOUS
    <3>2. h \in Nat
      BY <2>0, <3>1
    <3> QED BY <3>1, <3>2
  <2>2. BucketAt(latest, at) = ClassifySlaBucket(h)
    BY <1>2, <2>1 DEF BucketAt
  <2> QED BY <2>2, BucketsAre
<1> QED BY <1>1, <1>2

LEMMA LatestIs ==
    ASSUME TelemetryTyped, NEW d \in Trackers
    PROVE  LatestOf(d) \in Hours \cup {Never}
<1> DEFINE heard == {r.at : r \in {s \in stored : s.d = d}}
<1>1. hour \in Nat /\ stored \subseteq Ping /\ Hours \subseteq Nat
  BY TelemetryAssumption DEF TelemetryTyped, TelemetryTypeOK
<1>2. heard \subseteq Hours /\ \A h \in heard : h <= hour
  BY <1>1 DEF TelemetryTyped, Ping
<1>3. CASE heard = {}
  BY <1>3 DEF LatestOf
<1>4. CASE heard # {}
  <2>1. Max(heard) \in heard
    BY <1>1, <1>2, <1>4, GreatestExists
  <2>2. LatestOf(d) = Max(heard)
    BY <1>4 DEF LatestOf
  <2> QED BY <1>2, <2>1, <2>2
<1> QED BY <1>3, <1>4

RecomputeTyped(j) == j.op = "recompute" => j \in RecomputeJob

\* Everything but what BannerInv says already.
StatesOK ==
    /\ stored \subseteq Ping /\ \A r \in stored : r.at <= hour
    /\ Len(run) <= MaxRuns
    /\ state \in [Trackers -> StateRow]

LEMMA TelemetrySuffices ==
    ASSUME TelemetryTyped, BannerInv', NEW w \in Workers, NEW j, RecomputeTyped(j),
           job' = [job EXCEPT ![w] = j], StatesOK'
    PROVE  TelemetryTyped'
<1>1. job'[w] = j
  BY DEF TelemetryTyped, BannerInv
<1>2. \A v \in Workers : Running(v, "recompute")' => job'[v] \in RecomputeJob
  BY <1>1 DEF TelemetryTyped, RecomputeTyped, Running
<1>3. TelemetryTypeOK'
  BY DEF TelemetryTypeOK, BannerInv, SourceOK, StatesOK
<1> QED BY <1>2, <1>3 DEF TelemetryTyped, StatesOK

\* The rows of a chunk are pings heard by now.
LEMMA ChunkHeard ==
    ASSUME TelemetryTyped, NEW w \in Workers, Running(w, "chunk")
    PROVE  /\ Rows(job[w].cursor, job[w].end) \subseteq Ping
           /\ \A r \in Rows(job[w].cursor, job[w].end) : r.at <= hour
<1>1. JobOK(job[w]) /\ source \in Seq(Ping) /\ \A i \in DOMAIN source : source[i].at <= hour
  BY DEF TelemetryTyped, BannerInv, SourceOK
<1>2. PICK c, e : c = job[w].cursor /\ e = job[w].end
  OBVIOUS
<1>3. c \in 0..Len(source) /\ e \in 0..Len(source)
  BY <1>1, <1>2 DEF Running, JobOK, Progress
<1>4. \A i \in (c + 1)..e : i \in DOMAIN source /\ source[i] \in Ping /\ source[i].at <= hour
  BY <1>1, <1>3
<1> QED BY <1>2, <1>4 DEF Rows

LEMMA ChunkTyped ==
    ASSUME TelemetryTyped, BannerInv', NEW w \in Workers,
           IngestChunk(w) \/ FailAttempt(w) \/ FailChunk(w)
    PROVE  TelemetryTyped'
<1>1. Running(w, "chunk") /\ UNCHANGED <<hour, source, run, state>>
  BY DEF IngestChunk, FailAttempt, FailChunk
<1>2. stored' \subseteq stored \cup Rows(job[w].cursor, job[w].end)
  BY DEF IngestChunk, FailAttempt, FailChunk
<1>3. StatesOK'
  BY <1>1, <1>2, ChunkHeard DEF TelemetryTyped, TelemetryTypeOK, StatesOK
<1>4. \E j : RecomputeTyped(j) /\ job' = [job EXCEPT ![w] = j]
  <2>1. ASSUME NEW k, NextChunk(w, k)
        PROVE  \E j : RecomputeTyped(j) /\ job' = [job EXCEPT ![w] = j]
    BY <2>1 DEF NextChunk, Proceed, RecomputeTyped
  <2>2. CASE FailAttempt(w)
    <3>1. PICK j : j = [job[w] EXCEPT !.attempt = @ + 1]
      OBVIOUS
    <3>2. job[w].op = "chunk" /\ DOMAIN job[w] = ChunkColumns
      BY <1>1 DEF TelemetryTyped, BannerInv, JobOK, Running
    <3>3. j.op = "chunk"
      BY <3>1, <3>2 DEF ChunkColumns
    <3> QED BY <2>2, <3>1, <3>3 DEF FailAttempt, Proceed, RecomputeTyped
  <2>3. CASE IngestChunk(w)
    BY <2>1, <2>3 DEF IngestChunk
  <2>4. CASE FailChunk(w)
    BY <2>1, <2>4 DEF FailChunk
  <2> QED BY <2>2, <2>3, <2>4
<1> QED BY <1>3, <1>4, TelemetrySuffices

LEMMA UpsertTyped ==
    ASSUME TelemetryTyped, BannerInv', NEW w \in Workers, NEW d \in Trackers, Upsert(w, d)
    PROVE  TelemetryTyped'
<1>1. PICK j \in RecomputeJob : j = job[w]
  BY DEF Upsert, TelemetryTyped
<1>2. j.latest[d] \in Hours \cup {Never} /\ j.now \in Hours
  BY <1>1 DEF RecomputeJob
<1>3. PICK r : r = [latest |-> j.latest[d], bucket |-> BucketAt(j.latest[d], j.now)]
  OBVIOUS
<1>4. r \in StateRow
  BY <1>2, <1>3, BucketAtIs DEF StateRow
<1>5. state' = [state EXCEPT ![d] = r] /\ UNCHANGED <<hour, source, stored, run>>
  BY <1>1, <1>3 DEF Upsert
<1>6. StatesOK'
  BY <1>4, <1>5 DEF TelemetryTyped, TelemetryTypeOK, StatesOK
<1>7. CASE j.todo = {d}
  <2>1. RecomputeTyped(Idle)
    BY DEF RecomputeTyped, Idle
  <2> QED BY <1>1, <1>6, <1>7, <2>1, TelemetrySuffices DEF Upsert, Finish
<1>8. CASE j.todo # {d}
  <2>1. PICK k : k = [j EXCEPT !.todo = @ \ {d}]
    OBVIOUS
  <2>2. k \in RecomputeJob
    BY <2>1 DEF RecomputeJob
  <2>3. RecomputeTyped(k)
    BY <2>2 DEF RecomputeTyped
  <2> QED BY <1>1, <1>6, <1>8, <2>1, <2>3, TelemetrySuffices DEF Upsert, Proceed
<1> QED BY <1>7, <1>8

LEMMA TelemetryStepTyped ==
    ASSUME TelemetryTyped, BannerInv', NEW w \in Workers, TelemetryStep(w)
    PROVE  TelemetryTyped'
<1>0. StatesOK /\ run \in Seq(RunRow) /\ hour \in Hours /\ RecomputeTyped(Idle)
  BY DEF TelemetryTyped, TelemetryTypeOK, StatesOK, RecomputeTyped, Idle
<1>1. CASE StartRun(w)
  <2>1. Len(run') <= MaxRuns /\ UNCHANGED <<hour, source, stored, state>>
    <3>1. PICK r : run' = Append(run, r) /\ Len(run) < MaxRuns
      BY <1>1 DEF StartRun
    <3>2. Len(run') = Len(run) + 1 /\ Len(run) \in Nat
      BY <1>0, <3>1
    <3> QED BY <1>1, <3>1, <3>2, TelemetryAssumption DEF StartRun
  <2>2. StatesOK'
    BY <1>0, <2>1 DEF StatesOK
  <2>3. \E j : RecomputeTyped(j) /\ job' = [job EXCEPT ![w] = j]
    BY <1>1 DEF StartRun, Begin, RecomputeTyped
  <2> QED BY <2>2, <2>3, TelemetrySuffices
<1>2. CASE ReadChunk(w)
  <2>1. StatesOK'
    BY <1>0, <1>2 DEF StatesOK, ReadChunk, telemetry
  <2>2. \E j : RecomputeTyped(j) /\ job' = [job EXCEPT ![w] = j]
    BY <1>2 DEF ReadChunk, Proceed, RecomputeTyped
  <2> QED BY <2>1, <2>2, TelemetrySuffices
<1>3. CASE FinishRun(w)
  <2>1. PICK i, r : run' = [run EXCEPT ![i] = r]
    BY <1>3 DEF FinishRun
  <2>2. Len(run') = Len(run)
    BY <1>0, <2>1
  <2>3. StatesOK'
    BY <1>0, <1>3, <2>2 DEF StatesOK, FinishRun
  <2> QED BY <1>0, <1>3, <2>3, TelemetrySuffices DEF FinishRun, Finish
<1>4. CASE RecomputeRead(w)
  <2>1. PICK j : j = [op |-> "recompute", now |-> hour, todo |-> Trackers,
                      latest |-> [d \in Trackers |-> LatestOf(d)]]
    OBVIOUS
  <2>2. j \in RecomputeJob
    BY <1>0, <2>1, LatestIs DEF RecomputeJob
  <2>3. RecomputeTyped(j) /\ StatesOK'
    BY <1>0, <1>4, <2>2 DEF RecomputeTyped, StatesOK, RecomputeRead, telemetry
  <2> QED BY <1>4, <2>1, <2>3, TelemetrySuffices DEF RecomputeRead, Begin
<1>5. CASE Abandon(w) /\ UNCHANGED telemetry
  <2>1. StatesOK'
    BY <1>0, <1>5 DEF StatesOK, telemetry
  <2> QED BY <1>0, <1>5, <2>1, TelemetrySuffices DEF Abandon, Finish
<1> QED BY <1>1, <1>2, <1>3, <1>4, <1>5, ChunkTyped, UpsertTyped DEF TelemetryStep

LEMMA TelemetryTypedNext == TelemetryTyped /\ [TelemetryNext]_telemetryVars => TelemetryTyped'
<1> SUFFICES ASSUME TelemetryTyped, [TelemetryNext]_telemetryVars PROVE TelemetryTyped'
  OBVIOUS
<1>0. BannerInv'
  BY BannerInvNext DEF TelemetryTyped
<1>1. CASE UNCHANGED <<stored, run, state, job>>
  <2>1. hour <= hour' /\ hour \in Nat /\ hour' \in Nat
    <3>1. UNCHANGED telemetryVars => hour' = hour
      BY DEF telemetryVars, telemetry
    <3>2. hour \in Nat /\ hour' \in Nat
      BY <1>0, TelemetryAssumption DEF TelemetryTyped, TelemetryTypeOK, BannerInv, SourceOK
    <3>3. TelemetryEnvironment => hour <= hour'
      <4>1. ASSUME HoursPass PROVE hour <= hour'
        <5>1. {h \in Hours : h > hour} \in SUBSET Nat
          BY TelemetryAssumption
        <5>2. hour' \in {h \in Hours : h > hour}
          BY <4>1, <5>1, MinIsLeast DEF HoursPass
        <5> QED BY <3>2, <5>2
      <4>2. ASSUME NEW d \in Trackers, NEW at \in Hours, DevicePings(d, at) PROVE hour <= hour'
        BY <3>2, <4>2 DEF DevicePings
      <4> QED BY <4>1, <4>2 DEF TelemetryEnvironment
    <3>4. ASSUME NEW w \in Workers, TelemetryStep(w) PROVE hour' = hour
      BY <3>4 DEF TelemetryStep, StartRun, ReadChunk, IngestChunk, FailAttempt, FailChunk,
            FinishRun, RecomputeRead, Upsert, telemetry
    <3> QED BY <3>1, <3>2, <3>3, <3>4 DEF TelemetryNext
  <2>2. StatesOK'
    <3>1. \A r \in stored : r.at \in Nat /\ r.at <= hour
      BY TelemetryAssumption DEF TelemetryTyped, TelemetryTypeOK, Ping
    <3>2. \A r \in stored : r.at <= hour'
      BY <2>1, <3>1
    <3> QED BY <1>1, <3>2 DEF TelemetryTyped, TelemetryTypeOK, StatesOK
  <2>3. TelemetryTypeOK'
    BY <1>0, <2>2 DEF TelemetryTypeOK, BannerInv, SourceOK, StatesOK
  <2> QED BY <1>0, <1>1, <2>2, <2>3 DEF TelemetryTyped, StatesOK, Running
<1>2. CASE TelemetryEnvironment
  BY <1>1, <1>2 DEF TelemetryEnvironment, HoursPass, DevicePings
<1>3. CASE UNCHANGED telemetryVars
  BY <1>1, <1>3 DEF telemetryVars, telemetry
<1> QED BY <1>0, <1>2, <1>3, TelemetryStepTyped DEF TelemetryNext

-----------------------------------------------------------------------------
(* The recommender runs at its own desk                                   *)

NobodyRuns ==
    /\ job = [w \in Workers |-> job[w]]
    /\ \A w \in Workers : ~Running(w, "recommend")

LEMMA OtherBegins ==
    ASSUME NobodyRuns, NEW w \in Workers, NEW x, x.op # "recommend", Begin(w, x)
    PROVE  NobodyRuns'
  BY DEF NobodyRuns, Running, Begin

LEMMA OtherProceeds ==
    ASSUME NobodyRuns, NEW w \in Workers, NEW x, x.op # "recommend", Proceed(w, x)
    PROVE  NobodyRuns'
  BY DEF NobodyRuns, Running, Proceed

LEMMA OtherEnds ==
    ASSUME NobodyRuns, NEW w \in Workers, Finish(w) \/ Abandon(w) \/ UNCHANGED job
    PROVE  NobodyRuns'
  BY DEF NobodyRuns, Running, Finish, Abandon, Idle

\* One ticket, voucher or device less to do.
LEMMA OtherGoesOn ==
    ASSUME NobodyRuns, NEW w \in Workers, NEW T,
           Proceed(w, [job[w] EXCEPT !.todo = T])
    PROVE  NobodyRuns'
<1>1. [job[w] EXCEPT !.todo = T].op # "recommend"
  BY DEF NobodyRuns, Running
<1> QED BY <1>1, OtherProceeds

LEMMA FieldRunsNot == NobodyRuns /\ [FieldNext]_fieldVars => NobodyRuns'
<1> SUFFICES ASSUME NobodyRuns, [FieldNext]_fieldVars PROVE NobodyRuns'
  OBVIOUS
<1>1. ASSUME NEW w \in Workers, FieldStep(w) PROVE NobodyRuns'
  <2>1. CASE RecoveryRead(w)
    BY <2>1, OtherBegins, OtherEnds
       DEF RecoveryRead, DecideRecovery, ScheduleRecovery, MarkOnSite, MarkCollected,
           MarkUnableToCollect, RescheduleRecovery, ConfirmWarehouseReceipt,
           CloseFailedRecovery, EscalateToOh, ManualClose
  <2>2. CASE InstallRead(w)
    BY <2>2, OtherBegins, OtherEnds
       DEF InstallRead, DecideInstall, ScheduleInstall, InstallOnSite, MarkFitted,
           CreateRead
  <2>3. CASE InstallVerify(w)
    BY <2>3, OtherGoesOn, OtherEnds
       DEF InstallVerify, SweepOn, CloseInstall, FailActivation, StillPending
  <2>4. CASE RecoveryTransition(w) \/ CreateInstalls(w) \/ InstallTransition(w) \/ VerifyRead(w)
    BY <2>4, OtherBegins, OtherEnds
       DEF RecoveryTransition, CreateInstalls, InstallTransition, VerifyRead
  <2> QED BY <1>1, <2>1, <2>2, <2>3, <2>4, OtherEnds DEF FieldStep
<1>2. FieldEnvironment \/ UNCHANGED fieldVars => UNCHANGED job
  BY DEF FieldEnvironment, FirstPing, WindowElapses, fieldVars
<1> QED BY <1>1, <1>2 DEF FieldNext, NobodyRuns, Running

LEMMA SlaRunsNot == NobodyRuns /\ [SlaNext]_slaVars => NobodyRuns'
<1> SUFFICES ASSUME NobodyRuns, [SlaNext]_slaVars PROVE NobodyRuns'
  OBVIOUS
<1>1. ASSUME NEW w \in Workers, SlaStep(w) PROVE NobodyRuns'
  BY <1>1, OtherBegins, OtherEnds
     DEF SlaStep, FormRead, ComponentUnavailable, NormalSubmission, Approve, Reject,
         ResubmitRead, MarkShipped, ReceiptRead, RequestTransition, ConfirmReceipt,
         ConfirmResubmit, FileReport, ResumeReport, RequestRead
<1>2. TimePasses \/ UNCHANGED slaVars => UNCHANGED job
  BY DEF TimePasses, slaVars
<1> QED BY <1>1, <1>2 DEF SlaNext, NobodyRuns, Running

LEMMA VouchersRunNot == NobodyRuns /\ [VouchersNext]_vouchersVars => NobodyRuns'
<1> SUFFICES ASSUME NobodyRuns, [VouchersNext]_vouchersVars PROVE NobodyRuns'
  OBVIOUS
<1>1. ASSUME NEW w \in Workers, VouchersStep(w) PROVE NobodyRuns'
  <2>1. ASSUME NEW c, NextPayment(w, c) PROVE NobodyRuns'
    BY <2>1, OtherProceeds, OtherEnds DEF NextPayment
  <2>2. ASSUME NEW c \in Filed, NEW from, NEW data, VoucherRead(w, c, from, data) PROVE NobodyRuns'
    BY <2>2, OtherBegins DEF VoucherRead
  <2>3. ASSUME NEW c, ClaimRead(w, c) PROVE NobodyRuns'
    BY <2>3, OtherBegins DEF ClaimRead
  <2>4. ASSUME NEW c, PaidRead(w, c) PROVE NobodyRuns'
    BY <2>4, OtherBegins DEF PaidRead
  <2>5. ASSUME NEW c, PaymentRead(w, c) PROVE NobodyRuns'
    BY <2>5, OtherProceeds DEF PaymentRead
  <2> QED BY <1>1, <2>1, <2>2, <2>3, <2>4, <2>5, OtherEnds
          DEF VouchersStep, Resubmit, MarkPaid, SkipPayment, Review, CreateVoucher,
              UpdateVoucher, ExportApproved
<1>2. VouchersEnvironment \/ UNCHANGED vouchersVars => UNCHANGED job
  BY DEF VouchersEnvironment, NextMonth, vouchersVars
<1> QED BY <1>1, <1>2 DEF VouchersNext, NobodyRuns, Running

LEMMA CrossZoneRunsNot == NobodyRuns /\ [CrossZoneNext]_crossZoneVars => NobodyRuns'
<1> SUFFICES ASSUME NobodyRuns, [CrossZoneNext]_crossZoneVars PROVE NobodyRuns'
  OBVIOUS
<1>1. ASSUME NEW w \in Workers, CrossZoneStep(w) PROVE NobodyRuns'
  <2>1. CASE ApproveAssign(w)
    <3>1. [job[w] EXCEPT !.op = "mark"].op # "recommend"
      BY DEF NobodyRuns, Running
    <3> QED BY <2>1, <3>1, OtherProceeds DEF ApproveAssign
  <2>2. CASE AutoEscalate(w)
    BY <2>2, OtherGoesOn, OtherEnds DEF AutoEscalate
  <2> QED BY <1>1, <2>1, <2>2, OtherBegins, OtherEnds
          DEF CrossZoneStep, AutoSweepRead, FlagRead, FlagTicket, ApproveRead, DecideRead,
              ReEscalateRead, ApproveMark, DecideEscalation
<1>2. CrossZoneEnvironment \/ UNCHANGED crossZoneVars => UNCHANGED job
  BY DEF CrossZoneEnvironment, Elsewhere, crossZoneVars
<1> QED BY <1>1, <1>2 DEF CrossZoneNext, NobodyRuns, Running

LEMMA AbsencesRunNot == NobodyRuns /\ [AbsencesNext]_absencesVars => NobodyRuns'
<1> SUFFICES ASSUME NobodyRuns, [AbsencesNext]_absencesVars PROVE NobodyRuns'
  OBVIOUS
<1>1. ASSUME NEW w \in Workers, AbsencesStep(w) PROVE NobodyRuns'
  <2>1. CASE WriteWindow(w) \/ DecideLeave(w)
    BY <2>1, OtherProceeds, OtherEnds DEF WriteWindow, DecideLeave
  <2>2. ASSUME NEW i, ApproveLeaveRead(w, i) \/ RejectLeaveRead(w, i) PROVE NobodyRuns'
    BY <2>2, OtherBegins DEF ApproveLeaveRead, RejectLeaveRead
  <2> QED BY <1>1, <2>1, <2>2, OtherEnds DEF AbsencesStep, SubmitLeave, SetAvailability
<1>2. AbsencesEnvironment \/ UNCHANGED absencesVars => UNCHANGED job
  BY DEF AbsencesEnvironment, NextDay, absencesVars
<1> QED BY <1>1, <1>2 DEF AbsencesNext, NobodyRuns, Running

LEMMA SoftRunsNot == NobodyRuns /\ [SoftNext]_softVars => NobodyRuns'
<1> SUFFICES ASSUME NobodyRuns, [SoftNext]_softVars PROVE NobodyRuns'
  OBVIOUS
<1>1. ASSUME NEW w \in Workers, SoftStep(w) PROVE NobodyRuns'
  BY <1>1, OtherBegins, OtherEnds
     DEF SoftStep, AdvanceRead, OpenForm, Advance, SubmitForm, ClearExpiredViewed,
         RecordActivityPing
<1>2. SoftEnvironment \/ UNCHANGED softVars => UNCHANGED job
  BY DEF SoftEnvironment, ViewExpires, HourPasses, PlaceChanges, softVars
<1> QED BY <1>1, <1>2 DEF SoftNext, NobodyRuns, Running

LEMMA TelemetryRunsNot == NobodyRuns /\ [TelemetryNext]_telemetryVars => NobodyRuns'
<1> SUFFICES ASSUME NobodyRuns, [TelemetryNext]_telemetryVars PROVE NobodyRuns'
  OBVIOUS
<1>1. ASSUME NEW w \in Workers, TelemetryStep(w) PROVE NobodyRuns'
  <2>1. CASE StartRun(w) \/ ReadChunk(w) \/ FinishRun(w) \/ RecomputeRead(w)
    BY <2>1, OtherBegins, OtherProceeds, OtherEnds
       DEF StartRun, ReadChunk, FinishRun, RecomputeRead
  <2>5. CASE FailAttempt(w)
    <3>1. [job[w] EXCEPT !.attempt = @ + 1].op # "recommend"
      BY DEF NobodyRuns, Running
    <3> QED BY <2>5, <3>1, OtherProceeds DEF FailAttempt
  <2>2. ASSUME NEW j, NextChunk(w, j) PROVE NobodyRuns'
    BY <2>2, OtherProceeds DEF NextChunk
  <2>3. CASE IngestChunk(w) \/ FailChunk(w)
    BY <2>2, <2>3 DEF IngestChunk, FailChunk
  <2>4. ASSUME NEW d \in Trackers, Upsert(w, d) PROVE NobodyRuns'
    BY <2>4, OtherGoesOn, OtherEnds DEF Upsert
  <2> QED BY <1>1, <2>1, <2>3, <2>4, <2>5, OtherEnds DEF TelemetryStep
<1>2. TelemetryEnvironment \/ UNCHANGED telemetryVars => UNCHANGED job
  BY DEF TelemetryEnvironment, HoursPass, DevicePings, telemetryVars
<1> QED BY <1>1, <1>2 DEF TelemetryNext, NobodyRuns, Running

LEMMA PlanRunsNot == PlanTyped /\ NobodyRuns /\ [PlanNext]_planVars => NobodyRuns'
<1> SUFFICES ASSUME PlanTyped, NobodyRuns, [PlanNext]_planVars PROVE NobodyRuns'
  OBVIOUS
<1>1. ASSUME NEW w \in Workers, PlanStep(w) PROVE NobodyRuns'
  <2>1. job[w].op = "dispatch" => DOMAIN job[w] = {"op", "todo", "sched", "b", "stop", "sort"}
    <3>1. PICK k : k = job[w]
      OBVIOUS
    <3>2. TablesOK /\ PlanJobTyped(k)
      BY <3>1 DEF PlanTyped
    <3>3. k.op = "dispatch" => DOMAIN k = {"op", "todo", "sched", "b", "stop", "sort"}
      BY <3>2, HandIs
    <3> QED BY <3>1, <3>3
  <2>2. PICK j : job' = [job EXCEPT ![w] = j] /\ PlanJobOp(j)
    BY <1>1, <2>1, PlanStepJob
  <2>3. j.op # "recommend"
    BY <2>2 DEF PlanJobOp, PlanOps, Idle
  <2> QED BY <2>2, <2>3, OtherProceeds DEF Proceed
<1>2. PlanEnvironment \/ UNCHANGED planVars => UNCHANGED job
  BY DEF PlanEnvironment, ReturnToPool, Recommend, planVars
<1> QED BY <1>1, <1>2 DEF PlanNext, NobodyRuns, Running

-----------------------------------------------------------------------------
(* A behaviour of the desks is one of the desk it works at                *)

AtWork(d) == desk = d

\* A step is one of the desk the behaviour works at, and leaves the tables of the others alone.
LEMMA DeskStep ==
    ASSUME [DesksNext]_desksVars
    PROVE  /\ \A d \in DeskNames : AtWork(d) <=> AtWork(d)'
           /\ IF AtWork("plan") THEN [PlanNext]_planVars ELSE UNCHANGED plan
           /\ IF AtWork("field") THEN [FieldNext]_fieldVars ELSE UNCHANGED field
           /\ IF AtWork("sla") THEN [SlaNext]_slaVars ELSE UNCHANGED sla
           /\ IF AtWork("vouchers") THEN [VouchersNext]_vouchersVars ELSE UNCHANGED vouchers
           /\ IF AtWork("cross-zone") THEN [CrossZoneNext]_crossZoneVars ELSE UNCHANGED crossZone
           /\ IF AtWork("absences") THEN [AbsencesNext]_absencesVars ELSE UNCHANGED absences
           /\ IF AtWork("soft-states") THEN [SoftNext]_softVars ELSE UNCHANGED softStates
           /\ IF AtWork("telemetry") THEN [TelemetryNext]_telemetryVars ELSE UNCHANGED telemetry
           /\ IF AtWork("recommender") THEN [RecommenderNext]_zoneVars ELSE UNCHANGED zone
  BY DEF DesksNext, PlanDesk, FieldDesk, SlaDesk, VoucherDesk, CrossZoneDesk, AbsenceDesk,
         SoftStateDesk, TelemetryDesk, RecommenderDesk, At, AtWork, desksVars, planVars,
         fieldVars, slaVars, vouchersVars, crossZoneVars, absencesVars, softVars,
         telemetryVars, zoneVars, PlanNext, FieldNext, SlaNext, VouchersNext, CrossZoneNext,
         AbsencesNext, SoftNext, TelemetryNext, RecommenderNext

\* The desks begin empty, and no execution is in progress.
LEMMA DesksBegin ==
    ASSUME DesksInit
    PROVE  /\ job = [w \in Workers |-> Idle]
           /\ PlanInit /\ FieldInit /\ SlaInit /\ VouchersInit /\ CrossZoneInit /\ AbsencesInit
           /\ SoftInit /\ TelemetryInit /\ RecommenderInit
  BY DEF DesksInit

LEMMA PlanSide == DesksSpec => PlanSpec \/ []PlanInit
<1>1. AtWork("plan") /\ [DesksNext]_desksVars => AtWork("plan")' /\ [PlanNext]_planVars
  BY DeskStep DEF DeskNames
<1>2. PlanInit /\ ~AtWork("plan") /\ [DesksNext]_desksVars => PlanInit' /\ ~AtWork("plan")'
  BY DeskStep DEF DeskNames, PlanInit, plan
<1> QED BY <1>1, <1>2, DesksBegin, PTL DEF DesksSpec, PlanSpec, PlanNext

LEMMA FieldSide == DesksSpec => FieldSpec \/ []FieldInit
<1>1. AtWork("field") /\ [DesksNext]_desksVars => AtWork("field")' /\ [FieldNext]_fieldVars
  BY DeskStep DEF DeskNames
<1>2. FieldInit /\ ~AtWork("field") /\ [DesksNext]_desksVars => FieldInit' /\ ~AtWork("field")'
  BY DeskStep DEF DeskNames, FieldInit, field
<1> QED BY <1>1, <1>2, DesksBegin, PTL DEF DesksSpec, FieldSpec, FieldNext

LEMMA SlaSide == DesksSpec => SlaSpec \/ []SlaInit
<1>1. AtWork("sla") /\ [DesksNext]_desksVars => AtWork("sla")' /\ [SlaNext]_slaVars
  BY DeskStep DEF DeskNames
<1>2. SlaInit /\ ~AtWork("sla") /\ [DesksNext]_desksVars => SlaInit' /\ ~AtWork("sla")'
  BY DeskStep DEF DeskNames, SlaInit, sla
<1> QED BY <1>1, <1>2, DesksBegin, PTL DEF DesksSpec, SlaSpec, SlaNext

LEMMA VouchersSide == DesksSpec => VouchersSpec \/ []VouchersInit
<1>1. AtWork("vouchers") /\ [DesksNext]_desksVars => AtWork("vouchers")' /\ [VouchersNext]_vouchersVars
  BY DeskStep DEF DeskNames
<1>2. VouchersInit /\ ~AtWork("vouchers") /\ [DesksNext]_desksVars => VouchersInit' /\ ~AtWork("vouchers")'
  BY DeskStep DEF DeskNames, VouchersInit, vouchers
<1> QED BY <1>1, <1>2, DesksBegin, PTL DEF DesksSpec, VouchersSpec, VouchersNext

LEMMA CrossZoneSide == DesksSpec => CrossZoneSpec \/ []CrossZoneInit
<1>1. AtWork("cross-zone") /\ [DesksNext]_desksVars => AtWork("cross-zone")' /\ [CrossZoneNext]_crossZoneVars
  BY DeskStep DEF DeskNames
<1>2. CrossZoneInit /\ ~AtWork("cross-zone") /\ [DesksNext]_desksVars => CrossZoneInit' /\ ~AtWork("cross-zone")'
  BY DeskStep DEF DeskNames, CrossZoneInit, crossZone
<1> QED BY <1>1, <1>2, DesksBegin, PTL DEF DesksSpec, CrossZoneSpec, CrossZoneNext

LEMMA AbsencesSide == DesksSpec => AbsencesSpec \/ []AbsencesInit
<1>1. AtWork("absences") /\ [DesksNext]_desksVars => AtWork("absences")' /\ [AbsencesNext]_absencesVars
  BY DeskStep DEF DeskNames
<1>2. AbsencesInit /\ ~AtWork("absences") /\ [DesksNext]_desksVars => AbsencesInit' /\ ~AtWork("absences")'
  BY DeskStep DEF DeskNames, AbsencesInit, absences
<1> QED BY <1>1, <1>2, DesksBegin, PTL DEF DesksSpec, AbsencesSpec, AbsencesNext

LEMMA SoftSide == DesksSpec => SoftSpec \/ []SoftInit
<1>1. AtWork("soft-states") /\ [DesksNext]_desksVars => AtWork("soft-states")' /\ [SoftNext]_softVars
  BY DeskStep DEF DeskNames
<1>2. SoftInit /\ ~AtWork("soft-states") /\ [DesksNext]_desksVars => SoftInit' /\ ~AtWork("soft-states")'
  BY DeskStep DEF DeskNames, SoftInit, softStates
<1> QED BY <1>1, <1>2, DesksBegin, PTL DEF DesksSpec, SoftSpec, SoftNext

LEMMA TelemetrySide == DesksSpec => TelemetrySpec \/ []TelemetryInit
<1>1. AtWork("telemetry") /\ [DesksNext]_desksVars => AtWork("telemetry")' /\ [TelemetryNext]_telemetryVars
  BY DeskStep DEF DeskNames
<1>2. TelemetryInit /\ ~AtWork("telemetry") /\ [DesksNext]_desksVars => TelemetryInit' /\ ~AtWork("telemetry")'
  BY DeskStep DEF DeskNames, TelemetryInit, telemetry
<1> QED BY <1>1, <1>2, DesksBegin, PTL DEF DesksSpec, TelemetrySpec, TelemetryNext

LEMMA RecommenderSide == DesksSpec => RecommenderSpec \/ []RecommenderInit
<1>1. AtWork("recommender") /\ [DesksNext]_desksVars => AtWork("recommender")' /\ [RecommenderNext]_zoneVars
  BY DeskStep DEF DeskNames
<1>2. RecommenderInit /\ ~AtWork("recommender") /\ [DesksNext]_desksVars => RecommenderInit' /\ ~AtWork("recommender")'
  BY DeskStep DEF DeskNames, RecommenderInit, zone
<1> QED BY <1>1, <1>2, DesksBegin, PTL DEF DesksSpec, RecommenderSpec, RecommenderNext

\* While the behaviour is at another desk nobody runs a recommendation.
Aside ==
    /\ \E d \in DeskNames \ {"recommender"} : AtWork(d)
    /\ AtWork("plan") => PlanTyped
    /\ NobodyRuns

LEMMA RecommenderAside == DesksSpec => RecommenderSpec \/ []NobodyRuns
<1>1. DesksInit => AtWork("recommender") \/ Aside
  <2> SUFFICES ASSUME DesksInit, ~AtWork("recommender") PROVE Aside
    OBVIOUS
  <2>1. NobodyRuns
    BY DesksBegin DEF NobodyRuns, Running, Idle
  <2>2. PlanTyped
    BY DesksBegin, PlanTypedInit
  <2> QED BY <2>1, <2>2 DEF Aside, AtWork, DesksInit
<1>2. AtWork("recommender") /\ [DesksNext]_desksVars =>
         AtWork("recommender")' /\ [RecommenderNext]_zoneVars
  BY DeskStep DEF DeskNames
<1>3. Aside /\ [DesksNext]_desksVars => Aside'
  <2> SUFFICES ASSUME Aside, [DesksNext]_desksVars PROVE Aside'
    OBVIOUS
  <2>1. PICK d \in DeskNames \ {"recommender"} : AtWork(d)
    BY DEF Aside
  <2>2. AtWork(d)'
    BY <2>1, DeskStep
  <2>3. AtWork("plan")' => PlanTyped'
    BY DeskStep, PlanTypedNext DEF Aside, DeskNames
  <2>4. NobodyRuns'
    BY <2>1, DeskStep, PlanRunsNot, FieldRunsNot, SlaRunsNot, VouchersRunNot, CrossZoneRunsNot,
       AbsencesRunNot, SoftRunsNot, TelemetryRunsNot DEF Aside, DeskNames
  <2> QED BY <2>1, <2>2, <2>3, <2>4 DEF Aside
<1> QED BY <1>1, <1>2, <1>3, DesksBegin, PTL
     DEF DesksSpec, RecommenderSpec, RecommenderNext, Aside

-----------------------------------------------------------------------------
(* The types                                                              *)

LEMMA PlanTypes == DesksSpec => []PlanTypeOK
<1>1. PlanInit => PlanTypeOK
  BY PlanAssumption DEF PlanInit, PlanTypeOK, NoRow, RowType
<1> QED BY <1>1, PlanSide, PlanTypeOKHolds, PTL

LEMMA FieldTypes == DesksSpec => []FieldTypeOK
<1>1. FieldInit => FieldTypeOK
  BY FieldAssumption DEF FieldInit, FieldTypeOK, RecoveryRow, ClosureType
<1>2. FieldTyped => FieldTypeOK
  BY DEF FieldTyped
<1> QED BY <1>1, <1>2, FieldSide, FieldTypedInit, FieldTypedNext, PTL DEF FieldSpec, FieldNext

LEMMA SlaTypes == DesksSpec => []SlaTypeOK
<1>1. SlaInit => SlaTypeOK
  BY SlaAssumption DEF SlaInit, SlaTypeOK, CycleRow
<1>2. SlaTyped => SlaTypeOK
  BY DEF SlaTyped
<1> QED BY <1>1, <1>2, SlaSide, SlaTypedInit, SlaTypedNext, PTL DEF SlaSpec, SlaNext

LEMMA VouchersTypes == DesksSpec => []VouchersTypeOK
<1>1. VouchersInit => VouchersTypeOK
  BY VouchersAssumption DEF VouchersInit, VouchersTypeOK
<1>2. FourEyesInv => VouchersTypeOK
  BY DEF FourEyesInv
<1>3. VouchersInit /\ job = [w \in Workers |-> Idle] => FourEyesInv
  BY <1>1 DEF VouchersInit, FourEyesInv, AllVouched, Filed, Fits, Idle
<1> QED BY <1>1, <1>2, <1>3, VouchersSide, FourEyesNext, PTL DEF VouchersSpec, VouchersNext

LEMMA CrossZoneTypes == DesksSpec => []CrossZoneTypeOK
<1>1. CrossZoneInit => CrossZoneTypeOK
  BY CrossZoneAssumption DEF CrossZoneInit, CrossZoneTypeOK
<1>2. CrossZoneTyped => CrossZoneTypeOK
  BY DEF CrossZoneTyped
<1> QED BY <1>1, <1>2, CrossZoneSide, CrossZoneTypedInit, CrossZoneTypedNext, PTL DEF CrossZoneSpec, CrossZoneNext

LEMMA AbsencesTypes == DesksSpec => []AbsencesTypeOK
<1>1. AbsencesInit => AbsencesTypeOK
  BY AbsencesAssumption DEF AbsencesInit, AbsencesTypeOK
<1>2. AbsencesTyped => AbsencesTypeOK
  BY DEF AbsencesTyped
<1> QED BY <1>1, <1>2, AbsencesSide, AbsencesTypedInit, AbsencesTypedNext, PTL DEF AbsencesSpec, AbsencesNext

LEMMA SoftTypes == DesksSpec => []SoftTypeOK
<1>1. SoftInit => SoftTypeOK
  BY SoftAssumption DEF SoftInit, SoftTypeOK
<1>2. SoftInv => SoftTypeOK
  BY DEF SoftInv
<1>3. SoftInit /\ job = [w \in Workers |-> Idle] => SoftInv
  BY <1>1 DEF SoftInit, SoftInv, InOrder, Idle
<1> QED BY <1>1, <1>2, <1>3, SoftSide, SoftInvNext, PTL DEF SoftSpec, SoftNext

LEMMA TelemetryTypes == DesksSpec => []TelemetryTypeOK
<1>1. TelemetryInit => TelemetryTypeOK
  BY MinIsLeast, TelemetryAssumption DEF TelemetryInit, TelemetryTypeOK, StateRow
<1>2. TelemetryTyped => TelemetryTypeOK
  BY DEF TelemetryTyped
<1> QED BY <1>1, <1>2, TelemetrySide, TelemetryTypedInit, TelemetryTypedNext, PTL DEF TelemetrySpec, TelemetryNext

LEMMA RecommenderTypes == DesksSpec => []RecommenderTypeOK
<1>1. RecommenderInit => RecommenderTypeOK
  BY RecommenderAssumption DEF RecommenderInit, RecommenderTypeOK, Suggestion
<1>2. ZoneInv => RecommenderTypeOK
  BY DEF ZoneInv
<1> QED BY <1>1, <1>2, RecommenderSide, ZoneInvInit, ZoneInvNext, PTL DEF RecommenderSpec, RecommenderNext

\* Whatever desk the system works at, and however the executions overlap, the tables keep rows
\* of their types: the columns an UPDATE sets are within their enums and ranges (the services
\* under apps/backend/src, prisma/schema.prisma).
THEOREM DesksTypeOKHolds == DesksSpec => []DesksTypeOK
<1> QED BY PlanTypes, FieldTypes, SlaTypes, VouchersTypes, CrossZoneTypes, AbsencesTypes,
           SoftTypes, TelemetryTypes, RecommenderTypes, PTL DEF DesksTypeOK

-----------------------------------------------------------------------------
(* What the desks promise                                                 *)

\* At the other desks nothing has been planned, received, advanced, approved or paid.
LEMMA AsideSound ==
    /\ PlanInit => StopsCoherent
    /\ FieldInit => ReceivedWasCollected
    /\ SlaInit /\ SlaInit' => ClockStep /\ WatchStep
    /\ VouchersInit => FourEyes
    /\ AbsencesInit => OffOnApprovedLeave
    /\ SoftInit => NoStepSkipped
    /\ TelemetryInit => BannerBacked
    /\ NobodyRuns => RunIsFair
<1>1. PlanInit => StopsCoherent
  BY DEF PlanInit, StopsCoherent, Planned, NoRow
<1>2. FieldInit => ReceivedWasCollected
  BY DEF FieldInit, ReceivedWasCollected
<1>3. SlaInit /\ SlaInit' => ClockStep /\ WatchStep
  BY DEF SlaInit, ClockStep, WatchStep, WatchFace, PrimaryClock, CurrentPause
<1>4. VouchersInit => FourEyes
  BY DEF VouchersInit, FourEyes, Filed
<1>5. AbsencesInit => OffOnApprovedLeave
  BY DEF AbsencesInit, OffOnApprovedLeave
<1>6. SoftInit => NoStepSkipped
  BY DEF SoftInit, NoStepSkipped
<1>7. TelemetryInit => BannerBacked
  BY DEF TelemetryInit, BannerBacked
<1>8. NobodyRuns => RunIsFair
  BY DEF NobodyRuns, RunIsFair
<1> QED BY <1>1, <1>2, <1>3, <1>4, <1>5, <1>6, <1>7, <1>8

\* What holds at the desks however their executions overlap: what the warehouse receives has been
\* collected, an approved leave keeps the engineer off, the banner of the ingestion is backed by
\* what is on record, nobody approves his own voucher, no step at a ticket is left out, a run of
\* the recommender is fair, a planned ticket is on a stop at its plant, and the SLA clock is a
\* stopwatch that runs exactly while it is not paused.
THEOREM DesksSoundOverlapping ==
    DesksSpec => /\ []ReceivedWasCollected
                 /\ []OffOnApprovedLeave
                 /\ []BannerBacked
                 /\ []FourEyes
                 /\ []NoStepSkipped
                 /\ []RunIsFair
                 /\ []StopsCoherent
                 /\ ClockRunsUnlessPaused
                 /\ ImplementsStopwatch
<1>1. DesksSpec => []ReceivedWasCollected
  BY FieldSide, AsideSound, ReceivedWasCollectedHolds, PTL
<1>2. DesksSpec => []OffOnApprovedLeave
  BY AbsencesSide, AsideSound, OffOnApprovedLeaveHolds, PTL
<1>3. DesksSpec => []BannerBacked
  BY TelemetrySide, AsideSound, BannerBackedHolds, PTL
<1>4. DesksSpec => []FourEyes
  BY VouchersSide, AsideSound, FourEyesHolds, PTL
<1>5. DesksSpec => []NoStepSkipped
  BY SoftSide, AsideSound, NoStepSkippedHolds, PTL
<1>6. DesksSpec => []RunIsFair
  BY RecommenderAside, AsideSound, RunIsFairHolds, PTL
<1>7. DesksSpec => []StopsCoherent
  BY PlanSide, AsideSound, StopsCoherentHolds, PTL
<1>8. DesksSpec => ClockRunsUnlessPaused
  <2>1. []SlaInit => ClockRunsUnlessPaused
    BY AsideSound, PTL DEF ClockRunsUnlessPaused, ClockStep
  <2> QED BY <2>1, SlaSide, ClockRunsUnlessPausedHolds, PTL
<1>9. DesksSpec => ImplementsStopwatch
  <2>1. []SlaInit => ImplementsStopwatch
    BY AsideSound, WatchInit, PTL DEF ImplementsStopwatch, Watch!Spec, WatchStep, WatchFace
  <2> QED BY <2>1, SlaSide, ImplementsStopwatchHolds, PTL
<1> QED BY <1>1, <1>2, <1>3, <1>4, <1>5, <1>6, <1>7, <1>8, <1>9

=============================================================================
