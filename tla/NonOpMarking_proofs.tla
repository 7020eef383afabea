------------------------ MODULE NonOpMarking_proofs ------------------------
(**************************************************************************)
(* What survives the stale reads of the dual confirmation: a leg may be   *)
(* lost, but it is never invented.  Every leg in a row, and every leg an  *)
(* execution has read, was given by its party or by the override.         *)
(**************************************************************************)
EXTENDS NonOpMarking, TLAPS

\* The party's leg, or the override that stands for it, is in the audit log.
Given(m, action) == action \in audited[m] \/ "OVERRIDE_CONFIRMED" \in audited[m]

RowsGiven ==
    \A m \in Markings : /\ manager[m] => Given(m, "MANAGER_CONFIRMED")
                        /\ customer[m] => Given(m, "CUSTOMER_CONFIRMED")

ReadsGiven ==
    \A w \in Workers : Running(w, "leg") =>
        /\ job[w].manager => Given(job[w].m, "MANAGER_CONFIRMED")
        /\ job[w].customer => Given(job[w].m, "CUSTOMER_CONFIRMED")

NInv ==
    /\ TypeOK
    /\ RowsGiven
    /\ ReadsGiven
    /\ OneConfirmedPerDevice
    /\ EffectNeedsBothParties

-----------------------------------------------------------------------------

LEMMA InitNInv == Init => NInv
BY MarkingAssumption
   DEF Init, NInv, TypeOK, RowsGiven, ReadsGiven, OneConfirmedPerDevice,
       EffectNeedsBothParties, Job, Idle, Running

\* What a worker that runs an operation remembers.
LEMMA JobOf ==
    ASSUME TypeOK, NEW w \in Workers
    PROVE  /\ job[w].op # "idle" => job[w].m \in Markings
           /\ Running(w, "leg") => /\ job[w].manager \in BOOLEAN
                                   /\ job[w].customer \in BOOLEAN
                                   /\ job[w].who \in {"manager", "customer"}
BY DEF TypeOK, Job, Running

LEMMA JobTyped ==
    ASSUME TypeOK, NEW w \in Workers, NEW j \in Job, job' = [job EXCEPT ![w] = j]
    PROVE  job' \in [Workers -> Job]
BY DEF TypeOK

\* A worker takes a job: the legs it has read were given.
LEMMA TakeStep ==
    ASSUME NInv, NEW w \in Workers, NEW j \in Job, Take(w, j),
           j.op = "leg" => \E m \in Markings, who \in {"manager", "customer"} :
                              j = LegJob(m, who)
    PROVE  NInv'
<1>1. TypeOK'
  BY JobTyped DEF NInv, TypeOK, Take, rows
<1>2. ReadsGiven'
  BY <1>1 DEF NInv, TypeOK, Take, rows, ReadsGiven, RowsGiven, LegJob, Running, Given
<1>3. QED
  BY <1>1, <1>2 DEF NInv, Take, rows, RowsGiven, Given, OneConfirmedPerDevice,
                    EffectNeedsBothParties, BothParties

LEMMA ReadStep ==
    ASSUME NInv, NEW w \in Workers, NEW m \in Markings, Read(w, m)
    PROVE  NInv'
<1>1. CASE RequestRead(w, m) \/ LinkRead(w, m) \/ OverrideRead(w, m)
  <2>1. PICK op \in {"request", "link", "override"} : Take(w, [op |-> op, m |-> m])
    BY <1>1 DEF RequestRead, LinkRead, OverrideRead, Begin
  <2>2. [op |-> op, m |-> m] \in Job /\ [op |-> op, m |-> m].op # "leg"
    BY DEF Job
  <2>3. QED
    BY <2>1, <2>2, TakeStep
<1>2. CASE ManagerRead(w, m)
  <2>1. LegJob(m, "manager") \in Job
    BY DEF NInv, TypeOK, LegJob, Job
  <2>2. QED
    BY <1>2, <2>1, TakeStep DEF ManagerRead, Begin
<1>3. QED
  BY <1>1, <1>2 DEF Read

LEMMA CustomerReadStep ==
    ASSUME NInv, NEW w \in Workers, CustomerRead(w)
    PROVE  NInv'
<1>1. job[w].m \in Markings
  BY JobOf DEF NInv, CustomerRead, Running
<1>2. LegJob(job[w].m, "customer") \in Job
  BY <1>1 DEF NInv, TypeOK, LegJob, Job
<1>3. QED
  BY <1>1, <1>2, TakeStep DEF CustomerRead

\* The next job of an execution that applies a leg is not a leg.
LEMMA AfterLegStep ==
    ASSUME NInv, NEW w \in Workers, Running(w, "leg"), AfterLeg(w)
    PROVE  /\ job' \in [Workers -> Job]
           /\ \A v \in Workers : Running(v, "leg")' => Running(v, "leg") /\ job'[v] = job[v]
<1>1. job[w].m \in Markings
  BY JobOf DEF NInv, Running
<1>2. \E j \in Job : job' = [job EXCEPT ![w] = j] /\ j.op # "leg"
  <2>1. Idle \in Job /\ Idle.op # "leg"
    BY DEF Idle, Job
  <2>2. [op |-> "burn", m |-> job[w].m] \in Job /\ [op |-> "burn", m |-> job[w].m].op # "leg"
    BY <1>1 DEF Job
  <2>3. QED
    BY <2>1, <2>2 DEF AfterLeg, Finish
<1>3. QED
  BY <1>2 DEF NInv, TypeOK, Running

\* The row and the audit log change together, and the log only grows.
LEMMA ParkStep ==
    ASSUME NInv, NEW w \in Workers, ParkLeg(w)
    PROVE  NInv'
<1> DEFINE j == job[w]
<1>1. /\ j.m \in Markings
      /\ j.manager \in BOOLEAN /\ j.customer \in BOOLEAN
      /\ j.who \in {"manager", "customer"}
  BY JobOf DEF NInv, ParkLeg, Running
<1>2. /\ manager' = [manager EXCEPT ![j.m] = ManagerLeg(j)]
      /\ customer' = [customer EXCEPT ![j.m] = CustomerLeg(j)]
      /\ audited' = [audited EXCEPT ![j.m] = @ \cup {LegAction(j)}]
      /\ UNCHANGED recovery
  BY DEF ParkLeg, Audit
<1>3. /\ ManagerLeg(j) \in BOOLEAN /\ CustomerLeg(j) \in BOOLEAN
      /\ LegAction(j) \in AuditAction
  BY <1>1 DEF ManagerLeg, CustomerLeg, LegAction, AuditAction
<1>4. job' \in [Workers -> Job]
  BY AfterLegStep DEF ParkLeg
<1>5. TypeOK'
  BY <1>1, <1>2, <1>3, <1>4 DEF NInv, TypeOK, ParkLeg, QueueState, Awaiting
<1>6. \A m \in Markings : audited[m] \subseteq audited'[m]
  BY <1>1, <1>2 DEF NInv, TypeOK
<1>7. RowsGiven'
  <2>1. LegAction(j) \in audited'[j.m]
    BY <1>1, <1>2 DEF NInv, TypeOK
  <2>2. \A m \in Markings : m = j.m =>
          /\ ManagerLeg(j) => Given(m, "MANAGER_CONFIRMED")'
          /\ CustomerLeg(j) => Given(m, "CUSTOMER_CONFIRMED")'
    BY <1>1, <1>6, <2>1
       DEF NInv, ReadsGiven, ManagerLeg, CustomerLeg, LegAction, Given, ParkLeg
  <2>3. QED
    BY <1>1, <1>2, <1>6, <2>2 DEF NInv, TypeOK, RowsGiven, Given
<1>8. ReadsGiven'
  BY <1>6, AfterLegStep, JobOf DEF NInv, ReadsGiven, Given, ParkLeg, Running
<1>9. OneConfirmedPerDevice'
  BY <1>1 DEF NInv, TypeOK, OneConfirmedPerDevice, ParkLeg
<1>10. EffectNeedsBothParties'
  BY <1>1, <1>2, <1>6
     DEF NInv, TypeOK, EffectNeedsBothParties, BothParties, ParkLeg
<1>11. QED
  BY <1>5, <1>7, <1>8, <1>9, <1>10 DEF NInv

\* A RECOVERY ticket more, or none, within the bound.
LEMMA QueueTyped ==
    ASSUME TypeOK, NEW m \in Markings, QueueRecovery(m)
    PROVE  /\ recovery' \in [Markings -> 0..MaxRecovery]
           /\ \A n \in Markings \ {m} : recovery'[n] = recovery[n]
BY MarkingAssumption DEF TypeOK, QueueRecovery

\* A confirmation, by the second leg or by the override.
LEMMA EffectStep ==
    ASSUME NInv, NEW m \in Markings, NEW action \in AuditAction,
           IndexAllows(m), QueueRecovery(m), Audit(m, action),
           manager' = [manager EXCEPT ![m] = TRUE],
           customer' = [customer EXCEPT ![m] = TRUE],
           state' = [state EXCEPT ![m] = "CONFIRMED"],
           UNCHANGED <<token, overdue>>,
           job' \in [Workers -> Job],
           \A v \in Workers : Running(v, "leg")' => Running(v, "leg") /\ job'[v] = job[v],
           action = "OVERRIDE_CONFIRMED" \/
             (/\ action = "MANAGER_CONFIRMED" \/ Given(m, "MANAGER_CONFIRMED")
              /\ action = "CUSTOMER_CONFIRMED" \/ Given(m, "CUSTOMER_CONFIRMED"))
    PROVE  NInv'
<1>1. audited' = [audited EXCEPT ![m] = @ \cup {action}]
  BY DEF Audit
<1>2. TypeOK'
  BY <1>1, QueueTyped DEF NInv, TypeOK, QueueState
<1>3. /\ \A n \in Markings : audited[n] \subseteq audited'[n]
      /\ action \in audited'[m]
  BY <1>1 DEF NInv, TypeOK
<1>4. Given(m, "MANAGER_CONFIRMED")' /\ Given(m, "CUSTOMER_CONFIRMED")'
  BY <1>3 DEF Given
<1>5. RowsGiven'
  BY <1>3, <1>4 DEF NInv, TypeOK, RowsGiven, Given
<1>6. ReadsGiven'
  BY <1>3, JobOf DEF NInv, ReadsGiven, Given, Running
<1>7. OneConfirmedPerDevice'
  BY DEF NInv, TypeOK, OneConfirmedPerDevice, IndexAllows
<1>8. EffectNeedsBothParties'
  BY <1>3, <1>4, QueueTyped
     DEF NInv, TypeOK, EffectNeedsBothParties, BothParties, Given
<1>9. QED
  BY <1>2, <1>5, <1>6, <1>7, <1>8 DEF NInv

LEMMA ConfirmStep ==
    ASSUME NInv, NEW w \in Workers, ConfirmLeg(w)
    PROVE  NInv'
<1> DEFINE j == job[w]
<1>1. j.m \in Markings /\ j.who \in {"manager", "customer"}
  BY JobOf DEF NInv, ConfirmLeg, Running
<1>2. LegAction(j) \in AuditAction
  BY DEF LegAction, AuditAction
<1>3. /\ LegAction(j) = "MANAGER_CONFIRMED" \/ Given(j.m, "MANAGER_CONFIRMED")
      /\ LegAction(j) = "CUSTOMER_CONFIRMED" \/ Given(j.m, "CUSTOMER_CONFIRMED")
  BY <1>1 DEF NInv, ReadsGiven, ConfirmLeg, ManagerLeg, CustomerLeg, LegAction
<1>4. QED
  BY <1>1, <1>2, <1>3, AfterLegStep, EffectStep DEF ConfirmLeg

\* A finished execution has no leg to apply.
LEMMA FinishStep ==
    ASSUME NInv, NEW w \in Workers, Finish(w)
    PROVE  /\ job' \in [Workers -> Job]
           /\ \A v \in Workers : Running(v, "leg")' => Running(v, "leg") /\ job'[v] = job[v]
<1>1. Idle \in Job /\ Idle.op # "leg"
  BY DEF Idle, Job
<1>2. QED
  BY <1>1 DEF NInv, TypeOK, Finish, Running

LEMMA OverrideStep ==
    ASSUME NInv, NEW w \in Workers, OverrideConfirm(w)
    PROVE  NInv'
<1>1. job[w].m \in Markings
  BY JobOf DEF NInv, OverrideConfirm, Running
<1>2. "OVERRIDE_CONFIRMED" \in AuditAction
  BY DEF AuditAction
<1>3. QED
  BY <1>1, <1>2, FinishStep, EffectStep DEF OverrideConfirm

\* The steps that neither give nor confirm a leg.
LEMMA QuietStep ==
    ASSUME NInv, TypeOK', UNCHANGED <<manager, customer, recovery, audited>>,
           \A m \in Markings : state'[m] = "CONFIRMED" => state[m] = "CONFIRMED",
           \A v \in Workers : Running(v, "leg")' => Running(v, "leg") /\ job'[v] = job[v]
    PROVE  NInv'
BY DEF NInv, RowsGiven, ReadsGiven, Given, OneConfirmedPerDevice,
       EffectNeedsBothParties, BothParties

LEMMA RequestStep ==
    ASSUME NInv, NEW w \in Workers, RequestMarking(w) \/ BurnToken(w) \/ RollBack(w)
    PROVE  NInv'
<1>1. Finish(w) /\ UNCHANGED <<manager, customer, overdue, recovery, audited>>
  BY DEF RequestMarking, BurnToken, RollBack, rows
<1>2. /\ state' \in [Markings -> QueueState \cup {"NONE"}]
      /\ \A m \in Markings : state'[m] = "CONFIRMED" => state[m] = "CONFIRMED"
  BY DEF NInv, TypeOK, RequestMarking, BurnToken, RollBack, rows, QueueState, Awaiting
<1>3. token' \in [Markings -> BOOLEAN]
  BY DEF NInv, TypeOK, RequestMarking, BurnToken, RollBack, rows
<1>4. TypeOK'
  BY <1>1, <1>2, <1>3, FinishStep DEF NInv, TypeOK
<1>5. QED
  BY <1>1, <1>2, <1>4, FinishStep, QuietStep

LEMMA WeekStep ==
    ASSUME NInv, NEW m \in Markings, WeekPasses(m)
    PROVE  NInv'
<1>1. TypeOK'
  BY DEF NInv, TypeOK, WeekPasses
<1>2. QED
  BY <1>1, QuietStep DEF WeekPasses, Running

-----------------------------------------------------------------------------

LEMMA NextNInv == NInv /\ [Next]_vars => NInv'
<1> SUFFICES ASSUME NInv, [Next]_vars
             PROVE  NInv'
  OBVIOUS
<1>1. CASE UNCHANGED vars
  BY <1>1, QuietStep DEF NInv, TypeOK, vars, Running
<1>2. CASE \E w \in Workers, m \in Markings : Read(w, m)
  BY <1>2, ReadStep
<1>3. CASE \E w \in Workers : Write(w) \/ RollBack(w)
  BY <1>3, RequestStep, CustomerReadStep, ParkStep, ConfirmStep, OverrideStep DEF Write
<1>4. CASE \E m \in Markings : WeekPasses(m)
  BY <1>4, WeekStep
<1>5. QED
  BY <1>1, <1>2, <1>3, <1>4 DEF Next

\* The rows and the remembered reads always have their declared types.
THEOREM MarkingTypeCorrect == Spec => []TypeOK
<1>1. NInv => TypeOK
  BY DEF NInv
<1>2. QED
  BY <1>1, InitNInv, NextNInv, PTL DEF Spec

\* Invariant I13 for every number of devices, requests and overlapping executions.
THEOREM OneConfirmedPerDeviceHolds == Spec => []OneConfirmedPerDevice
<1>1. NInv => OneConfirmedPerDevice
  BY DEF NInv
<1>2. QED
  BY <1>1, InitNInv, NextNInv, PTL DEF Spec

\* However the executions overlap, no marking takes effect and no engineer is sent
\* to retrieve a device on one party's word.
THEOREM EffectNeedsBothPartiesHolds == Spec => []EffectNeedsBothParties
<1>1. NInv => EffectNeedsBothParties
  BY DEF NInv
<1>2. QED
  BY <1>1, InitNInv, NextNInv, PTL DEF Spec
=============================================================================
