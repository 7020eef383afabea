---------------------- MODULE FailureLifecycle_proofs ----------------------
(**************************************************************************)
(* Proofs about FailureLifecycle: the rows stay typed and consistent for  *)
(* every number of devices, tickets, drafts and overlapping executions;   *)
(* and each step is one of the abstract slot.                             *)
(**************************************************************************)
EXTENDS FailureEpisodes, TLAPS

\* The inductive invariant.  Its parts need the types and each other: a raised
\* flag is backed only because closures lower it together with the cycle.
RowInv ==
    /\ OneActiveCycle
    /\ OpenFlagBacked
    /\ WorkableTicketBacked
    /\ ClosedTicketStamped

IInv == TypeOK /\ RowInv

-----------------------------------------------------------------------------

\* Every step that reads stores a job of one of the declared shapes and leaves
\* all rows alone, except that the sweep opens a verification run.
LEMMA ReadStep ==
    ASSUME TypeOK, NEW w \in Workers, Read(w)
    PROVE  /\ job' \in [Workers -> Job]
           /\ run' \in [Tickets -> RunState \cup {"NONE"}]
           /\ UNCHANGED <<inactive, eligible, hasOpen, nonOp, cycle, closedAt, repeat,
                          ticket, fraud, submitted, request>>
<1> USE DEF TypeOK, Begin, rows, Job
<1>1. ASSUME NEW d \in Devices, RecomputeRead(w, d) \/ CreateScan(w, d) \/ NonOpList(w, d)
      PROVE  /\ job' \in [Workers -> Job]
             /\ UNCHANGED rows
  <2>1. CASE RecomputeRead(w, d)
    BY <2>1 DEF RecomputeRead
  <2>2. CASE CreateScan(w, d)
    BY <2>2 DEF CreateScan
  <2>3. CASE NonOpList(w, d)
    <3> DEFINE ts == {t \in Tickets : DeviceOf[t] = d /\ ticket[t] \in InFlightTicket}
    <3>1. ts \in SUBSET Tickets
      OBVIOUS
    <3>2. [op |-> "nonOp", d |-> d, ts |-> ts] \in Job
      BY <3>1
    <3>3. QED
      BY <2>3, <3>2 DEF NonOpList
  <2>4. QED
    BY <1>1, <2>1, <2>2, <2>3
<1>2. ASSUME NEW t \in Tickets,
             \/ AutoRecoverRead(w, t) \/ EscalateFraudRead(w, t)
             \/ MarkAutoRecoveryRead(w, t) \/ EscalateScan(w, t)
      PROVE  /\ job' \in [Workers -> Job]
             /\ UNCHANGED rows
  BY <1>2 DEF AutoRecoverRead, EscalateFraudRead, MarkAutoRecoveryRead, EscalateScan
<1>3. ASSUME NEW t \in Tickets, VerifyScan(w, t)
      PROVE  /\ job' \in [Workers -> Job]
             /\ run' \in [Tickets -> RunState \cup {"NONE"}]
             /\ UNCHANGED <<inactive, eligible, hasOpen, nonOp, cycle, closedAt, repeat,
                            ticket, fraud, submitted, request>>
  BY <1>3 DEF VerifyScan, RunState
<1>4. ASSUME NEW x \in Drafts, SubmitRead(w, x) \/ ConfirmResubmitRead(w, x)
      PROVE  /\ job' \in [Workers -> Job]
             /\ UNCHANGED rows
  BY <1>4 DEF SubmitRead, ConfirmResubmitRead
<1>5. QED
  BY <1>1, <1>2, <1>3, <1>4 DEF Read

\* What a worker that runs an operation remembers.
LEMMA JobShape ==
    ASSUME TypeOK, NEW w \in Workers
    PROVE  /\ Running(w, "recompute") => job[w].d \in Devices /\ job[w].nonOp \in BOOLEAN
           /\ Running(w, "create") => job[w].d \in Devices
           /\ \A op \in {"autoRecover", "verify", "escalate", "escalateFraud",
                         "markAutoRecovery"} : Running(w, op) => job[w].t \in Tickets
           /\ \A op \in {"submit", "resubmit"} : Running(w, op) => job[w].x \in Drafts
           /\ Running(w, "nonOp") => job[w].d \in Devices /\ job[w].ts \in SUBSET Tickets
BY DEF TypeOK, Job, Running

\* Every transaction ends by forgetting what its worker had read.
LEMMA FinishTyped ==
    ASSUME TypeOK, NEW w \in Workers, Finish(w)
    PROVE  job' \in [Workers -> Job]
BY DEF TypeOK, Finish, Job, Idle

-----------------------------------------------------------------------------
(* The closures that verify a cycle                                       *)

\* The writes every closure shares keep the types and the row invariants.
LEMMA CloseVerifiedStep ==
    ASSUME IInv, NEW t \in Tickets,
           NEW status \in {"CLOSED", "CLOSED_AUTO_RECOVERY"},
           CloseVerified(t, status)
    PROVE  /\ cycle' \in [Tickets -> CycleState \cup {"NONE"}]
           /\ ticket' \in [Tickets -> TicketStatus \cup {"NONE"}]
           /\ closedAt' \in [Tickets -> BOOLEAN]
           /\ hasOpen' \in [Devices -> BOOLEAN]
           /\ RowInv'
<1> USE LifecycleAssumption DEF IInv, RowInv, TypeOK, CloseVerified, Active
<1>1. /\ cycle' \in [Tickets -> CycleState \cup {"NONE"}]
      /\ ticket' \in [Tickets -> TicketStatus \cup {"NONE"}]
      /\ closedAt' \in [Tickets -> BOOLEAN]
      /\ hasOpen' \in [Devices -> BOOLEAN]
  BY DEF CycleState, TicketStatus, ClosedTicket
<1>2. OneActiveCycle'
  BY DEF OneActiveCycle, ActiveCycle
<1>3. OpenFlagBacked'
  <2> SUFFICES ASSUME NEW d \in Devices, hasOpen'[d]
               PROVE  \E u \in Tickets : DeviceOf[u] = d /\ Active(u)'
    BY DEF OpenFlagBacked
  <2>1. d # DeviceOf[t] /\ hasOpen[d]
    OBVIOUS
  <2>2. PICK u \in Tickets : DeviceOf[u] = d /\ Active(u)
    BY <2>1 DEF OpenFlagBacked
  <2>3. Active(u)'
    BY <2>1, <2>2
  <2>4. QED
    BY <2>2, <2>3
<1>4. WorkableTicketBacked'
  BY DEF WorkableTicketBacked, Workable
<1>5. ClosedTicketStamped'
  BY DEF ClosedTicketStamped
<1>6. QED
  BY <1>1, <1>2, <1>3, <1>4, <1>5

\* A step that moves one cycle into an active state the index accepts keeps every
\* device at one active cycle, and every raised flag backed.
LEMMA EnterActive ==
    ASSUME IInv, NEW t \in Tickets, NEW s \in ActiveCycle, IndexAllows(t, s),
           cycle' = [cycle EXCEPT ![t] = s]
    PROVE  /\ cycle' \in [Tickets -> CycleState \cup {"NONE"}]
           /\ OneActiveCycle'
           /\ UNCHANGED hasOpen => OpenFlagBacked'
<1> USE LifecycleAssumption DEF IInv, RowInv, TypeOK, Active
<1>1. cycle' \in [Tickets -> CycleState \cup {"NONE"}]
  BY DEF CycleState
<1>2. OneActiveCycle'
  BY DEF OneActiveCycle, IndexAllows
<1>3. \A u \in Tickets : Active(u) => Active(u)'
  OBVIOUS
<1>4. UNCHANGED hasOpen => OpenFlagBacked'
  BY <1>3 DEF OpenFlagBacked
<1>5. QED
  BY <1>1, <1>2, <1>4

-----------------------------------------------------------------------------
(* One lemma per transaction                                              *)

\* Closing as auto-recovery, verified repair, or a manager's mark.
LEMMA ClosureStep ==
    ASSUME IInv, NEW w \in Workers,
           CloseAsAutoRecovery(w) \/ FinalizeClosed(w) \/ MarkAutoRecovery(w)
    PROVE  IInv'
<1>1. job[w].t \in Tickets
  BY JobShape DEF IInv, CloseAsAutoRecovery, FinalizeClosed, MarkAutoRecovery
<1>2. \E status \in {"CLOSED", "CLOSED_AUTO_RECOVERY"} : CloseVerified(job[w].t, status)
  BY DEF CloseAsAutoRecovery, FinalizeClosed, MarkAutoRecovery
<1>3. job' \in [Workers -> Job]
  BY FinishTyped DEF IInv, CloseAsAutoRecovery, FinalizeClosed, MarkAutoRecovery
<1>4. run' \in [Tickets -> RunState \cup {"NONE"}]
  BY <1>1 DEF IInv, TypeOK, RunState, CloseAsAutoRecovery, FinalizeClosed, MarkAutoRecovery
<1>5. UNCHANGED <<inactive, eligible, nonOp, repeat, fraud, submitted, request>>
  BY DEF CloseAsAutoRecovery, FinalizeClosed, MarkAutoRecovery
<1>6. QED
  BY <1>1, <1>2, <1>3, <1>4, <1>5, CloseVerifiedStep DEF IInv, TypeOK

\* createForInactiveEligible: the new cycle enters an active state.
LEMMA CreateStep ==
    ASSUME IInv, NEW w \in Workers, CreateEpisode(w)
    PROVE  IInv'
<1> DEFINE d == job[w].d
<1>1. d \in Devices
  BY JobShape DEF IInv, CreateEpisode
<1>2. PICK t \in Tickets, isRepeat \in BOOLEAN :
        /\ DeviceOf[t] = d
        /\ IndexAllows(t, "OPEN")
        /\ cycle' = [cycle EXCEPT ![t] = IF isRepeat THEN "REPEAT" ELSE "OPEN"]
        /\ repeat' = [repeat EXCEPT ![t] = isRepeat]
        /\ ticket' = [ticket EXCEPT ![t] = "OPEN"]
  BY DEF CreateEpisode
<1>3. PICK s \in {"OPEN", "REPEAT"} : cycle' = [cycle EXCEPT ![t] = s]
  BY <1>2
<1>4. s \in ActiveCycle /\ IndexAllows(t, s)
  BY <1>2 DEF ActiveCycle, IndexAllows
<1>5. /\ cycle' \in [Tickets -> CycleState \cup {"NONE"}]
      /\ OneActiveCycle'
  BY <1>3, <1>4, EnterActive
<1>6. /\ hasOpen' = [hasOpen EXCEPT ![d] = TRUE]
      /\ UNCHANGED <<inactive, eligible, nonOp, closedAt, run, fraud, submitted, request>>
      /\ job' \in [Workers -> Job]
  BY FinishTyped DEF CreateEpisode, IInv
<1>7. TypeOK'
  BY <1>1, <1>2, <1>5, <1>6 DEF IInv, TypeOK, TicketStatus, InFlightTicket
<1>8. OpenFlagBacked'
  <2> SUFFICES ASSUME NEW e \in Devices, hasOpen'[e]
               PROVE  \E u \in Tickets : DeviceOf[u] = e /\ Active(u)'
    BY DEF OpenFlagBacked
  <2>1. CASE e = d
    BY <1>2, <1>3, <1>4, <2>1 DEF IInv, TypeOK, Active
  <2>2. CASE e # d
    BY <1>1, <1>3, <1>4, <1>6, <2>2 DEF IInv, RowInv, TypeOK, Active, OpenFlagBacked
  <2>3. QED
    BY <2>1, <2>2
<1>9. WorkableTicketBacked' /\ ClosedTicketStamped'
  BY <1>2, <1>3, <1>4, <1>6
     DEF IInv, RowInv, TypeOK, WorkableTicketBacked, ClosedTicketStamped, Workable,
         Active, ClosedTicket
<1>10. QED
  BY <1>5, <1>7, <1>8, <1>9 DEF IInv, RowInv

\* submit: a repair and a component-unavailable report enter active states.
LEMMA SubmitStep ==
    ASSUME IInv, NEW w \in Workers, SubmitUnavailable(w) \/ SubmitRepair(w)
    PROVE  IInv'
<1> DEFINE x == job[w].x
           t == TicketOf[x]
<1>1. x \in Drafts /\ t \in Tickets
  BY JobShape, LifecycleAssumption DEF IInv, SubmitUnavailable, SubmitRepair
<1>2. job' \in [Workers -> Job]
  BY FinishTyped DEF IInv, SubmitUnavailable, SubmitRepair
<1>3. PICK s \in {"WAITING_COMPONENT", "SUBMITTED"} :
        IndexAllows(t, s) /\ cycle' = [cycle EXCEPT ![t] = s]
  BY DEF SubmitUnavailable, SubmitRepair
<1>4. s \in ActiveCycle
  BY DEF ActiveCycle
<1>5. /\ cycle' \in [Tickets -> CycleState \cup {"NONE"}]
      /\ OneActiveCycle'
      /\ UNCHANGED hasOpen => OpenFlagBacked'
  BY <1>1, <1>3, <1>4, EnterActive
<1>6. /\ UNCHANGED <<inactive, eligible, hasOpen, nonOp, closedAt, repeat, run, fraud>>
      /\ submitted' = submitted \cup {x}
      /\ UNCHANGED request \/ request' = [request EXCEPT ![x] = "REQUESTED"]
      /\ UNCHANGED ticket \/ ticket' = [ticket EXCEPT ![t] = "VERIFICATION_PENDING"]
  BY DEF SubmitUnavailable, SubmitRepair
<1>7. TypeOK'
  BY <1>1, <1>2, <1>5, <1>6 DEF IInv, TypeOK, TicketStatus, InFlightTicket, RequestStatus
<1>8. WorkableTicketBacked' /\ ClosedTicketStamped'
  BY <1>1, <1>3, <1>4, <1>6
     DEF IInv, RowInv, TypeOK, WorkableTicketBacked, ClosedTicketStamped, Workable,
         Active, ClosedTicket
<1>9. QED
  BY <1>5, <1>6, <1>7, <1>8 DEF IInv, RowInv

\* A failed verification, a fraud escalation: only the ticket's status moves, and
\* to one that is neither workable nor closed.
LEMMA TicketOnlyStep ==
    ASSUME IInv, NEW w \in Workers, FinalizeFailed(w) \/ EscalateFraud(w)
    PROVE  IInv'
<1>1. job[w].t \in Tickets
  BY JobShape DEF IInv, FinalizeFailed, EscalateFraud
<1>2. PICK s \in {"FAILED_VERIFICATION", "ESCALATED"} :
        ticket' = [ticket EXCEPT ![job[w].t] = s]
  BY DEF FinalizeFailed, EscalateFraud
<1>3. /\ UNCHANGED <<inactive, eligible, hasOpen, nonOp, cycle, closedAt, repeat,
                     submitted, request>>
      /\ run' \in [Tickets -> RunState \cup {"NONE"}]
      /\ fraud' \in [Tickets -> BOOLEAN]
  BY <1>1 DEF IInv, TypeOK, FinalizeFailed, EscalateFraud, RunState
<1>4. job' \in [Workers -> Job]
  BY FinishTyped DEF IInv, FinalizeFailed, EscalateFraud
<1>5. TypeOK'
  BY <1>1, <1>2, <1>3, <1>4 DEF IInv, TypeOK, TicketStatus, InFlightTicket
<1>6. RowInv'
  BY <1>1, <1>2, <1>3
     DEF IInv, RowInv, TypeOK, OneActiveCycle, OpenFlagBacked, WorkableTicketBacked,
         ClosedTicketStamped, Workable, Active, ClosedTicket
<1>7. QED
  BY <1>5, <1>6 DEF IInv

\* runEscalationScan: the ticket is no longer workable, the cycle stays active.
LEMMA EscalateStep ==
    ASSUME IInv, NEW w \in Workers, Escalate(w)
    PROVE  IInv'
<1> DEFINE t == job[w].t
<1>1. t \in Tickets
  BY JobShape DEF IInv, Escalate
<1>2. /\ cycle' = [cycle EXCEPT ![t] = "ESCALATED"]
      /\ ticket' = [ticket EXCEPT ![t] = "ESCALATED"]
      /\ UNCHANGED <<inactive, eligible, hasOpen, nonOp, closedAt, repeat, run,
                     fraud, submitted, request>>
      /\ job' \in [Workers -> Job]
  BY FinishTyped DEF IInv, Escalate
<1>3. "ESCALATED" \in ActiveCycle /\ IndexAllows(t, "ESCALATED")
  BY DEF Escalate, ActiveCycle
<1>4. /\ cycle' \in [Tickets -> CycleState \cup {"NONE"}]
      /\ OneActiveCycle' /\ OpenFlagBacked'
  BY <1>1, <1>2, <1>3, EnterActive
<1>5. TypeOK'
  BY <1>1, <1>2, <1>4 DEF IInv, TypeOK, TicketStatus, InFlightTicket
<1>6. WorkableTicketBacked' /\ ClosedTicketStamped'
  BY <1>1, <1>2
     DEF IInv, RowInv, TypeOK, WorkableTicketBacked, ClosedTicketStamped, Workable,
         Active, ClosedTicket
<1>7. QED
  BY <1>4, <1>5, <1>6 DEF IInv, RowInv

\* confirmResubmit: a cycle, even a verified one, comes back as OPEN.
LEMMA ResubmitStep ==
    ASSUME IInv, NEW w \in Workers, ConfirmResubmit(w)
    PROVE  IInv'
<1> DEFINE t == TicketOf[job[w].x]
<1>1. t \in Tickets
  BY JobShape, LifecycleAssumption DEF IInv, ConfirmResubmit
<1>2. /\ cycle' = [cycle EXCEPT ![t] = "OPEN"]
      /\ UNCHANGED <<inactive, eligible, hasOpen, nonOp, closedAt, repeat, ticket, run,
                     fraud, submitted, request>>
      /\ job' \in [Workers -> Job]
  BY FinishTyped DEF IInv, ConfirmResubmit
<1>3. "OPEN" \in ActiveCycle /\ IndexAllows(t, "OPEN")
  BY DEF ConfirmResubmit, ActiveCycle
<1>4. /\ cycle' \in [Tickets -> CycleState \cup {"NONE"}]
      /\ OneActiveCycle' /\ OpenFlagBacked'
  BY <1>1, <1>2, <1>3, EnterActive
<1>5. TypeOK'
  BY <1>2, <1>4 DEF IInv, TypeOK
<1>6. WorkableTicketBacked' /\ ClosedTicketStamped'
  BY <1>1, <1>2, <1>3
     DEF IInv, RowInv, TypeOK, WorkableTicketBacked, ClosedTicketStamped, Workable, Active
<1>7. QED
  BY <1>4, <1>5, <1>6 DEF IInv, RowInv

\* runConfirmedSideEffects: the listed tickets are closed and stamped.
LEMMA NonOpStep ==
    ASSUME IInv, NEW w \in Workers, NonOpConfirm(w)
    PROVE  IInv'
<1> DEFINE d == job[w].d
           ts == job[w].ts
<1>1. d \in Devices /\ ts \in SUBSET Tickets
  BY JobShape DEF IInv, NonOpConfirm
<1>2. /\ nonOp' = [nonOp EXCEPT ![d] = TRUE]
      /\ ticket' = [t \in Tickets |-> IF t \in ts THEN "CLOSED_NON_OPERATIONAL" ELSE ticket[t]]
      /\ closedAt' = [t \in Tickets |-> t \in ts \/ closedAt[t]]
      /\ eligible' = [eligible EXCEPT ![d] = FALSE]
      /\ hasOpen' = [hasOpen EXCEPT ![d] = FALSE]
      /\ UNCHANGED <<inactive, cycle, repeat, run, fraud, submitted, request>>
      /\ job' \in [Workers -> Job]
  BY FinishTyped DEF IInv, NonOpConfirm
<1>3. TypeOK'
  <2>1. closedAt' \in [Tickets -> BOOLEAN]
    BY <1>2
  <2>2. ticket' \in [Tickets -> TicketStatus \cup {"NONE"}]
    BY <1>2 DEF IInv, TypeOK, TicketStatus, ClosedTicket
  <2>3. QED
    BY <1>1, <1>2, <2>1, <2>2 DEF IInv, TypeOK
<1>4. OneActiveCycle' /\ OpenFlagBacked'
  BY <1>1, <1>2 DEF IInv, RowInv, TypeOK, OneActiveCycle, OpenFlagBacked, Active
<1>5. WorkableTicketBacked' /\ ClosedTicketStamped'
  BY <1>1, <1>2
     DEF IInv, RowInv, TypeOK, WorkableTicketBacked, ClosedTicketStamped, Workable, Active
<1>6. QED
  BY <1>3, <1>4, <1>5 DEF IInv, RowInv

\* The remaining steps leave every column the row invariants read alone.
LEMMA QuietStep ==
    ASSUME IInv, TypeOK', UNCHANGED <<hasOpen, cycle, closedAt, ticket>>
    PROVE  IInv'
BY DEF IInv, RowInv, OneActiveCycle, OpenFlagBacked, WorkableTicketBacked,
       ClosedTicketStamped, Workable, Active

\* recompute: no column of the row invariants is written.
LEMMA RecomputeStep ==
    ASSUME IInv, NEW w \in Workers, RecomputeUpsert(w)
    PROVE  IInv'
<1>1. job' \in [Workers -> Job] /\ job[w].d \in Devices /\ job[w].nonOp \in BOOLEAN
  BY JobShape, FinishTyped DEF IInv, RecomputeUpsert
<1>2. PICK b \in BOOLEAN : inactive' = [inactive EXCEPT ![job[w].d] = b]
  BY DEF RecomputeUpsert
<1>3. PICK c \in BOOLEAN : eligible' = [eligible EXCEPT ![job[w].d] = c]
  <2>1. PICK p \in BOOLEAN : eligible' = [eligible EXCEPT ![job[w].d] = ~job[w].nonOp /\ p]
    BY DEF RecomputeUpsert
  <2>2. (~job[w].nonOp /\ p) \in BOOLEAN
    OBVIOUS
  <2>3. QED
    BY <2>1, <2>2
<1>4. UNCHANGED <<hasOpen, nonOp, cycle, closedAt, repeat, ticket, run, fraud,
                  submitted, request>>
  BY DEF RecomputeUpsert
<1>5. TypeOK'
  BY <1>1, <1>2, <1>3, <1>4 DEF IInv, TypeOK
<1>6. QED
  BY <1>4, <1>5, QuietStep

-----------------------------------------------------------------------------
(* Invariance                                                             *)

\* The empty tables satisfy the inductive invariant.
LEMMA InitIInv == Init => IInv
<1> SUFFICES ASSUME Init PROVE IInv
  OBVIOUS
<1> USE DEF Init
<1>1. TypeOK
  BY DEF TypeOK, Job, Idle
<1>2. RowInv
  BY DEF RowInv, OneActiveCycle, OpenFlagBacked, WorkableTicketBacked,
         ClosedTicketStamped, Active, Workable, ActiveCycle, ClosedTicket
<1>3. QED
  BY <1>1, <1>2 DEF IInv

\* Every step keeps the inductive invariant, one action at a time.
LEMMA NextIInv == IInv /\ [Next]_vars => IInv'
<1> SUFFICES ASSUME IInv, [Next]_vars PROVE IInv'
  OBVIOUS
<1>1. ASSUME NEW w \in Workers, Read(w) PROVE IInv'
  <2>1. TypeOK' /\ UNCHANGED <<hasOpen, cycle, closedAt, ticket>>
    BY <1>1, ReadStep DEF IInv, TypeOK
  <2>2. QED
    BY <2>1, QuietStep
<1>2. ASSUME NEW w \in Workers, Write(w) PROVE IInv'
  BY <1>2, ClosureStep, CreateStep, SubmitStep, TicketOnlyStep, EscalateStep,
     ResubmitStep, NonOpStep, RecomputeStep DEF Write
<1>3. ASSUME NEW w \in Workers, RollBack(w) PROVE IInv'
  <2>1. TypeOK' /\ UNCHANGED <<hasOpen, cycle, closedAt, ticket>>
    BY <1>3, FinishTyped DEF IInv, TypeOK, RollBack, rows
  <2>2. QED
    BY <2>1, QuietStep
<1>4. ASSUME NEW x \in Drafts, Warehouse(x) PROVE IInv'
  <2>1. TypeOK' /\ UNCHANGED <<hasOpen, cycle, closedAt, ticket>>
    BY <1>4 DEF IInv, TypeOK, Warehouse, Approve, Reject, MarkShipped, ConfirmReceipt,
                RequestLeg, RequestStatus
  <2>2. QED
    BY <2>1, QuietStep
<1>5. CASE UNCHANGED vars
  BY <1>5, QuietStep DEF IInv, TypeOK, vars
<1>6. QED
  BY <1>1, <1>2, <1>3, <1>4, <1>5 DEF Next

\* The rows and the remembered reads always have their declared types.
THEOREM TypeCorrect == Spec => []TypeOK
<1>1. IInv => TypeOK
  BY DEF IInv
<1>2. QED
  BY <1>1, InitIInv, NextIInv, PTL DEF Spec

\* The inductive invariant: what the index guards, what the flag and the workable
\* tickets rest on, and the types of the reads that are still in flight.
THEOREM IInvHolds == Spec => []IInv
BY InitIInv, NextIInv, PTL DEF Spec

\* Invariant I1 for every number of devices, episodes and overlapping executions.
THEOREM OneActiveCycleHolds == Spec => []OneActiveCycle
<1>1. IInv => OneActiveCycle
  BY DEF IInv, RowInv
<1>2. QED
  BY <1>1, IInvHolds, PTL

\* The fast-path flag of ticket creation is never raised without an episode.
THEOREM OpenFlagBackedHolds == Spec => []OpenFlagBacked
<1>1. IInv => OpenFlagBacked
  BY DEF IInv, RowInv
<1>2. QED
  BY <1>1, IInvHolds, PTL

\* A ticket somebody can still work on always belongs to an active cycle, whichever
\* of the six services wrote the two statuses last.
THEOREM WorkableTicketBackedHolds == Spec => []WorkableTicketBacked
<1>1. IInv => WorkableTicketBacked
  BY DEF IInv, RowInv
<1>2. QED
  BY <1>1, IInvHolds, PTL

\* One ticket per device to send an engineer out for: the index on the cycles and
\* the coupling of the two statuses give it together.
THEOREM OneWorkableTicketHolds == Spec => []OneWorkableTicket
<1>1. IInv => OneWorkableTicket
  BY DEF IInv, RowInv, OneActiveCycle, WorkableTicketBacked, OneWorkableTicket
<1>2. QED
  BY <1>1, IInvHolds, PTL

\* Every closed ticket's cycle has closed_at.
THEOREM ClosedTicketStampedHolds == Spec => []ClosedTicketStamped
<1>1. IInv => ClosedTicketStamped
  BY DEF IInv, RowInv
<1>2. QED
  BY <1>1, IInvHolds, PTL

-----------------------------------------------------------------------------
(* Rows that exist                                                        *)

\* An identifier whose ticket does not exist has left no trace: no cycle, no stamp,
\* no draft, no request, no run, and no execution that is about to write it.
\* RowInv alone allows a cycle without a ticket, which CreateEpisode would revive.
RowsBorn ==
    /\ \A t \in Tickets : ticket[t] = "NONE" =>
          cycle[t] = "NONE" /\ ~closedAt[t] /\ run[t] = "NONE" /\ ~fraud[t]
    /\ \A x \in Drafts : request[x] # "NONE" => ticket[TicketOf[x]] # "NONE"

JobBorn(j) ==
    /\ j.op \in {"autoRecover", "verify", "escalate", "escalateFraud", "markAutoRecovery"} =>
          ticket[j.t] # "NONE"
    /\ j.op \in {"submit", "resubmit"} => ticket[TicketOf[j.x]] # "NONE"
    /\ j.op = "nonOp" => \A t \in j.ts : ticket[t] # "NONE"

JobsBorn == \A w \in Workers : JobBorn(job[w])

Born == RowsBorn /\ JobsBorn

\* A ticket that exists is never erased.
TicketsStay == \A t \in Tickets : ticket[t] # "NONE" => ticket'[t] # "NONE"

\* Jobs in flight stay born while tickets stay and the others' jobs are untouched.
LEMMA JobsBornStep ==
    ASSUME TypeOK, JobsBorn, TicketsStay, NEW w \in Workers, Finish(w)
    PROVE  JobsBorn'
<1>1. \A v \in Workers : job'[v] = IF v = w THEN Idle ELSE job[v]
  BY DEF Finish, TypeOK
<1>2. SUFFICES ASSUME NEW v \in Workers PROVE JobBorn(job[v])'
  BY DEF JobsBorn
<1>3. CASE v = w
  BY <1>1, <1>3 DEF JobBorn, Idle
<1>4. CASE v # w
  <2>1. job'[v] = job[v] /\ job[v] \in Job /\ JobBorn(job[v])
    BY <1>1, <1>4 DEF JobsBorn, TypeOK
  <2>2. QED
    BY <2>1, LifecycleAssumption DEF JobBorn, TicketsStay, Job
<1>5. QED
  BY <1>3, <1>4

\* Every transaction writes rows of tickets that exist, or creates the ticket.
LEMMA WriteBorn ==
    ASSUME IInv, Born, NEW w \in Workers, Write(w)
    PROVE  TicketsStay /\ RowsBorn'
<1> USE LifecycleAssumption DEF IInv, TypeOK, TicketsStay, Born, RowsBorn
<1>1. CASE RecomputeUpsert(w)
  BY <1>1 DEF RecomputeUpsert
<1>2. CASE CreateEpisode(w)
  BY <1>2 DEF CreateEpisode
<1>3. CASE CloseAsAutoRecovery(w) \/ FinalizeClosed(w) \/ MarkAutoRecovery(w)
  <2>1. job[w].t \in Tickets /\ ticket[job[w].t] # "NONE"
    BY <1>3, JobShape DEF JobsBorn, JobBorn, Running, CloseAsAutoRecovery, FinalizeClosed, MarkAutoRecovery
  <2>2. QED
    BY <1>3, <2>1 DEF CloseAsAutoRecovery, FinalizeClosed, MarkAutoRecovery, CloseVerified
<1>4. CASE SubmitUnavailable(w) \/ SubmitRepair(w)
  <2>1. job[w].x \in Drafts /\ ticket[TicketOf[job[w].x]] # "NONE"
    BY <1>4, JobShape DEF JobsBorn, JobBorn, Running, SubmitUnavailable, SubmitRepair
  <2>2. QED
    BY <1>4, <2>1 DEF SubmitUnavailable, SubmitRepair
<1>5. CASE FinalizeFailed(w) \/ EscalateFraud(w) \/ Escalate(w)
  <2>1. job[w].t \in Tickets /\ ticket[job[w].t] # "NONE"
    BY <1>5, JobShape DEF JobsBorn, JobBorn, Running, FinalizeFailed, EscalateFraud, Escalate
  <2>2. QED
    BY <1>5, <2>1 DEF FinalizeFailed, EscalateFraud, Escalate
<1>6. CASE ConfirmResubmit(w)
  <2>1. job[w].x \in Drafts /\ ticket[TicketOf[job[w].x]] # "NONE"
    BY <1>6, JobShape DEF JobsBorn, JobBorn, Running, ConfirmResubmit
  <2>2. QED
    BY <1>6, <2>1 DEF ConfirmResubmit
<1>7. CASE NonOpConfirm(w)
  <2>1. job[w].ts \in SUBSET Tickets /\ \A t \in job[w].ts : ticket[t] # "NONE"
    BY <1>7, JobShape DEF JobsBorn, JobBorn, Running, NonOpConfirm
  <2>2. QED
    BY <1>7, <2>1 DEF NonOpConfirm
<1>8. QED
  BY <1>1, <1>2, <1>3, <1>4, <1>5, <1>6, <1>7 DEF Write

\* A worker may remember what exists.
LEMMA BeginBorn ==
    ASSUME TypeOK, Born, NEW w \in Workers, NEW j, Begin(w, j), JobBorn(j)
    PROVE  Born'
<1>1. UNCHANGED rows /\ \A v \in Workers : job'[v] = IF v = w THEN j ELSE job[v]
  BY DEF Begin, TypeOK
<1>2. QED
  BY <1>1 DEF Born, RowsBorn, JobsBorn, JobBorn, rows

\* What a worker reads exists.
LEMMA ReadBorn ==
    ASSUME IInv, Born, NEW w \in Workers, Read(w)
    PROVE  Born'
<1> USE DEF IInv, JobBorn
<1>1. ASSUME NEW d \in Devices, RecomputeRead(w, d) \/ CreateScan(w, d) \/ NonOpList(w, d)
      PROVE  Born'
  BY <1>1, BeginBorn DEF RecomputeRead, CreateScan, NonOpList, InFlightTicket
<1>2. ASSUME NEW t \in Tickets, AutoRecoverRead(w, t) \/ EscalateFraudRead(w, t)
                                \/ MarkAutoRecoveryRead(w, t) \/ EscalateScan(w, t)
      PROVE  Born'
  <2>1. ticket[t] # "NONE"
    BY <1>2 DEF Born, RowsBorn, AutoRecoverRead, EscalateFraudRead, MarkAutoRecoveryRead,
                EscalateScan, ActiveNonEscalated, ActiveCycle
  <2>2. QED
    BY <1>2, <2>1, BeginBorn
       DEF AutoRecoverRead, EscalateFraudRead, MarkAutoRecoveryRead, EscalateScan
<1>3. ASSUME NEW t \in Tickets, VerifyScan(w, t)
      PROVE  Born'
  BY <1>3 DEF VerifyScan, TypeOK, Born, RowsBorn, JobsBorn
<1>4. ASSUME NEW x \in Drafts, SubmitRead(w, x) \/ ConfirmResubmitRead(w, x)
      PROVE  Born'
  <2>1. ticket[TicketOf[x]] # "NONE"
    BY <1>4 DEF Born, RowsBorn, SubmitRead, ConfirmResubmitRead
  <2>2. QED
    BY <1>4, <2>1, BeginBorn DEF SubmitRead, ConfirmResubmitRead
<1>5. QED
  BY <1>1, <1>2, <1>3, <1>4 DEF Read

\* Born is inductive on top of IInv.
LEMMA NextBorn == IInv /\ Born /\ [Next]_vars => Born'
<1> SUFFICES ASSUME IInv, Born, [Next]_vars PROVE Born'
  OBVIOUS
<1>1. ASSUME NEW w \in Workers, Write(w) PROVE Born'
  <2>1. Finish(w)
    BY <1>1 DEF Write, RecomputeUpsert, CreateEpisode, CloseAsAutoRecovery,
       SubmitUnavailable, SubmitRepair, FinalizeClosed, FinalizeFailed, EscalateFraud,
       MarkAutoRecovery, Escalate, ConfirmResubmit, NonOpConfirm
  <2>2. QED
    BY <1>1, <2>1, WriteBorn, JobsBornStep DEF Born, IInv
<1>2. ASSUME NEW w \in Workers, RollBack(w) PROVE Born'
  BY <1>2, JobsBornStep DEF IInv, RollBack, rows, Born, RowsBorn, TicketsStay
<1>3. ASSUME NEW x \in Drafts, Warehouse(x) PROVE Born'
  BY <1>3 DEF IInv, TypeOK, Born, RowsBorn, JobsBorn, JobBorn, Warehouse, Approve, Reject,
              MarkShipped, ConfirmReceipt, RequestLeg
<1>4. CASE UNCHANGED vars
  BY <1>4 DEF vars, Born, RowsBorn, JobsBorn, JobBorn
<1>5. QED
  BY <1>1, <1>2, <1>3, <1>4, ReadBorn DEF Next

\* The strengthened invariant of the specification.
LEMMA BornHolds == Spec => []Born
<1>1. Init => Born
  BY LifecycleAssumption DEF Init, Born, RowsBorn, JobsBorn, JobBorn, Idle
<1>2. QED
  BY <1>1, NextBorn, IInvHolds, PTL DEF Spec

-----------------------------------------------------------------------------
(* The refinement of EpisodeSlot                                          *)

Free(d) == \A t \in Tickets : DeviceOf[t] = d => ~Active(t)

SlotShows ==
    OneActiveCycle => /\ \A d \in Devices : Free(d) => SlotOf(d) = None
                      /\ \A t \in Tickets : Active(t) => SlotOf(DeviceOf[t]) = t

\* The slot is a function of the active cycles: empty without one, and the one
\* there is otherwise.
LEMMA SlotReads == SlotShows
<1> SUFFICES ASSUME OneActiveCycle
             PROVE  /\ \A d \in Devices : Free(d) => SlotOf(d) = None
                    /\ \A t \in Tickets : Active(t) => SlotOf(DeviceOf[t]) = t
  BY DEF SlotShows
<1>1. ASSUME NEW d \in Devices, Free(d) PROVE SlotOf(d) = None
  BY <1>1 DEF Free, SlotOf, ActiveOn
<1>2. ASSUME NEW t \in Tickets, Active(t) PROVE SlotOf(DeviceOf[t]) = t
  <2>1. ActiveOn(DeviceOf[t]) = {t}
    BY <1>2 DEF ActiveOn, OneActiveCycle
  <2>2. QED
    BY <2>1 DEF SlotOf
<1>3. QED
  BY <1>1, <1>2

\* The same of the state after a step.
LEMMA SlotReadsNext == SlotShows'
BY SlotReads, PTL

\* A step that changes no cycle of a device leaves its slot alone.
LEMMA SlotKept ==
    ASSUME NEW d \in Devices, \A t \in Tickets : DeviceOf[t] = d => cycle'[t] = cycle[t]
    PROVE  SlotOf(d)' = SlotOf(d)
<1>1. ActiveOn(d)' = ActiveOn(d)
  BY DEF ActiveOn, Active
<1>2. QED
  BY <1>1 DEF SlotOf

Slots == [d \in Devices |-> SlotOf(d)]
SlotMoves(d, e) == Slots' = [Slots EXCEPT ![d] = e]

\* A step that writes one cycle moves at most the slot of its device.
LEMMA SlotMoved ==
    ASSUME IInv, NEW t \in Tickets, NEW s, cycle' = [cycle EXCEPT ![t] = s]
    PROVE  /\ SlotMoves(DeviceOf[t], SlotOf(DeviceOf[t])')
           /\ SlotOf(DeviceOf[t])' = SlotOf(DeviceOf[t]) => UNCHANGED Slots
<1>1. ASSUME NEW k \in Devices, k # DeviceOf[t] PROVE SlotOf(k)' = SlotOf(k)
  BY <1>1, SlotKept DEF IInv, TypeOK
<1>2. QED
  BY <1>1 DEF SlotMoves, Slots

\* No cycle changes: no slot does.
LEMMA SlotsKept ==
    ASSUME UNCHANGED cycle
    PROVE  UNCHANGED Slots
BY SlotKept DEF Slots

\* A closure ends the episode of its device, unless the cycle it closes had ended
\* before and another one is there: then it only lowers the flag.
LEMMA ClosureVacates ==
    ASSUME IInv, IInv', NEW t \in Tickets, NEW status, CloseVerified(t, status)
    PROVE  Slot!Vacate(DeviceOf[t]) \/ Slot!LowerFlag(DeviceOf[t])
<1> DEFINE d == DeviceOf[t]
<1> USE LifecycleAssumption DEF IInv, RowInv, TypeOK
<1>1. d \in Devices /\ hasOpen' = [hasOpen EXCEPT ![d] = FALSE]
  BY DEF CloseVerified
<1>2. cycle' = [cycle EXCEPT ![t] = "VERIFIED"]
  BY DEF CloseVerified
<1>3. CASE \E u \in Tickets \ {t} : DeviceOf[u] = d /\ Active(u)
  <2>1. PICK u \in Tickets \ {t} : DeviceOf[u] = d /\ Active(u)
    BY <1>3
  <2>2. Active(u)'
    BY <1>2, <2>1 DEF Active
  <2>3. SlotOf(d)' = SlotOf(d)
    BY <2>1, <2>2, SlotReads, SlotReadsNext DEF SlotShows
  <2>4. UNCHANGED Slots
    BY <1>2, <2>3, SlotMoved
  <2>5. QED
    BY <1>1, <2>4 DEF Slots, Slot!LowerFlag
<1>4. CASE \A u \in Tickets \ {t} : DeviceOf[u] = d => ~Active(u)
  <2>1. Free(d)'
    BY <1>2, <1>4 DEF Free, Active, ActiveCycle
  <2>2. SlotOf(d)' = None
    BY <1>1, <2>1, SlotReadsNext DEF SlotShows
  <2>3. QED
    BY <1>1, <1>2, <2>2, SlotMoved DEF SlotMoves, Slots, Slot!Vacate
<1>5. QED
  BY <1>3, <1>4

\* A cycle the index lets become active takes the free slot of its device, or is the
\* one that holds it.
LEMMA EnterOccupies ==
    ASSUME IInv, IInv', NEW t \in Tickets, NEW s \in ActiveCycle, IndexAllows(t, s),
           cycle' = [cycle EXCEPT ![t] = s]
    PROVE  IF Active(t) THEN UNCHANGED Slots
           ELSE SlotOf(DeviceOf[t]) = None /\ SlotMoves(DeviceOf[t], t)
<1> DEFINE d == DeviceOf[t]
<1> USE LifecycleAssumption DEF IInv, RowInv, TypeOK
<1>1. Active(t)'
  BY DEF Active
<1>2. SlotOf(d)' = t
  BY <1>1, SlotReadsNext DEF SlotShows
<1>3. SlotMoves(d, t)
  BY <1>2, SlotMoved
<1>4. CASE Active(t)
  <2>1. SlotOf(d) = t
    BY <1>4, SlotReads DEF SlotShows
  <2>2. QED
    BY <1>2, <1>4, <2>1, SlotMoved
<1>5. CASE ~Active(t)
  <2>1. Free(d)
    BY <1>5 DEF Free, IndexAllows, Active
  <2>2. SlotOf(d) = None
    BY <2>1, SlotReads DEF SlotShows
  <2>3. QED
    BY <1>3, <1>5, <2>2
<1>6. QED
  BY <1>4, <1>5

SlotStep == [Slot!Next]_<<Slots, hasOpen>>

\* Every transaction is a step of the slots, or none.
LEMMA WriteRefines ==
    ASSUME IInv, IInv', Born, NEW w \in Workers, Write(w)
    PROVE  SlotStep
<1> USE LifecycleAssumption DEF SlotStep
<1>1. CASE RecomputeUpsert(w) \/ FinalizeFailed(w) \/ EscalateFraud(w)
  BY <1>1, SlotsKept DEF RecomputeUpsert, FinalizeFailed, EscalateFraud
<1>2. CASE CreateEpisode(w)
  <2>1. PICK t \in Tickets, s \in {"OPEN", "REPEAT"} :
           /\ DeviceOf[t] = job[w].d /\ ticket[t] = "NONE" /\ IndexAllows(t, "OPEN")
           /\ cycle' = [cycle EXCEPT ![t] = s]
    BY <1>2 DEF CreateEpisode
  <2>2. s \in ActiveCycle /\ IndexAllows(t, s)
    BY <2>1 DEF ActiveCycle, IndexAllows
  <2>3. ~Active(t)
    BY <2>1 DEF Born, RowsBorn, Active, ActiveCycle
  <2>4. SlotOf(DeviceOf[t]) = None /\ SlotMoves(DeviceOf[t], t)
    BY <2>1, <2>2, <2>3, EnterOccupies
  <2>5. hasOpen' = [hasOpen EXCEPT ![DeviceOf[t]] = TRUE] /\ DeviceOf[t] \in Devices
    BY <1>2, <2>1 DEF CreateEpisode
  <2>6. Slot!Occupy(DeviceOf[t], t)
    BY <2>4, <2>5 DEF Slot!Occupy, SlotMoves, Slots
  <2>7. QED
    BY <2>5, <2>6 DEF Slot!Next
<1>3. CASE CloseAsAutoRecovery(w) \/ FinalizeClosed(w) \/ MarkAutoRecovery(w)
  <2>1. job[w].t \in Tickets
    BY <1>3, JobShape DEF IInv, CloseAsAutoRecovery, FinalizeClosed, MarkAutoRecovery
  <2>2. \E status \in {"CLOSED", "CLOSED_AUTO_RECOVERY"} : CloseVerified(job[w].t, status)
    BY <1>3 DEF CloseAsAutoRecovery, FinalizeClosed, MarkAutoRecovery
  <2>3. QED
    BY <2>1, <2>2, ClosureVacates DEF Slot!Next
<1>4. CASE SubmitUnavailable(w) \/ SubmitRepair(w) \/ Escalate(w) \/ ConfirmResubmit(w)
  <2>1. PICK t \in Tickets, s \in ActiveCycle :
           IndexAllows(t, s) /\ cycle' = [cycle EXCEPT ![t] = s] /\ UNCHANGED hasOpen
    BY <1>4, JobShape
       DEF IInv, SubmitUnavailable, SubmitRepair, Escalate, ConfirmResubmit, ActiveCycle
  <2>2. CASE Active(t)
    BY <2>1, <2>2, EnterOccupies
  <2>3. CASE ~Active(t)
    <3>1. SlotOf(DeviceOf[t]) = None /\ SlotMoves(DeviceOf[t], t)
      BY <2>1, <2>3, EnterOccupies
    <3>2. hasOpen' = [hasOpen EXCEPT ![DeviceOf[t]] = hasOpen[DeviceOf[t]]]
          /\ hasOpen[DeviceOf[t]] \in BOOLEAN
      BY <2>1 DEF IInv, TypeOK
    <3>3. Slot!Occupy(DeviceOf[t], t)
      BY <3>1, <3>2 DEF Slot!Occupy, SlotMoves, Slots
    <3>4. QED
      BY <3>3 DEF Slot!Next
  <2>4. QED
    BY <2>2, <2>3
<1>5. CASE NonOpConfirm(w)
  <2>1. job[w].d \in Devices
    BY <1>5, JobShape DEF IInv, NonOpConfirm
  <2>2. Slot!LowerFlag(job[w].d)
    BY <1>5, SlotsKept DEF NonOpConfirm, Slots, Slot!LowerFlag
  <2>3. QED
    BY <2>1, <2>2 DEF Slot!Next
<1>6. QED
  BY <1>1, <1>2, <1>3, <1>4, <1>5 DEF Write

\* The lifecycle implements EpisodeSlot, whatever overlaps: an episode takes a device
\* over only from no episode, and the step that ends it lowers the device's flag.
THEOREM ImplementsEpisodeSlotHolds == Spec => ImplementsEpisodeSlot
<1>1. Init => Slot!Init
  BY LifecycleAssumption DEF Init, Slot!Init, SlotOf, ActiveOn, Active, ActiveCycle
<1>2. IInv /\ IInv' /\ Born /\ [Next]_vars => SlotStep
  <2> SUFFICES ASSUME IInv, IInv', Born, [Next]_vars PROVE SlotStep
    OBVIOUS
  <2>1. ASSUME NEW w \in Workers, Read(w) PROVE SlotStep
    BY <2>1, ReadStep, SlotsKept DEF IInv, SlotStep
  <2>2. ASSUME NEW w \in Workers, Write(w) PROVE SlotStep
    BY <2>2, WriteRefines
  <2>3. ASSUME NEW w \in Workers, RollBack(w) PROVE SlotStep
    BY <2>3, SlotsKept DEF RollBack, rows, SlotStep
  <2>4. ASSUME NEW x \in Drafts, Warehouse(x) PROVE SlotStep
    BY <2>4, SlotsKept
       DEF Warehouse, Approve, Reject, MarkShipped, ConfirmReceipt, RequestLeg, SlotStep
  <2>5. CASE UNCHANGED vars
    BY <2>5, SlotsKept DEF vars, SlotStep
  <2>6. QED
    BY <2>1, <2>2, <2>3, <2>4, <2>5 DEF Next
<1>3. QED
  BY <1>1, <1>2, IInvHolds, BornHolds, PTL DEF Spec, ImplementsEpisodeSlot, Slot!Spec, SlotStep, Slots

=============================================================================
