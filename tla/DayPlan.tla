------------------------------ MODULE DayPlan -------------------------------
(****************************************************************************)
(* The Day Plans of one zone on one day: work schedules, plant batches,     *)
(* the rows that put tickets on batches, and the assignment state of the    *)
(* tickets.  Morning dispatch, the manager's overrides and the one-click    *)
(* assignment write them.                                                   *)
(*                                                                          *)
(* An override keeps the batch as it read it; its transaction writes by     *)
(* primary key.  Morning dispatch has no transaction at all.  The ON_SITE   *)
(* gate of an override lets a confirmed request through and writes only an  *)
(* audit row, so it does not appear.  Closing a ticket touches nothing here *)
(* and only stops the recommender from suggesting it: it is left out too.   *)
(****************************************************************************)
EXTENDS Executions, Naturals, Sequences, FiniteSets, FiniteSetsExt, Functions

CONSTANTS
    Tickets,
    Engineers,
    Plants,
    PlantOf,       \* the plant of a ticket
    MaxSchedules,  \* bound: work schedules of the day
    MaxBatches,    \* bound: plant batches
    MaxRows,       \* bound: assignment rows per ticket
    MaxRecs        \* bound: recommendations

ASSUME PlanAssumption ==
    /\ IsFiniteSet(Tickets) /\ PlantOf \in [Tickets -> Plants]
    /\ MaxSchedules \in Nat /\ MaxBatches \in Nat /\ MaxRows \in Nat /\ MaxRecs \in Nat

VARIABLES
    assigned,   \* tickets.assignment_state is FORMALLY_ASSIGNED
    row,        \* the ticket's active assignment row, batch 0 when it has none
    rows,       \* rows made so far for the ticket: the last one's id
    batches,    \* plant_batch_assignments, by id
    schedules,  \* work_schedules, by id, in the order of dispatched_at
    recs        \* SUGGESTED recommendations, by id

plan == <<assigned, row, rows, batches, schedules, recs>>

Status == {"ACTIVE", "OVERRIDDEN"}
NoRow == [batch |-> 0, sort |-> 0]
RowType == [batch : 0..MaxBatches, sort : Nat]
BatchType == [sched : 1..MaxSchedules, plant : Plants, se : Engineers,
              overridden : BOOLEAN, stop : Nat]

PlanJob ==
    [op : {"assign"}, t : Tickets, se : Engineers, top : BOOLEAN]
    \cup [op : {"remove", "defer"}, t : Tickets, id : 1..MaxRows, b : 1..MaxBatches,
          sched : 1..MaxSchedules]
    \cup [op : {"reorder"}, b : 1..MaxBatches, sched : 1..MaxSchedules,
          stops : UNION {[bs -> 1..MaxBatches] : bs \in SUBSET (1..MaxBatches)}]
    \cup [op : {"swap"}, b : 1..MaxBatches, sched : 1..MaxSchedules, se : Engineers]
    \cup [op : {"move"}, ids : UNION {[ts -> 1..MaxRows] : ts \in SUBSET Tickets},
          b : 1..MaxBatches, sched : 1..MaxSchedules, se : Engineers]
    \cup [op : {"dispatch"}, todo : SUBSET (1..MaxRecs), sched : 0..MaxSchedules,
          b : 0..MaxBatches, stop : 0..MaxBatches, sort : 0..MaxRecs]
    \cup [op : {"flag"}, t : Tickets, todo : SUBSET (1..MaxRecs), sched : 1..MaxSchedules,
          b : 1..MaxBatches, stop : 0..MaxBatches, sort : 0..MaxRecs]

PlanTypeOK ==
    /\ assigned \in [Tickets -> BOOLEAN]
    /\ row \in [Tickets -> RowType]
    /\ rows \in [Tickets -> 0..MaxRows]
    /\ batches \in Seq(BatchType) /\ Len(batches) <= MaxBatches
    /\ schedules \in Seq([se : Engineers, status : Status]) /\ Len(schedules) <= MaxSchedules
    /\ recs \in Seq([t : Tickets, se : Engineers]) /\ Len(recs) <= MaxRecs

PlanInit ==
    /\ assigned = [t \in Tickets |-> FALSE]
    /\ row = [t \in Tickets |-> NoRow]
    /\ rows = [t \in Tickets |-> 0]
    /\ batches = <<>> /\ schedules = <<>> /\ recs = <<>>

-----------------------------------------------------------------------------
(* Helpers of the override engine                                         *)

Planned(t) == row[t].batch # 0
ActiveRowsOf(b) == {t \in Tickets : row[t].batch = b}
BatchesOf(s) == {b \in DOMAIN batches : batches[b].sched = s}
PositionsOf(s) == {batches[b].stop : b \in BatchesOf(s)}

NextStop(s) == Max(PositionsOf(s) \cup {0}) + 1

NextSort(b) == Max({row[t].sort : t \in ActiveRowsOf(b)} \cup {0}) + 1

\* ensureSchedule: an ACTIVE schedule of the engineer, or a new one.
ScheduleFor(e) ==
    LET active == {s \in DOMAIN schedules :
                      schedules[s].se = e /\ schedules[s].status = "ACTIVE"}
    IN IF active # {} THEN active ELSE {Len(schedules) + 1}

WithSchedule(s, e) ==
    IF s \in DOMAIN schedules THEN schedules
    ELSE Append(schedules, [se |-> e, status |-> "ACTIVE"])

\* Fault: the plant of the batch is not looked at.
BatchAnyPlant(s, p, e) ==
    LET found == {b \in BatchesOf(s) : batches[b].se = e}
    IN IF found # {} THEN found ELSE {Len(batches) + 1}

\* The engineer's batch for the plant in the schedule, or a new one.
BatchFor(s, p, e) ==
    LET found == {b \in BatchesOf(s) : batches[b].plant = p /\ batches[b].se = e}
    IN IF found # {} THEN found ELSE {Len(batches) + 1}

WithBatch(b, s, p, e, overridden) ==
    IF b \in DOMAIN batches THEN batches
    ELSE Append(batches, [sched |-> s, plant |-> p, se |-> e,
                          overridden |-> overridden, stop |-> NextStop(s)])

\* Fault: the other batches stay where they are.
PositionsTargetOnly(bs, s, b, pos) == [c \in {b} |-> pos]

\* The positions of the batches of schedule s once b is put at position pos.
Positions(bs, s, b, pos) ==
    LET others == {c \in DOMAIN bs : bs[c].sched = s} \ {b}
        before(c) == Cardinality({d \in others : bs[d].stop < bs[c].stop})
    IN [c \in others \cup {b} |->
           IF c = b THEN pos ELSE IF before(c) + 1 < pos THEN before(c) + 1 ELSE before(c) + 2]

Renumbered(bs, stops) ==
    [c \in DOMAIN bs |-> IF c \in DOMAIN stops THEN [bs[c] EXCEPT !.stop = stops[c]] ELSE bs[c]]

\* flagOverridden, on the batch and on the schedule it had when it was read.
FlagBatch(bs, b) == [bs EXCEPT ![b].overridden = TRUE]

\* Fault: the schedule keeps its status.
FlagNoSchedule(ss, s) == ss
FlagSchedule(ss, s) == [ss EXCEPT ![s].status = "OVERRIDDEN"]

-----------------------------------------------------------------------------
(* assignTicket, also behind the same-day ADD                             *)

AssignRead(w, t, e, top) ==
    /\ ~assigned[t]
    /\ Begin(w, [op |-> "assign", t |-> t, se |-> e, top |-> top])
    /\ UNCHANGED plan

\* The unique index batch_assignment_tickets_one_active_per_ticket.
IndexFree(t) == ~Planned(t)

AssignTicketTx(w, t, e, top) ==
    /\ IndexFree(t) /\ rows[t] < MaxRows
    /\ \E s \in ScheduleFor(e) : \E b \in BatchFor(s, PlantOf[t], e) :
          /\ s <= MaxSchedules /\ b <= MaxBatches
          /\ schedules' = WithSchedule(s, e)
          /\ LET bs == WithBatch(b, s, PlantOf[t], e, FALSE)
             IN batches' = IF top THEN Renumbered(bs, Positions(bs, s, b, 1)) ELSE bs
          /\ row' = [row EXCEPT ![t] = [batch |-> b, sort |-> NextSort(b)]]
    /\ rows' = [rows EXCEPT ![t] = @ + 1]
    /\ assigned' = [assigned EXCEPT ![t] = TRUE]
    /\ UNCHANGED <<recs>>

AssignTicket(w) ==
    /\ Running(w, "assign")
    /\ AssignTicketTx(w, job[w].t, job[w].se, job[w].top)
    /\ Finish(w)

-----------------------------------------------------------------------------
(* removeTicket and deferTicket                                           *)

\* Both look up the active row of the ticket in the batch they were given.
RowRead(w, op, t) ==
    /\ Planned(t)
    /\ Begin(w, [op |-> op, t |-> t, id |-> rows[t], b |-> row[t].batch,
                 sched |-> batches[row[t].batch].sched])
    /\ UNCHANGED plan

\* The row with this id is still the ticket's active row.
StillActive(t, id) == Planned(t) /\ rows[t] = id

RemoveTicket(w) ==
    /\ Running(w, "remove")
    /\ LET j == job[w] IN
       /\ row' = IF StillActive(j.t, j.id) THEN [row EXCEPT ![j.t] = NoRow] ELSE row
       /\ assigned' = [assigned EXCEPT ![j.t] = FALSE]
       /\ batches' = FlagBatch(batches, j.b)
       /\ schedules' = FlagSchedule(schedules, j.sched)
    /\ Finish(w)
    /\ UNCHANGED <<rows, recs>>

\* The deferral date is stored with the row and read by nobody here.
DeferTicket(w) ==
    /\ Running(w, "defer")
    /\ batches' = FlagBatch(batches, job[w].b)
    /\ schedules' = FlagSchedule(schedules, job[w].sched)
    /\ Finish(w)
    /\ UNCHANGED <<assigned, row, rows, recs>>

-----------------------------------------------------------------------------
(* reorder, swapSe, moveTickets                                           *)

\* The new order is computed from the batches as they were read.
ReorderRead(w, b, stop) ==
    /\ b \in DOMAIN batches
    /\ LET s == batches[b].sched
           pos == Min({stop, Cardinality(BatchesOf(s))})
       IN Begin(w, [op |-> "reorder", b |-> b, sched |-> s, stops |-> Positions(batches, s, b, pos)])
    /\ UNCHANGED plan

Reorder(w) ==
    /\ Running(w, "reorder")
    /\ batches' = FlagBatch(Renumbered(batches, job[w].stops), job[w].b)
    /\ schedules' = FlagSchedule(schedules, job[w].sched)
    /\ Finish(w)
    /\ UNCHANGED <<assigned, row, rows, recs>>

SwapRead(w, b, e) ==
    /\ b \in DOMAIN batches
    /\ Begin(w, [op |-> "swap", b |-> b, sched |-> batches[b].sched, se |-> e])
    /\ UNCHANGED plan

\* The whole batch goes to the end of the other engineer's schedule.
SwapSe(w) ==
    /\ Running(w, "swap")
    /\ LET j == job[w] IN
       \E s \in ScheduleFor(j.se) :
          /\ s <= MaxSchedules
          /\ batches' = [batches EXCEPT ![j.b] =
                            [@ EXCEPT !.sched = s, !.se = j.se, !.overridden = TRUE,
                                      !.stop = NextStop(s)]]
          /\ schedules' = FlagSchedule(WithSchedule(s, j.se), j.sched)
    /\ Finish(w)
    /\ UNCHANGED <<assigned, row, rows, recs>>

\* REASSIGN moves one ticket, SPLIT_BATCH some, of one batch.
MoveRead(w, b, ts, e) ==
    /\ b \in DOMAIN batches /\ ts # {} /\ ts \subseteq ActiveRowsOf(b)
    /\ Begin(w, [op |-> "move", ids |-> [t \in ts |-> rows[t]], b |-> b,
                 sched |-> batches[b].sched, se |-> e])
    /\ UNCHANGED plan

MoveTickets(w) ==
    /\ Running(w, "move")
    /\ LET j == job[w]
           ts == DOMAIN j.ids
           kept(t) == Planned(t) /\ ~StillActive(t, j.ids[t])
       IN
       /\ \A t \in ts : ~kept(t) /\ rows[t] < MaxRows
       /\ \E s \in ScheduleFor(j.se) : \E b \in BatchFor(s, batches[j.b].plant, j.se) :
             /\ s <= MaxSchedules /\ b <= MaxBatches
             /\ schedules' = FlagSchedule(WithSchedule(s, j.se), j.sched)
             /\ batches' = FlagBatch(WithBatch(b, s, batches[j.b].plant, j.se, TRUE), j.b)
             /\ \E order \in Bijection(ts, 1..Cardinality(ts)) :
                   row' = [t \in Tickets |->
                             IF t \in ts
                             THEN [batch |-> b, sort |-> NextSort(b) + order[t] - 1]
                             ELSE row[t]]
       /\ rows' = [t \in Tickets |-> IF t \in ts THEN rows[t] + 1 ELSE rows[t]]
    /\ Finish(w)
    /\ UNCHANGED <<assigned, recs>>

-----------------------------------------------------------------------------
(* dispatchForZone: every statement commits on its own                    *)

\* One suggestion of the recommender; a later run does not retire earlier ones.
Recommend(t, e) ==
    /\ ~assigned[t] /\ Len(recs) < MaxRecs
    /\ recs' = Append(recs, [t |-> t, se |-> e])
    /\ UNCHANGED <<assigned, row, rows, batches, schedules, job>>

DispatchRead(w) ==
    /\ recs # <<>>
    /\ Begin(w, [op |-> "dispatch", todo |-> DOMAIN recs, sched |-> 0, b |-> 0,
                 stop |-> 0, sort |-> 0])
    /\ UNCHANGED plan

\* What is left to do for the engineer, and for the plant, in hand.
TodoOfEngineer(j) ==
    {r \in j.todo : j.sched # 0 /\ recs[r].se = schedules[j.sched].se}
TodoOfPlant(j) ==
    {r \in TodoOfEngineer(j) : j.b # 0 /\ PlantOf[recs[r].t] = batches[j.b].plant}

DispatchSchedule(w) ==
    /\ Running(w, "dispatch") /\ TodoOfEngineer(job[w]) = {}
    /\ Len(schedules) < MaxSchedules
    /\ \E r \in job[w].todo :
          schedules' = Append(schedules, [se |-> recs[r].se, status |-> "ACTIVE"])
    /\ Proceed(w, [job[w] EXCEPT !.sched = Len(schedules) + 1, !.b = 0, !.stop = 0])
    /\ UNCHANGED <<assigned, row, rows, batches, recs>>

DispatchBatch(w) ==
    /\ Running(w, "dispatch") /\ TodoOfPlant(job[w]) = {}
    /\ Len(batches) < MaxBatches
    /\ \E r \in TodoOfEngineer(job[w]) :
          batches' = Append(batches, [sched |-> job[w].sched, plant |-> PlantOf[recs[r].t],
                                      se |-> recs[r].se, overridden |-> FALSE,
                                      stop |-> job[w].stop + 1])
    /\ Proceed(w, [job[w] EXCEPT !.b = Len(batches) + 1, !.stop = @ + 1, !.sort = 0])
    /\ UNCHANGED <<assigned, row, rows, schedules, recs>>

\* Fault: the ticket is flagged before its row is made.
DispatchRowFlagged(w) ==
    /\ Running(w, "dispatch")
    /\ \E r \in TodoOfPlant(job[w]) :
          /\ assigned' = [assigned EXCEPT ![recs[r].t] = TRUE]
          /\ Proceed(w, [job[w] EXCEPT !.todo = @ \ {r}])
    /\ UNCHANGED <<row, rows, batches, schedules, recs>>

\* A second suggestion of the same ticket fails on the index and ends the dispatch.
DispatchRow(w) ==
    /\ Running(w, "dispatch")
    /\ \E r \in TodoOfPlant(job[w]) :
       LET t == recs[r].t
           j == job[w]
       IN
          /\ IndexFree(t) /\ rows[t] < MaxRows
          /\ row' = [row EXCEPT ![t] = [batch |-> j.b, sort |-> j.sort + 1]]
          /\ rows' = [rows EXCEPT ![t] = @ + 1]
          /\ Proceed(w, [op |-> "flag", t |-> t, todo |-> j.todo \ {r}, sched |-> j.sched,
                         b |-> j.b, stop |-> j.stop, sort |-> j.sort + 1])
    /\ UNCHANGED <<assigned, batches, schedules, recs>>

DispatchFlag(w) ==
    /\ Running(w, "flag")
    /\ LET j == job[w] IN
       /\ assigned' = [assigned EXCEPT ![j.t] = TRUE]
       /\ IF j.todo = {} THEN Finish(w)
          ELSE Proceed(w, [op |-> "dispatch", todo |-> j.todo, sched |-> j.sched, b |-> j.b,
                           stop |-> j.stop, sort |-> j.sort])
    /\ UNCHANGED <<row, rows, batches, schedules, recs>>

-----------------------------------------------------------------------------
(* The rest of the system                                                 *)

\* A component arrived for a floating engineer: confirmResubmit (RETURN_TO_POOL) frees the
\* ticket and leaves its row.
ReturnToPool(t) ==
    /\ assigned[t]
    /\ assigned' = [assigned EXCEPT ![t] = FALSE]
    /\ UNCHANGED <<row, rows, batches, schedules, recs, job>>

PlanRead(w) ==
    \/ DispatchRead(w)
    \/ \E t \in Tickets : RowRead(w, "remove", t) \/ RowRead(w, "defer", t)
    \/ \E t \in Tickets, e \in Engineers : AssignRead(w, t, e, FALSE)
    \/ \E b \in DOMAIN batches, stop \in 1..MaxBatches : ReorderRead(w, b, stop)
    \/ \E b \in DOMAIN batches, e \in Engineers :
          SwapRead(w, b, e) \/ \E ts \in SUBSET Tickets : MoveRead(w, b, ts, e)

PlanWrite(w) ==
    \/ AssignTicket(w) \/ RemoveTicket(w) \/ DeferTicket(w) \/ Reorder(w) \/ SwapSe(w)
    \/ MoveTickets(w) \/ DispatchSchedule(w) \/ DispatchBatch(w) \/ DispatchRow(w)
    \/ DispatchFlag(w)

PlanAbandon(w) == Abandon(w) /\ UNCHANGED plan

PlanStep(w) == PlanRead(w) \/ PlanWrite(w) \/ PlanAbandon(w)

PlanEnvironment ==
    \E t \in Tickets : ReturnToPool(t) \/ \E e \in Engineers : Recommend(t, e)

planVars == <<plan, job>>

PlanSpec ==
    /\ PlanInit /\ job = [w \in Workers |-> Idle]
    /\ [][(\E w \in Workers : PlanStep(w)) \/ PlanEnvironment]_planVars

-----------------------------------------------------------------------------
(* Properties                                                             *)

\* A ticket that has left the Shared Pool is on some batch: seven writers of rows and
\* flags, one of them without a transaction that may end after any statement
\* (override.service.ts, batch-assignment.service.ts).
AssignedIsPlanned == \A t \in Tickets : assigned[t] => Planned(t)

\* The stops of a schedule, and the tickets of a stop, have different positions, whatever
\* was moved out of and into it before (nextStopSequence, nextSortOrder, reorder).
PositionsDistinct ==
    /\ \A b, c \in DOMAIN batches :
          batches[b].sched = batches[c].sched /\ batches[b].stop = batches[c].stop => b = c
    /\ \A t, u \in Tickets : Planned(t) /\ row[t] = row[u] => t = u

\* Nobody changes whose work a planned ticket is without marking the batch and the schedule
\* it was on OVERRIDDEN (flagOverridden).
TakingAwayIsFlagged ==
    [][\A t \in Tickets : Planned(t) =>
          LET b == row[t].batch IN
          (row'[t].batch # b \/ batches'[b].se # batches[b].se) =>
              /\ batches'[b].overridden
              /\ schedules'[batches[b].sched].status = "OVERRIDDEN"]_planVars

\* A planned ticket is on a stop at its own plant, and the stop is in a schedule of the
\* engineer it names, whatever dispatches, moves and swaps overlap (ensureSchedule,
\* moveTickets, swapSe, dispatchForZone).
StopsCoherent ==
    /\ \A t \in Tickets : Planned(t) =>
          row[t].batch \in DOMAIN batches /\ batches[row[t].batch].plant = PlantOf[t]
    /\ \A b \in DOMAIN batches :
          /\ batches[b].sched \in DOMAIN schedules
          /\ batches[b].se = schedules[batches[b].sched].se

\* The engineer's own Day Plan (getDayPlan): the newest ACTIVE schedule.
DayPlanOf(e) ==
    LET active == {s \in DOMAIN schedules :
                      schedules[s].se = e /\ schedules[s].status = "ACTIVE"}
    IN IF active = {} THEN {}
       ELSE {t \in Tickets : Planned(t) /\ batches[row[t].batch].sched = Max(active)}

\* "re-points the SE Day Plan" (override.service.ts): the engineer who holds a ticket sees it
\* there.
HeldTicketVisible ==
    \A t \in Tickets : Planned(t) => t \in DayPlanOf(batches[row[t].batch].se)

=============================================================================
