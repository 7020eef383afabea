---------------------------- MODULE Plan_proofs ------------------------------
(***************************************************************************)
(* The Day Plans and the offers of urgent tickets, whatever executions     *)
(* overlap: the tables keep rows of their types, a planned ticket is on a  *)
(* stop at its own plant in a schedule of the engineer the stop names, and *)
(* nobody is asked twice for an urgent ticket.                             *)
(***************************************************************************)
EXTENDS IntradayInsertion, FiniteSetTheorems, WellFoundedInduction, TLAPS

-----------------------------------------------------------------------------
(* The greatest of finitely many naturals                                 *)

\* Finitely many values have a bound: a least set without one would lose an element and still
\* have none.
LEMMA FiniteBound ==
    ASSUME NEW D, IsFiniteSet(D), NEW f \in [D -> Nat]
    PROVE  \E b \in Nat : \A x \in D : f[x] <= b
<1> DEFINE bounded(T) == \E b \in Nat : \A x \in T : f[x] <= b
           bad == {T \in FiniteSubsetsOf(D) : ~bounded(T)}
<1>1. IsWellFoundedOn(StrictSubsetOrdering(D), FiniteSubsetsOf(D))
  BY FS_StrictSubsetOrderingWellFounded
<1>2. ASSUME bad # {} PROVE FALSE
  <2>1. PICK T \in bad : \A U \in bad : ~(<<U, T>> \in StrictSubsetOrdering(D))
    BY <1>1, <1>2, WFMin
  <2>2. T \subseteq D /\ IsFiniteSet(T) /\ ~bounded(T)
    BY <2>1 DEF FiniteSubsetsOf
  <2>3. PICK x \in T : TRUE
    <3>1. 0 \in Nat /\ (T = {} => \A x \in T : f[x] <= 0)
      OBVIOUS
    <3> QED BY <2>2, <3>1
  <2>4. PICK U : U = T \ {x}
    OBVIOUS
  <2>5. IsFiniteSet(U)
    BY <2>2, <2>4, FS_RemoveElement
  <2>6. U \in FiniteSubsetsOf(D) /\ <<U, T>> \in StrictSubsetOrdering(D)
    BY <2>2, <2>3, <2>4, <2>5 DEF FiniteSubsetsOf, StrictSubsetOrdering
  <2>7. bounded(U)
    BY <2>1, <2>6
  <2>8. PICK b \in Nat : \A y \in U : f[y] <= b
    BY <2>7
  <2>9. PICK c \in Nat : b <= c /\ f[x] <= c
    <3>1. f[x] \in Nat
      BY <2>2, <2>3
    <3>2. CASE b <= f[x]
      BY <3>1, <3>2
    <3>3. CASE f[x] <= b
      BY <3>1, <3>3
    <3> QED BY <3>1, <3>2, <3>3
  <2>10. \A y \in T : f[y] <= c
    <3>1. \A y \in T : f[y] \in Nat /\ (y = x \/ f[y] <= b)
      BY <2>2, <2>4, <2>8
    <3> QED BY <2>9, <3>1
  <2> QED BY <2>2, <2>10
<1>3. D \in FiniteSubsetsOf(D)
  BY DEF FiniteSubsetsOf
<1> QED BY <1>2, <1>3

LessThan == {ss \in Nat \X Nat : ss[1] < ss[2]}

\* A set of naturals with a bound has a greatest element: the one nearest to the bound.
LEMMA MaxIsGreatest ==
    ASSUME NEW S \in SUBSET Nat, S # {}, NEW b \in Nat, \A x \in S : x <= b
    PROVE  Max(S) \in S /\ \A x \in S : x <= Max(S)
<1>1. IsWellFoundedOn(LessThan, Nat)
  <2>1. LessThan = OpToRel(<, Nat)
    BY DEF LessThan, OpToRel
  <2> QED BY <2>1, NatLessThanWellFounded
<1> DEFINE gaps == {b - x : x \in S}
<1>2. gaps \in SUBSET Nat /\ gaps # {}
  <2>1. \A x \in S : b - x \in Nat
    OBVIOUS
  <2> QED BY <2>1
<1>3. PICK g \in gaps : \A h \in gaps : ~(<<h, g>> \in LessThan)
  BY <1>1, <1>2, WFMin
<1>4. PICK x \in S : g = b - x
  BY <1>3
<1>5. ASSUME NEW y \in S PROVE x >= y
  <2>1. b - y \in gaps /\ b - y \in Nat /\ g \in Nat
    BY <1>2
  <2>2. ~(b - y < g)
    BY <1>3, <2>1 DEF LessThan
  <2> QED BY <1>4, <2>1, <2>2
<1> QED BY <1>5 DEF Max

\* The position after the last of finitely many.
LEMMA NextIsFree ==
    ASSUME NEW D, IsFiniteSet(D), NEW f \in [D -> Nat], NEW S,
           S = {f[x] : x \in D} \cup {0}
    PROVE  Max(S) + 1 \in Nat /\ \A x \in D : f[x] < Max(S) + 1
<1>1. PICK b \in Nat : \A x \in D : f[x] <= b
  BY FiniteBound
<1>2. S \in SUBSET Nat /\ S # {} /\ \A s \in S : s <= b
  BY <1>1
<1>3. Max(S) \in S /\ \A s \in S : s <= Max(S)
  BY <1>2, MaxIsGreatest
<1>4. \A x \in D : f[x] \in S /\ f[x] \in Nat /\ f[x] <= Max(S) /\ Max(S) \in Nat
  BY <1>2, <1>3
<1> QED BY <1>2, <1>3, <1>4

-----------------------------------------------------------------------------
(* Positions of stops and tickets                                         *)

BatchKind == [sched : Nat, plant : Plants, se : Engineers, overridden : BOOLEAN, stop : Nat]
ScheduleKind == [se : Engineers, status : Status]

LEMMA BatchAt == ASSUME NEW bs \in Seq(BatchKind), NEW b \in DOMAIN bs
                 PROVE  /\ bs[b] \in BatchKind /\ b \in Nat /\ b # 0 /\ b \in 1..Len(bs)
                        /\ bs[b].sched \in Nat /\ bs[b].plant \in Plants
                        /\ bs[b].se \in Engineers /\ bs[b].stop \in Nat
<1>1. bs[b] \in BatchKind /\ b \in 1..Len(bs)
  OBVIOUS
<1> QED BY <1>1 DEF BatchKind

LEMMA NextStopFree ==
    ASSUME batches \in Seq(BatchKind), NEW s
    PROVE  /\ NextStop(s) \in Nat
           /\ \A c \in DOMAIN batches : batches[c].sched = s => batches[c].stop < NextStop(s)
<1> DEFINE D == BatchesOf(s)
<1>1. IsFiniteSet(D)
  <2>1. DOMAIN batches = 1..Len(batches) /\ Len(batches) \in Int /\ 1 \in Int
    OBVIOUS
  <2>2. IsFiniteSet(DOMAIN batches) /\ D \subseteq DOMAIN batches
    BY <2>1, FS_Interval DEF BatchesOf
  <2> QED BY <2>2, FS_Subset
<1>2. PICK f : f = [c \in D |-> batches[c].stop]
  OBVIOUS
<1>3. f \in [D -> Nat]
  BY <1>2, BatchAt DEF BatchesOf
<1>4. PositionsOf(s) \cup {0} = {f[c] : c \in D} \cup {0}
  BY <1>2 DEF PositionsOf
<1>5. /\ Max(PositionsOf(s) \cup {0}) + 1 \in Nat
      /\ \A c \in D : f[c] < Max(PositionsOf(s) \cup {0}) + 1
  BY <1>1, <1>3, <1>4, NextIsFree
<1> QED BY <1>2, <1>5 DEF NextStop, BatchesOf

LEMMA NextSortFree ==
    ASSUME row \in [Tickets -> [batch : Nat, sort : Nat]], NEW b
    PROVE  /\ NextSort(b) \in Nat
           /\ \A t \in Tickets : row[t].batch = b => row[t].sort < NextSort(b)
<1> DEFINE D == ActiveRowsOf(b)
<1>1. IsFiniteSet(D)
  <2>1. D \subseteq Tickets
    BY DEF ActiveRowsOf
  <2> QED BY <2>1, PlanAssumption, FS_Subset
<1>2. PICK f : f = [t \in D |-> row[t].sort]
  OBVIOUS
<1>3. f \in [D -> Nat]
  BY <1>2 DEF ActiveRowsOf
<1>4. PICK S : S = {row[t].sort : t \in D} \cup {0}
  OBVIOUS
<1>5. S = {f[t] : t \in D} \cup {0}
  BY <1>2, <1>4
<1>6. Max(S) + 1 \in Nat /\ \A t \in D : f[t] < Max(S) + 1
  BY <1>1, <1>3, <1>5, NextIsFree
<1>7. NextSort(b) = Max(S) + 1
  BY <1>4 DEF NextSort
<1>8. \A t \in Tickets : row[t].batch = b => t \in D
  BY DEF ActiveRowsOf
<1> HIDE DEF D
<1> QED BY <1>2, <1>6, <1>7, <1>8

-----------------------------------------------------------------------------
(* The executions                                                         *)

PlanNext == (\E w \in Workers : PlanStep(w)) \/ PlanEnvironment

PlanOps == {"idle", "assign", "remove", "defer", "reorder", "swap", "move", "dispatch", "flag"}
IntradayOps == {"fire", "accept", "acceptMark", "manual", "manualMark", "decline", "sweep"}

\* What an override or a dispatch leaves its execution with.
PlanJobOp(j) == j = Idle \/ j.op \in PlanOps \ {"idle"}

LEMMA PlanStepJob ==
    ASSUME NEW w \in Workers, PlanStep(w),
           job[w].op = "dispatch" =>
              DOMAIN job[w] = {"op", "todo", "sched", "b", "stop", "sort"}
    PROVE  \E j : job' = [job EXCEPT ![w] = j] /\ PlanJobOp(j)
<1>1. CASE PlanRead(w)
  <2>1. ASSUME NEW j, j.op \in PlanOps \ {"idle"}, Begin(w, j)
        PROVE  \E k : job' = [job EXCEPT ![w] = k] /\ PlanJobOp(k)
    BY <2>1 DEF Begin, PlanJobOp
  <2>2. CASE DispatchRead(w)
    BY <2>1, <2>2 DEF DispatchRead, PlanOps
  <2>3. ASSUME NEW t \in Tickets, RowRead(w, "remove", t) \/ RowRead(w, "defer", t)
        PROVE  \E k : job' = [job EXCEPT ![w] = k] /\ PlanJobOp(k)
    BY <2>1, <2>3 DEF RowRead, PlanOps
  <2>4. ASSUME NEW t \in Tickets, NEW e \in Engineers, AssignRead(w, t, e, FALSE)
        PROVE  \E k : job' = [job EXCEPT ![w] = k] /\ PlanJobOp(k)
    BY <2>1, <2>4 DEF AssignRead, PlanOps
  <2>5. ASSUME NEW b \in DOMAIN batches, NEW stop \in 1..MaxBatches, ReorderRead(w, b, stop)
        PROVE  \E k : job' = [job EXCEPT ![w] = k] /\ PlanJobOp(k)
    <3>1. PICK stops : Begin(w, [op |-> "reorder", b |-> b, sched |-> batches[b].sched,
                                 stops |-> stops])
      BY <2>5 DEF ReorderRead
    <3> QED BY <2>1, <3>1 DEF PlanOps
  <2>6. ASSUME NEW b \in DOMAIN batches, NEW e \in Engineers, SwapRead(w, b, e)
        PROVE  \E k : job' = [job EXCEPT ![w] = k] /\ PlanJobOp(k)
    BY <2>1, <2>6 DEF SwapRead, PlanOps
  <2>7. ASSUME NEW b \in DOMAIN batches, NEW ts \in SUBSET Tickets, NEW e \in Engineers,
               MoveRead(w, b, ts, e)
        PROVE  \E k : job' = [job EXCEPT ![w] = k] /\ PlanJobOp(k)
    BY <2>1, <2>7 DEF MoveRead, PlanOps
  <2> QED BY <1>1, <2>2, <2>3, <2>4, <2>5, <2>6, <2>7 DEF PlanRead
<1>2. CASE DispatchSchedule(w) \/ DispatchBatch(w)
  <2>1. PICK k : k = job[w]
    OBVIOUS
  <2>2. k.op = "dispatch" /\ DOMAIN k = {"op", "todo", "sched", "b", "stop", "sort"}
    BY <1>2, <2>1 DEF DispatchSchedule, DispatchBatch, Running
  <2>3. PICK j : /\ job' = [job EXCEPT ![w] = j]
                 /\ \/ j = [k EXCEPT !.sched = Len(schedules) + 1, !.b = 0, !.stop = 0]
                    \/ j = [k EXCEPT !.b = Len(batches) + 1, !.stop = @ + 1, !.sort = 0]
    BY <1>2, <2>1 DEF DispatchSchedule, DispatchBatch, Proceed
  <2>4. j.op = "dispatch"
    BY <2>2, <2>3
  <2> QED BY <2>3, <2>4 DEF PlanOps, PlanJobOp
<1>3. ASSUME Finish(w) PROVE \E j : job' = [job EXCEPT ![w] = j] /\ PlanJobOp(j)
  <2>1. PICK j : job' = [job EXCEPT ![w] = j] /\ j = Idle
    BY <1>3 DEF Finish
  <2> QED BY <2>1 DEF PlanJobOp
<1>4. CASE DispatchRow(w)
  <2>1. PICK r, j : /\ job' = [job EXCEPT ![w] = j]
                    /\ j = [op |-> "flag", t |-> recs[r].t, todo |-> job[w].todo \ {r},
                            sched |-> job[w].sched, b |-> job[w].b, stop |-> job[w].stop,
                            sort |-> job[w].sort + 1]
    BY <1>4 DEF DispatchRow, Proceed
  <2>2. j.op = "flag"
    BY <2>1
  <2> QED BY <2>1, <2>2 DEF PlanOps, PlanJobOp
<1>5. CASE DispatchFlag(w)
  <2>1. CASE ~Finish(w)
    <3>1. PICK j : /\ job' = [job EXCEPT ![w] = j]
                   /\ j = [op |-> "dispatch", todo |-> job[w].todo, sched |-> job[w].sched,
                           b |-> job[w].b, stop |-> job[w].stop, sort |-> job[w].sort]
      BY <1>5, <2>1 DEF DispatchFlag, Proceed
    <3>2. j.op = "dispatch"
      BY <3>1
    <3> QED BY <3>1, <3>2 DEF PlanOps, PlanJobOp
  <2> QED BY <1>3, <2>1
<1>6. CASE \/ AssignTicket(w) \/ RemoveTicket(w) \/ DeferTicket(w) \/ Reorder(w) \/ SwapSe(w)
           \/ MoveTickets(w) \/ PlanAbandon(w)
  <2>1. Finish(w)
    BY <1>6 DEF AssignTicket, RemoveTicket, DeferTicket, Reorder, SwapSe, MoveTickets,
                PlanAbandon, Abandon
  <2> QED BY <1>3, <2>1
<1> QED BY <1>1, <1>2, <1>4, <1>5, <1>6 DEF PlanStep, PlanWrite

\* Tickets ts leave batch f for batch b of schedule s and of engineer e.
MovedTo(s, b, ts, f, p, e, sched) ==
    /\ schedules' = FlagSchedule(WithSchedule(s, e), sched)
    /\ batches' = FlagBatch(WithBatch(b, s, p, e, TRUE), f)
    /\ \E order \in Bijection(ts, 1..Cardinality(ts)) :
          row' = [t \in Tickets |->
                    IF t \in ts
                    THEN [batch |-> b, sort |-> NextSort(b) + order[t] - 1]
                    ELSE row[t]]

-----------------------------------------------------------------------------
(* Types, executions overlapping or not                                   *)

\* Rows of a batch there is, batches of a schedule there is.
BatchRowsOK(bs, n) ==
    /\ bs \in Seq(BatchType) /\ Len(bs) <= MaxBatches
    /\ \A b \in DOMAIN bs : bs[b].sched \in 1..n

TablesOK ==
    /\ PlanTypeOK
    /\ \A t \in Tickets : row[t].batch \in 0..Len(batches) /\ (Planned(t) => rows[t] # 0)
    /\ BatchRowsOK(batches, Len(schedules))

\* The rows an execution holds the ids of stay: nothing is deleted.
RowsKnown(j) == j.b \in DOMAIN batches /\ j.sched \in DOMAIN schedules

HandKnown(j) ==
    /\ j.todo \subseteq DOMAIN recs
    /\ j.sched \in 0..Len(schedules) /\ j.b \in 0..Len(batches)
    /\ j.stop \in 0..Len(batches)
    /\ j.sort \in Nat /\ j.sort + Cardinality(j.todo) <= MaxRecs

PlanJobTyped(j) ==
    /\ j.op \in PlanOps \ {"idle"} => j \in PlanJob
    /\ j.op \in {"remove", "defer", "reorder", "swap", "move"} => RowsKnown(j)
    /\ j.op \in {"dispatch", "flag"} => HandKnown(j)

PlanTyped ==
    /\ TablesOK
    /\ DOMAIN job = Workers
    /\ \A w \in Workers : PlanJobTyped(job[w])

TablesGrow ==
    /\ Len(batches) <= Len(batches)' /\ Len(schedules) <= Len(schedules)'
    /\ Len(recs) <= Len(recs)'

LEMMA TablesAre ==
    ASSUME TablesOK
    PROVE  /\ MaxSchedules \in Nat /\ MaxBatches \in Nat /\ MaxRows \in Nat /\ MaxRecs \in Nat
           /\ batches \in Seq(BatchType) /\ batches \in Seq(BatchKind)
           /\ DOMAIN batches = 1..Len(batches) /\ Len(batches) \in 0..MaxBatches
           /\ schedules \in Seq(ScheduleKind)
           /\ DOMAIN schedules = 1..Len(schedules) /\ Len(schedules) \in 0..MaxSchedules
           /\ recs \in Seq([t : Tickets, se : Engineers])
           /\ DOMAIN recs = 1..Len(recs) /\ Len(recs) \in 0..MaxRecs
           /\ row \in [Tickets -> RowType] /\ row \in [Tickets -> [batch : Nat, sort : Nat]]
           /\ rows \in [Tickets -> 0..MaxRows] /\ assigned \in [Tickets -> BOOLEAN]
<1>1. BatchType \subseteq BatchKind
  <2> SUFFICES ASSUME NEW r \in BatchType PROVE r \in BatchKind
    OBVIOUS
  <2>1. r.sched \in Nat
    BY DEF BatchType
  <2> QED BY <2>1 DEF BatchType, BatchKind
<1>2. batches \in Seq(BatchType) /\ batches \in Seq(BatchKind)
  <2>1. batches \in Seq(BatchType)
    BY DEF TablesOK, PlanTypeOK
  <2> QED BY <1>1, <2>1
<1>3. row \in [Tickets -> RowType]
  BY DEF TablesOK, PlanTypeOK
<1>4. row \in [Tickets -> [batch : Nat, sort : Nat]]
  <2>1. RowType \subseteq [batch : Nat, sort : Nat]
    BY PlanAssumption DEF RowType
  <2> QED BY <1>3, <2>1
<1> QED BY <1>2, <1>3, <1>4, PlanAssumption DEF TablesOK, PlanTypeOK, ScheduleKind

\* A job stays typed while the tables only grow.
LEMMA JobStaysTyped ==
    ASSUME TablesOK, TablesOK', TablesGrow, NEW j, PlanJobTyped(j)
    PROVE  PlanJobTyped(j)'
<1>1. /\ DOMAIN batches = 1..Len(batches) /\ DOMAIN batches' = 1..Len(batches')
      /\ DOMAIN schedules = 1..Len(schedules) /\ DOMAIN schedules' = 1..Len(schedules')
      /\ DOMAIN recs = 1..Len(recs) /\ DOMAIN recs' = 1..Len(recs')
      /\ Len(batches) \in Nat /\ Len(batches') \in Nat /\ Len(schedules) \in Nat
      /\ Len(schedules') \in Nat /\ Len(recs) \in Nat /\ Len(recs') \in Nat
  BY DEF TablesOK, PlanTypeOK
<1>2. RowsKnown(j) => RowsKnown(j)'
  BY <1>1 DEF RowsKnown, TablesGrow
<1>3. HandKnown(j) => HandKnown(j)'
  <2>1. j.todo \subseteq DOMAIN recs => j.todo \subseteq DOMAIN recs'
    BY <1>1 DEF TablesGrow
  <2>2. /\ j.sched \in 0..Len(schedules) => j.sched \in 0..Len(schedules')
        /\ j.b \in 0..Len(batches) => j.b \in 0..Len(batches')
        /\ j.stop \in 0..Len(batches) => j.stop \in 0..Len(batches')
    BY <1>1 DEF TablesGrow
  <2> QED BY <2>1, <2>2 DEF HandKnown
<1> QED BY <1>2, <1>3 DEF PlanJobTyped

LEMMA TypedSuffices ==
    ASSUME PlanTyped, NEW w \in Workers, NEW j, job' = [job EXCEPT ![w] = j],
           TablesOK', TablesGrow, PlanJobTyped(j)'
    PROVE  PlanTyped'
<1>1. DOMAIN job' = Workers /\ \A v \in Workers : job'[v] = IF v = w THEN j ELSE job[v]
  BY DEF PlanTyped
<1>2. ASSUME NEW v \in Workers PROVE PlanJobTyped(job[v])'
  <2>1. PICK k : k = job'[v]
    OBVIOUS
  <2>2. PlanJobTyped(k)'
    <3>1. CASE v = w
      BY <1>1, <2>1, <3>1
    <3>2. CASE v # w
      <4>1. PlanJobTyped(k)
        BY <1>1, <2>1, <3>2 DEF PlanTyped
      <4> QED BY <4>1, JobStaysTyped DEF PlanTyped
    <3> QED BY <3>1, <3>2
  <2> QED BY <2>1, <2>2 DEF PlanJobTyped, RowsKnown, HandKnown
<1> QED BY <1>1, <1>2 DEF PlanTyped

LEMMA IdleTyped == ASSUME NEW j, j = Idle PROVE PlanJobTyped(j)'
<1>1. j.op = "idle"
  BY DEF Idle
<1> QED BY <1>1 DEF PlanJobTyped

LEMMA FinishTyped ==
    ASSUME PlanTyped, NEW w \in Workers, Finish(w), TablesOK', TablesGrow
    PROVE  PlanTyped'
  BY IdleTyped, TypedSuffices DEF Finish

\* A read leaves the tables.
LEMMA ReadTyped ==
    ASSUME PlanTyped, UNCHANGED plan, NEW w \in Workers, NEW j, job' = [job EXCEPT ![w] = j],
           PlanJobTyped(j)
    PROVE  PlanTyped'
<1>1. TablesOK'
  BY DEF PlanTyped, TablesOK, PlanTypeOK, plan, Planned, BatchRowsOK
<1>2. TablesGrow
  BY TablesAre DEF TablesGrow, plan, PlanTyped
<1> QED BY <1>1, <1>2, JobStaysTyped, TypedSuffices DEF PlanTyped

LEMMA PlanTypedInit == PlanInit /\ job = [w \in Workers |-> Idle] => PlanTyped
<1> SUFFICES ASSUME PlanInit, job = [w \in Workers |-> Idle] PROVE PlanTyped
  OBVIOUS
<1>1. TablesOK
  BY PlanAssumption
     DEF PlanInit, TablesOK, PlanTypeOK, BatchRowsOK, NoRow, RowType, Planned
<1>2. \A w \in Workers : job[w].op = "idle"
  BY DEF Idle
<1> QED BY <1>1, <1>2 DEF PlanTyped, PlanJobTyped

-----------------------------------------------------------------------------
(* The helpers return rows of their types                                 *)

Put(bs, b, r) == [bs EXCEPT ![b] = r]

LEMMA BatchReplaced ==
    ASSUME NEW n \in Nat, NEW m \in Nat, n <= m, NEW bs, BatchRowsOK(bs, n), NEW b \in DOMAIN bs,
           NEW r \in BatchType, r.sched \in 1..m
    PROVE  BatchRowsOK(Put(bs, b, r), m) /\ Len(Put(bs, b, r)) = Len(bs)
<1>0. PICK cs : cs = Put(bs, b, r)
  OBVIOUS
<1>1. cs = [bs EXCEPT ![b] = r]
  BY <1>0 DEF Put
<1>2. bs \in Seq(BatchType) /\ Len(bs) <= MaxBatches
  BY DEF BatchRowsOK
<1>3. cs \in Seq(BatchType) /\ Len(cs) = Len(bs) /\ DOMAIN cs = DOMAIN bs
  BY <1>1, <1>2
<1>4. \A c \in DOMAIN bs : cs[c].sched \in 1..m
  <2>1. \A c \in DOMAIN bs : bs[c].sched \in 1..n
    BY DEF BatchRowsOK
  <2>2. \A c \in DOMAIN bs : bs[c].sched \in 1..m
    BY <2>1
  <2> QED BY <1>1, <2>2
<1> QED BY <1>0, <1>2, <1>3, <1>4 DEF BatchRowsOK

LEMMA FlagBatchTyped ==
    ASSUME NEW n \in Nat, NEW bs, BatchRowsOK(bs, n), NEW b \in DOMAIN bs
    PROVE  BatchRowsOK(FlagBatch(bs, b), n) /\ Len(FlagBatch(bs, b)) = Len(bs)
<1>1. bs[b] \in BatchType /\ bs[b].sched \in 1..n
  BY DEF BatchRowsOK
<1>2. PICK r : r = [bs[b] EXCEPT !.overridden = TRUE]
  OBVIOUS
<1>3. r \in BatchType /\ r.sched = bs[b].sched
  BY <1>1, <1>2 DEF BatchType
<1>4. FlagBatch(bs, b) = Put(bs, b, r)
  BY <1>2 DEF FlagBatch, Put
<1>5. n <= n /\ r.sched \in 1..n
  BY <1>1, <1>3
<1> QED BY <1>3, <1>4, <1>5, BatchReplaced

LEMMA FlagScheduleTyped ==
    ASSUME NEW ss \in Seq(ScheduleKind), NEW s \in DOMAIN ss
    PROVE  FlagSchedule(ss, s) \in Seq(ScheduleKind) /\ Len(FlagSchedule(ss, s)) = Len(ss)
<1>1. ss[s] \in ScheduleKind
  OBVIOUS
<1>2. PICK r : r = [ss[s] EXCEPT !.status = "OVERRIDDEN"]
  OBVIOUS
<1>3. r \in ScheduleKind
  BY <1>1, <1>2 DEF ScheduleKind, Status
<1>4. FlagSchedule(ss, s) = [ss EXCEPT ![s] = r]
  BY <1>2 DEF FlagSchedule
<1> QED BY <1>3, <1>4

LEMMA RenumberedTyped ==
    ASSUME NEW n \in Nat, NEW bs, BatchRowsOK(bs, n), NEW P, \A c \in DOMAIN P : P[c] \in Nat
    PROVE  BatchRowsOK(Renumbered(bs, P), n) /\ Len(Renumbered(bs, P)) = Len(bs)
<1>1. PICK cs : cs = Renumbered(bs, P)
  OBVIOUS
<1>2. cs = [c \in DOMAIN bs |-> IF c \in DOMAIN P THEN [bs[c] EXCEPT !.stop = P[c]] ELSE bs[c]]
  BY <1>1 DEF Renumbered
<1>3. ASSUME NEW c \in DOMAIN bs PROVE cs[c] \in BatchType /\ cs[c].sched \in 1..n
  <2>1. bs[c] \in BatchType /\ bs[c].sched \in 1..n
    BY DEF BatchRowsOK
  <2>2. CASE c \in DOMAIN P
    <3>1. cs[c] = [bs[c] EXCEPT !.stop = P[c]] /\ P[c] \in Nat
      BY <1>2, <2>2
    <3> QED BY <2>1, <3>1 DEF BatchType
  <2>3. CASE c \notin DOMAIN P
    BY <1>2, <2>1, <2>3
  <2> QED BY <2>2, <2>3
<1>4. DOMAIN bs = 1..Len(bs) /\ Len(bs) \in Nat
  BY DEF BatchRowsOK
<1>5. cs \in Seq(BatchType) /\ Len(cs) = Len(bs) /\ DOMAIN cs = DOMAIN bs
  BY <1>2, <1>3, <1>4
<1> QED BY <1>1, <1>3, <1>5 DEF BatchRowsOK
\* ensureSchedule leaves room for one more than there are, at most.
LEMMA ScheduleMadeTyped ==
    ASSUME TablesOK, NEW e \in Engineers, NEW s \in ScheduleFor(e), s <= MaxSchedules,
           NEW ss, ss = WithSchedule(s, e)
    PROVE  /\ ss \in Seq(ScheduleKind) /\ s \in DOMAIN ss
           /\ Len(ss) \in Len(schedules)..MaxSchedules
           /\ s \in 1..Len(ss) /\ DOMAIN ss = 1..Len(ss)
<1>1. /\ schedules \in Seq(ScheduleKind) /\ DOMAIN schedules = 1..Len(schedules)
      /\ Len(schedules) \in 0..MaxSchedules /\ MaxSchedules \in Nat
  BY TablesAre
<1>2. s \in DOMAIN schedules \/ s = Len(schedules) + 1
  BY DEF ScheduleFor
<1>3. CASE s \in DOMAIN schedules
  BY <1>1, <1>3 DEF WithSchedule
<1>4. CASE s = Len(schedules) + 1
  <2>1. PICK r \in ScheduleKind : r = [se |-> e, status |-> "ACTIVE"]
    BY DEF ScheduleKind, Status
  <2>2. s \notin DOMAIN schedules
    BY <1>1, <1>4
  <2>3. ss = Append(schedules, r)
    BY <2>1, <2>2 DEF WithSchedule
  <2> QED BY <1>1, <1>4, <2>3
<1> QED BY <1>2, <1>3, <1>4

LEMMA AppendTyped ==
    ASSUME TablesOK, NEW r \in BatchType, NEW n \in Nat, Len(schedules) <= n, r.sched \in 1..n,
           Len(batches) < MaxBatches
    PROVE  /\ BatchRowsOK(Append(batches, r), n)
           /\ Len(Append(batches, r)) = Len(batches) + 1
<1>1. /\ batches \in Seq(BatchType) /\ DOMAIN batches = 1..Len(batches)
      /\ Len(batches) \in 0..MaxBatches /\ MaxBatches \in Nat
      /\ Len(schedules) \in Nat
  BY TablesAre
<1>2. PICK bs : bs = Append(batches, r)
  OBVIOUS
<1>3. /\ bs \in Seq(BatchType) /\ Len(bs) = Len(batches) + 1
      /\ \A b \in DOMAIN bs : bs[b] = r \/ (b \in DOMAIN batches /\ bs[b] = batches[b])
  BY <1>1, <1>2
<1>4. \A b \in DOMAIN batches : batches[b].sched \in 1..n
  BY <1>1 DEF TablesOK, BatchRowsOK
<1> QED BY <1>1, <1>2, <1>3, <1>4 DEF BatchRowsOK

LEMMA BatchMadeTyped ==
    ASSUME TablesOK, NEW n \in 1..MaxSchedules, Len(schedules) <= n, NEW s \in 1..n,
           NEW p \in Plants, NEW e \in Engineers, NEW o \in BOOLEAN,
           NEW b \in BatchFor(s, p, e), b <= MaxBatches, NEW bs, bs = WithBatch(b, s, p, e, o)
    PROVE  /\ BatchRowsOK(bs, n) /\ Len(batches) <= Len(bs) /\ Len(bs) <= MaxBatches
           /\ b \in DOMAIN bs /\ b \in 1..Len(bs) /\ DOMAIN bs = 1..Len(bs)
<1>1. /\ batches \in Seq(BatchType) /\ batches \in Seq(BatchKind)
      /\ DOMAIN batches = 1..Len(batches) /\ Len(batches) \in 0..MaxBatches
      /\ MaxBatches \in Nat /\ MaxSchedules \in Nat /\ Len(schedules) \in Nat
  BY TablesAre
<1>2. b \in DOMAIN batches \/ b = Len(batches) + 1
  BY DEF BatchFor, BatchesOf
<1>3. CASE b \in DOMAIN batches
  <2>1. bs = batches
    BY <1>3 DEF WithBatch
  <2> QED BY <1>1, <1>3, <2>1 DEF TablesOK, BatchRowsOK
<1>4. CASE b = Len(batches) + 1
  <2>1. NextStop(s) \in Nat
    BY <1>1, NextStopFree
  <2>2. PICK r : r = [sched |-> s, plant |-> p, se |-> e, overridden |-> o, stop |-> NextStop(s)]
    OBVIOUS
  <2>3. r \in BatchType /\ r.sched = s
    BY <1>1, <2>1, <2>2 DEF BatchType
  <2>4. b \notin DOMAIN batches
    BY <1>1, <1>4
  <2>5. bs = Append(batches, r)
    BY <2>2, <2>4 DEF WithBatch
  <2>8. n \in Nat /\ r.sched \in 1..n /\ Len(batches) < MaxBatches
    BY <1>1, <1>4, <2>3
  <2>6. BatchRowsOK(bs, n) /\ Len(bs) = Len(batches) + 1
    BY <2>3, <2>5, <2>8, AppendTyped
  <2>7. DOMAIN bs = 1..Len(bs)
    BY <2>6 DEF BatchRowsOK
  <2> QED BY <1>1, <1>4, <2>6, <2>7
<1> QED BY <1>2, <1>3, <1>4

LEMMA IndicesCounted == ASSUME NEW n \in Nat
                        PROVE  IsFiniteSet(1..n) /\ Cardinality(1..n) = n
  BY FS_Interval

\* A position computed for a batch of schedule s, where there are as many as it has batches.
LEMMA PositionsTyped ==
    ASSUME NEW n \in Nat, NEW bs, BatchRowsOK(bs, n), NEW s, NEW b \in DOMAIN bs,
           NEW pos \in Nat
    PROVE  LET P == Positions(bs, s, b, pos)
               all == {c \in DOMAIN bs : bs[c].sched = s}
           IN  /\ DOMAIN P \subseteq DOMAIN bs
               /\ \A c \in DOMAIN P : P[c] \in Nat
               /\ b \in all /\ pos # 0 /\ pos <= Cardinality(all) =>
                     \A c \in DOMAIN P : P[c] \in 1..MaxBatches
<1> DEFINE P == Positions(bs, s, b, pos)
           all == {c \in DOMAIN bs : bs[c].sched = s}
           others == all \ {b}
           before(c) == {d \in others : bs[d].stop < bs[c].stop}
           n1(c) == Cardinality(before(c))
<1>1. /\ DOMAIN P = others \cup {b}
      /\ P[b] = pos
      /\ \A c \in others : P[c] = IF n1(c) + 1 < pos THEN n1(c) + 1 ELSE n1(c) + 2
  BY DEF Positions
<1>2. /\ DOMAIN bs = 1..Len(bs) /\ Len(bs) \in Nat /\ Len(bs) <= MaxBatches
      /\ \A c \in DOMAIN bs : bs[c].stop \in Nat
  <2>1. \A c \in DOMAIN bs : bs[c] \in BatchType
    BY DEF BatchRowsOK
  <2> QED BY <2>1 DEF BatchRowsOK, BatchType
<1>3. IsFiniteSet(DOMAIN bs) /\ Cardinality(DOMAIN bs) = Len(bs)
  BY <1>2, IndicesCounted
<1>4. /\ IsFiniteSet(all) /\ Cardinality(all) \in Nat /\ Cardinality(all) <= Len(bs)
  BY <1>2, <1>3, FS_Subset, FS_CardinalityType
<1>5. IsFiniteSet(others) /\ (b \in all => Cardinality(others) = Cardinality(all) - 1)
  BY <1>4, FS_RemoveElement
<1>6. ASSUME NEW c \in others
      PROVE  n1(c) \in Nat /\ (b \in all => n1(c) + 2 <= Cardinality(all))
  <2>1. before(c) \subseteq others \ {c}
    BY <1>2
  <2>2. IsFiniteSet(others \ {c}) /\ Cardinality(others \ {c}) = Cardinality(others) - 1
    BY <1>5, FS_RemoveElement
  <2>3. IsFiniteSet(before(c)) /\ n1(c) <= Cardinality(others \ {c})
    BY <2>1, <2>2, FS_Subset
  <2>4. n1(c) \in Nat
    BY <2>3, FS_CardinalityType
  <2> QED BY <1>4, <1>5, <2>2, <2>3, <2>4
<1>7. MaxBatches \in Nat
  BY PlanAssumption
<1>8. DOMAIN P \subseteq DOMAIN bs
  BY <1>1
<1> HIDE DEF before, n1, others, all, P
<1>9. ASSUME NEW c \in others PROVE P[c] \in Nat
  <2>1. n1(c) \in Nat
    BY <1>6
  <2>2. P[c] \in {n1(c) + 1, n1(c) + 2}
    BY <1>1
  <2> QED BY <2>1, <2>2
<1>10. ASSUME b \in all, pos # 0, pos <= Cardinality(all), NEW c \in others
       PROVE  P[c] \in 1..MaxBatches
  <2>1. n1(c) \in Nat /\ n1(c) + 2 <= MaxBatches
    BY <1>2, <1>4, <1>6, <1>7, <1>10
  <2>2. P[c] \in {n1(c) + 1, n1(c) + 2}
    BY <1>1
  <2> QED BY <1>7, <2>1, <2>2
<1>11. pos # 0 /\ pos <= Cardinality(all) => pos \in 1..MaxBatches
  BY <1>2, <1>4, <1>7
<1>12. \A c \in DOMAIN P : P[c] \in Nat
  BY <1>1, <1>9
<1>13. b \in all /\ pos # 0 /\ pos <= Cardinality(all) =>
          \A c \in DOMAIN P : P[c] \in 1..MaxBatches
  BY <1>1, <1>10, <1>11
<1> QED BY <1>8, <1>12, <1>13 DEF P, all

-----------------------------------------------------------------------------
(* The reads                                                              *)

LEMMA PlanReadTyped ==
    ASSUME PlanTyped, NEW w \in Workers, PlanRead(w)
    PROVE  PlanTyped'
<1> USE TablesAre DEF PlanTyped, RowsKnown
<1>1. UNCHANGED plan
  BY DEF PlanRead, DispatchRead, RowRead, AssignRead, ReorderRead, SwapRead, MoveRead
<1>2. ASSUME DispatchRead(w) PROVE PlanTyped'
  <2>1. PICK j : /\ job' = [job EXCEPT ![w] = j]
                 /\ j = [op |-> "dispatch", todo |-> DOMAIN recs, sched |-> 0, b |-> 0,
                         stop |-> 0, sort |-> 0]
    BY <1>2 DEF DispatchRead, Begin
  <2>2. Cardinality(DOMAIN recs) = Len(recs)
    BY IndicesCounted
  <2>3. j \in PlanJob
    <3>1. DOMAIN recs \in SUBSET (1..MaxRecs)
      OBVIOUS
    <3> QED BY <2>1, <3>1 DEF PlanJob
  <2>4. HandKnown(j)
    BY <2>1, <2>2 DEF HandKnown
  <2>5. PlanJobTyped(j)
    BY <2>1, <2>3, <2>4 DEF PlanJobTyped
  <2> QED BY <1>1, <2>1, <2>5, ReadTyped
<1>3. ASSUME NEW op \in {"remove", "defer"}, NEW t \in Tickets, RowRead(w, op, t) PROVE PlanTyped'
  <2>1. PICK j : /\ job' = [job EXCEPT ![w] = j]
                 /\ j = [op |-> op, t |-> t, id |-> rows[t], b |-> row[t].batch,
                         sched |-> batches[row[t].batch].sched]
    BY <1>3 DEF RowRead, Begin
  <2>2. /\ row[t].batch \in 1..Len(batches) /\ rows[t] \in 1..MaxRows
        /\ batches[row[t].batch].sched \in 1..Len(schedules)
    BY <1>3 DEF RowRead, TablesOK, Planned, BatchRowsOK
  <2>3. j \in PlanJob
    <3>1. row[t].batch \in 1..MaxBatches /\ batches[row[t].batch].sched \in 1..MaxSchedules
      BY <2>2
    <3> QED BY <2>1, <2>2, <3>1 DEF PlanJob
  <2>4. RowsKnown(j)
    BY <2>1, <2>2
  <2>5. PlanJobTyped(j)
    BY <2>1, <2>3, <2>4 DEF PlanJobTyped
  <2> QED BY <1>1, <2>1, <2>5, ReadTyped
<1>4. ASSUME NEW t \in Tickets, NEW e \in Engineers, AssignRead(w, t, e, FALSE) PROVE PlanTyped'
  <2>1. PICK j : /\ job' = [job EXCEPT ![w] = j]
                 /\ j = [op |-> "assign", t |-> t, se |-> e, top |-> FALSE]
    BY <1>4 DEF AssignRead, Begin
  <2>2. j \in PlanJob
    BY <2>1 DEF PlanJob
  <2>3. PlanJobTyped(j)
    BY <2>1, <2>2 DEF PlanJobTyped
  <2> QED BY <1>1, <2>1, <2>3, ReadTyped
<1>5. ASSUME NEW b \in DOMAIN batches PROVE /\ b \in 1..MaxBatches
                                            /\ batches[b].sched \in 1..MaxSchedules
                                            /\ batches[b].sched \in DOMAIN schedules
  <2>1. batches[b].sched \in 1..Len(schedules)
    BY <1>5 DEF TablesOK, BatchRowsOK
  <2> QED BY <1>5, <2>1
<1>6. ASSUME NEW b \in DOMAIN batches, NEW stop \in 1..MaxBatches, ReorderRead(w, b, stop)
      PROVE  PlanTyped'
  <2>1. PICK s : s = batches[b].sched
    OBVIOUS
  <2>2. PICK pos : pos = Min({stop, Cardinality(BatchesOf(s))})
    OBVIOUS
  <2>3. PICK P : P = Positions(batches, s, b, pos)
    OBVIOUS
  <2>4. PICK j : /\ job' = [job EXCEPT ![w] = j]
                 /\ j = [op |-> "reorder", b |-> b, sched |-> s, stops |-> P]
    BY <1>6, <2>1, <2>2, <2>3 DEF ReorderRead, Begin
  <2>5. Cardinality(BatchesOf(s)) \in Nat /\ Cardinality(BatchesOf(s)) # 0
    <3>1. IsFiniteSet(DOMAIN batches) /\ BatchesOf(s) \subseteq DOMAIN batches
      BY IndicesCounted DEF BatchesOf
    <3>2. IsFiniteSet(BatchesOf(s)) /\ b \in BatchesOf(s)
      BY <2>1, <3>1, FS_Subset DEF BatchesOf
    <3>3. BatchesOf(s) # {}
      BY <3>2
    <3> QED BY <3>2, <3>3, FS_CardinalityType, FS_EmptySet
  <2>6. pos \in Nat /\ pos # 0 /\ pos <= Cardinality(BatchesOf(s))
    <3>1. PICK m : m = Cardinality(BatchesOf(s))
      OBVIOUS
    <3>2. m \in Nat /\ m # 0 /\ stop \in Nat /\ stop # 0 /\ pos = Min({stop, m})
      BY <2>2, <2>5, <3>1
    <3>3. PICK x \in {stop, m} : \A y \in {stop, m} : x <= y
      BY <3>2
    <3>4. pos \in {stop, m} /\ \A y \in {stop, m} : pos <= y
      BY <3>2, <3>3 DEF Min
    <3> QED BY <3>1, <3>2, <3>4
  <2>7. BatchRowsOK(batches, Len(schedules)) /\ Len(schedules) \in Nat
    BY DEF TablesOK
  <2>8. DOMAIN P \subseteq DOMAIN batches /\ \A c \in DOMAIN P : P[c] \in 1..MaxBatches
    <3>1. /\ DOMAIN P \subseteq DOMAIN batches
          /\ b \in BatchesOf(s) /\ pos # 0 /\ pos <= Cardinality(BatchesOf(s)) =>
                \A c \in DOMAIN P : P[c] \in 1..MaxBatches
      BY <2>3, <2>6, <2>7, PositionsTyped DEF BatchesOf
    <3> QED BY <2>1, <2>6, <3>1 DEF BatchesOf
  <2>9. P \in UNION {[bs -> 1..MaxBatches] : bs \in SUBSET (1..MaxBatches)}
    <3>1. P = [c \in DOMAIN P |-> P[c]]
      BY <2>3 DEF Positions
    <3>2. P \in [DOMAIN P -> 1..MaxBatches] /\ DOMAIN P \in SUBSET (1..MaxBatches)
      BY <2>8, <3>1
    <3> QED BY <3>2
  <2>10. j \in PlanJob
    BY <1>5, <2>1, <2>4, <2>9 DEF PlanJob
  <2>11. PlanJobTyped(j)
    BY <1>5, <2>1, <2>4, <2>10 DEF PlanJobTyped
  <2> QED BY <1>1, <2>4, <2>11, ReadTyped
<1>7. ASSUME NEW b \in DOMAIN batches, NEW e \in Engineers, SwapRead(w, b, e) PROVE PlanTyped'
  <2>1. PICK j : /\ job' = [job EXCEPT ![w] = j]
                 /\ j = [op |-> "swap", b |-> b, sched |-> batches[b].sched, se |-> e]
    BY <1>7 DEF SwapRead, Begin
  <2>2. j \in PlanJob
    BY <1>5, <2>1 DEF PlanJob
  <2>3. PlanJobTyped(j)
    BY <1>5, <2>1, <2>2 DEF PlanJobTyped
  <2> QED BY <1>1, <2>1, <2>3, ReadTyped
<1>8. ASSUME NEW b \in DOMAIN batches, NEW e \in Engineers, NEW ts \in SUBSET Tickets,
             MoveRead(w, b, ts, e)
      PROVE  PlanTyped'
  <2>1. PICK ids : ids = [t \in ts |-> rows[t]]
    OBVIOUS
  <2>2. PICK j : /\ job' = [job EXCEPT ![w] = j]
                 /\ j = [op |-> "move", ids |-> ids, b |-> b, sched |-> batches[b].sched,
                         se |-> e]
    BY <1>8, <2>1 DEF MoveRead, Begin
  <2>3. \A t \in ts : rows[t] \in 1..MaxRows
    <3> SUFFICES ASSUME NEW t \in ts PROVE rows[t] \in 1..MaxRows
      OBVIOUS
    <3>1. t \in Tickets /\ row[t].batch = b /\ b # 0
      BY <1>8 DEF MoveRead, ActiveRowsOf
    <3>2. rows[t] # 0
      BY <3>1 DEF TablesOK, Planned
    <3> QED BY <3>1, <3>2
  <2>4. ids \in [ts -> 1..MaxRows]
    BY <2>1, <2>3
  <2>5. j \in PlanJob
    BY <1>5, <2>2, <2>4 DEF PlanJob
  <2>6. PlanJobTyped(j)
    BY <1>5, <2>2, <2>5 DEF PlanJobTyped
  <2> QED BY <1>1, <2>2, <2>6, ReadTyped
<1> QED BY <1>2, <1>3, <1>4, <1>6, <1>7, <1>8 DEF PlanRead

-----------------------------------------------------------------------------
(* The writes                                                             *)

\* Batches and schedules as some override leaves them, the rows as they were.
LEMMA BatchesWrittenTyped ==
    ASSUME TablesOK, UNCHANGED <<rows, recs>>,
           assigned' \in [Tickets -> BOOLEAN],
           \A t \in Tickets : row'[t] = row[t] \/ row'[t] = NoRow,
           row' = [t \in Tickets |-> row'[t]],
           schedules' \in Seq(ScheduleKind), Len(schedules') \in Len(schedules)..MaxSchedules,
           BatchRowsOK(batches', Len(schedules')), Len(batches) <= Len(batches')
    PROVE  TablesOK' /\ TablesGrow
<1> USE TablesAre
<1>1. \A t \in Tickets : row'[t] \in RowType /\ row'[t].batch \in 0..Len(batches')
                         /\ (row'[t].batch # 0 => rows'[t] # 0)
  <2> SUFFICES ASSUME NEW t \in Tickets
               PROVE  row'[t] \in RowType /\ row'[t].batch \in 0..Len(batches')
                      /\ (row'[t].batch # 0 => rows'[t] # 0)
    OBVIOUS
  <2>1. Len(batches') \in Nat
    BY DEF BatchRowsOK
  <2>2. CASE row'[t] = NoRow
    BY <2>1, <2>2 DEF NoRow, RowType
  <2>3. CASE row'[t] = row[t]
    <3>1. row[t] \in RowType /\ row[t].batch \in 0..Len(batches)
          /\ (row[t].batch # 0 => rows[t] # 0)
      BY DEF TablesOK, Planned
    <3> QED BY <2>1, <2>3, <3>1
  <2> QED BY <2>2, <2>3
<1>2. row' \in [Tickets -> RowType]
  BY <1>1
<1>3. PlanTypeOK'
  BY <1>2 DEF PlanTypeOK, TablesOK, BatchRowsOK, ScheduleKind
<1>4. TablesOK'
  BY <1>1, <1>3 DEF TablesOK, Planned
<1> QED BY <1>4 DEF TablesGrow

LEMMA RemoveTicketTyped ==
    ASSUME PlanTyped, NEW w \in Workers, RemoveTicket(w) PROVE PlanTyped'
<1> USE TablesAre DEF PlanTyped
<1>1. PICK j : j = job[w] /\ j.op = "remove"
  BY DEF RemoveTicket, Running
<1>2. RowsKnown(j) /\ j.t \in Tickets
  <2>1. PlanJobTyped(j)
    BY <1>1
  <2>2. j \in PlanJob
    BY <1>1, <2>1 DEF PlanJobTyped, PlanOps
  <2> QED BY <1>1, <2>1, <2>2 DEF PlanJobTyped, PlanJob
<1>3. /\ assigned' = [assigned EXCEPT ![j.t] = FALSE]
      /\ row' = row \/ row' = [row EXCEPT ![j.t] = NoRow]
      /\ batches' = FlagBatch(batches, j.b) /\ schedules' = FlagSchedule(schedules, j.sched)
      /\ UNCHANGED <<rows, recs>> /\ Finish(w)
  BY <1>1 DEF RemoveTicket
<1>4. schedules' \in Seq(ScheduleKind) /\ Len(schedules') = Len(schedules)
  BY <1>2, <1>3, FlagScheduleTyped DEF RowsKnown
<1>5. BatchRowsOK(batches', Len(schedules)) /\ Len(batches') = Len(batches)
  BY <1>2, <1>3, FlagBatchTyped DEF RowsKnown, TablesOK
<1>6. /\ \A t \in Tickets : row'[t] = row[t] \/ row'[t] = NoRow
      /\ row' = [t \in Tickets |-> row'[t]]
  BY <1>3
<1>7. assigned' \in [Tickets -> BOOLEAN]
  BY <1>3
<1>8. TablesOK' /\ TablesGrow
  BY <1>3, <1>4, <1>5, <1>6, <1>7, BatchesWrittenTyped
<1> QED BY <1>3, <1>8, FinishTyped

LEMMA DeferTicketTyped ==
    ASSUME PlanTyped, NEW w \in Workers, DeferTicket(w) PROVE PlanTyped'
<1> USE TablesAre DEF PlanTyped
<1>1. PICK j : j = job[w] /\ j.op = "defer"
  BY DEF DeferTicket, Running
<1>2. RowsKnown(j)
  BY <1>1 DEF PlanJobTyped
<1>3. /\ batches' = FlagBatch(batches, j.b) /\ schedules' = FlagSchedule(schedules, j.sched)
      /\ UNCHANGED <<assigned, row, rows, recs>> /\ Finish(w)
  BY <1>1 DEF DeferTicket
<1>4. schedules' \in Seq(ScheduleKind) /\ Len(schedules') = Len(schedules)
  BY <1>2, <1>3, FlagScheduleTyped DEF RowsKnown
<1>5. BatchRowsOK(batches', Len(schedules)) /\ Len(batches') = Len(batches)
  BY <1>2, <1>3, FlagBatchTyped DEF RowsKnown, TablesOK
<1>6. TablesOK' /\ TablesGrow
  BY <1>3, <1>4, <1>5, BatchesWrittenTyped
<1> QED BY <1>3, <1>6, FinishTyped

LEMMA ReorderTyped ==
    ASSUME PlanTyped, NEW w \in Workers, Reorder(w) PROVE PlanTyped'
<1> USE TablesAre DEF PlanTyped
<1>1. PICK j : j = job[w] /\ j.op = "reorder"
  BY DEF Reorder, Running
<1>2. RowsKnown(j) /\ \A c \in DOMAIN j.stops : j.stops[c] \in Nat
  <2>1. PlanJobTyped(j)
    BY <1>1
  <2>2. j \in PlanJob
    BY <1>1, <2>1 DEF PlanJobTyped, PlanOps
  <2>3. j.stops \in UNION {[bs -> 1..MaxBatches] : bs \in SUBSET (1..MaxBatches)}
    BY <1>1, <2>2 DEF PlanJob
  <2>4. \A c \in DOMAIN j.stops : j.stops[c] \in 1..MaxBatches
    BY <2>3
  <2> QED BY <1>1, <2>1, <2>4 DEF PlanJobTyped
<1>3. PICK cs : cs = Renumbered(batches, j.stops)
  OBVIOUS
<1>4. /\ batches' = FlagBatch(cs, j.b) /\ schedules' = FlagSchedule(schedules, j.sched)
      /\ UNCHANGED <<assigned, row, rows, recs>> /\ Finish(w)
  BY <1>1, <1>3 DEF Reorder
<1>5. schedules' \in Seq(ScheduleKind) /\ Len(schedules') = Len(schedules)
  BY <1>2, <1>4, FlagScheduleTyped DEF RowsKnown
<1>6. BatchRowsOK(cs, Len(schedules)) /\ Len(cs) = Len(batches)
  BY <1>2, <1>3, RenumberedTyped DEF TablesOK
<1>7. BatchRowsOK(batches', Len(schedules)) /\ Len(batches') = Len(batches)
  <2>1. j.b \in DOMAIN cs
    BY <1>2, <1>6 DEF RowsKnown, BatchRowsOK
  <2> QED BY <1>4, <1>6, <2>1, FlagBatchTyped
<1>8. TablesOK' /\ TablesGrow
  BY <1>4, <1>5, <1>7, BatchesWrittenTyped
<1> QED BY <1>4, <1>8, FinishTyped

LEMMA SwapSeTyped ==
    ASSUME PlanTyped, NEW w \in Workers, SwapSe(w) PROVE PlanTyped'
<1> USE DEF PlanTyped
<1>1. PICK j : j = job[w] /\ j.op = "swap"
  BY DEF SwapSe, Running
<1>2. RowsKnown(j) /\ j.se \in Engineers
  <2>1. PlanJobTyped(j)
    BY <1>1
  <2>2. j \in PlanJob
    BY <1>1, <2>1 DEF PlanJobTyped, PlanOps
  <2> QED BY <1>1, <2>1, <2>2 DEF PlanJobTyped, PlanJob
<1>3. PICK s \in ScheduleFor(j.se) :
         /\ s <= MaxSchedules
         /\ batches' = [batches EXCEPT ![j.b] =
                           [@ EXCEPT !.sched = s, !.se = j.se, !.overridden = TRUE,
                                     !.stop = NextStop(s)]]
         /\ schedules' = FlagSchedule(WithSchedule(s, j.se), j.sched)
  BY <1>1 DEF SwapSe
<1>4. UNCHANGED <<assigned, row, rows, recs>> /\ Finish(w)
  BY DEF SwapSe
<1>5. PICK ss : ss = WithSchedule(s, j.se)
  OBVIOUS
<1>6. /\ ss \in Seq(ScheduleKind) /\ DOMAIN ss = 1..Len(ss)
      /\ Len(ss) \in Len(schedules)..MaxSchedules /\ s \in 1..Len(ss)
  BY <1>2, <1>3, <1>5, ScheduleMadeTyped
<1>7. schedules' \in Seq(ScheduleKind) /\ Len(schedules') = Len(ss)
  <2>1. j.sched \in DOMAIN ss
    BY <1>2, <1>6, TablesAre DEF RowsKnown
  <2> QED BY <1>3, <1>5, <1>6, <2>1, FlagScheduleTyped
<1>8. PICK r : r = [batches[j.b] EXCEPT !.sched = s, !.se = j.se, !.overridden = TRUE,
                                        !.stop = NextStop(s)]
  OBVIOUS
<1>9. r \in BatchType /\ r.sched = s
  <2>1. NextStop(s) \in Nat
    BY TablesAre, NextStopFree
  <2>2. batches[j.b] \in BatchType /\ s \in 1..MaxSchedules
    BY <1>2, <1>6, TablesAre DEF RowsKnown
  <2> QED BY <1>2, <1>8, <2>1, <2>2 DEF BatchType
<1>10. batches' = Put(batches, j.b, r)
  BY <1>3, <1>8 DEF Put
<1>11. BatchRowsOK(batches', Len(ss)) /\ Len(batches') = Len(batches)
  <2>1. /\ BatchRowsOK(batches, Len(schedules)) /\ j.b \in DOMAIN batches
        /\ Len(schedules) \in Nat /\ Len(ss) \in Nat /\ Len(schedules) <= Len(ss)
        /\ r.sched \in 1..Len(ss)
    BY <1>2, <1>6, <1>9, TablesAre DEF TablesOK, RowsKnown
  <2> QED BY <1>9, <1>10, <2>1, BatchReplaced
<1>12. TablesOK' /\ TablesGrow
  BY <1>4, <1>6, <1>7, <1>11, TablesAre, BatchesWrittenTyped
<1> QED BY <1>4, <1>12, FinishTyped

LEMMA NewRowTyped ==
    ASSUME TablesOK, NEW b \in 1..MaxBatches, NEW n \in Nat
    PROVE  [batch |-> b, sort |-> n] \in RowType
  BY TablesAre DEF RowType

\* A ticket gets a row; batches and schedules may be new and renumbered.
LEMMA RowMadeTyped ==
    ASSUME TablesOK, NEW t \in Tickets, NEW r \in RowType, NEW b \in Nat, r.batch = b,
           b \in 1..Len(batches'), rows[t] < MaxRows,
           row' = [row EXCEPT ![t] = r], rows' = [rows EXCEPT ![t] = @ + 1],
           assigned' \in [Tickets -> BOOLEAN], UNCHANGED recs,
           schedules' \in Seq(ScheduleKind), Len(schedules') \in Len(schedules)..MaxSchedules,
           BatchRowsOK(batches', Len(schedules')), Len(batches) <= Len(batches')
    PROVE  TablesOK' /\ TablesGrow
<1>1. /\ row \in [Tickets -> RowType] /\ rows \in [Tickets -> 0..MaxRows] /\ MaxRows \in Nat
      /\ recs \in Seq([t : Tickets, se : Engineers]) /\ Len(recs) \in 0..MaxRecs
      /\ Len(batches) \in Nat /\ MaxRecs \in Nat /\ Len(schedules) \in Nat /\ MaxSchedules \in Nat
  BY TablesAre
<1>2. Len(batches') \in Nat /\ batches' \in Seq(BatchType) /\ Len(batches') <= MaxBatches
  BY DEF BatchRowsOK
<1>3. row' \in [Tickets -> RowType]
  BY <1>1
<1>4. rows' \in [Tickets -> 0..MaxRows] /\ \A u \in Tickets : rows'[u] = 0 => rows[u] = 0 /\ u # t
  <2>1. rows[t] + 1 \in 1..MaxRows
    BY <1>1
  <2> QED BY <1>1, <2>1
<1>5. PlanTypeOK'
  BY <1>1, <1>2, <1>3, <1>4 DEF PlanTypeOK, ScheduleKind
<1>6. ASSUME NEW u \in Tickets
      PROVE  row'[u].batch \in 0..Len(batches') /\ (row'[u].batch # 0 => rows'[u] # 0)
  <2>1. CASE u = t
    BY <1>1, <1>2, <1>4, <2>1
  <2>2. CASE u # t
    <3>1. row[u].batch \in 0..Len(batches) /\ (row[u].batch # 0 => rows[u] # 0)
      BY DEF TablesOK, Planned
    <3> QED BY <1>1, <1>2, <1>4, <2>2, <3>1
  <2> QED BY <2>1, <2>2
<1>7. TablesOK'
  BY <1>5, <1>6 DEF TablesOK, Planned
<1> QED BY <1>1, <1>7 DEF TablesGrow

LEMMA AssignTxTyped ==
    ASSUME TablesOK, NEW w, NEW t \in Tickets, NEW e \in Engineers, NEW top \in BOOLEAN,
           AssignTicketTx(w, t, e, top)
    PROVE  TablesOK' /\ TablesGrow
<1>1. PICK s \in ScheduleFor(e) : \E b \in BatchFor(s, PlantOf[t], e) :
          /\ s <= MaxSchedules /\ b <= MaxBatches
          /\ schedules' = WithSchedule(s, e)
          /\ LET bs == WithBatch(b, s, PlantOf[t], e, FALSE)
             IN batches' = IF top THEN Renumbered(bs, Positions(bs, s, b, 1)) ELSE bs
          /\ row' = [row EXCEPT ![t] = [batch |-> b, sort |-> NextSort(b)]]
  BY DEF AssignTicketTx
<1>2. PICK b \in BatchFor(s, PlantOf[t], e) :
          /\ s <= MaxSchedules /\ b <= MaxBatches
          /\ schedules' = WithSchedule(s, e)
          /\ LET bs == WithBatch(b, s, PlantOf[t], e, FALSE)
             IN batches' = IF top THEN Renumbered(bs, Positions(bs, s, b, 1)) ELSE bs
          /\ row' = [row EXCEPT ![t] = [batch |-> b, sort |-> NextSort(b)]]
  BY <1>1
<1>3. /\ rows[t] < MaxRows /\ rows' = [rows EXCEPT ![t] = @ + 1]
      /\ assigned' = [assigned EXCEPT ![t] = TRUE] /\ UNCHANGED recs
  BY DEF AssignTicketTx
<1>4. /\ schedules' \in Seq(ScheduleKind) /\ s \in 1..Len(schedules')
      /\ Len(schedules') \in Len(schedules)..MaxSchedules
  BY <1>2, ScheduleMadeTyped
<1>5. /\ MaxSchedules \in Nat /\ MaxBatches \in Nat /\ Len(schedules) \in Nat
      /\ Len(batches) \in Nat /\ PlantOf[t] \in Plants /\ assigned \in [Tickets -> BOOLEAN]
      /\ row \in [Tickets -> [batch : Nat, sort : Nat]]
  BY TablesAre, PlanAssumption
<1>6. PICK n \in 1..MaxSchedules : n = Len(schedules')
  BY <1>4, <1>5
<1>7. PICK bs : bs = WithBatch(b, s, PlantOf[t], e, FALSE)
  OBVIOUS
<1>8. /\ BatchRowsOK(bs, n) /\ Len(batches) <= Len(bs) /\ Len(bs) <= MaxBatches
      /\ b \in DOMAIN bs /\ b \in 1..Len(bs)
  <2>1. b <= MaxBatches /\ FALSE \in BOOLEAN
    BY <1>2
  <2>2. Len(schedules) <= n /\ s \in 1..n
    BY <1>4, <1>5, <1>6
  <2>3. PICK p \in Plants : p = PlantOf[t]
    BY <1>5
  <2>4. b \in BatchFor(s, p, e) /\ bs = WithBatch(b, s, p, e, FALSE)
    BY <1>7, <2>3
  <2> QED BY <2>1, <2>2, <2>4, BatchMadeTyped
<1>9. BatchRowsOK(batches', n) /\ Len(batches') = Len(bs)
  <2>1. CASE top
    <3>1. PICK P : P = Positions(bs, s, b, 1)
      OBVIOUS
    <3>2. n \in Nat /\ 1 \in Nat
      OBVIOUS
    <3>3. \A c \in DOMAIN P : P[c] \in Nat
      BY <1>8, <3>1, <3>2, PositionsTyped
    <3>4. batches' = Renumbered(bs, P)
      BY <1>2, <1>7, <2>1, <3>1
    <3> QED BY <1>8, <3>2, <3>3, <3>4, RenumberedTyped
  <2>2. CASE ~top
    BY <1>2, <1>7, <1>8, <2>2
  <2> QED BY <2>1, <2>2
<1>10. NextSort(b) \in Nat
  BY <1>5, NextSortFree
<1>11. PICK r \in RowType : r = [batch |-> b, sort |-> NextSort(b)]
  <2>1. b \in 1..MaxBatches
    BY <1>5, <1>8, <1>9 DEF BatchRowsOK
  <2> QED BY <1>10, <2>1, NewRowTyped
<1>12. /\ row' = [row EXCEPT ![t] = r] /\ r.batch = b /\ b \in Nat /\ b \in 1..Len(batches')
       /\ Len(batches) <= Len(batches')
  <2>1. row' = [row EXCEPT ![t] = r]
    BY <1>2, <1>11
  <2>2. r.batch = b
    BY <1>11
  <2> QED BY <1>8, <1>9, <2>1, <2>2
<1>13. assigned' \in [Tickets -> BOOLEAN]
  BY <1>3, <1>5
<1> QED BY <1>3, <1>4, <1>6, <1>9, <1>12, <1>13, RowMadeTyped

LEMMA AssignTicketTyped ==
    ASSUME PlanTyped, NEW w \in Workers, AssignTicket(w) PROVE PlanTyped'
<1>1. PICK j : j = job[w] /\ j.op = "assign"
  BY DEF AssignTicket, Running
<1>2. j.t \in Tickets /\ j.se \in Engineers /\ j.top \in BOOLEAN
  <2>1. j \in PlanJob
    BY <1>1 DEF PlanTyped, PlanJobTyped, PlanOps
  <2> QED BY <1>1, <2>1 DEF PlanJob
<1>3. AssignTicketTx(w, j.t, j.se, j.top) /\ Finish(w)
  BY <1>1 DEF AssignTicket
<1>4. TablesOK' /\ TablesGrow
  BY <1>2, <1>3, AssignTxTyped DEF PlanTyped
<1> QED BY <1>3, <1>4, FinishTyped

LEMMA MovedTablesTyped ==
    ASSUME TablesOK, NEW e \in Engineers, NEW s \in ScheduleFor(e), s <= MaxSchedules,
           NEW p \in Plants, NEW b \in BatchFor(s, p, e), b <= MaxBatches,
           NEW f \in DOMAIN batches, NEW k \in DOMAIN schedules,
           NEW ss, ss = FlagSchedule(WithSchedule(s, e), k),
           NEW cs, cs = FlagBatch(WithBatch(b, s, p, e, TRUE), f)
    PROVE  /\ ss \in Seq(ScheduleKind) /\ Len(ss) \in Len(schedules)..MaxSchedules
           /\ BatchRowsOK(cs, Len(ss)) /\ Len(batches) <= Len(cs) /\ b \in 1..Len(cs)
<1>1. /\ DOMAIN schedules = 1..Len(schedules) /\ DOMAIN batches = 1..Len(batches)
      /\ Len(schedules) \in Nat /\ Len(batches) \in Nat /\ MaxSchedules \in Nat
  BY TablesAre
<1>2. PICK ws : ws = WithSchedule(s, e)
  OBVIOUS
<1>3. /\ ws \in Seq(ScheduleKind) /\ DOMAIN ws = 1..Len(ws) /\ s \in 1..Len(ws)
      /\ Len(ws) \in Len(schedules)..MaxSchedules
  BY <1>2, ScheduleMadeTyped
<1>4. PICK q \in DOMAIN ws : q = k
  BY <1>1, <1>3
<1>5. ss \in Seq(ScheduleKind) /\ Len(ss) = Len(ws)
  <2>1. ws \in Seq(ScheduleKind)
    BY <1>3
  <2>2. FlagSchedule(ws, q) \in Seq(ScheduleKind) /\ Len(FlagSchedule(ws, q)) = Len(ws)
    BY <2>1, FlagScheduleTyped
  <2> QED BY <1>2, <1>4, <2>2
<1>6. PICK n \in 1..MaxSchedules : n = Len(ws)
  <2>1. Len(ws) \in Nat /\ Len(ws) <= MaxSchedules /\ Len(ws) # 0
    BY <1>1, <1>3
  <2> QED BY <1>1, <2>1
<1>7. PICK bs : bs = WithBatch(b, s, p, e, TRUE)
  OBVIOUS
<1>8. n \in Nat /\ Len(schedules) <= n /\ s \in 1..n /\ TRUE \in BOOLEAN
  BY <1>1, <1>3, <1>6
<1>9. /\ BatchRowsOK(bs, n) /\ Len(batches) <= Len(bs) /\ b \in 1..Len(bs)
      /\ DOMAIN bs = 1..Len(bs) /\ Len(bs) \in Nat
  <2>1. BatchRowsOK(bs, n) /\ Len(batches) <= Len(bs) /\ b \in 1..Len(bs)
        /\ DOMAIN bs = 1..Len(bs)
    <3>1. PICK m \in 1..MaxSchedules : m = n
      OBVIOUS
    <3>2. Len(schedules) <= m /\ s \in 1..m
      BY <1>8, <3>1
    <3>3. PICK z \in 1..m : z = s
      BY <3>2
    <3>4. PICK c \in BatchFor(z, p, e) : c = b
      BY <3>3
    <3>5. PICK o \in BOOLEAN : o = TRUE
      OBVIOUS
    <3>6. bs = WithBatch(c, z, p, e, o) /\ c <= MaxBatches
      BY <1>7, <3>3, <3>4, <3>5
    <3> QED BY <3>1, <3>2, <3>4, <3>6, BatchMadeTyped
  <2> QED BY <2>1 DEF BatchRowsOK
<1>10. PICK g \in DOMAIN bs : g = f
  BY <1>1, <1>9
<1>11. BatchRowsOK(cs, n) /\ Len(cs) = Len(bs)
  BY <1>7, <1>8, <1>9, <1>10, FlagBatchTyped
<1> QED BY <1>3, <1>5, <1>6, <1>9, <1>11

LEMMA MoveTicketsTyped ==
    ASSUME PlanTyped, NEW w \in Workers, MoveTickets(w) PROVE PlanTyped'
<1>1. PICK j : j = job[w] /\ j.op = "move"
  BY DEF MoveTickets, Running
<1>2. /\ j.se \in Engineers /\ DOMAIN j.ids \subseteq Tickets
      /\ j.b \in DOMAIN batches /\ j.sched \in DOMAIN schedules
  <2>1. PlanJobTyped(j)
    BY <1>1 DEF PlanTyped
  <2>2. j \in PlanJob
    BY <1>1, <2>1 DEF PlanJobTyped, PlanOps
  <2>3. j.se \in Engineers /\ j.ids \in UNION {[ts -> 1..MaxRows] : ts \in SUBSET Tickets}
    BY <1>1, <2>2 DEF PlanJob
  <2> QED BY <1>1, <2>1, <2>3 DEF PlanJobTyped, RowsKnown
<1>3. PICK ts \in SUBSET Tickets, f \in DOMAIN batches, e \in Engineers, k \in DOMAIN schedules :
         ts = DOMAIN j.ids /\ f = j.b /\ e = j.se /\ k = j.sched
  BY <1>2
<1>4. PICK p : p = batches[f].plant
  OBVIOUS
<1>5. /\ \A t \in ts : rows[t] < MaxRows
      /\ rows' = [t \in Tickets |-> IF t \in ts THEN rows[t] + 1 ELSE rows[t]]
      /\ Finish(w) /\ UNCHANGED <<assigned, recs>>
  BY <1>1, <1>3 DEF MoveTickets
<1>6. PICK s \in ScheduleFor(e) :
         /\ s <= MaxSchedules
         /\ \E b \in BatchFor(s, p, e) : b <= MaxBatches /\ MovedTo(s, b, ts, f, p, e, k)
  <2>1. PICK s \in ScheduleFor(job[w].se) :
           /\ s <= MaxSchedules
           /\ \E b \in BatchFor(s, batches[job[w].b].plant, job[w].se) :
                 /\ b <= MaxBatches
                 /\ MovedTo(s, b, DOMAIN job[w].ids, job[w].b, batches[job[w].b].plant,
                            job[w].se, job[w].sched)
    BY DEF MoveTickets, MovedTo
  <2>2. /\ job[w].se = e /\ job[w].b = f /\ job[w].sched = k /\ DOMAIN job[w].ids = ts
        /\ batches[job[w].b].plant = p
    BY <1>1, <1>3, <1>4
  <2> QED BY <2>1, <2>2
<1>7. PICK b \in BatchFor(s, p, e) : b <= MaxBatches /\ MovedTo(s, b, ts, f, p, e, k)
  BY <1>6
<1>7_1. /\ b <= MaxBatches
        /\ schedules' = FlagSchedule(WithSchedule(s, e), k)
        /\ batches' = FlagBatch(WithBatch(b, s, p, e, TRUE), f)
        /\ \E order \in Bijection(ts, 1..Cardinality(ts)) :
              row' = [t \in Tickets |->
                        IF t \in ts
                        THEN [batch |-> b, sort |-> NextSort(b) + order[t] - 1]
                        ELSE row[t]]
  BY <1>7 DEF MovedTo
<1>8. PICK order \in Bijection(ts, 1..Cardinality(ts)) :
         row' = [t \in Tickets |-> IF t \in ts
                                   THEN [batch |-> b, sort |-> NextSort(b) + order[t] - 1]
                                   ELSE row[t]]
  BY <1>7_1
<1>9. /\ TablesOK /\ MaxSchedules \in Nat /\ MaxBatches \in Nat /\ MaxRows \in Nat
      /\ DOMAIN schedules = 1..Len(schedules) /\ DOMAIN batches = 1..Len(batches)
      /\ Len(schedules) \in Nat /\ Len(batches) \in Nat
      /\ row \in [Tickets -> RowType] /\ row \in [Tickets -> [batch : Nat, sort : Nat]]
      /\ rows \in [Tickets -> 0..MaxRows] /\ assigned \in [Tickets -> BOOLEAN]
      /\ recs \in Seq([t : Tickets, se : Engineers]) /\ Len(recs) \in 0..MaxRecs
      /\ MaxRecs \in Nat /\ batches \in Seq(BatchType)
  BY TablesAre DEF PlanTyped
<1>10. PICK q \in Plants : q = p
  <2>1. batches[f] \in BatchType
    BY <1>9
  <2> QED BY <1>4, <2>1 DEF BatchType
<1>11. PICK ss, cs : ss = schedules' /\ cs = batches'
  OBVIOUS
<1>12. /\ schedules' \in Seq(ScheduleKind) /\ Len(schedules') \in Len(schedules)..MaxSchedules
       /\ BatchRowsOK(batches', Len(schedules')) /\ Len(batches) <= Len(batches')
       /\ b \in 1..Len(batches')
  <2>1. TablesOK /\ s <= MaxSchedules /\ b <= MaxBatches /\ b \in BatchFor(s, q, e)
    BY <1>6, <1>7, <1>9, <1>10
  <2>2. /\ ss = FlagSchedule(WithSchedule(s, e), k)
        /\ cs = FlagBatch(WithBatch(b, s, q, e, TRUE), f)
    BY <1>7_1, <1>10, <1>11
  <2>3. /\ ss \in Seq(ScheduleKind) /\ Len(ss) \in Len(schedules)..MaxSchedules
        /\ BatchRowsOK(cs, Len(ss)) /\ Len(batches) <= Len(cs) /\ b \in 1..Len(cs)
    BY <2>1, <2>2, MovedTablesTyped
  <2> QED BY <1>11, <2>3
<1>17. Len(batches') \in Nat /\ batches' \in Seq(BatchType) /\ Len(batches') <= MaxBatches
  BY <1>12 DEF BatchRowsOK
<1>18. ASSUME NEW t \in ts PROVE row'[t] \in RowType /\ row'[t].batch = b
  <2>1. NextSort(b) \in Nat
    BY <1>9, NextSortFree
  <2>2. order[t] \in 1..Cardinality(ts)
    BY <1>8 DEF Bijection, Injection
  <2>3. Cardinality(ts) \in Nat
    BY PlanAssumption, FS_Subset, FS_CardinalityType
  <2>4. order[t] \in Nat /\ order[t] # 0
    BY <2>2, <2>3
  <2>5. NextSort(b) + order[t] - 1 \in Nat
    BY <2>1, <2>4
  <2>6. b \in 1..MaxBatches
    BY <1>9, <1>12, <1>17
  <2>7. row'[t] = [batch |-> b, sort |-> NextSort(b) + order[t] - 1]
    BY <1>8
  <2> QED BY <1>9, <2>5, <2>6, <2>7, NewRowTyped
<1>19. \A t \in Tickets \ ts : row'[t] = row[t] /\ rows'[t] = rows[t]
  BY <1>5, <1>8
<1>20. row' \in [Tickets -> RowType]
  <2>1. \A t \in Tickets : row'[t] \in RowType
    BY <1>9, <1>18, <1>19
  <2> QED BY <1>8, <2>1
<1>21. \A t \in Tickets : rows'[t] \in 0..MaxRows /\ (rows'[t] = 0 => rows[t] = 0 /\ t \notin ts)
  BY <1>5, <1>9
<1>22. PlanTypeOK'
  <2>1. rows' \in [Tickets -> 0..MaxRows]
    BY <1>5, <1>21
  <2>2. Len(schedules') <= MaxSchedules
    BY <1>9, <1>12
  <2> QED BY <1>5, <1>9, <1>12, <1>17, <1>20, <2>1, <2>2 DEF PlanTypeOK, ScheduleKind
<1>23. ASSUME NEW t \in Tickets
       PROVE  row'[t].batch \in 0..Len(batches') /\ (row'[t].batch # 0 => rows'[t] # 0)
  <2>1. CASE t \in ts
    BY <1>12, <1>17, <1>18, <1>21, <2>1
  <2>2. CASE t \notin ts
    <3>1. row[t].batch \in 0..Len(batches) /\ (row[t].batch # 0 => rows[t] # 0)
      BY <1>9 DEF TablesOK, Planned
    <3>2. row'[t] = row[t] /\ rows'[t] = rows[t]
      BY <1>19, <2>2
    <3> QED BY <1>9, <1>12, <1>17, <3>1, <3>2
  <2> QED BY <2>1, <2>2
<1>24. TablesOK'
  BY <1>12, <1>22, <1>23 DEF TablesOK, Planned
<1>25. TablesGrow
  BY <1>5, <1>9, <1>12 DEF TablesGrow
<1> QED BY <1>5, <1>24, <1>25, FinishTyped

-----------------------------------------------------------------------------
(* dispatchForZone                                                        *)

\* What a dispatch in progress holds.
LEMMA HandIs ==
    ASSUME TablesOK, NEW j, PlanJobTyped(j), j.op = "dispatch"
    PROVE  /\ HandKnown(j)
           /\ j \in [op : {"dispatch"}, todo : SUBSET (1..MaxRecs), sched : 0..MaxSchedules,
                     b : 0..MaxBatches, stop : 0..MaxBatches, sort : 0..MaxRecs]
<1>1. HandKnown(j)
  BY DEF PlanJobTyped
<1>2. j \in PlanJob
  BY DEF PlanJobTyped, PlanOps
<1> QED BY <1>1, <1>2 DEF PlanJob

\* A hand made of parts the tables now have is one a dispatch may hold.
LEMMA HandMade ==
    ASSUME TablesOK', NEW todo \in SUBSET (1..MaxRecs), todo \subseteq DOMAIN recs',
           NEW s, s \in 0..Len(schedules'), NEW b, b \in 0..Len(batches'),
           NEW stop, stop \in 0..Len(batches'), NEW sort \in Nat,
           sort + Cardinality(todo) <= MaxRecs,
           NEW j, j = [op |-> "dispatch", todo |-> todo, sched |-> s, b |-> b, stop |-> stop,
                       sort |-> sort]
    PROVE  PlanJobTyped(j)'
<1>1. /\ MaxSchedules \in Nat /\ MaxBatches \in Nat /\ MaxRecs \in Nat
      /\ Len(schedules') \in 0..MaxSchedules /\ Len(batches') \in 0..MaxBatches
  BY PlanAssumption DEF TablesOK, PlanTypeOK
<1>2. s \in 0..MaxSchedules /\ b \in 0..MaxBatches /\ stop \in 0..MaxBatches
  BY <1>1
<1>3. Cardinality(todo) \in Nat
  BY <1>1, IndicesCounted, FS_Subset, FS_CardinalityType
<1>4. sort \in 0..MaxRecs
  BY <1>1, <1>3
<1>5. j \in PlanJob
  BY <1>2, <1>4 DEF PlanJob
<1>6. HandKnown(j)'
  BY DEF HandKnown
<1> QED BY <1>5, <1>6 DEF PlanJobTyped

\* The rows stay; schedules and batches of dispatch are appended.
LEMMA HandProceeds ==
    ASSUME PlanTyped, NEW w \in Workers, NEW j, job' = [job EXCEPT ![w] = j],
           TablesOK', TablesGrow, PlanJobTyped(j)'
    PROVE  PlanTyped'
  BY TypedSuffices

RecType == [t : Tickets, se : Engineers]

LEMMA RecIs ==
    ASSUME TablesOK, NEW r \in DOMAIN recs
    PROVE  recs[r] \in RecType /\ recs[r].t \in Tickets /\ recs[r].se \in Engineers
<1>1. recs \in Seq(RecType)
  BY DEF TablesOK, PlanTypeOK, RecType
<1>2. recs[r] \in RecType
  BY <1>1
<1> QED BY <1>2 DEF RecType

LEMMA DispatchScheduleTyped ==
    ASSUME PlanTyped, NEW w \in Workers, DispatchSchedule(w) PROVE PlanTyped'
<1>1. PICK j : j = job[w] /\ j.op = "dispatch"
  BY DEF DispatchSchedule, Running
<1>2. TablesOK /\ PlanJobTyped(j)
  BY <1>1 DEF PlanTyped
<1>3. /\ HandKnown(j)
      /\ j \in [op : {"dispatch"}, todo : SUBSET (1..MaxRecs), sched : 0..MaxSchedules,
                b : 0..MaxBatches, stop : 0..MaxBatches, sort : 0..MaxRecs]
  BY <1>1, <1>2, HandIs
<1>4. PICK r \in j.todo :
         schedules' = Append(schedules, [se |-> recs[r].se, status |-> "ACTIVE"])
  BY <1>1 DEF DispatchSchedule
<1>5. PICK k : k = [j EXCEPT !.sched = Len(schedules) + 1, !.b = 0, !.stop = 0]
  OBVIOUS
<1>6. /\ job' = [job EXCEPT ![w] = k] /\ Len(schedules) < MaxSchedules
      /\ UNCHANGED <<assigned, row, rows, batches, recs>>
  BY <1>1, <1>5 DEF DispatchSchedule, Proceed
<1>7. /\ schedules \in Seq(ScheduleKind) /\ Len(schedules) \in Nat /\ MaxSchedules \in Nat
      /\ recs \in Seq([t : Tickets, se : Engineers]) /\ assigned \in [Tickets -> BOOLEAN]
      /\ row \in [Tickets -> RowType] /\ Len(batches) \in Nat
  BY <1>2, TablesAre
<1>8. [se |-> recs[r].se, status |-> "ACTIVE"] \in ScheduleKind
  <2>1. r \in DOMAIN recs
    BY <1>3 DEF HandKnown
  <2>2. recs[r].se \in Engineers
    BY <1>2, <2>1, RecIs
  <2> QED BY <2>2 DEF ScheduleKind, Status
<1>9. schedules' \in Seq(ScheduleKind) /\ Len(schedules') = Len(schedules) + 1
  BY <1>4, <1>7, <1>8
<1>10. TablesOK' /\ TablesGrow
  <2>1. BatchRowsOK(batches', Len(schedules'))
    <3>1. BatchRowsOK(batches, Len(schedules))
      BY <1>2 DEF TablesOK
    <3> QED BY <1>6, <1>7, <1>9, <3>1 DEF BatchRowsOK
  <2>2. Len(schedules') \in Len(schedules)..MaxSchedules /\ Len(batches) <= Len(batches')
    BY <1>6, <1>7, <1>9
  <2>3. row' = [t \in Tickets |-> row'[t]] /\ \A t \in Tickets : row'[t] = row[t]
    BY <1>6, <1>7
  <2>4. assigned' \in [Tickets -> BOOLEAN] /\ UNCHANGED <<rows, recs>>
    BY <1>6, <1>7
  <2> QED BY <1>2, <1>9, <2>1, <2>2, <2>3, <2>4, BatchesWrittenTyped
<1>11. k = [op |-> "dispatch", todo |-> j.todo, sched |-> Len(schedules) + 1, b |-> 0,
            stop |-> 0, sort |-> j.sort]
  BY <1>3, <1>5
<1>12. PlanJobTyped(k)'
  <2>1. /\ j.todo \in SUBSET (1..MaxRecs) /\ j.todo \subseteq DOMAIN recs'
        /\ Len(schedules) + 1 \in 0..Len(schedules') /\ 0 \in 0..Len(batches')
        /\ j.sort \in Nat /\ j.sort + Cardinality(j.todo) <= MaxRecs
    BY <1>3, <1>6, <1>7, <1>9 DEF HandKnown
  <2>2. PICK todo \in SUBSET (1..MaxRecs) : todo = j.todo
    BY <2>1
  <2>3. PICK sort \in Nat : sort = j.sort
    BY <2>1
  <2>4. PICK s : s = Len(schedules) + 1
    OBVIOUS
  <2> HIDE DEF TablesOK
  <2> QED BY <1>10, <1>11, <2>1, <2>2, <2>3, <2>4, HandMade
<1> QED BY <1>6, <1>10, <1>12, HandProceeds

LEMMA DispatchBatchTyped ==
    ASSUME PlanTyped, NEW w \in Workers, DispatchBatch(w) PROVE PlanTyped'
<1>1. PICK j : j = job[w] /\ j.op = "dispatch"
  BY DEF DispatchBatch, Running
<1>2. TablesOK /\ PlanJobTyped(j)
  BY <1>1 DEF PlanTyped
<1>3. j \in [op : {"dispatch"}, todo : SUBSET (1..MaxRecs), sched : 0..MaxSchedules,
             b : 0..MaxBatches, stop : 0..MaxBatches, sort : 0..MaxRecs]
  BY <1>1, <1>2, HandIs
<1>4. HandKnown(j)
  BY <1>1, <1>2, HandIs
<1>5. PICK r \in TodoOfEngineer(j) :
         batches' = Append(batches, [sched |-> j.sched, plant |-> PlantOf[recs[r].t],
                                     se |-> recs[r].se, overridden |-> FALSE,
                                     stop |-> j.stop + 1])
  BY <1>1 DEF DispatchBatch
<1>6. PICK k : k = [j EXCEPT !.b = Len(batches) + 1, !.stop = @ + 1, !.sort = 0]
  OBVIOUS
<1>7. /\ job' = [job EXCEPT ![w] = k] /\ Len(batches) < MaxBatches
      /\ UNCHANGED <<assigned, row, rows, schedules, recs>>
  BY <1>1, <1>6 DEF DispatchBatch, Proceed
<1>8. /\ schedules \in Seq(ScheduleKind) /\ Len(schedules) \in 0..MaxSchedules
      /\ MaxSchedules \in Nat /\ Len(batches) \in Nat
      /\ assigned \in [Tickets -> BOOLEAN] /\ row \in [Tickets -> RowType]
  BY <1>2, TablesAre
<1>9. r \in DOMAIN recs /\ j.sched \in 1..Len(schedules) /\ j.stop \in 0..Len(batches)
  <2>1. r \in j.todo /\ j.sched # 0
    BY <1>5 DEF TodoOfEngineer
  <2> QED BY <1>4, <1>8, <2>1 DEF HandKnown
<1>10. PICK q : q = [sched |-> j.sched, plant |-> PlantOf[recs[r].t], se |-> recs[r].se,
                     overridden |-> FALSE, stop |-> j.stop + 1]
  OBVIOUS
<1>11. q \in BatchType /\ q.sched = j.sched
  <2>1. recs[r].t \in Tickets /\ recs[r].se \in Engineers
    BY <1>2, <1>9, RecIs
  <2>2. PlantOf[recs[r].t] \in Plants
    BY <2>1, PlanAssumption
  <2>3. j.sched \in 1..MaxSchedules /\ j.stop + 1 \in Nat
    BY <1>8, <1>9
  <2> QED BY <1>10, <2>1, <2>2, <2>3 DEF BatchType
<1>12. BatchRowsOK(batches', Len(schedules)) /\ Len(batches') = Len(batches) + 1
  <2>1. PICK n \in Nat : n = Len(schedules)
    BY <1>8
  <2>2. Len(schedules) <= n /\ q.sched \in 1..n /\ batches' = Append(batches, q)
    BY <1>5, <1>8, <1>9, <1>10, <1>11, <2>1
  <2> QED BY <1>2, <1>7, <1>11, <2>1, <2>2, AppendTyped
<1>13. TablesOK' /\ TablesGrow
  <2>1. /\ Len(schedules') \in Len(schedules)..MaxSchedules /\ Len(batches) <= Len(batches')
        /\ schedules' \in Seq(ScheduleKind) /\ BatchRowsOK(batches', Len(schedules'))
    BY <1>7, <1>8, <1>12
  <2>2. row' = [t \in Tickets |-> row'[t]] /\ \A t \in Tickets : row'[t] = row[t]
    BY <1>7, <1>8
  <2>3. assigned' \in [Tickets -> BOOLEAN] /\ UNCHANGED <<rows, recs>>
    BY <1>7, <1>8
  <2> QED BY <1>2, <2>1, <2>2, <2>3, BatchesWrittenTyped
<1>14. k = [op |-> "dispatch", todo |-> j.todo, sched |-> j.sched, b |-> Len(batches) + 1,
            stop |-> j.stop + 1, sort |-> 0]
  BY <1>3, <1>6
<1>15. PlanJobTyped(k)'
  <2>1. PICK todo \in SUBSET (1..MaxRecs) : todo = j.todo
    BY <1>3
  <2>2. PICK m \in Nat : m = Cardinality(todo)
    BY PlanAssumption, IndicesCounted, FS_Subset, FS_CardinalityType
  <2>3. j.sort \in Nat /\ j.sort + m <= MaxRecs
    BY <1>4, <2>1, <2>2 DEF HandKnown
  <2>4. m <= MaxRecs
    BY <2>3, PlanAssumption
  <2>5. todo \subseteq DOMAIN recs' /\ j.sched \in 0..Len(schedules')
    BY <1>4, <1>7, <2>1 DEF HandKnown
  <2>6. Len(batches) + 1 \in 0..Len(batches') /\ j.stop + 1 \in 0..Len(batches')
    BY <1>8, <1>9, <1>12
  <2>7. PICK s, b, stop : s = j.sched /\ b = Len(batches) + 1 /\ stop = j.stop + 1
    OBVIOUS
  <2>8. PICK sort \in Nat : sort = 0
    OBVIOUS
  <2>9. sort + Cardinality(todo) <= MaxRecs
    BY <2>2, <2>4, <2>8
  <2> QED BY <1>13, <1>14, <2>1, <2>5, <2>6, <2>7, <2>8, <2>9, HandMade
<1> QED BY <1>7, <1>13, <1>15, HandProceeds

LEMMA DispatchRowTyped ==
    ASSUME PlanTyped, NEW w \in Workers, DispatchRow(w) PROVE PlanTyped'
<1>1. PICK j : j = job[w] /\ j.op = "dispatch"
  BY DEF DispatchRow, Running
<1>2. TablesOK /\ PlanJobTyped(j)
  BY <1>1 DEF PlanTyped
<1>3. j \in [op : {"dispatch"}, todo : SUBSET (1..MaxRecs), sched : 0..MaxSchedules,
             b : 0..MaxBatches, stop : 0..MaxBatches, sort : 0..MaxRecs]
  BY <1>1, <1>2, HandIs
<1>4. HandKnown(j)
  BY <1>1, <1>2, HandIs
<1>5. PICK r \in TodoOfPlant(j) :
         /\ rows[recs[r].t] < MaxRows
         /\ row' = [row EXCEPT ![recs[r].t] = [batch |-> j.b, sort |-> j.sort + 1]]
         /\ rows' = [rows EXCEPT ![recs[r].t] = @ + 1]
         /\ job' = [job EXCEPT ![w] =
                      [op |-> "flag", t |-> recs[r].t, todo |-> j.todo \ {r}, sched |-> j.sched,
                       b |-> j.b, stop |-> j.stop, sort |-> j.sort + 1]]
  BY <1>1 DEF DispatchRow, Proceed
<1>6. UNCHANGED <<assigned, batches, schedules, recs>>
  BY DEF DispatchRow
<1>7. /\ schedules \in Seq(ScheduleKind) /\ Len(schedules) \in 0..MaxSchedules
      /\ MaxSchedules \in Nat /\ MaxBatches \in Nat /\ Len(batches) \in 0..MaxBatches
      /\ assigned \in [Tickets -> BOOLEAN]
      /\ BatchRowsOK(batches, Len(schedules))
  BY <1>2, TablesAre DEF TablesOK
<1>8. r \in j.todo /\ j.sched # 0 /\ j.b # 0
  BY <1>5 DEF TodoOfPlant, TodoOfEngineer
<1>9. PICK t \in Tickets : t = recs[r].t
  BY <1>2, <1>4, <1>8, RecIs DEF HandKnown
<1>10. PICK b \in Nat : b = j.b
  BY <1>3
<1>11. b \in 1..Len(batches) /\ b \in 1..MaxBatches
  BY <1>4, <1>7, <1>8, <1>10 DEF HandKnown
<1>12. PICK q \in RowType : q = [batch |-> b, sort |-> j.sort + 1]
  <2>1. PICK n \in Nat : n = j.sort + 1
    BY <1>4 DEF HandKnown
  <2> QED BY <1>2, <1>11, <2>1, NewRowTyped
<1>13. TablesOK' /\ TablesGrow
  <2>1. q.batch = b /\ b \in 1..Len(batches')
    BY <1>6, <1>11, <1>12
  <2>2. /\ rows[t] < MaxRows /\ row' = [row EXCEPT ![t] = q]
        /\ rows' = [rows EXCEPT ![t] = @ + 1]
    BY <1>5, <1>9, <1>10, <1>12
  <2>3. /\ assigned' \in [Tickets -> BOOLEAN] /\ UNCHANGED recs
        /\ schedules' \in Seq(ScheduleKind)
        /\ Len(schedules') \in Len(schedules)..MaxSchedules
        /\ BatchRowsOK(batches', Len(schedules')) /\ Len(batches) <= Len(batches')
    BY <1>6, <1>7
  <2> QED BY <1>2, <2>1, <2>2, <2>3, RowMadeTyped
<1>14. PICK todo \in SUBSET (1..MaxRecs) : todo = j.todo \ {r}
  BY <1>3
<1>15. j.sort + 1 \in Nat /\ j.sort + 1 + Cardinality(todo) <= MaxRecs /\ j.sort + 1 <= MaxRecs
  <2>1. IsFiniteSet(j.todo)
    BY <1>3, PlanAssumption, IndicesCounted, FS_Subset
  <2>2. Cardinality(todo) = Cardinality(j.todo) - 1 /\ Cardinality(todo) \in Nat
        /\ Cardinality(j.todo) \in Nat
    <3>1. IsFiniteSet(todo)
      BY <1>14, <2>1, FS_Subset
    <3> QED BY <1>8, <1>14, <2>1, <3>1, FS_RemoveElement, FS_CardinalityType
  <2>3. j.sort \in Nat /\ j.sort + Cardinality(j.todo) <= MaxRecs
    BY <1>4 DEF HandKnown
  <2> QED BY <2>2, <2>3, PlanAssumption
<1>16. PICK k : k = [op |-> "flag", t |-> t, todo |-> todo, sched |-> j.sched,
                     b |-> j.b, stop |-> j.stop, sort |-> j.sort + 1]
  OBVIOUS
<1>17. PlanJobTyped(k)'
  <2>1. /\ j.sched \in 1..MaxSchedules /\ j.b \in 1..MaxBatches /\ j.stop \in 0..MaxBatches
        /\ j.sort + 1 \in 0..MaxRecs
    BY <1>3, <1>8, <1>15, PlanAssumption
  <2>2. k \in PlanJob
    BY <1>16, <2>1 DEF PlanJob
  <2>3. /\ k.todo \subseteq DOMAIN recs' /\ k.sched \in 0..Len(schedules')
        /\ k.b \in 0..Len(batches') /\ k.stop \in 0..Len(batches')
    BY <1>4, <1>6, <1>14, <1>16 DEF HandKnown
  <2>4. HandKnown(k)'
    BY <1>15, <1>16, <2>3 DEF HandKnown
  <2> QED BY <1>16, <2>2, <2>4 DEF PlanJobTyped
<1>18. job' = [job EXCEPT ![w] = k]
  BY <1>5, <1>9, <1>14, <1>16
<1> QED BY <1>13, <1>17, <1>18, HandProceeds

LEMMA DispatchFlagTyped ==
    ASSUME PlanTyped, NEW w \in Workers, DispatchFlag(w) PROVE PlanTyped'
<1>1. PICK j : j = job[w] /\ j.op = "flag"
  BY DEF DispatchFlag, Running
<1>2. TablesOK /\ PlanJobTyped(j)
  BY <1>1 DEF PlanTyped
<1>3. HandKnown(j) /\ j.t \in Tickets /\ j.todo \in SUBSET (1..MaxRecs)
  <2>1. j \in PlanJob
    BY <1>1, <1>2 DEF PlanJobTyped, PlanOps
  <2> QED BY <1>1, <1>2, <2>1 DEF PlanJobTyped, PlanJob
<1>4. /\ assigned' = [assigned EXCEPT ![j.t] = TRUE]
      /\ UNCHANGED <<row, rows, batches, schedules, recs>>
  BY <1>1 DEF DispatchFlag
<1>5. TablesOK' /\ TablesGrow
  <2>1. /\ schedules \in Seq(ScheduleKind) /\ Len(schedules) \in 0..MaxSchedules
        /\ MaxSchedules \in Nat /\ Len(batches) \in Nat
        /\ assigned \in [Tickets -> BOOLEAN] /\ row \in [Tickets -> RowType]
        /\ BatchRowsOK(batches, Len(schedules))
    BY <1>2, TablesAre DEF TablesOK
  <2>5. assigned' \in [Tickets -> BOOLEAN]
    BY <1>4, <2>1
  <2>2. /\ assigned' \in [Tickets -> BOOLEAN] /\ schedules' \in Seq(ScheduleKind)
        /\ Len(schedules') \in Len(schedules)..MaxSchedules
        /\ BatchRowsOK(batches', Len(schedules')) /\ Len(batches) <= Len(batches')
    BY <1>4, <2>1, <2>5
  <2>4. row' = [t \in Tickets |-> row'[t]] /\ \A t \in Tickets : row'[t] = row[t]
    BY <1>4, <2>1
  <2>3. UNCHANGED <<rows, recs>>
    BY <1>4
  <2> QED BY <1>2, <2>2, <2>3, <2>4, BatchesWrittenTyped
<1>6. CASE j.todo = {}
  <2>1. Finish(w)
    BY <1>1, <1>6 DEF DispatchFlag
  <2> QED BY <1>5, <2>1, FinishTyped
<1>7. CASE j.todo # {}
  <2>1. PICK k : k = [op |-> "dispatch", todo |-> j.todo, sched |-> j.sched, b |-> j.b,
                      stop |-> j.stop, sort |-> j.sort]
    OBVIOUS
  <2>2. job' = [job EXCEPT ![w] = k]
    BY <1>1, <1>7, <2>1 DEF DispatchFlag, Proceed
  <2>3. PICK todo \in SUBSET (1..MaxRecs) : todo = j.todo
    BY <1>3
  <2>4. PICK sort \in Nat : sort = j.sort
    BY <1>3 DEF HandKnown
  <2>5. PICK s, b, stop : s = j.sched /\ b = j.b /\ stop = j.stop
    OBVIOUS
  <2>6. /\ todo \subseteq DOMAIN recs' /\ s \in 0..Len(schedules') /\ b \in 0..Len(batches')
        /\ stop \in 0..Len(batches') /\ sort + Cardinality(todo) <= MaxRecs
    BY <1>3, <1>4, <2>3, <2>4, <2>5 DEF HandKnown
  <2>7. PlanJobTyped(k)'
    BY <1>5, <2>1, <2>3, <2>4, <2>5, <2>6, HandMade
  <2> QED BY <1>5, <2>2, <2>7, HandProceeds
<1> QED BY <1>6, <1>7

-----------------------------------------------------------------------------
(* Every step of the plans                                                *)

\* A step that frees a ticket, or records a suggestion: no batch, no schedule, no job.
LEMMA PlanEnvironmentTyped ==
    ASSUME PlanTyped, PlanEnvironment
    PROVE  PlanTyped'
<1>1. TablesOK
  BY DEF PlanTyped
<1> DEFINE Freed == /\ UNCHANGED <<row, rows, batches, schedules, job>>
                    /\ assigned' \in [Tickets -> BOOLEAN]
                    /\ recs' \in Seq(RecType) /\ Len(recs) <= Len(recs')
                    /\ Len(recs') <= MaxRecs
<1>2. Freed
  <2>0. /\ recs \in Seq(RecType) /\ Len(recs) <= MaxRecs /\ Len(recs) \in Nat /\ MaxRecs \in Nat
        /\ assigned \in [Tickets -> BOOLEAN]
    BY <1>1, TablesAre DEF RecType
  <2>1. ASSUME NEW t \in Tickets, ReturnToPool(t)
        PROVE  /\ UNCHANGED <<row, rows, batches, schedules, job, recs>>
               /\ assigned' \in [Tickets -> BOOLEAN]
    BY <2>0, <2>1 DEF ReturnToPool
  <2>2. ASSUME NEW t \in Tickets, NEW e \in Engineers, Recommend(t, e)
        PROVE  /\ UNCHANGED <<row, rows, batches, schedules, job, assigned>>
               /\ recs' \in Seq(RecType) /\ Len(recs') = Len(recs) + 1 /\ Len(recs) < MaxRecs
    <3>1. PICK r \in RecType : r = [t |-> t, se |-> e]
      BY DEF RecType
    <3>2. recs' = Append(recs, r)
      BY <2>2, <3>1 DEF Recommend
    <3> QED BY <2>0, <2>2, <3>2 DEF Recommend
  <2>3. ASSUME NEW t \in Tickets, ReturnToPool(t) PROVE Freed
    BY <2>0, <2>1, <2>3
  <2>4. ASSUME NEW t \in Tickets, NEW e \in Engineers, Recommend(t, e)
        PROVE  Freed
    BY <2>0, <2>2, <2>4
  <2> QED BY <2>3, <2>4 DEF PlanEnvironment
<1>3. TablesOK'
  BY <1>1, <1>2 DEF TablesOK, PlanTypeOK, Planned, BatchRowsOK, RecType
<1>4. TablesGrow
  <2>1. Len(batches) \in Nat /\ Len(schedules) \in Nat
    BY <1>1, TablesAre
  <2> QED BY <1>2, <2>1 DEF TablesGrow
<1>5. ASSUME NEW v \in Workers PROVE PlanJobTyped(job[v])'
  <2>1. PICK j : j = job[v]
    OBVIOUS
  <2>2. PlanJobTyped(j)
    BY <2>1 DEF PlanTyped
  <2>3. PlanJobTyped(j)'
    BY <1>1, <1>3, <1>4, <2>2, JobStaysTyped
  <2>4. job'[v] = j
    BY <1>2, <2>1
  <2> QED BY <2>3, <2>4 DEF PlanJobTyped, RowsKnown, HandKnown
<1> QED BY <1>2, <1>3, <1>5 DEF PlanTyped

LEMMA PlanStays ==
    ASSUME PlanTyped, UNCHANGED plan
    PROVE  TablesOK' /\ TablesGrow
<1>1. TablesOK'
  BY DEF PlanTyped, TablesOK, PlanTypeOK, plan, Planned, BatchRowsOK
<1>2. TablesGrow
  BY TablesAre DEF TablesGrow, plan, PlanTyped
<1> QED BY <1>1, <1>2

LEMMA PlanStepTyped ==
    ASSUME PlanTyped, NEW w \in Workers, PlanStep(w)
    PROVE  PlanTyped'
<1>1. CASE PlanAbandon(w)
  BY <1>1, PlanStays, FinishTyped DEF PlanAbandon, Abandon
<1>2. CASE PlanWrite(w)
  BY <1>2, AssignTicketTyped, RemoveTicketTyped, DeferTicketTyped, ReorderTyped, SwapSeTyped,
     MoveTicketsTyped, DispatchScheduleTyped, DispatchBatchTyped, DispatchRowTyped,
     DispatchFlagTyped
     DEF PlanWrite
<1> QED BY <1>1, <1>2, PlanReadTyped DEF PlanStep

LEMMA PlanTypedNext == PlanTyped /\ [PlanNext]_planVars => PlanTyped'
<1> SUFFICES ASSUME PlanTyped, [PlanNext]_planVars PROVE PlanTyped'
  OBVIOUS
<1>1. CASE UNCHANGED planVars
  BY <1>1 DEF planVars, plan, PlanTyped, TablesOK, PlanTypeOK, Planned, BatchRowsOK,
              PlanJobTyped, RowsKnown, HandKnown
<1> QED BY <1>1, PlanStepTyped, PlanEnvironmentTyped DEF PlanNext

\* The rows of the plans and what every execution holds of them keep their types, however
\* many executions overlap: a batch belongs to a schedule there is, a ticket's row to a
\* batch there is, and an override writes rows that still exist.
THEOREM PlanTypeOKHolds == PlanSpec => []PlanTypeOK
<1>1. PlanInit /\ job = [w \in Workers |-> Idle] => PlanTyped
  BY PlanTypedInit
<1>2. PlanTyped => PlanTypeOK
  BY DEF PlanTyped, TablesOK
<1> QED BY <1>1, <1>2, PlanTypedNext, PTL DEF PlanSpec, PlanNext

-----------------------------------------------------------------------------
(* The stops are where their tickets are                                  *)

RowsAtPlant == \A t \in Tickets : Planned(t) => batches[row[t].batch].plant = PlantOf[t]

StopsOwned == \A b \in DOMAIN batches : batches[b].se = schedules[batches[b].sched].se

\* The tickets that are about to move are at the plant of the batch they were on.
MoveReady(j) == j.op = "move" => \A t \in DOMAIN j.ids : PlantOf[t] = batches[j.b].plant

PlansCoherent ==
    /\ PlanTyped /\ RowsAtPlant /\ StopsOwned
    /\ \A w \in Workers : MoveReady(job[w])

\* The engineers of the schedules, and the plants of the batches, stay.
SchedulesKept(ss, rr) == \A s \in DOMAIN ss : s \in DOMAIN rr /\ rr[s].se = ss[s].se

PlantsKept == \A b \in DOMAIN batches : b \in DOMAIN batches' /\ batches'[b].plant = batches[b].plant

\* A batch stays with its schedule and its engineer, or belongs to the engineer of its new one.
OwnersKept ==
    \A b \in DOMAIN batches' :
       \/ b \in DOMAIN batches /\ batches'[b].sched = batches[b].sched
             /\ batches'[b].se = batches[b].se
       \/ batches'[b].se = schedules'[batches'[b].sched].se

\* A ticket's new row is at its plant.
RowsMadeAtPlant ==
    \A t \in Tickets : \/ row'[t] = row[t] \/ row'[t].batch = 0
                       \/ batches'[row'[t].batch].plant = PlantOf[t]

Coherently == SchedulesKept(schedules, schedules') /\ PlantsKept /\ OwnersKept /\ RowsMadeAtPlant

LEMMA CoherentTables ==
    ASSUME PlansCoherent, PlanTyped', Coherently
    PROVE  RowsAtPlant' /\ StopsOwned'
<1>0. TablesOK
  BY DEF PlansCoherent, PlanTyped
<1>1. ASSUME NEW t \in Tickets, row'[t].batch # 0
      PROVE  batches'[row'[t].batch].plant = PlantOf[t]
  <2>1. CASE row'[t] = row[t]
    <3>1. row[t].batch \in DOMAIN batches
      BY <1>0, <1>1, <2>1, TablesAre DEF TablesOK
    <3>2. batches[row[t].batch].plant = PlantOf[t]
      BY <1>1, <2>1 DEF PlansCoherent, RowsAtPlant, Planned
    <3> QED BY <2>1, <3>1, <3>2 DEF Coherently, PlantsKept
  <2> QED BY <1>1, <2>1 DEF Coherently, RowsMadeAtPlant
<1>2. ASSUME NEW b \in DOMAIN batches'
      PROVE  batches'[b].se = schedules'[batches'[b].sched].se
  <2>1. CASE b \in DOMAIN batches /\ batches'[b].sched = batches[b].sched
             /\ batches'[b].se = batches[b].se
    <3>1. batches[b].se = schedules[batches[b].sched].se
      BY <2>1 DEF PlansCoherent, StopsOwned
    <3>2. batches[b].sched \in DOMAIN schedules
      BY <1>0, <2>1, TablesAre DEF TablesOK, BatchRowsOK
    <3> QED BY <2>1, <3>1, <3>2 DEF Coherently, SchedulesKept
  <2> QED BY <2>1 DEF Coherently, OwnersKept
<1> QED BY <1>1, <1>2 DEF RowsAtPlant, StopsOwned, Planned

\* What an execution knows of the plant of its batch stays.
LEMMA MoveStaysReady ==
    ASSUME PlanTyped, PlantsKept, NEW j, PlanJobTyped(j), MoveReady(j)
    PROVE  MoveReady(j)'
  BY DEF PlanJobTyped, RowsKnown, PlantsKept, MoveReady

LEMMA CoherentSuffices ==
    ASSUME PlansCoherent, PlanTyped', Coherently, NEW w \in Workers, NEW j,
           job' = [job EXCEPT ![w] = j], j.op = "move" => PlanJobTyped(j) /\ MoveReady(j)
    PROVE  PlansCoherent'
<1>1. \A v \in Workers : job'[v] = j \/ job'[v] = job[v]
  BY DEF PlansCoherent, PlanTyped
<1>2. ASSUME NEW v \in Workers PROVE MoveReady(job[v])'
  <2>1. PICK k : k = job'[v]
    OBVIOUS
  <2>2. CASE k.op = "move"
    <3>1. PlanJobTyped(k) /\ MoveReady(k)
      BY <1>1, <2>1, <2>2 DEF PlansCoherent, PlanTyped
    <3>2. MoveReady(k)'
      BY <3>1, MoveStaysReady DEF PlansCoherent, Coherently
    <3> QED BY <2>1, <3>2 DEF MoveReady
  <2> QED BY <2>1, <2>2 DEF MoveReady
<1> QED BY <1>2, CoherentTables DEF PlansCoherent

\* A step that ends.
LEMMA CoherentEnd ==
    ASSUME PlansCoherent, PlanTyped', Coherently, NEW w \in Workers, Finish(w)
    PROVE  PlansCoherent'
<1>1. Idle.op # "move"
  BY DEF Idle
<1> QED BY <1>1, CoherentSuffices DEF Finish

LEMMA TablesStayCoherent ==
    ASSUME PlanTyped, UNCHANGED <<row, batches, schedules>> PROVE Coherently
  BY DEF Coherently, SchedulesKept, PlantsKept, OwnersKept, RowsMadeAtPlant

\* The same batches, whatever their stops and flags.
SameStops(bs, cs) ==
    /\ DOMAIN cs = DOMAIN bs
    /\ \A b \in DOMAIN bs : /\ cs[b].sched = bs[b].sched /\ cs[b].plant = bs[b].plant
                            /\ cs[b].se = bs[b].se

LEMMA FlagBatchSame == ASSUME NEW bs, NEW b PROVE SameStops(bs, FlagBatch(bs, b))
<1>1. PICK cs : cs = FlagBatch(bs, b)
  OBVIOUS
<1>2. DOMAIN cs = DOMAIN bs
  BY <1>1 DEF FlagBatch
<1>3. ASSUME NEW c \in DOMAIN bs
      PROVE  cs[c].sched = bs[c].sched /\ cs[c].plant = bs[c].plant /\ cs[c].se = bs[c].se
  <2>1. PICK d, x : d = bs[c] /\ x = TRUE
    OBVIOUS
  <2>2. cs[c] = d \/ cs[c] = [d EXCEPT !.overridden = x]
    BY <1>1, <2>1 DEF FlagBatch
  <2>3. [d EXCEPT !.overridden = x].sched = d.sched
    OBVIOUS
  <2>4. [d EXCEPT !.overridden = x].plant = d.plant
    OBVIOUS
  <2>5. [d EXCEPT !.overridden = x].se = d.se
    OBVIOUS
  <2> QED BY <2>1, <2>2, <2>3, <2>4, <2>5
<1> QED BY <1>1, <1>2, <1>3 DEF SameStops

LEMMA RenumberedSame == ASSUME NEW bs, NEW P PROVE SameStops(bs, Renumbered(bs, P))
<1>1. PICK cs : cs = Renumbered(bs, P)
  OBVIOUS
<1>2. DOMAIN cs = DOMAIN bs
  BY <1>1 DEF Renumbered
<1>3. ASSUME NEW c \in DOMAIN bs
      PROVE  cs[c].sched = bs[c].sched /\ cs[c].plant = bs[c].plant /\ cs[c].se = bs[c].se
  <2>1. PICK d, x : d = bs[c] /\ x = P[c]
    OBVIOUS
  <2>2. cs[c] = d \/ cs[c] = [d EXCEPT !.stop = x]
    BY <1>1, <2>1 DEF Renumbered
  <2>3. [d EXCEPT !.stop = x].sched = d.sched
    OBVIOUS
  <2>4. [d EXCEPT !.stop = x].plant = d.plant
    OBVIOUS
  <2>5. [d EXCEPT !.stop = x].se = d.se
    OBVIOUS
  <2> QED BY <2>1, <2>2, <2>3, <2>4, <2>5
<1> QED BY <1>1, <1>2, <1>3 DEF SameStops

LEMMA SameTwice ==
    ASSUME NEW bs, NEW cs, NEW ds, SameStops(bs, cs), SameStops(cs, ds) PROVE SameStops(bs, ds)
  BY DEF SameStops

LEMMA FlagScheduleKept == ASSUME NEW ss, NEW s PROVE SchedulesKept(ss, FlagSchedule(ss, s))
<1>1. PICK rr : rr = FlagSchedule(ss, s)
  OBVIOUS
<1>2. ASSUME NEW q \in DOMAIN ss PROVE q \in DOMAIN rr /\ rr[q].se = ss[q].se
  <2>1. rr[q] = ss[q] \/ rr[q] = [ss[q] EXCEPT !.status = "OVERRIDDEN"]
    BY <1>1 DEF FlagSchedule
  <2> QED BY <1>1, <2>1 DEF FlagSchedule
<1> QED BY <1>1, <1>2 DEF SchedulesKept

\* ensureSchedule: the schedules there are, and one of the engineer.
LEMMA ScheduleMadeKept ==
    ASSUME TablesOK, NEW e, NEW s \in ScheduleFor(e), NEW ss, ss = WithSchedule(s, e)
    PROVE  SchedulesKept(schedules, ss) /\ s \in DOMAIN ss /\ ss[s].se = e
<1>1. /\ schedules \in Seq(ScheduleKind) /\ DOMAIN schedules = 1..Len(schedules)
      /\ Len(schedules) \in Nat
  BY TablesAre
<1>2. CASE s \in DOMAIN schedules
  <2>1. ss = schedules
    BY <1>2 DEF WithSchedule
  <2>2. schedules[s].se = e
    BY <1>1, <1>2 DEF ScheduleFor
  <2> QED BY <1>2, <2>1, <2>2 DEF SchedulesKept
<1>3. CASE s \notin DOMAIN schedules
  <2>1. s = Len(schedules) + 1
    BY <1>3 DEF ScheduleFor
  <2>2. PICK r : r = [se |-> e, status |-> "ACTIVE"]
    OBVIOUS
  <2>3. ss = Append(schedules, r)
    BY <1>3, <2>2 DEF WithSchedule
  <2>4. /\ DOMAIN ss = 1..(Len(schedules) + 1) /\ ss[s] = r
        /\ \A q \in DOMAIN schedules : q \in DOMAIN ss /\ ss[q] = schedules[q]
    BY <1>1, <2>1, <2>3
  <2>5. s \in DOMAIN ss
    BY <1>1, <2>1, <2>4
  <2> QED BY <2>2, <2>4, <2>5 DEF SchedulesKept
<1> QED BY <1>2, <1>3

\* getOrCreateBatch: the batches there are, and one for the plant in the schedule.
LEMMA BatchMadeKept ==
    ASSUME TablesOK, NEW s, NEW p, NEW e, NEW o, NEW b \in BatchFor(s, p, e),
           NEW bs, bs = WithBatch(b, s, p, e, o)
    PROVE  /\ b \in DOMAIN bs /\ bs[b].plant = p
           /\ \A c \in DOMAIN batches : c \in DOMAIN bs /\ bs[c] = batches[c]
           /\ \A c \in DOMAIN bs : \/ c \in DOMAIN batches /\ bs[c] = batches[c]
                                   \/ bs[c].sched = s /\ bs[c].se = e
<1>1. batches \in Seq(BatchType) /\ DOMAIN batches = 1..Len(batches) /\ Len(batches) \in Nat
  BY TablesAre
<1>2. CASE b \in DOMAIN batches
  <2>1. bs = batches
    BY <1>2 DEF WithBatch
  <2>2. batches[b].plant = p
    BY <1>1, <1>2 DEF BatchFor
  <2> QED BY <1>2, <2>1, <2>2
<1>3. CASE b \notin DOMAIN batches
  <2>1. b = Len(batches) + 1
    BY <1>3 DEF BatchFor, BatchesOf
  <2>2. PICK r : r = [sched |-> s, plant |-> p, se |-> e, overridden |-> o, stop |-> NextStop(s)]
    OBVIOUS
  <2>3. bs = Append(batches, r)
    BY <1>3, <2>2 DEF WithBatch
  <2>4. r.sched = s /\ r.plant = p /\ r.se = e
    BY <2>2
  <2>5. /\ DOMAIN bs = 1..(Len(batches) + 1) /\ bs[b] = r
        /\ \A c \in DOMAIN batches : c \in DOMAIN bs /\ bs[c] = batches[c]
    BY <1>1, <2>1, <2>3
  <2>6. b \in DOMAIN bs /\ \A c \in DOMAIN bs : c = b \/ c \in DOMAIN batches
    BY <1>1, <2>1, <2>5
  <2> QED BY <2>4, <2>5, <2>6
<1> QED BY <1>2, <1>3

\* Batches and schedules after a batch has been found or made, flagged and renumbered.
Made(s, e, b, p, o, ss, bs) ==
    /\ s \in ScheduleFor(e) /\ ss = WithSchedule(s, e) /\ SchedulesKept(ss, schedules')
    /\ b \in BatchFor(s, p, e) /\ bs = WithBatch(b, s, p, e, o) /\ SameStops(bs, batches')

LEMMA MadeCoherently ==
    ASSUME TablesOK, NEW s, NEW e, NEW b, NEW p, NEW o, NEW ss, NEW bs,
           Made(s, e, b, p, o, ss, bs)
    PROVE  /\ SchedulesKept(schedules, schedules') /\ PlantsKept /\ OwnersKept
           /\ batches'[b].plant = p
<1>1. SchedulesKept(schedules, ss) /\ s \in DOMAIN ss /\ ss[s].se = e
  BY ScheduleMadeKept DEF Made
<1>2. SchedulesKept(schedules, schedules') /\ schedules'[s].se = e
  BY <1>1 DEF SchedulesKept, Made
<1>3. /\ b \in DOMAIN bs /\ bs[b].plant = p
      /\ \A c \in DOMAIN batches : c \in DOMAIN bs /\ bs[c] = batches[c]
      /\ \A c \in DOMAIN bs : \/ c \in DOMAIN batches /\ bs[c] = batches[c]
                              \/ bs[c].sched = s /\ bs[c].se = e
  BY BatchMadeKept DEF Made
<1>7. SameStops(bs, batches')
  BY DEF Made
<1>4. PlantsKept
  BY <1>3, <1>7 DEF PlantsKept, SameStops
<1>5. batches'[b].plant = p
  BY <1>3, <1>7 DEF SameStops
<1>6. OwnersKept
  BY <1>2, <1>3, <1>7 DEF OwnersKept, SameStops
<1> QED BY <1>2, <1>4, <1>5, <1>6

\* Overrides that leave the batches and their schedules.
LEMMA SameStopsCoherent ==
    ASSUME SchedulesKept(schedules, schedules'), SameStops(batches, batches'),
           \A t \in Tickets : row'[t] = row[t] \/ row'[t] = NoRow
    PROVE  Coherently
<1>1. PlantsKept /\ OwnersKept
  BY DEF SameStops, PlantsKept, OwnersKept
<1>2. RowsMadeAtPlant
  BY DEF RowsMadeAtPlant, NoRow
<1> QED BY <1>1, <1>2 DEF Coherently

LEMMA FlaggedCoherent ==
    ASSUME PlansCoherent, NEW w \in Workers, RemoveTicket(w) \/ DeferTicket(w) \/ Reorder(w)
    PROVE  PlansCoherent'
<1>1. PlanTyped'
  BY RemoveTicketTyped, DeferTicketTyped, ReorderTyped DEF PlansCoherent
<1>2. PICK k : schedules' = FlagSchedule(schedules, k)
  BY DEF RemoveTicket, DeferTicket, Reorder
<1>3. SchedulesKept(schedules, schedules')
  BY <1>2, FlagScheduleKept
<1>4. SameStops(batches, batches')
  <2>1. CASE RemoveTicket(w) \/ DeferTicket(w)
    <3>1. PICK b : batches' = FlagBatch(batches, b)
      BY <2>1 DEF RemoveTicket, DeferTicket
    <3> QED BY <3>1, FlagBatchSame
  <2>2. CASE Reorder(w)
    <3>1. PICK cs : cs = Renumbered(batches, job[w].stops)
      OBVIOUS
    <3>2. PICK b : batches' = FlagBatch(cs, b)
      BY <2>2, <3>1 DEF Reorder
    <3> QED BY <3>1, <3>2, RenumberedSame, FlagBatchSame, SameTwice
  <2> QED BY <2>1, <2>2
<1>5. \A t \in Tickets : row'[t] = row[t] \/ row'[t] = NoRow
  <2>1. row \in [Tickets -> RowType]
    BY TablesAre DEF PlansCoherent, PlanTyped
  <2>2. row' = row \/ \E u : row' = [row EXCEPT ![u] = NoRow]
    BY DEF RemoveTicket, DeferTicket, Reorder
  <2> QED BY <2>1, <2>2
<1>6. Coherently
  BY <1>3, <1>4, <1>5, SameStopsCoherent
<1>7. Finish(w)
  BY DEF RemoveTicket, DeferTicket, Reorder
<1> QED BY <1>1, <1>6, <1>7, CoherentEnd

LEMMA AssignTicketCoherent ==
    ASSUME PlansCoherent, NEW w \in Workers, AssignTicket(w)
    PROVE  PlansCoherent'
<1>1. PlanTyped' /\ TablesOK
  BY AssignTicketTyped DEF PlansCoherent, PlanTyped
<1>2. PICK t, e, top : AssignTicketTx(w, t, e, top)
  BY DEF AssignTicket
<1>3. PICK s \in ScheduleFor(e) : \E b \in BatchFor(s, PlantOf[t], e) :
          /\ schedules' = WithSchedule(s, e)
          /\ LET bs == WithBatch(b, s, PlantOf[t], e, FALSE)
             IN batches' = IF top THEN Renumbered(bs, Positions(bs, s, b, 1)) ELSE bs
          /\ row' = [row EXCEPT ![t] = [batch |-> b, sort |-> NextSort(b)]]
  BY <1>2 DEF AssignTicketTx
<1>4. PICK b \in BatchFor(s, PlantOf[t], e) :
          /\ schedules' = WithSchedule(s, e)
          /\ LET bs == WithBatch(b, s, PlantOf[t], e, FALSE)
             IN batches' = IF top THEN Renumbered(bs, Positions(bs, s, b, 1)) ELSE bs
          /\ row' = [row EXCEPT ![t] = [batch |-> b, sort |-> NextSort(b)]]
  BY <1>3
<1>5. PICK bs, ss : bs = WithBatch(b, s, PlantOf[t], e, FALSE) /\ ss = WithSchedule(s, e)
  OBVIOUS
<1>6. SameStops(bs, batches')
  <2>1. CASE top
    <3>1. batches' = Renumbered(bs, Positions(bs, s, b, 1))
      BY <1>4, <1>5, <2>1
    <3> QED BY <3>1, RenumberedSame
  <2>2. CASE ~top
    BY <1>4, <1>5, <2>2 DEF SameStops
  <2> QED BY <2>1, <2>2
<1>7. SchedulesKept(ss, schedules')
  BY <1>4, <1>5 DEF SchedulesKept
<1>8. /\ SchedulesKept(schedules, schedules') /\ PlantsKept /\ OwnersKept
      /\ batches'[b].plant = PlantOf[t]
  <2>1. PICK p, o : p = PlantOf[t] /\ o = FALSE
    OBVIOUS
  <2>2. Made(s, e, b, p, o, ss, bs)
    BY <1>5, <1>6, <1>7, <2>1 DEF Made
  <2> QED BY <1>1, <2>1, <2>2, MadeCoherently
<1>9. RowsMadeAtPlant
  <2>1. row \in [Tickets -> RowType]
    BY <1>1, TablesAre
  <2>2. PICK r : r = [batch |-> b, sort |-> NextSort(b)]
    OBVIOUS
  <2>3. r.batch = b /\ row' = [row EXCEPT ![t] = r]
    BY <1>4, <2>2
  <2>4. \A u \in Tickets : row'[u] = row[u] \/ (u = t /\ row'[u] = r)
    BY <2>1, <2>3
  <2> QED BY <1>8, <2>3, <2>4 DEF RowsMadeAtPlant
<1>10. Finish(w)
  BY DEF AssignTicket
<1> QED BY <1>1, <1>8, <1>9, <1>10, CoherentEnd DEF Coherently

LEMMA SwapSeCoherent ==
    ASSUME PlansCoherent, NEW w \in Workers, SwapSe(w)
    PROVE  PlansCoherent'
<1>1. PlanTyped' /\ TablesOK
  BY SwapSeTyped DEF PlansCoherent, PlanTyped
<1>2. PICK j : j = job[w] /\ PlanJobTyped(j) /\ j.op = "swap"
  BY DEF SwapSe, Running, PlansCoherent, PlanTyped
<1>3. PICK s \in ScheduleFor(j.se) :
         /\ batches' = [batches EXCEPT ![j.b] =
                           [@ EXCEPT !.sched = s, !.se = j.se, !.overridden = TRUE,
                                     !.stop = NextStop(s)]]
         /\ schedules' = FlagSchedule(WithSchedule(s, j.se), j.sched)
  BY <1>2 DEF SwapSe
<1>4. PICK ss : ss = WithSchedule(s, j.se)
  OBVIOUS
<1>5. SchedulesKept(schedules, ss) /\ s \in DOMAIN ss /\ ss[s].se = j.se
  BY <1>1, <1>4, ScheduleMadeKept
<1>6. SchedulesKept(ss, schedules')
  BY <1>3, <1>4, FlagScheduleKept
<1>7. SchedulesKept(schedules, schedules') /\ schedules'[s].se = j.se
  BY <1>5, <1>6 DEF SchedulesKept
<1>8. PICK r : r = [batches[j.b] EXCEPT !.sched = s, !.se = j.se, !.overridden = TRUE,
                                        !.stop = NextStop(s)]
  OBVIOUS
<1>9. batches' = [batches EXCEPT ![j.b] = r] /\ j.b \in DOMAIN batches
  BY <1>2, <1>3, <1>8 DEF PlanJobTyped, RowsKnown
<1>10. r.sched = s /\ r.se = j.se /\ r.plant = batches[j.b].plant
  <2>1. batches[j.b] \in BatchType
    BY <1>1, <1>9, TablesAre
  <2> QED BY <1>8, <2>1 DEF BatchType
<1>11. DOMAIN batches' = DOMAIN batches
       /\ \A b \in DOMAIN batches : b = j.b \/ batches'[b] = batches[b]
  BY <1>9
<1>12. batches'[j.b] = r
  BY <1>9
<1>13. PlantsKept
  BY <1>10, <1>11, <1>12 DEF PlantsKept
<1>14. OwnersKept
  BY <1>7, <1>10, <1>11, <1>12 DEF OwnersKept
<1>15. RowsMadeAtPlant /\ Finish(w)
  BY DEF SwapSe, RowsMadeAtPlant
<1> QED BY <1>1, <1>7, <1>13, <1>14, <1>15, CoherentEnd DEF Coherently

LEMMA MoveTicketsCoherent ==
    ASSUME PlansCoherent, NEW w \in Workers, MoveTickets(w)
    PROVE  PlansCoherent'
<1>1. PlanTyped' /\ TablesOK
  BY MoveTicketsTyped DEF PlansCoherent, PlanTyped
<1>2. PICK j, ts, p, e, f, k :
         /\ j = job[w] /\ j.op = "move" /\ MoveReady(j)
         /\ ts = DOMAIN j.ids /\ p = batches[j.b].plant /\ e = j.se /\ f = j.b /\ k = j.sched
  BY DEF MoveTickets, Running, PlansCoherent
<1>3. PICK s \in ScheduleFor(e) : \E b \in BatchFor(s, p, e) : MovedTo(s, b, ts, f, p, e, k)
  <2>1. PICK s \in ScheduleFor(job[w].se) : \E b \in BatchFor(s, batches[job[w].b].plant, job[w].se) :
           MovedTo(s, b, DOMAIN job[w].ids, job[w].b, batches[job[w].b].plant, job[w].se,
                   job[w].sched)
    BY DEF MoveTickets, MovedTo
  <2>2. /\ job[w].se = e /\ job[w].b = f /\ job[w].sched = k /\ DOMAIN job[w].ids = ts
        /\ batches[job[w].b].plant = p
    BY <1>2
  <2> QED BY <2>1, <2>2
<1>4. PICK b \in BatchFor(s, p, e) : MovedTo(s, b, ts, f, p, e, k)
  BY <1>3
<1>5. PICK bs, ss, o : bs = WithBatch(b, s, p, e, o) /\ ss = WithSchedule(s, e) /\ o = TRUE
  OBVIOUS
<1>6. batches' = FlagBatch(bs, f) /\ schedules' = FlagSchedule(ss, k)
  BY <1>4, <1>5 DEF MovedTo
<1>7. SameStops(bs, batches') /\ SchedulesKept(ss, schedules')
  BY <1>6, FlagBatchSame, FlagScheduleKept
<1>8. /\ SchedulesKept(schedules, schedules') /\ PlantsKept /\ OwnersKept
      /\ batches'[b].plant = p
  <2>1. Made(s, e, b, p, o, ss, bs)
    BY <1>5, <1>7 DEF Made
  <2> QED BY <1>1, <2>1, MadeCoherently
<1>9. RowsMadeAtPlant
  <2>1. PICK order : row' = [t \in Tickets |->
                               IF t \in ts
                               THEN [batch |-> b, sort |-> NextSort(b) + order[t] - 1]
                               ELSE row[t]]
    BY <1>4 DEF MovedTo
  <2>2. \A t \in Tickets : row'[t] = row[t] \/ (t \in ts /\ row'[t].batch = b)
    BY <2>1
  <2>3. \A t \in ts : PlantOf[t] = p
    BY <1>2 DEF MoveReady
  <2> QED BY <1>8, <2>2, <2>3 DEF RowsMadeAtPlant
<1>10. Finish(w)
  BY DEF MoveTickets
<1> QED BY <1>1, <1>8, <1>9, <1>10, CoherentEnd DEF Coherently

LEMMA DispatchCoherent ==
    ASSUME PlansCoherent, NEW w \in Workers,
           DispatchSchedule(w) \/ DispatchBatch(w) \/ DispatchRow(w) \/ DispatchFlag(w)
    PROVE  PlansCoherent'
<1>1. PlanTyped' /\ TablesOK
  BY DispatchScheduleTyped, DispatchBatchTyped, DispatchRowTyped, DispatchFlagTyped
     DEF PlansCoherent, PlanTyped
<1>2. PICK j : job' = [job EXCEPT ![w] = j] /\ j.op # "move"
  <2>1. PICK k : k = job[w]
    OBVIOUS
  <2>2. k.op = "dispatch" => DOMAIN k = {"op", "todo", "sched", "b", "stop", "sort"}
    <3>1. PlanJobTyped(k)
      BY <2>1 DEF PlansCoherent, PlanTyped
    <3> QED BY <1>1, <3>1, HandIs
  <2>3. CASE DispatchSchedule(w) \/ DispatchBatch(w)
    <3>1. k.op = "dispatch"
      BY <2>1, <2>3 DEF DispatchSchedule, DispatchBatch, Running
    <3>2. PICK j : /\ job' = [job EXCEPT ![w] = j]
                   /\ \/ j = [k EXCEPT !.sched = Len(schedules) + 1, !.b = 0, !.stop = 0]
                      \/ j = [k EXCEPT !.b = Len(batches) + 1, !.stop = @ + 1, !.sort = 0]
      BY <2>1, <2>3 DEF DispatchSchedule, DispatchBatch, Proceed
    <3>3. j.op = "dispatch"
      BY <2>2, <3>1, <3>2
    <3> QED BY <3>2, <3>3
  <2>4. CASE DispatchRow(w)
    <3>1. PICK r, j : /\ job' = [job EXCEPT ![w] = j]
                      /\ j = [op |-> "flag", t |-> recs[r].t, todo |-> job[w].todo \ {r},
                              sched |-> job[w].sched, b |-> job[w].b, stop |-> job[w].stop,
                              sort |-> job[w].sort + 1]
      BY <2>4 DEF DispatchRow, Proceed
    <3>2. j.op = "flag"
      BY <3>1
    <3> QED BY <3>1, <3>2
  <2>5. CASE DispatchFlag(w)
    <3>1. CASE Finish(w)
      <4>1. PICK j : j = Idle
        OBVIOUS
      <4>2. job' = [job EXCEPT ![w] = j]
        BY <3>1, <4>1 DEF Finish
      <4>3. j.op # "move"
        BY <4>1 DEF Idle
      <4> QED BY <4>2, <4>3
    <3>2. CASE ~Finish(w)
      <4>1. PICK j : /\ job' = [job EXCEPT ![w] = j]
                     /\ j = [op |-> "dispatch", todo |-> job[w].todo, sched |-> job[w].sched,
                             b |-> job[w].b, stop |-> job[w].stop, sort |-> job[w].sort]
        BY <2>5, <3>2 DEF DispatchFlag, Proceed
      <4>2. j.op = "dispatch"
        BY <4>1
      <4> QED BY <4>1, <4>2
    <3> QED BY <3>1, <3>2
  <2> QED BY <2>3, <2>4, <2>5
<1>3. Coherently
  <2>1. CASE DispatchSchedule(w)
    <3>1. PICK r : schedules' = Append(schedules, r)
      BY <2>1 DEF DispatchSchedule
    <3>2. schedules \in Seq(ScheduleKind)
      BY <1>1, TablesAre
    <3>3. SchedulesKept(schedules, schedules')
      BY <3>1, <3>2 DEF SchedulesKept
    <3>4. UNCHANGED <<row, batches>>
      BY <2>1 DEF DispatchSchedule
    <3> QED BY <3>3, <3>4 DEF Coherently, PlantsKept, OwnersKept, RowsMadeAtPlant
  <2>2. CASE DispatchBatch(w)
    <3>1. PICK j1 : j1 = job[w] /\ HandKnown(j1)
      <4>1. PICK k : k = job[w] /\ k.op = "dispatch" /\ PlanJobTyped(k)
        BY <2>2 DEF DispatchBatch, Running, PlansCoherent, PlanTyped
      <4> QED BY <1>1, <4>1, HandIs
    <3>2. PICK r \in TodoOfEngineer(j1) :
             batches' = Append(batches, [sched |-> j1.sched, plant |-> PlantOf[recs[r].t],
                                         se |-> recs[r].se, overridden |-> FALSE,
                                         stop |-> j1.stop + 1])
      BY <2>2, <3>1 DEF DispatchBatch
    <3>3. PICK q : q = [sched |-> j1.sched, plant |-> PlantOf[recs[r].t], se |-> recs[r].se,
                        overridden |-> FALSE, stop |-> j1.stop + 1]
      OBVIOUS
    <3>4. q.sched = j1.sched /\ q.se = recs[r].se
      BY <3>3
    <3>5. q.se = schedules[q.sched].se
      BY <3>2, <3>4 DEF TodoOfEngineer
    <3>6. batches' = Append(batches, q) /\ batches \in Seq(BatchType)
      BY <1>1, <3>2, <3>3, TablesAre
    <3>7. /\ \A b \in DOMAIN batches : b \in DOMAIN batches' /\ batches'[b] = batches[b]
          /\ \A b \in DOMAIN batches' : b \in DOMAIN batches \/ batches'[b] = q
      BY <3>6
    <3>8. UNCHANGED <<row, schedules>>
      BY <2>2 DEF DispatchBatch
    <3>9. PlantsKept /\ OwnersKept
      BY <3>5, <3>7, <3>8 DEF PlantsKept, OwnersKept
    <3> QED BY <3>8, <3>9 DEF Coherently, SchedulesKept, RowsMadeAtPlant
  <2>3. CASE DispatchRow(w)
    <3>1. PICK r \in TodoOfPlant(job[w]) :
             row' = [row EXCEPT ![recs[r].t] = [batch |-> job[w].b, sort |-> job[w].sort + 1]]
      BY <2>3 DEF DispatchRow
    <3>0. PICK q : q = [batch |-> job[w].b, sort |-> job[w].sort + 1]
      OBVIOUS
    <3>2. q.batch = job[w].b /\ row' = [row EXCEPT ![recs[r].t] = q]
      BY <3>0, <3>1
    <3>3. batches[q.batch].plant = PlantOf[recs[r].t]
      BY <3>2 DEF TodoOfPlant
    <3>4. row \in [Tickets -> RowType]
      BY <1>1, TablesAre
    <3>5. UNCHANGED <<batches, schedules>>
      BY <2>3 DEF DispatchRow
    <3>6. \A t \in Tickets : row'[t] = row[t] \/ (t = recs[r].t /\ row'[t] = q)
      BY <3>2, <3>4
    <3>7. RowsMadeAtPlant
      BY <3>3, <3>5, <3>6 DEF RowsMadeAtPlant
    <3> QED BY <3>5, <3>7 DEF Coherently, SchedulesKept, PlantsKept, OwnersKept
  <2>4. CASE DispatchFlag(w)
    BY <2>4, TablesStayCoherent DEF DispatchFlag, PlansCoherent
  <2> QED BY <2>1, <2>2, <2>3, <2>4
<1> QED BY <1>1, <1>2, <1>3, CoherentSuffices

\* A move reads tickets that are on the batch: at its plant.
LEMMA PlanReadCoherent ==
    ASSUME PlansCoherent, NEW w \in Workers, PlanRead(w)
    PROVE  PlansCoherent'
<1>1. PlanTyped'
  BY PlanReadTyped DEF PlansCoherent
<1>2. UNCHANGED <<row, batches, schedules>>
  BY DEF PlanRead, DispatchRead, RowRead, AssignRead, ReorderRead, SwapRead, MoveRead, plan
<1>3. Coherently
  BY <1>2, TablesStayCoherent DEF PlansCoherent
<1>4. ASSUME NEW b \in DOMAIN batches, NEW ts \in SUBSET Tickets, NEW e \in Engineers,
             MoveRead(w, b, ts, e)
      PROVE  PlansCoherent'
  <2>1. PICK j : /\ j = [op |-> "move", ids |-> [t \in ts |-> rows[t]], b |-> b,
                         sched |-> batches[b].sched, se |-> e]
                 /\ job' = [job EXCEPT ![w] = j]
    BY <1>4 DEF MoveRead, Begin
  <2>2. j.op = "move" /\ DOMAIN j.ids = ts /\ j.b = b
    BY <2>1
  <2>3. b # 0 /\ \A t \in ts : row[t].batch = b
    <3>1. b # 0
      BY TablesAre DEF PlansCoherent, PlanTyped
    <3> QED BY <1>4, <3>1 DEF MoveRead, ActiveRowsOf
  <2>4. MoveReady(j)
    BY <2>2, <2>3 DEF MoveReady, PlansCoherent, RowsAtPlant, Planned
  <2>5. MoveReady(j)'
    BY <1>2, <2>4 DEF MoveReady
  <2>6. \A v \in Workers : job'[v] = j \/ job'[v] = job[v]
    BY <2>1 DEF PlansCoherent, PlanTyped
  <2>7. ASSUME NEW v \in Workers PROVE MoveReady(job[v])'
    <3>1. PICK k : k = job'[v]
      OBVIOUS
    <3>2. MoveReady(k)
      BY <2>4, <2>6, <3>1 DEF PlansCoherent
    <3> QED BY <1>2, <3>1, <3>2 DEF MoveReady
  <2> QED BY <1>1, <1>3, <2>7, CoherentTables DEF PlansCoherent
<1>5. ASSUME NEW j, Begin(w, j), j.op # "move" PROVE PlansCoherent'
  <2>1. job' = [job EXCEPT ![w] = j]
    BY <1>5 DEF Begin
  <2> QED BY <1>1, <1>3, <1>5, <2>1, CoherentSuffices
<1>6. CASE DispatchRead(w)
  BY <1>5, <1>6 DEF DispatchRead
<1>7. ASSUME NEW t \in Tickets, RowRead(w, "remove", t) \/ RowRead(w, "defer", t)
      PROVE  PlansCoherent'
  BY <1>5, <1>7 DEF RowRead
<1>8. ASSUME NEW t \in Tickets, NEW e \in Engineers, AssignRead(w, t, e, FALSE)
      PROVE  PlansCoherent'
  BY <1>5, <1>8 DEF AssignRead
<1>9. ASSUME NEW b \in DOMAIN batches, NEW stop \in 1..MaxBatches, ReorderRead(w, b, stop)
      PROVE  PlansCoherent'
  <2>1. PICK stops : Begin(w, [op |-> "reorder", b |-> b, sched |-> batches[b].sched,
                               stops |-> stops])
    BY <1>9 DEF ReorderRead
  <2> QED BY <1>5, <2>1
<1>10. ASSUME NEW b \in DOMAIN batches, NEW e \in Engineers, SwapRead(w, b, e)
       PROVE  PlansCoherent'
  BY <1>5, <1>10 DEF SwapRead
<1> QED BY <1>4, <1>6, <1>7, <1>8, <1>9, <1>10 DEF PlanRead

LEMMA PlanStepCoherent ==
    ASSUME PlansCoherent, NEW w \in Workers, PlanStep(w) PROVE PlansCoherent'
<1>1. CASE PlanAbandon(w)
  <2>1. PlanTyped'
    BY <1>1, PlanStepTyped DEF PlansCoherent, PlanStep
  <2>2. Finish(w) /\ UNCHANGED <<row, batches, schedules>>
    BY <1>1 DEF PlanAbandon, Abandon, plan
  <2> QED BY <2>1, <2>2, TablesStayCoherent, CoherentEnd DEF PlansCoherent
<1>2. CASE PlanWrite(w)
  BY <1>2, AssignTicketCoherent, FlaggedCoherent, SwapSeCoherent, MoveTicketsCoherent,
     DispatchCoherent DEF PlanWrite
<1> QED BY <1>1, <1>2, PlanReadCoherent DEF PlanStep

\* Nobody's step: no row, batch, schedule or execution changes.
LEMMA PlanOutsideCoherent ==
    ASSUME PlansCoherent, PlanTyped', UNCHANGED <<row, batches, schedules, job>>
    PROVE  PlansCoherent'
<1>1. Coherently
  BY TablesStayCoherent DEF PlansCoherent
<1> QED BY <1>1, CoherentTables DEF PlansCoherent, MoveReady

LEMMA PlansCoherentNext == PlansCoherent /\ [PlanNext]_planVars => PlansCoherent'
<1> SUFFICES ASSUME PlansCoherent, [PlanNext]_planVars PROVE PlansCoherent'
  OBVIOUS
<1>1. PlanTyped'
  BY PlanTypedNext DEF PlansCoherent
<1>2. CASE UNCHANGED planVars
  BY <1>1, <1>2, PlanOutsideCoherent DEF planVars, plan
<1>3. CASE PlanEnvironment
  BY <1>1, <1>3, PlanOutsideCoherent DEF PlanEnvironment, ReturnToPool, Recommend
<1> QED BY <1>2, <1>3, PlanStepCoherent DEF PlanNext

LEMMA PlansCoherentInit == PlanInit /\ job = [w \in Workers |-> Idle] => PlansCoherent
<1> SUFFICES ASSUME PlanInit, job = [w \in Workers |-> Idle] PROVE PlansCoherent
  OBVIOUS
<1>1. PlanTyped
  BY PlanTypedInit
<1>2. RowsAtPlant /\ StopsOwned
  BY DEF PlanInit, RowsAtPlant, StopsOwned, Planned, NoRow
<1>3. Idle.op # "move"
  BY DEF Idle
<1> QED BY <1>1, <1>2, <1>3 DEF PlansCoherent, MoveReady

LEMMA CoherentStops == PlansCoherent => StopsCoherent
<1> SUFFICES ASSUME PlansCoherent PROVE StopsCoherent
  OBVIOUS
<1>1. TablesOK
  BY DEF PlansCoherent, PlanTyped
<1>2. \A t \in Tickets : Planned(t) => row[t].batch \in DOMAIN batches
  BY <1>1, TablesAre DEF TablesOK, Planned
<1>3. \A b \in DOMAIN batches : batches[b].sched \in DOMAIN schedules
  BY <1>1, TablesAre DEF TablesOK, BatchRowsOK
<1> QED BY <1>2, <1>3 DEF StopsCoherent, PlansCoherent, RowsAtPlant, StopsOwned

\* Whatever assignments, overrides and dispatches overlap, a planned ticket is on a stop at its
\* own plant, and every stop is in a schedule of the engineer it names, for any number of
\* tickets, engineers and plants (ensureSchedule, moveTickets, swapSe, dispatchForZone).
THEOREM StopsCoherentHolds == PlanSpec => []StopsCoherent
  BY PlansCoherentInit, PlansCoherentNext, CoherentStops, PTL DEF PlanSpec, PlanNext

-----------------------------------------------------------------------------
(* The offers, executions overlapping or not                              *)

\* What an execution knows of the offers it holds: rows that stay.
OfferJobTyped(j) ==
    /\ j \in PlanJob \cup InsertionJob \cup {Idle}
    /\ j.op \in {"accept", "acceptMark", "manual", "manualMark", "decline"} =>
          j.i \in DOMAIN insertion
    /\ j.op = "sweep" => j.todo \subseteq DOMAIN insertion /\ j.todo \subseteq DOMAIN j.seen

OffersTyped ==
    /\ open \in [Tickets -> BOOLEAN]
    /\ insertion \in Seq(InsertionRow) /\ Len(insertion) <= MaxInsertions
    /\ \A w \in Workers : OfferJobTyped(job[w])

InsertionTyped == PlanTyped /\ OffersTyped

OfferTablesOK ==
    /\ open' \in [Tickets -> BOOLEAN]
    /\ insertion' \in Seq(InsertionRow) /\ Len(insertion') <= MaxInsertions
    /\ Len(insertion) <= Len(insertion')

LEMMA OfferJobStays ==
    ASSUME OffersTyped, OfferTablesOK, NEW j, OfferJobTyped(j)
    PROVE  OfferJobTyped(j)'
<1>1. /\ DOMAIN insertion = 1..Len(insertion) /\ DOMAIN insertion' = 1..Len(insertion')
      /\ Len(insertion) \in Nat /\ Len(insertion') \in Nat /\ Len(insertion) <= Len(insertion')
  BY DEF OffersTyped, OfferTablesOK
<1>2. DOMAIN insertion \subseteq DOMAIN insertion'
  BY <1>1
<1> QED BY <1>2 DEF OfferJobTyped

LEMMA OffersSuffice ==
    ASSUME InsertionTyped, NEW w \in Workers, NEW j, job' = [job EXCEPT ![w] = j],
           OfferTablesOK, OfferJobTyped(j)'
    PROVE  OffersTyped'
<1>1. \A v \in Workers : job'[v] = IF v = w THEN j ELSE job[v]
  BY DEF InsertionTyped, PlanTyped
<1>2. ASSUME NEW v \in Workers PROVE OfferJobTyped(job[v])'
  <2>1. PICK k : k = job'[v]
    OBVIOUS
  <2>2. OfferJobTyped(k)'
    <3>1. CASE v = w
      BY <1>1, <2>1, <3>1
    <3>2. CASE v # w
      <4>1. OfferJobTyped(k) /\ OffersTyped
        BY <1>1, <2>1, <3>2 DEF InsertionTyped, OffersTyped
      <4> QED BY <4>1, OfferJobStays
    <3> QED BY <3>1, <3>2
  <2> QED BY <2>1, <2>2 DEF OfferJobTyped
<1> QED BY <1>2 DEF OffersTyped, OfferTablesOK

\* A job of the offers says nothing of the plan.
LEMMA OfferJobPlanTyped ==
    ASSUME NEW j, j.op \in IntradayOps
    PROVE  PlanJobTyped(j)'
  BY DEF PlanJobTyped, PlanOps, IntradayOps

\* A step of the offers that goes on, writing no row of the plan.
LEMMA OfferStepTyped ==
    ASSUME InsertionTyped, NEW w \in Workers, NEW j, job' = [job EXCEPT ![w] = j],
           j.op \in IntradayOps, UNCHANGED plan, OfferTablesOK, OfferJobTyped(j)'
    PROVE  InsertionTyped'
<1>1. PlanTyped
  BY DEF InsertionTyped
<1>2. PlanTyped'
  BY <1>1, PlanStays, OfferJobPlanTyped, TypedSuffices
<1> QED BY <1>2, OffersSuffice DEF InsertionTyped

LEMMA OfferEndTyped ==
    ASSUME InsertionTyped, NEW w \in Workers, Finish(w), UNCHANGED plan, OfferTablesOK
    PROVE  InsertionTyped'
<1>1. PlanTyped
  BY DEF InsertionTyped
<1>2. PlanTyped'
  BY <1>1, PlanStays, FinishTyped
<1>3. PICK j : j = Idle /\ job' = [job EXCEPT ![w] = j]
  BY DEF Finish
<1>4. OfferJobTyped(j)'
  <2>1. j.op = "idle"
    BY <1>3 DEF Idle
  <2> QED BY <1>3, <2>1 DEF OfferJobTyped
<1> QED BY <1>2, <1>3, <1>4, OffersSuffice DEF InsertionTyped

LEMMA OfferTablesStay ==
    ASSUME OffersTyped, UNCHANGED intraday
    PROVE  OfferTablesOK
  BY DEF OffersTyped, OfferTablesOK, intraday

\* A row of an offer is replaced.
LEMMA OfferRewritten ==
    ASSUME OffersTyped, NEW i \in DOMAIN insertion, NEW r \in InsertionRow,
           insertion' = [insertion EXCEPT ![i] = r], UNCHANGED open
    PROVE  OfferTablesOK
  BY DEF OffersTyped, OfferTablesOK

\* What each job of the offers is made of.
LEMMA OfferJobIs ==
    ASSUME NEW j, OfferJobTyped(j)
    PROVE  /\ j.op = "fire" => j \in [op : {"fire"}, todo : SUBSET Tickets]
           /\ j.op \in {"accept", "acceptMark", "manual", "manualMark"} =>
                 j \in [op : {"accept", "acceptMark", "manual", "manualMark"},
                        i : 1..MaxInsertions, se : Engineers]
           /\ j.op = "sweep" =>
                 j \in [op : {"sweep"}, todo : SUBSET (1..MaxInsertions), seen : Seq(InsertionRow)]
           /\ j.op = "decline" =>
                 j \in [op : {"decline"}, i : 1..MaxInsertions, seen : InsertionRow]
<1>1. j \in PlanJob => j.op \in PlanOps
  BY DEF PlanJob, PlanOps
<1>2. j = Idle => j.op = "idle"
  BY DEF Idle
<1>3. j.op \in IntradayOps => j \in InsertionJob
  BY <1>1, <1>2 DEF OfferJobTyped, PlanOps, IntradayOps
<1>4. j.op \in {"fire", "accept", "acceptMark", "manual", "manualMark", "sweep", "decline"} =>
         j \in InsertionJob
  BY <1>3 DEF IntradayOps
<1> QED BY <1>4 DEF InsertionJob

LEMMA IntradayReadTyped ==
    ASSUME InsertionTyped, NEW w \in Workers, IntradayRead(w)
    PROVE  InsertionTyped'
<1>1. UNCHANGED <<plan, intraday>>
  BY DEF IntradayRead, FireRead, SweepRead, DeclineRead, AcceptRead, ManualRead
<1>2. OffersTyped /\ OfferTablesOK
  BY <1>1, OfferTablesStay DEF InsertionTyped
<1>3. /\ insertion \in Seq(InsertionRow) /\ DOMAIN insertion = 1..Len(insertion)
      /\ Len(insertion) \in 0..MaxInsertions /\ MaxInsertions \in Nat
      /\ DOMAIN insertion' = DOMAIN insertion
  BY <1>1, <1>2, InsertionAssumption DEF OffersTyped, intraday
<1>4. \A i \in DOMAIN insertion : i \in 1..MaxInsertions /\ insertion[i] \in InsertionRow
  BY <1>3
<1>5. CASE FireRead(w)
  <2>1. PICK j : j = [op |-> "fire", todo |-> UrgentTickets] /\ job' = [job EXCEPT ![w] = j]
    BY <1>5 DEF FireRead, Begin
  <2>2. UrgentTickets \in SUBSET Tickets
    BY DEF UrgentTickets
  <2>3. j.op \in IntradayOps /\ OfferJobTyped(j)'
    BY <2>1, <2>2 DEF IntradayOps, OfferJobTyped, InsertionJob
  <2> QED BY <1>1, <1>2, <2>1, <2>3, OfferStepTyped
<1>6. CASE SweepRead(w)
  <2>1. PICK todo : /\ todo \subseteq DOMAIN insertion
                    /\ Begin(w, [op |-> "sweep", todo |-> todo, seen |-> insertion])
    BY <1>6 DEF SweepRead
  <2>2. PICK j : /\ j = [op |-> "sweep", todo |-> todo, seen |-> insertion]
                 /\ job' = [job EXCEPT ![w] = j]
    BY <2>1 DEF Begin
  <2>3. todo \in SUBSET (1..MaxInsertions) /\ todo \subseteq DOMAIN insertion'
    BY <1>3, <1>4, <2>1
  <2>4. j \in InsertionJob
    BY <1>3, <2>2, <2>3 DEF InsertionJob
  <2>5. j.op \in IntradayOps /\ OfferJobTyped(j)'
    BY <2>1, <2>2, <2>3, <2>4 DEF IntradayOps, OfferJobTyped
  <2> QED BY <1>1, <1>2, <2>2, <2>5, OfferStepTyped
<1>7. ASSUME NEW i \in DOMAIN insertion, DeclineRead(w, i) PROVE InsertionTyped'
  <2>1. PICK j : j = [op |-> "decline", i |-> i, seen |-> insertion[i]]
                 /\ job' = [job EXCEPT ![w] = j]
    BY <1>7 DEF DeclineRead, Begin
  <2>2. j \in InsertionJob
    BY <1>4, <2>1 DEF InsertionJob
  <2>3. j.op \in IntradayOps /\ OfferJobTyped(j)'
    BY <1>3, <2>1, <2>2 DEF IntradayOps, OfferJobTyped
  <2> QED BY <1>1, <1>2, <2>1, <2>3, OfferStepTyped
<1>8. ASSUME NEW i \in DOMAIN insertion, NEW e \in Engineers,
             AcceptRead(w, i, e) \/ ManualRead(w, i, e)
      PROVE  InsertionTyped'
  <2>0. PICK op \in {"accept", "manual"} : job' = [job EXCEPT ![w] = [op |-> op, i |-> i, se |-> e]]
    BY <1>8 DEF AcceptRead, ManualRead, Begin
  <2>1. PICK j : j = [op |-> op, i |-> i, se |-> e] /\ job' = [job EXCEPT ![w] = j]
    BY <2>0
  <2>2. j \in InsertionJob
    BY <1>4, <2>1 DEF InsertionJob
  <2>3. j.op \in IntradayOps /\ OfferJobTyped(j)'
    BY <1>3, <2>1, <2>2 DEF IntradayOps, OfferJobTyped
  <2> QED BY <1>1, <1>2, <2>1, <2>3, OfferStepTyped
<1> QED BY <1>5, <1>6, <1>7, <1>8 DEF IntradayRead

LEMMA RerouteTyped ==
    ASSUME OffersTyped, NEW i \in DOMAIN insertion, NEW r \in InsertionRow, Reroute(i, r),
           UNCHANGED open
    PROVE  OfferTablesOK
<1>1. insertion \in Seq(InsertionRow) /\ insertion[i] \in InsertionRow
  BY DEF OffersTyped
<1>2. PICK q : /\ insertion' = [insertion EXCEPT ![i] = q]
               /\ \/ /\ r.retry < MaxRetries
                     /\ \E e \in Untried(r) :
                           q = [r EXCEPT !.status = "PENDING_ACCEPTANCE", !.se = e,
                                         !.due = FALSE, !.retry = @ + 1,
                                         !.tried = @ \cup {r.se}]
                  \/ q = [insertion[i] EXCEPT !.status = "ESCALATION_REQUIRED",
                                              !.tried = r.tried \cup {r.se}]
  BY DEF Reroute, SetInsertion
<1>3. q \in InsertionRow
  <2>1. CASE q = [insertion[i] EXCEPT !.status = "ESCALATION_REQUIRED",
                                      !.tried = r.tried \cup {r.se}]
    BY <1>1, <2>1 DEF InsertionRow, InsertionStatus, Live
  <2>2. ASSUME NEW e \in Untried(r), r.retry < MaxRetries,
               q = [r EXCEPT !.status = "PENDING_ACCEPTANCE", !.se = e, !.due = FALSE,
                             !.retry = @ + 1, !.tried = @ \cup {r.se}]
        PROVE  q \in InsertionRow
    <3>1. r.retry + 1 \in 0..MaxRetries
      BY <2>2, InsertionAssumption DEF InsertionRow
    <3>2. e \in Engineers
      BY <2>2 DEF Untried
    <3> QED BY <2>2, <3>1, <3>2 DEF InsertionRow, InsertionStatus, Live
  <2> QED BY <1>2, <2>1, <2>2
<1> QED BY <1>2, <1>3, OfferRewritten

LEMMA FireTicketTyped ==
    ASSUME InsertionTyped, NEW w \in Workers, FireTicket(w)
    PROVE  InsertionTyped'
<1>1. PICK j : j = job[w] /\ j.op = "fire"
  BY DEF FireTicket, Running
<1>2. j \in [op : {"fire"}, todo : SUBSET Tickets]
  BY <1>1, OfferJobIs DEF InsertionTyped, OffersTyped
<1>3. UNCHANGED plan /\ UNCHANGED open
  BY DEF FireTicket
<1>4. PICK t \in j.todo :
         /\ IF j.todo = {t} THEN Finish(w) ELSE Proceed(w, [j EXCEPT !.todo = @ \ {t}])
         /\ \/ /\ Len(insertion) < MaxInsertions
               /\ \E e \in Engineers :
                     insertion' = Append(insertion,
                         [t |-> t, status |-> "PENDING_ACCEPTANCE", se |-> e, due |-> FALSE,
                          retry |-> 0, tried |-> {}])
            \/ UNCHANGED insertion
  BY <1>1 DEF FireTicket
<1>5. OffersTyped
  BY DEF InsertionTyped
<1>6. OfferTablesOK
  <2>1. CASE UNCHANGED insertion
    BY <1>3, <1>5, <2>1, OfferTablesStay DEF intraday
  <2>2. ASSUME NEW e \in Engineers, Len(insertion) < MaxInsertions,
               insertion' = Append(insertion,
                   [t |-> t, status |-> "PENDING_ACCEPTANCE", se |-> e, due |-> FALSE,
                    retry |-> 0, tried |-> {}])
        PROVE  OfferTablesOK
    <3>1. PICK r \in InsertionRow :
             r = [t |-> t, status |-> "PENDING_ACCEPTANCE", se |-> e, due |-> FALSE,
                  retry |-> 0, tried |-> {}]
      <4>1. t \in Tickets /\ 0 \in 0..MaxRetries /\ {} \in SUBSET Engineers
        BY <1>2, InsertionAssumption
      <4> QED BY <4>1 DEF InsertionRow, InsertionStatus, Live
    <3>2. insertion' = Append(insertion, r)
      BY <2>2, <3>1
    <3> QED BY <1>3, <1>5, <2>2, <3>2, InsertionAssumption DEF OffersTyped, OfferTablesOK
  <2> QED BY <1>4, <2>1, <2>2
<1>7. CASE Finish(w)
  BY <1>3, <1>6, <1>7, OfferEndTyped
<1>8. CASE ~Finish(w)
  <2>1. PICK k : job' = [job EXCEPT ![w] = k] /\ k = [j EXCEPT !.todo = @ \ {t}]
    BY <1>4, <1>8 DEF Proceed
  <2>2. k \in [op : {"fire"}, todo : SUBSET Tickets] /\ k.op = "fire"
    BY <1>2, <2>1
  <2>3. k.op \in IntradayOps /\ OfferJobTyped(k)'
    BY <2>2 DEF IntradayOps, OfferJobTyped, InsertionJob
  <2> QED BY <1>3, <1>6, <2>1, <2>3, OfferStepTyped
<1> QED BY <1>7, <1>8

LEMMA DeclineTyped ==
    ASSUME InsertionTyped, NEW w \in Workers, Decline(w)
    PROVE  InsertionTyped'
<1>1. PICK j : j = job[w] /\ j.op = "decline" /\ OfferJobTyped(j)
  BY DEF Decline, Running, InsertionTyped, OffersTyped
<1>2. j.seen \in InsertionRow
  BY <1>1, OfferJobIs
<1>3. j.i \in DOMAIN insertion
  BY <1>1 DEF OfferJobTyped
<1>4. Reroute(j.i, j.seen) /\ Finish(w) /\ UNCHANGED plan /\ UNCHANGED open
  BY <1>1 DEF Decline
<1>5. OfferTablesOK
  BY <1>2, <1>3, <1>4, RerouteTyped DEF InsertionTyped
<1> QED BY <1>4, <1>5, OfferEndTyped

LEMMA TimeOutTyped ==
    ASSUME InsertionTyped, NEW w \in Workers, TimeOut(w)
    PROVE  InsertionTyped'
<1>1. PICK j : j = job[w] /\ j.op = "sweep" /\ OfferJobTyped(j)
  BY DEF TimeOut, Running, InsertionTyped, OffersTyped
<1>2. j \in [op : {"sweep"}, todo : SUBSET (1..MaxInsertions), seen : Seq(InsertionRow)]
  BY <1>1, OfferJobIs
<1>3. j.todo \subseteq DOMAIN insertion /\ j.todo \subseteq DOMAIN j.seen
  BY <1>1 DEF OfferJobTyped
<1>4. PICK i \in j.todo : /\ Reroute(i, j.seen[i])
                          /\ IF j.todo = {i} THEN Finish(w)
                             ELSE Proceed(w, [j EXCEPT !.todo = @ \ {i}])
  BY <1>1 DEF TimeOut
<1>5. UNCHANGED plan /\ UNCHANGED open
  BY DEF TimeOut
<1>6. j.seen[i] \in InsertionRow
  <2>1. PICK seen \in Seq(InsertionRow) : seen = j.seen
    BY <1>2
  <2> QED BY <1>3, <2>1
<1>7. OfferTablesOK
  <2>1. PICK r \in InsertionRow : r = j.seen[i]
    BY <1>6
  <2>2. i \in DOMAIN insertion /\ OffersTyped /\ Reroute(i, r)
    BY <1>3, <1>4, <2>1 DEF InsertionTyped
  <2> QED BY <1>5, <2>2, RerouteTyped
<1>8. CASE Finish(w)
  BY <1>5, <1>7, <1>8, OfferEndTyped
<1>9. CASE ~Finish(w)
  <2>1. PICK k : job' = [job EXCEPT ![w] = k] /\ k = [j EXCEPT !.todo = @ \ {i}]
    BY <1>4, <1>9 DEF Proceed
  <2>2. /\ k \in [op : {"sweep"}, todo : SUBSET (1..MaxInsertions), seen : Seq(InsertionRow)]
        /\ k.op = "sweep" /\ k.todo \subseteq j.todo /\ k.seen = j.seen
    BY <1>2, <2>1
  <2>3. DOMAIN insertion \subseteq DOMAIN insertion'
    <3>1. /\ DOMAIN insertion = 1..Len(insertion) /\ DOMAIN insertion' = 1..Len(insertion')
          /\ Len(insertion) \in Nat /\ Len(insertion') \in Nat
          /\ Len(insertion) <= Len(insertion')
      BY <1>7 DEF InsertionTyped, OffersTyped, OfferTablesOK
    <3> QED BY <3>1
  <2>4. k.op \in IntradayOps /\ OfferJobTyped(k)'
    BY <1>3, <2>2, <2>3 DEF IntradayOps, OfferJobTyped, InsertionJob
  <2> QED BY <1>5, <1>7, <2>1, <2>4, OfferStepTyped
<1> QED BY <1>8, <1>9

\* The transaction of assignTicket on behalf of an offer.
LEMMA InsertAtTopTyped ==
    ASSUME InsertionTyped, NEW w \in Workers, NEW op \in {"accept", "manual"},
           NEW next \in {"acceptMark", "manualMark"}, InsertAtTop(w, op, next)
    PROVE  InsertionTyped'
<1>1. PICK j : j = job[w] /\ j.op = op /\ OfferJobTyped(j)
  BY DEF InsertAtTop, Running, InsertionTyped, OffersTyped
<1>2. j \in [op : {"accept", "acceptMark", "manual", "manualMark"}, i : 1..MaxInsertions,
             se : Engineers]
  BY <1>1, OfferJobIs
<1>3. j.i \in DOMAIN insertion
  BY <1>1 DEF OfferJobTyped
<1>4. insertion[j.i].t \in Tickets
  <2>1. insertion \in Seq(InsertionRow)
    BY DEF InsertionTyped, OffersTyped
  <2>2. insertion[j.i] \in InsertionRow
    BY <1>3, <2>1
  <2> QED BY <2>2 DEF InsertionRow
<1>5. AssignTicketTx(w, insertion[j.i].t, j.se, TRUE) /\ UNCHANGED intraday
  BY <1>1 DEF InsertAtTop
<1>6. TablesOK' /\ TablesGrow
  <2>1. PICK t \in Tickets, e \in Engineers, top \in BOOLEAN :
           t = insertion[j.i].t /\ e = j.se /\ top = TRUE
    BY <1>2, <1>4
  <2>2. TablesOK /\ AssignTicketTx(w, t, e, top)
    BY <1>5, <2>1 DEF InsertionTyped, PlanTyped
  <2> QED BY <2>2, AssignTxTyped
<1>7. PICK k : job' = [job EXCEPT ![w] = k] /\ k = [j EXCEPT !.op = next]
  BY <1>1 DEF InsertAtTop, Proceed
<1>8. k.op = next /\ k.i = j.i /\ k \in InsertionJob
  BY <1>2, <1>7 DEF InsertionJob
<1>9. k.op \in IntradayOps
  BY <1>8 DEF IntradayOps
<1>10. PlanTyped'
  BY <1>6, <1>7, <1>9, OfferJobPlanTyped, TypedSuffices DEF InsertionTyped
<1>11. OfferTablesOK
  BY <1>5, OfferTablesStay DEF InsertionTyped
<1>12. OfferJobTyped(k)'
  BY <1>3, <1>5, <1>8 DEF OfferJobTyped, intraday
<1> QED BY <1>7, <1>10, <1>11, <1>12, OffersSuffice DEF InsertionTyped

LEMMA MarkTyped ==
    ASSUME InsertionTyped, NEW w \in Workers, AcceptMark(w) \/ ManualMark(w)
    PROVE  InsertionTyped'
<1>1. PICK j : j = job[w] /\ j.op \in {"acceptMark", "manualMark"} /\ OfferJobTyped(j)
  BY DEF AcceptMark, ManualMark, Running, InsertionTyped, OffersTyped
<1>2. j.se \in Engineers
  BY <1>1, OfferJobIs
<1>3. j.i \in DOMAIN insertion
  BY <1>1 DEF OfferJobTyped
<1>4. PICK q : /\ insertion' = [insertion EXCEPT ![j.i] = q]
               /\ \/ q = [insertion[j.i] EXCEPT !.status = "ACCEPTED"]
                  \/ q = [insertion[j.i] EXCEPT !.status = "ACCEPTED", !.se = j.se]
  BY <1>1 DEF AcceptMark, ManualMark, SetInsertion
<1>5. Finish(w) /\ UNCHANGED plan /\ UNCHANGED open
  BY DEF AcceptMark, ManualMark
<1>6. q \in InsertionRow
  <2>1. insertion \in Seq(InsertionRow)
    BY DEF InsertionTyped, OffersTyped
  <2>2. insertion[j.i] \in InsertionRow
    BY <1>3, <2>1
  <2> QED BY <1>2, <1>4, <2>2 DEF InsertionRow, InsertionStatus, Live
<1>7. OfferTablesOK
  BY <1>3, <1>4, <1>5, <1>6, OfferRewritten DEF InsertionTyped
<1> QED BY <1>5, <1>7, OfferEndTyped

-----------------------------------------------------------------------------
(* Every step of the plans and the offers                                 *)

LEMMA OverrideTyped ==
    ASSUME InsertionTyped, NEW w \in Workers, PlanStep(w), UNCHANGED intraday
    PROVE  InsertionTyped'
<1>1. PlanTyped'
  BY PlanStepTyped DEF InsertionTyped
<1>2. PICK j : job' = [job EXCEPT ![w] = j] /\ PlanJobOp(j)
  <2>1. PICK k : k = job[w]
    OBVIOUS
  <2>2. k.op = "dispatch" => DOMAIN k = {"op", "todo", "sched", "b", "stop", "sort"}
    <3>1. TablesOK /\ PlanJobTyped(k)
      BY <2>1 DEF InsertionTyped, PlanTyped
    <3> QED BY <3>1, HandIs
  <2> QED BY <2>1, <2>2, PlanStepJob
<1>3. job'[w] = j
  BY <1>2 DEF InsertionTyped, PlanTyped
<1>4. OfferJobTyped(j)'
  <2>1. CASE j = Idle
    BY <2>1 DEF OfferJobTyped, Idle
  <2>2. CASE j # Idle
    <3>1. PlanJobTyped(j)'
      <4>1. PlanJobTyped(job[w])'
        BY <1>1 DEF PlanTyped
      <4> QED BY <1>3, <4>1 DEF PlanJobTyped, RowsKnown, HandKnown
    <3>2. j \in PlanJob
      BY <1>2, <2>2, <3>1 DEF PlanJobOp, PlanJobTyped
    <3> QED BY <1>2, <2>2, <3>2 DEF PlanJobOp, PlanOps, OfferJobTyped
  <2> QED BY <2>1, <2>2
<1>5. OfferTablesOK
  BY OfferTablesStay DEF InsertionTyped
<1> QED BY <1>1, <1>2, <1>4, <1>5, OffersSuffice DEF InsertionTyped

\* A step of nobody's execution.
LEMMA OffersStayTyped ==
    ASSUME InsertionTyped, UNCHANGED job, OfferTablesOK
    PROVE  OffersTyped'
<1>1. ASSUME NEW v \in Workers PROVE OfferJobTyped(job[v])'
  <2>1. PICK j : j = job[v]
    OBVIOUS
  <2>2. OffersTyped /\ OfferJobTyped(j)
    BY <2>1 DEF InsertionTyped, OffersTyped
  <2>3. OfferJobTyped(j)'
    BY <2>2, OfferJobStays
  <2> QED BY <2>1, <2>3 DEF OfferJobTyped
<1> QED BY <1>1 DEF OffersTyped, OfferTablesOK

LEMMA InsertionEnvironmentTyped ==
    ASSUME InsertionTyped, Environment
    PROVE  InsertionTyped'
<1>1. CASE PlanEnvironment /\ UNCHANGED intraday
  <2>1. PlanTyped'
    BY <1>1, PlanEnvironmentTyped DEF InsertionTyped
  <2>2. UNCHANGED job
    BY <1>1 DEF PlanEnvironment, ReturnToPool, Recommend
  <2>3. OfferTablesOK
    BY <1>1, OfferTablesStay DEF InsertionTyped
  <2> QED BY <2>1, <2>2, <2>3, OffersStayTyped DEF InsertionTyped
<1>2. ASSUME UNCHANGED <<plan, job>>, OfferTablesOK PROVE InsertionTyped'
  <2>1. PlanTyped'
    BY <1>2, PlanTypedNext DEF InsertionTyped, planVars
  <2> QED BY <1>2, <2>1, OffersStayTyped DEF InsertionTyped
<1>3. ASSUME NEW i \in DOMAIN insertion, TenMinutesPass(i) PROVE InsertionTyped'
  <2>1. PICK q : /\ insertion' = [insertion EXCEPT ![i] = q]
                 /\ q = [insertion[i] EXCEPT !.due = TRUE]
    BY <1>3 DEF TenMinutesPass, SetInsertion
  <2>2. insertion[i] \in InsertionRow
    <3>1. insertion \in Seq(InsertionRow)
      BY DEF InsertionTyped, OffersTyped
    <3> QED BY <3>1
  <2>3. q \in InsertionRow
    BY <2>1, <2>2 DEF InsertionRow
  <2>4. UNCHANGED <<plan, job>> /\ UNCHANGED open
    BY <1>3 DEF TenMinutesPass
  <2>5. OfferTablesOK
    BY <2>1, <2>3, <2>4, OfferRewritten DEF InsertionTyped
  <2> QED BY <1>2, <2>4, <2>5
<1>4. ASSUME NEW t \in Tickets, CloseTicket(t) PROVE InsertionTyped'
  <2>1. OfferTablesOK
    BY <1>4 DEF CloseTicket, InsertionTyped, OffersTyped, OfferTablesOK
  <2>2. UNCHANGED <<plan, job>>
    BY <1>4 DEF CloseTicket
  <2> QED BY <1>2, <2>1, <2>2
<1> QED BY <1>1, <1>3, <1>4 DEF Environment

LEMMA InsertionTypedNext == InsertionTyped /\ [Next]_allVars => InsertionTyped'
<1> SUFFICES ASSUME InsertionTyped, [Next]_allVars PROVE InsertionTyped'
  OBVIOUS
<1>1. CASE UNCHANGED allVars
  <2>1. PlanTyped'
    BY <1>1, PlanTypedNext DEF InsertionTyped, allVars, planVars
  <2>2. OfferTablesOK
    BY <1>1, OfferTablesStay DEF InsertionTyped, allVars, intraday
  <2> QED BY <1>1, <2>1, <2>2, OffersStayTyped DEF InsertionTyped, allVars
<1>2. ASSUME NEW w \in Workers, Step(w) PROVE InsertionTyped'
  <2>1. CASE IntradayWrite(w)
    BY <2>1, FireTicketTyped, DeclineTyped, TimeOutTyped, InsertAtTopTyped, MarkTyped
       DEF IntradayWrite
  <2> QED BY <1>2, <2>1, IntradayReadTyped, OverrideTyped DEF Step
<1> QED BY <1>1, <1>2, InsertionEnvironmentTyped DEF Next

LEMMA InsertionTypedInit == Init => InsertionTyped
<1> SUFFICES ASSUME Init PROVE InsertionTyped
  OBVIOUS
<1>1. PlanTyped
  BY PlanTypedInit DEF Init
<1>2. OffersTyped
  BY InsertionAssumption DEF Init, OffersTyped, OfferJobTyped, Idle
<1> QED BY <1>1, <1>2 DEF InsertionTyped

\* Rows of the plans and of the offers, and what every execution holds of them, keep their
\* types, however many executions overlap: accept, decline and the sweep write rows that
\* exist, and a reroute is never counted beyond MAX_RETRIES.
THEOREM InsertionTypeOKHolds == Spec => []InsertionTypeOK
<1>1. Init => InsertionTyped
  BY InsertionTypedInit
<1>2. InsertionTyped => InsertionTypeOK
  BY DEF InsertionTyped, PlanTyped, TablesOK, OffersTyped, OfferJobTyped, InsertionTypeOK
<1> QED BY <1>1, <1>2, InsertionTypedNext, PTL DEF Spec

-----------------------------------------------------------------------------
(* Nobody is asked twice                                                  *)

\* An offer that waits for an engineer who has not been asked, every one before him counted.
AskedOnce(r) ==
    r.status = "PENDING_ACCEPTANCE" =>
       IsFiniteSet(r.tried) /\ r.se \notin r.tried /\ r.retry = Cardinality(r.tried)

\* A row that was read to be offered again was such an offer, whatever it is by now.
Waiting(r) == r.status = "PENDING_ACCEPTANCE" /\ AskedOnce(r)

RereadOK(j) ==
    /\ j.op = "decline" => Waiting(j.seen)
    /\ j.op = "sweep" => \A i \in j.todo : Waiting(j.seen[i])

AskedInv ==
    /\ InsertionTyped
    /\ \A i \in DOMAIN insertion : AskedOnce(insertion[i])
    /\ \A w \in Workers : RereadOK(job[w])

\* One execution goes on.
LEMMA AskedSuffices ==
    ASSUME AskedInv, InsertionTyped', NEW w \in Workers, NEW j, job' = [job EXCEPT ![w] = j],
           RereadOK(j), \A i \in DOMAIN insertion' : AskedOnce(insertion'[i])
    PROVE  AskedInv'
<1>1. \A v \in Workers : job'[v] = j \/ job'[v] = job[v]
  BY DEF AskedInv, InsertionTyped, PlanTyped
<1>2. \A v \in Workers : RereadOK(job'[v])
  BY <1>1 DEF AskedInv
<1> QED BY <1>2 DEF AskedInv, AskedOnce, RereadOK, Waiting

\* The executions stay.
LEMMA AskedStays ==
    ASSUME AskedInv, InsertionTyped', UNCHANGED job,
           \A i \in DOMAIN insertion' : AskedOnce(insertion'[i])
    PROVE  AskedInv'
  BY DEF AskedInv, AskedOnce, RereadOK, Waiting

LEMMA NothingToReread ==
    ASSUME NEW j, j.op \notin {"decline", "sweep"} PROVE RereadOK(j)
  BY DEF RereadOK

LEMMA IdleRereads == RereadOK(Idle)
<1>1. Idle.op = "idle"
  BY DEF Idle
<1> QED BY <1>1, NothingToReread

LEMMA IntradayReadAsks ==
    ASSUME AskedInv, NEW w \in Workers, IntradayRead(w)
    PROVE  AskedInv'
<1>1. InsertionTyped'
  BY IntradayReadTyped DEF AskedInv
<1>2. insertion' = insertion
  BY DEF IntradayRead, FireRead, SweepRead, DeclineRead, AcceptRead, ManualRead, intraday
<1>3. \A i \in DOMAIN insertion' : AskedOnce(insertion'[i])
  BY <1>2 DEF AskedInv
<1>4. CASE FireRead(w)
  <2>1. PICK j : j = [op |-> "fire", todo |-> UrgentTickets] /\ job' = [job EXCEPT ![w] = j]
    BY <1>4 DEF FireRead, Begin
  <2>2. j.op = "fire"
    BY <2>1
  <2> QED BY <1>1, <1>3, <2>1, <2>2, NothingToReread, AskedSuffices
<1>5. CASE SweepRead(w)
  <2>1. PICK todo, j :
           /\ todo = {i \in DOMAIN insertion :
                         insertion[i].status = "PENDING_ACCEPTANCE" /\ insertion[i].due}
           /\ j = [op |-> "sweep", todo |-> todo, seen |-> insertion]
           /\ job' = [job EXCEPT ![w] = j]
    BY <1>5 DEF SweepRead, Begin
  <2>2. j.op = "sweep" /\ j.todo = todo /\ j.seen = insertion
    BY <2>1
  <2>3. \A i \in todo : Waiting(insertion[i])
    BY <2>1 DEF AskedInv, Waiting
  <2>4. RereadOK(j)
    BY <2>2, <2>3 DEF RereadOK
  <2> QED BY <1>1, <1>3, <2>1, <2>4, AskedSuffices
<1>6. ASSUME NEW i \in DOMAIN insertion, DeclineRead(w, i) PROVE AskedInv'
  <2>1. PICK j : j = [op |-> "decline", i |-> i, seen |-> insertion[i]]
                 /\ job' = [job EXCEPT ![w] = j]
    BY <1>6 DEF DeclineRead, Begin
  <2>2. j.op = "decline" /\ j.seen = insertion[i]
    BY <2>1
  <2>3. Waiting(insertion[i])
    BY <1>6 DEF DeclineRead, AskedInv, Waiting
  <2>4. RereadOK(j)
    BY <2>2, <2>3 DEF RereadOK
  <2> QED BY <1>1, <1>3, <2>1, <2>4, AskedSuffices
<1>7. ASSUME NEW i \in DOMAIN insertion, NEW e \in Engineers,
             AcceptRead(w, i, e) \/ ManualRead(w, i, e)
      PROVE  AskedInv'
  <2>1. PICK op \in {"accept", "manual"} :
           job' = [job EXCEPT ![w] = [op |-> op, i |-> i, se |-> e]]
    BY <1>7 DEF AcceptRead, ManualRead, Begin
  <2>2. PICK j : j = [op |-> op, i |-> i, se |-> e]
    OBVIOUS
  <2>3. j.op \notin {"decline", "sweep"}
    BY <2>2
  <2> QED BY <1>1, <1>3, <2>1, <2>2, <2>3, NothingToReread, AskedSuffices
<1> QED BY <1>4, <1>5, <1>6, <1>7 DEF IntradayRead

\* The next engineer is somebody who has not been asked, and the one before him is counted.
LEMMA RerouteAsks ==
    ASSUME AskedInv, NEW i \in DOMAIN insertion, NEW r, Waiting(r), r \in InsertionRow,
           Reroute(i, r)
    PROVE  \A k \in DOMAIN insertion' : AskedOnce(insertion'[k])
<1>1. PICK q : /\ insertion' = [insertion EXCEPT ![i] = q]
               /\ \/ \E e \in Untried(r) :
                           q = [r EXCEPT !.status = "PENDING_ACCEPTANCE", !.se = e,
                                         !.due = FALSE, !.retry = @ + 1,
                                         !.tried = @ \cup {r.se}]
                  \/ q = [insertion[i] EXCEPT !.status = "ESCALATION_REQUIRED",
                                              !.tried = r.tried \cup {r.se}]
  BY DEF Reroute, SetInsertion
<1>2. insertion[i] \in InsertionRow
  <2>1. insertion \in Seq(InsertionRow)
    BY DEF AskedInv, InsertionTyped, OffersTyped
  <2> QED BY <2>1
<1>3. AskedOnce(q)
  <2>1. ASSUME NEW e \in Untried(r),
               q = [r EXCEPT !.status = "PENDING_ACCEPTANCE", !.se = e, !.due = FALSE,
                             !.retry = @ + 1, !.tried = @ \cup {r.se}]
        PROVE  AskedOnce(q)
    <3>1. PICK tried, se, retry : tried = r.tried /\ se = r.se /\ retry = r.retry
      OBVIOUS
    <3>2. IsFiniteSet(tried) /\ se \notin tried /\ retry = Cardinality(tried)
      BY <3>1 DEF Waiting, AskedOnce
    <3>3. /\ IsFiniteSet(tried \cup {se})
          /\ Cardinality(tried \cup {se}) = Cardinality(tried) + 1
      BY <3>2, FS_AddElement
    <3>4. q.se = e /\ q.tried = tried \cup {se} /\ q.retry = retry + 1
      BY <2>1, <3>1 DEF InsertionRow
    <3>5. e \notin tried \cup {se}
      BY <3>1 DEF Untried
    <3> QED BY <3>2, <3>3, <3>4, <3>5 DEF AskedOnce
  <2>2. CASE q = [insertion[i] EXCEPT !.status = "ESCALATION_REQUIRED",
                                      !.tried = r.tried \cup {r.se}]
    <3>1. q.status = "ESCALATION_REQUIRED"
      BY <1>2, <2>2 DEF InsertionRow
    <3> QED BY <3>1 DEF AskedOnce
  <2> QED BY <1>1, <2>1, <2>2
<1>4. \A k \in DOMAIN insertion' : insertion'[k] = q \/ (k \in DOMAIN insertion /\ insertion'[k] = insertion[k])
  BY <1>1
<1> QED BY <1>3, <1>4 DEF AskedInv

LEMMA DeclineAsks ==
    ASSUME AskedInv, NEW w \in Workers, Decline(w) PROVE AskedInv'
<1>1. PICK j : j = job[w] /\ j.op = "decline" /\ OfferJobTyped(j) /\ RereadOK(j)
  BY DEF Decline, Running, AskedInv, InsertionTyped, OffersTyped
<1>2. j.seen \in InsertionRow /\ Waiting(j.seen) /\ j.i \in DOMAIN insertion
  <2>1. j.seen \in InsertionRow
    BY <1>1, OfferJobIs
  <2> QED BY <1>1, <2>1 DEF OfferJobTyped, RereadOK
<1>3. Reroute(j.i, j.seen) /\ Finish(w)
  BY <1>1 DEF Decline
<1>4. \A k \in DOMAIN insertion' : AskedOnce(insertion'[k])
  BY <1>2, <1>3, RerouteAsks
<1> QED BY <1>3, <1>4, DeclineTyped, IdleRereads, AskedSuffices DEF Finish, AskedInv

LEMMA TimeOutAsks ==
    ASSUME AskedInv, NEW w \in Workers, TimeOut(w) PROVE AskedInv'
<1>1. PICK j : j = job[w] /\ j.op = "sweep" /\ OfferJobTyped(j) /\ RereadOK(j)
  BY DEF TimeOut, Running, AskedInv, InsertionTyped, OffersTyped
<1>2. PICK i \in j.todo : /\ Reroute(i, j.seen[i])
                          /\ IF j.todo = {i} THEN Finish(w)
                             ELSE Proceed(w, [j EXCEPT !.todo = @ \ {i}])
  BY <1>1 DEF TimeOut
<1>3. i \in DOMAIN insertion /\ Waiting(j.seen[i])
  BY <1>1 DEF OfferJobTyped, RereadOK
<1>4. j \in [op : {"sweep"}, todo : SUBSET (1..MaxInsertions), seen : Seq(InsertionRow)]
  BY <1>1, OfferJobIs
<1>5. j.seen[i] \in InsertionRow
  <2>1. PICK seen \in Seq(InsertionRow) : seen = j.seen
    BY <1>4
  <2>2. i \in DOMAIN seen
    BY <1>1, <2>1 DEF OfferJobTyped
  <2> QED BY <2>1, <2>2
<1>6. \A k \in DOMAIN insertion' : AskedOnce(insertion'[k])
  BY <1>2, <1>3, <1>5, RerouteAsks
<1>7. InsertionTyped'
  BY TimeOutTyped DEF AskedInv
<1>8. CASE Finish(w)
  BY <1>6, <1>7, <1>8, IdleRereads, AskedSuffices DEF Finish
<1>9. CASE ~Finish(w)
  <2>1. PICK k : job' = [job EXCEPT ![w] = k] /\ k = [j EXCEPT !.todo = @ \ {i}]
    BY <1>2, <1>9 DEF Proceed
  <2>2. k.op = "sweep" /\ k.todo \subseteq j.todo /\ k.seen = j.seen
    BY <1>4, <2>1
  <2>3. RereadOK(k)
    BY <1>1, <2>2 DEF RereadOK
  <2> QED BY <1>6, <1>7, <2>1, <2>3, AskedSuffices
<1> QED BY <1>8, <1>9

\* A new offer starts with nobody asked.
LEMMA FireTicketAsks ==
    ASSUME AskedInv, NEW w \in Workers, FireTicket(w) PROVE AskedInv'
<1>1. InsertionTyped'
  BY FireTicketTyped DEF AskedInv
<1>2. \A k \in DOMAIN insertion' : AskedOnce(insertion'[k])
  <2>1. insertion \in Seq(InsertionRow)
    BY DEF AskedInv, InsertionTyped, OffersTyped
  <2>2. CASE UNCHANGED insertion
    BY <2>2 DEF AskedInv
  <2>3. ASSUME NEW t, NEW e,
               insertion' = Append(insertion,
                   [t |-> t, status |-> "PENDING_ACCEPTANCE", se |-> e, due |-> FALSE,
                    retry |-> 0, tried |-> {}])
        PROVE  \A k \in DOMAIN insertion' : AskedOnce(insertion'[k])
    <3>1. PICK r : r = [t |-> t, status |-> "PENDING_ACCEPTANCE", se |-> e, due |-> FALSE,
                        retry |-> 0, tried |-> {}]
      OBVIOUS
    <3>2. r.tried = {} /\ r.retry = 0
      BY <3>1
    <3>3. AskedOnce(r)
      BY <3>2, FS_EmptySet DEF AskedOnce
    <3>4. PICK n : n = Len(insertion) + 1
      OBVIOUS
    <3>5. /\ DOMAIN insertion' = 1..n /\ insertion'[n] = r
          /\ \A k \in 1..n : \/ k = n
                             \/ k \in DOMAIN insertion /\ insertion'[k] = insertion[k]
      BY <2>1, <2>3, <3>1, <3>4
    <3>6. ASSUME NEW k \in DOMAIN insertion' PROVE AskedOnce(insertion'[k])
      <4>1. CASE k = n
        BY <3>3, <3>5, <4>1
      <4>2. CASE k # n
        BY <3>5, <4>2 DEF AskedInv
      <4> QED BY <4>1, <4>2
    <3> QED BY <3>6
  <2> QED BY <2>2, <2>3 DEF FireTicket
<1>3. PICK j : j = job[w] /\ j.op = "fire" /\ OfferJobTyped(j)
  BY DEF FireTicket, Running, AskedInv, InsertionTyped, OffersTyped
<1>4. j \in [op : {"fire"}, todo : SUBSET Tickets]
  BY <1>3, OfferJobIs
<1>5. PICK t \in j.todo : Finish(w) \/ Proceed(w, [j EXCEPT !.todo = @ \ {t}])
  BY <1>3 DEF FireTicket
<1>6. CASE Finish(w)
  BY <1>1, <1>2, <1>6, IdleRereads, AskedSuffices DEF Finish
<1>7. CASE ~Finish(w)
  <2>1. PICK k : job' = [job EXCEPT ![w] = k] /\ k = [j EXCEPT !.todo = @ \ {t}]
    BY <1>5, <1>7 DEF Proceed
  <2>2. k.op = "fire"
    BY <1>4, <2>1
  <2> QED BY <1>1, <1>2, <2>1, <2>2, NothingToReread, AskedSuffices
<1> QED BY <1>6, <1>7

\* An accepted or assigned insertion is no offer.
LEMMA MarksAsk ==
    ASSUME AskedInv, NEW w \in Workers, AcceptMark(w) \/ ManualMark(w) PROVE AskedInv'
<1>1. InsertionTyped'
  BY MarkTyped DEF AskedInv
<1>2. PICK i, q : /\ insertion' = [insertion EXCEPT ![i] = q]
                  /\ \/ q = [insertion[i] EXCEPT !.status = "ACCEPTED"]
                     \/ q = [insertion[i] EXCEPT !.status = "ACCEPTED", !.se = job[w].se]
  BY DEF AcceptMark, ManualMark, SetInsertion
<1>3. insertion \in Seq(InsertionRow)
  BY DEF AskedInv, InsertionTyped, OffersTyped
<1>4. ASSUME NEW k \in DOMAIN insertion' PROVE AskedOnce(insertion'[k])
  <2>1. k \in DOMAIN insertion
    BY <1>2, <1>3
  <2>2. CASE k = i
    <3>1. insertion[i] \in InsertionRow
      BY <1>3, <2>1, <2>2
    <3>2. q.status = "ACCEPTED"
      BY <1>2, <3>1 DEF InsertionRow
    <3> QED BY <1>2, <2>1, <2>2, <3>2 DEF AskedOnce
  <2>3. CASE k # i
    <3>1. insertion'[k] = insertion[k]
      BY <1>2, <2>1, <2>3
    <3> QED BY <2>1, <3>1 DEF AskedInv
  <2> QED BY <2>2, <2>3
<1>5. Finish(w)
  BY DEF AcceptMark, ManualMark
<1> QED BY <1>1, <1>4, <1>5, IdleRereads, AskedSuffices DEF Finish

LEMMA InsertAtTopAsks ==
    ASSUME AskedInv, NEW w \in Workers, NEW op \in {"accept", "manual"},
           NEW next \in {"acceptMark", "manualMark"}, InsertAtTop(w, op, next)
    PROVE  AskedInv'
<1>1. InsertionTyped'
  BY InsertAtTopTyped DEF AskedInv
<1>2. PICK j : j = job[w] /\ j.op = op /\ OfferJobTyped(j)
  BY DEF InsertAtTop, Running, AskedInv, InsertionTyped, OffersTyped
<1>3. j \in [op : {"accept", "acceptMark", "manual", "manualMark"}, i : 1..MaxInsertions,
             se : Engineers]
  BY <1>2, OfferJobIs
<1>4. PICK k : job' = [job EXCEPT ![w] = k] /\ k = [j EXCEPT !.op = next]
  BY <1>2 DEF InsertAtTop, Proceed
<1>5. k.op = next
  BY <1>3, <1>4
<1>6. insertion' = insertion
  BY DEF InsertAtTop, intraday
<1>7. \A i \in DOMAIN insertion' : AskedOnce(insertion'[i])
  BY <1>6 DEF AskedInv
<1> QED BY <1>1, <1>4, <1>5, <1>7, NothingToReread, AskedSuffices

LEMMA OverrideAsks ==
    ASSUME AskedInv, NEW w \in Workers, PlanStep(w), UNCHANGED intraday
    PROVE  AskedInv'
<1>1. InsertionTyped'
  BY OverrideTyped DEF AskedInv
<1>2. PICK j : job' = [job EXCEPT ![w] = j] /\ PlanJobOp(j)
  <2>1. PICK k : k = job[w]
    OBVIOUS
  <2>2. k.op = "dispatch" => DOMAIN k = {"op", "todo", "sched", "b", "stop", "sort"}
    <3>1. TablesOK /\ PlanJobTyped(k)
      BY <2>1 DEF AskedInv, InsertionTyped, PlanTyped
    <3> QED BY <3>1, HandIs
  <2> QED BY <2>1, <2>2, PlanStepJob
<1>3. RereadOK(j)
  BY <1>2, IdleRereads, NothingToReread DEF PlanJobOp, PlanOps
<1>4. \A i \in DOMAIN insertion' : AskedOnce(insertion'[i])
  BY DEF AskedInv, intraday
<1> QED BY <1>1, <1>2, <1>3, <1>4, AskedSuffices

LEMMA AskedEnvironment ==
    ASSUME AskedInv, Environment PROVE AskedInv'
<1>1. InsertionTyped'
  BY InsertionEnvironmentTyped DEF AskedInv
<1>2. UNCHANGED job
  BY DEF Environment, PlanEnvironment, ReturnToPool, Recommend, TenMinutesPass, CloseTicket
<1>3. \A i \in DOMAIN insertion' : AskedOnce(insertion'[i])
  <2>1. CASE UNCHANGED insertion
    BY <2>1 DEF AskedInv
  <2>2. ASSUME NEW i \in DOMAIN insertion, TenMinutesPass(i)
        PROVE  \A k \in DOMAIN insertion' : AskedOnce(insertion'[k])
    <3>1. insertion \in Seq(InsertionRow)
      BY DEF AskedInv, InsertionTyped, OffersTyped
    <3>2. insertion[i] \in InsertionRow
      BY <3>1
    <3>3. PICK q : q = [insertion[i] EXCEPT !.due = TRUE]
      OBVIOUS
    <3>4. /\ q.status = insertion[i].status /\ q.se = insertion[i].se
          /\ q.tried = insertion[i].tried /\ q.retry = insertion[i].retry
      BY <3>2, <3>3 DEF InsertionRow
    <3>5. AskedOnce(q)
      BY <3>4 DEF AskedInv, AskedOnce
    <3>6. insertion' = [insertion EXCEPT ![i] = q]
      BY <2>2, <3>3 DEF TenMinutesPass, SetInsertion
    <3> QED BY <3>5, <3>6 DEF AskedInv
  <2>3. ASSUME NEW t, CloseTicket(t) PROVE UNCHANGED insertion
    BY <2>3 DEF CloseTicket
  <2> QED BY <2>1, <2>2, <2>3 DEF Environment, intraday
<1> QED BY <1>1, <1>2, <1>3, AskedStays

LEMMA AskedNext == AskedInv /\ [Next]_allVars => AskedInv'
<1> SUFFICES ASSUME AskedInv, [Next]_allVars PROVE AskedInv'
  OBVIOUS
<1>1. CASE UNCHANGED allVars
  <2>1. InsertionTyped'
    BY <1>1, InsertionTypedNext DEF AskedInv
  <2>2. UNCHANGED <<insertion, job>>
    BY <1>1 DEF allVars
  <2> QED BY <2>1, <2>2, AskedStays DEF AskedInv
<1>2. ASSUME NEW w \in Workers, Step(w) PROVE AskedInv'
  <2>1. CASE IntradayWrite(w)
    BY <2>1, FireTicketAsks, DeclineAsks, TimeOutAsks, InsertAtTopAsks, MarksAsk
       DEF IntradayWrite
  <2> QED BY <1>2, <2>1, IntradayReadAsks, OverrideAsks DEF Step
<1> QED BY <1>1, <1>2, AskedEnvironment DEF Next

\* Whatever answers, sweeps, accepts and manual assignments overlap, the engineer an urgent
\* ticket waits for has not been asked before, and the retries are as many as the engineers
\* asked before, for any number of tickets and engineers and any MAX_RETRIES: a reroute that
\* works on a stale row still goes on from that row (reroute, triedSeIds).
THEOREM NobodyAskedTwiceHolds == Spec => []NobodyAskedTwice
<1>1. Init => AskedInv
  <2> SUFFICES ASSUME Init PROVE AskedInv
    OBVIOUS
  <2>1. InsertionTyped
    BY InsertionTypedInit
  <2>2. insertion = <<>> /\ \A w \in Workers : job[w] = Idle
    BY DEF Init
  <2> QED BY <2>1, <2>2, IdleRereads DEF AskedInv
<1>2. AskedInv => NobodyAskedTwice
  BY DEF AskedInv, AskedOnce, NobodyAskedTwice
<1> QED BY <1>1, <1>2, AskedNext, PTL DEF Spec

=============================================================================
