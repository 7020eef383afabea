-------------------------- MODULE VanLedger_proofs --------------------------
(**************************************************************************)
(* SettlementFinal, OutcomeSettlesAll and the types for every number of   *)
(* engineers, tickets, drafts and overlapping executions: what makes the  *)
(* first true is the unique index on the drafts together with the lock on *)
(* the ticket's row, so that a draft in the middle of its transaction has *)
(* no row in the ledger yet.                                              *)
(**************************************************************************)
EXTENDS VanLedger, FiniteSetTheorems, WellFoundedInduction, TLAPS

InConsume(w) == Running(w, "consume")

\* A draft in its transaction is not recorded, and has its ticket to itself.
ConsumeAlone ==
    /\ \A w \in Workers : InConsume(w) => job[w].x \in Drafts /\ job[w].x \notin submitted
    /\ \A v, w \in Workers :
         InConsume(v) /\ InConsume(w) /\ TicketOf[job[v].x] = TicketOf[job[w].x] => v = w

\* A row in the ledger belongs to a recorded submission.
RowRecorded == \A x \in Drafts : consumed[x] # "NONE" => x \in submitted

LedgerStatus == {"NONE", "PRE_VERIFICATION"} \cup Settled

\* What the jobs of a submission remember.  The quantity read is left out: no
\* status in the ledger depends on it.
SubmitShape ==
    /\ job = [w \in Workers |-> job[w]]
    /\ \A w \in Workers : job[w].op \in {"submit", "consume"} => job[w].x \in Drafts

LInv ==
    /\ SubmitShape
    /\ submitted \in SUBSET Drafts
    /\ consumed \in [Drafts -> LedgerStatus]
    /\ ConsumeAlone
    /\ RowRecorded

-----------------------------------------------------------------------------

LEMMA InitLInv == Init => LInv
BY DEF Init, LInv, LedgerStatus, SubmitShape, ConsumeAlone, RowRecorded, InConsume, Running, Idle

\* A worker takes a job that is not a transaction in progress.
LEMMA TakeStep ==
    ASSUME LInv, NEW w \in Workers, NEW j,
           job' = [job EXCEPT ![w] = j],
           j.op # "consume", j.op = "submit" => j.x \in Drafts,
           UNCHANGED submitted,
           consumed' \in [Drafts -> LedgerStatus],
           \A x \in Drafts : consumed'[x] # "NONE" => consumed[x] # "NONE"
    PROVE  LInv'
<1>1. /\ job' = [v \in Workers |-> job'[v]]
      /\ \A v \in Workers : job'[v] = IF v = w THEN j ELSE job[v]
  BY DEF LInv, SubmitShape
<1>2. SubmitShape'
  BY <1>1 DEF LInv, SubmitShape
<1>3. ConsumeAlone'
  BY <1>1 DEF LInv, ConsumeAlone, InConsume, Running
<1>4. RowRecorded'
  BY DEF LInv, RowRecorded
<1>5. QED
  BY <1>1, <1>2, <1>3, <1>4 DEF LInv

\* An execution ends without touching a submission or reviving a row.
LEMMA EndStep ==
    ASSUME LInv, NEW w \in Workers, Finish(w), UNCHANGED submitted,
           consumed' \in [Drafts -> LedgerStatus],
           \A x \in Drafts : consumed'[x] # "NONE" => consumed[x] # "NONE"
    PROVE  LInv'
<1>1. Idle.op # "consume" /\ Idle.op # "submit"
  BY DEF Idle
<1>2. QED
  BY <1>1, TakeStep DEF Finish

\* A worker that reads takes none of the jobs inside a transaction.
LEMMA ReadStep ==
    ASSUME LInv, NEW w \in Workers, Read(w)
    PROVE  LInv'
<1>1. UNCHANGED <<submitted, consumed>>
  BY DEF Read, SubmitRead, ConflictRead, VerifyScan, CloseRead, ReconcileRead, Begin, rows
<1>2. PICK j : /\ Begin(w, j)
               /\ \/ \E x \in Drafts : \/ j = [op |-> "submit", x |-> x]
                                       \/ j = [op |-> "conflict", x |-> x]
                  \/ \E t : j = [op |-> "verify", t |-> t]
                  \/ \E t, to : j = [op |-> "close", t |-> t, to |-> to]
                  \/ \E x, k, to : j = [op |-> "reconcile", x |-> x, k |-> k, to |-> to]
  <2>1. CASE \E x \in Drafts : SubmitRead(w, x)
    BY <2>1, Zenon DEF SubmitRead
  <2>2. CASE \E x \in Drafts : ConflictRead(w, x)
    BY <2>2, Zenon DEF ConflictRead
  <2>3. CASE \E t \in Tickets : VerifyScan(w, t)
    BY <2>3, Zenon DEF VerifyScan
  <2>4. CASE \E t \in Tickets, to \in Closures : CloseRead(w, t, to)
    BY <2>4, Zenon DEF CloseRead
  <2>5. CASE \E x \in Drafts, k \in Slots, to \in {"RECONCILED", "DISPUTED"} :
               ReconcileRead(w, x, k, to)
    BY <2>5, Zenon DEF ReconcileRead
  <2>6. QED
    BY <2>1, <2>2, <2>3, <2>4, <2>5 DEF Read
<1>3. j.op # "consume" /\ (j.op = "submit" => j.x \in Drafts)
  BY <1>2
<1>4. QED
  BY <1>1, <1>2, <1>3, TakeStep DEF LInv, Begin

\* The transaction of a submission starts: nobody else has the ticket.
LEMMA ConsumeStep ==
    ASSUME LInv, NEW w \in Workers, SubmitConsume(w)
    PROVE  LInv'
<1> DEFINE x == job[w].x
<1>1. x \in Drafts /\ x \notin submitted /\ ~Locked(TicketOf[x])
  BY DEF LInv, SubmitShape, SubmitConsume, Running
<1>2. UNCHANGED <<submitted, consumed>>
  BY DEF SubmitConsume, rows
<1>3. Reading("consume", x).op = "consume" /\ Reading("consume", x).x = x
  BY DEF Reading
<1>4. /\ job' = [v \in Workers |-> job'[v]]
      /\ \A v \in Workers : job'[v] = IF v = w THEN Reading("consume", x) ELSE job[v]
  BY DEF LInv, SubmitShape, SubmitConsume
<1>5. SubmitShape'
  BY <1>1, <1>3, <1>4 DEF LInv, SubmitShape
<1>6. ConsumeAlone'
  BY <1>1, <1>2, <1>3, <1>4 DEF LInv, ConsumeAlone, InConsume, Running, Locked
<1>7. QED
  BY <1>2, <1>5, <1>6 DEF LInv, RowRecorded

\* The transaction of a submission commits: its draft had no row before.
LEMMA CommitStep ==
    ASSUME LInv, NEW w \in Workers, SubmitCommit(w)
    PROVE  LInv' /\ \A x \in Drafts : consumed[x] \in Settled => consumed'[x] = consumed[x]
<1> DEFINE x == job[w].x
<1>1. x \in Drafts /\ x \notin submitted /\ consumed[x] = "NONE"
  BY DEF LInv, ConsumeAlone, RowRecorded, InConsume, SubmitCommit
<1>2. /\ submitted' = submitted \cup {x}
      /\ consumed' = [consumed EXCEPT ![x] = "PRE_VERIFICATION"]
  BY DEF SubmitCommit
<1>3. /\ job' = [v \in Workers |-> job'[v]]
      /\ \A v \in Workers : job'[v] = IF v = w THEN Idle ELSE job[v]
  BY DEF LInv, SubmitShape, SubmitCommit, Finish
<1>4. Idle.op \notin {"submit", "consume"}
  BY DEF Idle
<1>5. SubmitShape'
  BY <1>3, <1>4 DEF LInv, SubmitShape
<1>6. ConsumeAlone'
  <2>1. \A v \in Workers \ {w} : InConsume(v) => job[v].x # x
    BY DEF LInv, ConsumeAlone, InConsume, SubmitCommit
  <2>2. \A v \in Workers : InConsume(v)' => v # w /\ InConsume(v) /\ job'[v] = job[v]
    BY <1>3, <1>4 DEF InConsume, Running
  <2>3. QED
    BY <1>2, <2>1, <2>2 DEF LInv, ConsumeAlone
<1>7. RowRecorded'
  BY <1>1, <1>2 DEF LInv, RowRecorded
<1>8. consumed' \in [Drafts -> LedgerStatus]
  BY <1>1, <1>2 DEF LInv, LedgerStatus
<1>9. LInv'
  BY <1>1, <1>2, <1>5, <1>6, <1>7, <1>8 DEF LInv
<1>10. QED
  BY <1>1, <1>2, <1>9 DEF LInv, Settled

\* A settlement rewrites exactly the rows that wait for an outcome.
LEMMA SettleStep ==
    ASSUME LInv, NEW t, NEW outcome \in Settled, Settle(t, Unsettled(t), outcome)
    PROVE  /\ consumed' \in [Drafts -> LedgerStatus]
           /\ \A x \in Drafts : consumed'[x] # "NONE" => consumed[x] # "NONE"
           /\ \A x \in Drafts : consumed[x] \in Settled => consumed'[x] = consumed[x]
BY DEF LInv, LedgerStatus, Settle, Unsettled, Settled

-----------------------------------------------------------------------------

LEMMA NextLInv ==
    ASSUME LInv, [Next]_vars
    PROVE  LInv' /\ \A x \in Drafts : consumed[x] \in Settled => consumed'[x] = consumed[x]
<1>1. CASE UNCHANGED vars
  BY <1>1 DEF vars, LInv, SubmitShape, ConsumeAlone, RowRecorded, InConsume, Running
<1>2. CASE \E w \in Workers : Read(w)
  <2>1. UNCHANGED consumed
    BY <1>2 DEF Read, SubmitRead, ConflictRead, VerifyScan, CloseRead, ReconcileRead,
                Begin, rows
  <2>2. QED
    BY <1>2, <2>1, ReadStep
<1>3. CASE \E w \in Workers : SubmitConsume(w)
  BY <1>3, ConsumeStep DEF SubmitConsume, rows
<1>4. CASE \E w \in Workers : SubmitCommit(w)
  BY <1>4, CommitStep
<1>5. CASE \E w \in Workers : ConflictConsume(w)
  <2>1. PICK w \in Workers : ConflictConsume(w)
    BY <1>5
  <2>2. Reading("shadow", job[w].x).op \notin {"submit", "consume"}
    BY DEF Reading
  <2>3. /\ UNCHANGED <<submitted, consumed>>
        /\ job' = [job EXCEPT ![w] = Reading("shadow", job[w].x)]
    BY <2>1 DEF ConflictConsume, rows
  <2>4. LInv'
    BY <2>2, <2>3, TakeStep DEF LInv
  <2>5. QED
    BY <2>3, <2>4
<1>6. CASE \E w \in Workers : FinalizeClosed(w)
  <2>1. PICK w \in Workers : FinalizeClosed(w)
    BY <1>6
  <2>2. /\ Settle(job[w].t, Unsettled(job[w].t), "DEDUCTED")
        /\ Finish(w)
        /\ UNCHANGED submitted
    BY <2>1 DEF FinalizeClosed
  <2>3. QED
    BY <2>2, SettleStep, EndStep DEF Settled
<1>7. CASE \E w \in Workers : FinalizeFailed(w)
  <2>1. PICK w \in Workers : FinalizeFailed(w)
    BY <1>7
  <2>2. /\ Settle(job[w].t, Unsettled(job[w].t), "ROLLED_BACK")
        /\ Finish(w)
        /\ UNCHANGED submitted
    BY <2>1 DEF FinalizeFailed
  <2>3. QED
    BY <2>2, SettleStep, EndStep DEF Settled
<1>8. CASE \E w \in Workers : \/ ConflictCommit(w) \/ CloseTicket(w)
                              \/ Reconcile(w) \/ RollBack(w)
  <2>1. PICK w \in Workers : \/ ConflictCommit(w) \/ CloseTicket(w)
                             \/ Reconcile(w) \/ RollBack(w)
    BY <1>8
  <2>2. Finish(w) /\ UNCHANGED <<submitted, consumed>>
    BY <2>1 DEF ConflictCommit, CloseTicket, Reconcile, RollBack, rows
  <2>3. LInv'
    BY <2>2, EndStep DEF LInv
  <2>4. QED
    BY <2>2, <2>3
<1>9. QED
  BY <1>1, <1>2, <1>3, <1>4, <1>5, <1>6, <1>7, <1>8 DEF Next, Write

\* No interleaving of submissions, retries, sweeps and closures settles a part twice
\* or changes how it was settled.
THEOREM SettlementFinalHolds == Spec => SettlementFinal
<1>1. LInv /\ [Next]_vars => LInv'
  BY NextLInv
<1>2. LInv /\ [Next]_vars =>
        [\A x \in Drafts : consumed[x] \in Settled => consumed'[x] = consumed[x]]_vars
  BY NextLInv
<1>3. QED
  BY <1>1, <1>2, InitLInv, PTL DEF Spec, SettlementFinal

-----------------------------------------------------------------------------
(* Sums over finite sets                                                  *)

\* Induction over the subsets of a finite set, for a set of good ones: a least bad one would
\* have none but good ones below it.
LEMMA SubsetInduction ==
    ASSUME NEW D, IsFiniteSet(D), NEW Good,
           \A T \in SUBSET D : (\A x \in T : T \ {x} \in Good) => T \in Good
    PROVE  SUBSET D \subseteq Good
<1> DEFINE bad == {T \in FiniteSubsetsOf(D) : T \notin Good}
<1>1. IsWellFoundedOn(StrictSubsetOrdering(D), FiniteSubsetsOf(D))
  BY FS_StrictSubsetOrderingWellFounded
<1>2. ASSUME bad # {} PROVE FALSE
  <2>1. PICK T \in bad : \A U \in bad : ~(<<U, T>> \in StrictSubsetOrdering(D))
    BY <1>1, <1>2, WFMin
  <2>2. T \subseteq D /\ IsFiniteSet(T) /\ T \notin Good
    BY <2>1 DEF FiniteSubsetsOf
  <2>3. ASSUME NEW x \in T PROVE T \ {x} \in Good
    <3>1. PICK U : U = T \ {x}
      OBVIOUS
    <3>2. IsFiniteSet(U)
      BY <2>2, <3>1, FS_RemoveElement
    <3>3. U \in FiniteSubsetsOf(D) /\ <<U, T>> \in StrictSubsetOrdering(D)
      BY <2>2, <3>1, <3>2 DEF FiniteSubsetsOf, StrictSubsetOrdering
    <3> QED BY <2>1, <3>1, <3>3
  <2> QED BY <2>2, <2>3
<1>3. \A T \in SUBSET D : T \in FiniteSubsetsOf(D)
  BY FS_Subset DEF FiniteSubsetsOf
<1> QED BY <1>2, <1>3

\* The element a sum over s takes first.
First(s) == CHOOSE x \in s : TRUE

\* g is the table of the sums of q over the subsets of S.
SumTable(q, g, S) ==
    g = [s \in SUBSET S |-> IF s = {} THEN 0 ELSE q[First(s)] + g[s \ {First(s)}]]

SumOf(q, S) == (CHOOSE g : SumTable(q, g, S))[S]

LEMMA FirstIn == ASSUME NEW s, s # {} PROVE First(s) \in s
  BY DEF First

LEMMA TablesAgree ==
    ASSUME NEW D, IsFiniteSet(D), NEW q, NEW A \in SUBSET D, NEW B \in SUBSET D,
           NEW g, NEW h, SumTable(q, g, A), SumTable(q, h, B)
    PROVE  \A s \in SUBSET D : s \subseteq A /\ s \subseteq B => g[s] = h[s]
<1> DEFINE Good == {s \in SUBSET D : s \subseteq A /\ s \subseteq B => g[s] = h[s]}
<1>1. ASSUME NEW T \in SUBSET D, \A x \in T : T \ {x} \in Good PROVE T \in Good
  <2> SUFFICES ASSUME T \subseteq A, T \subseteq B PROVE g[T] = h[T]
    OBVIOUS
  <2>1. CASE T = {}
    BY <2>1 DEF SumTable
  <2>2. CASE T # {}
    <3>1. PICK p \in T : p = First(T)
      BY <2>2, FirstIn
    <3>2. PICK U : U = T \ {p}
      OBVIOUS
    <3>3. g[U] = h[U]
      BY <1>1, <3>2
    <3>4. g[T] = q[p] + g[U] /\ h[T] = q[p] + h[U]
      BY <2>2, <3>1, <3>2 DEF SumTable
    <3> QED BY <3>3, <3>4
  <2> QED BY <2>1, <2>2
<1>2. SUBSET D \subseteq Good
  <2> HIDE DEF Good
  <2> QED BY <1>1, SubsetInduction
<1> QED BY <1>2

LEMMA TableExists ==
    ASSUME NEW D, IsFiniteSet(D), NEW q
    PROVE  \A S \in SUBSET D : \E g : SumTable(q, g, S)
<1> DEFINE Good == {S \in SUBSET D : \E g : SumTable(q, g, S)}
<1>1. ASSUME NEW T \in SUBSET D, \A x \in T : T \ {x} \in Good PROVE T \in Good
  <2>1. PICK h : h = [x \in T |-> CHOOSE g : SumTable(q, g, T \ {x})]
    OBVIOUS
  <2>2. ASSUME NEW x \in T PROVE SumTable(q, h[x], T \ {x})
    <3>1. \E g : SumTable(q, g, T \ {x})
      BY <1>1
    <3>2. SumTable(q, CHOOSE g : SumTable(q, g, T \ {x}), T \ {x})
      BY <3>1
    <3> QED BY <2>1, <3>2
  <2>3. PICK g : g = [s \in SUBSET T |-> IF s = {} THEN 0
                                         ELSE q[First(s)] + h[First(s)][s \ {First(s)}]]
    OBVIOUS
  <2>4. ASSUME NEW s \in SUBSET T, s # {} PROVE h[First(s)][s \ {First(s)}] = g[s \ {First(s)}]
    <3>1. PICK p \in s : p = First(s)
      BY <2>4, FirstIn
    <3>2. PICK u : u = s \ {p}
      OBVIOUS
    <3>3. u \in SUBSET (T \ {p}) /\ SumTable(q, h[p], T \ {p})
      BY <2>2, <3>1, <3>2
    <3>4. CASE u = {}
      <4>1. h[p][u] = 0
        BY <3>3, <3>4 DEF SumTable
      <4>2. g[u] = 0
        BY <2>3, <3>4
      <4> QED BY <3>1, <3>2, <4>1, <4>2
    <3>5. CASE u # {}
      <4>1. PICK r \in u : r = First(u)
        BY <3>5, FirstIn
      <4>2. PICK v : v = u \ {r}
        OBVIOUS
      <4>3. h[p][u] = q[r] + h[p][v]
        BY <3>3, <3>5, <4>1, <4>2 DEF SumTable
      <4>4. g[u] = q[r] + h[r][v]
        BY <2>3, <3>3, <3>5, <4>1, <4>2
      <4>5. SumTable(q, h[r], T \ {r})
        BY <2>2, <3>3, <4>1
      <4>6. h[p][v] = h[r][v]
        BY <3>3, <4>1, <4>2, <4>5, TablesAgree
      <4> QED BY <3>1, <3>2, <4>3, <4>4, <4>6
    <3> QED BY <3>4, <3>5
  <2>5. SumTable(q, g, T)
    BY <2>3, <2>4 DEF SumTable
  <2> QED BY <2>5
<1>2. SUBSET D \subseteq Good
  <2> HIDE DEF Good
  <2> QED BY <1>1, SubsetInduction
<1> QED BY <1>2

\* What a sum is, element by element.
LEMMA SumUnfolds ==
    ASSUME NEW D, IsFiniteSet(D), NEW q, NEW S \in SUBSET D
    PROVE  /\ S = {} => SumOf(q, S) = 0
           /\ S # {} => SumOf(q, S) = q[First(S)] + SumOf(q, S \ {First(S)})
<1>1. PICK g : g = CHOOSE f : SumTable(q, f, S)
  OBVIOUS
<1>2. SumTable(q, g, S) /\ SumOf(q, S) = g[S]
  BY <1>1, TableExists DEF SumOf
<1>3. CASE S = {}
  BY <1>2, <1>3 DEF SumTable
<1>4. CASE S # {}
  <2>1. PICK p \in S : p = First(S)
    BY <1>4, FirstIn
  <2>2. PICK U \in SUBSET D : U = S \ {p}
    OBVIOUS
  <2>3. PICK h : h = CHOOSE f : SumTable(q, f, U)
    OBVIOUS
  <2>4. SumTable(q, h, U) /\ SumOf(q, U) = h[U]
    BY <2>3, TableExists DEF SumOf
  <2>5. g[U] = h[U]
    BY <1>2, <2>2, <2>4, TablesAgree
  <2>6. g[S] = q[p] + g[U]
    BY <1>2, <1>4, <2>1, <2>2 DEF SumTable
  <2> QED BY <1>2, <1>4, <2>1, <2>2, <2>4, <2>5, <2>6
<1> QED BY <1>3, <1>4

LEMMA SumIsNat ==
    ASSUME NEW D, IsFiniteSet(D), NEW q \in [D -> Nat]
    PROVE  \A S \in SUBSET D : SumOf(q, S) \in Nat
<1> DEFINE Good == {S \in SUBSET D : SumOf(q, S) \in Nat}
<1>1. ASSUME NEW T \in SUBSET D, \A x \in T : T \ {x} \in Good PROVE T \in Good
  <2>1. CASE T = {}
    <3>1. SumOf(q, T) = 0
      BY <2>1, SumUnfolds
    <3> QED BY <3>1
  <2>2. CASE T # {}
    <3>1. PICK p \in T : p = First(T)
      BY <2>2, FirstIn
    <3>2. SumOf(q, T \ {p}) \in Nat
      BY <1>1
    <3>3. SumOf(q, T) = q[p] + SumOf(q, T \ {p})
      BY <2>2, <3>1, SumUnfolds
    <3> QED BY <3>2, <3>3
  <2> QED BY <2>1, <2>2
<1>2. SUBSET D \subseteq Good
  <2> HIDE DEF Good
  <2> QED BY <1>1, SubsetInduction
<1> QED BY <1>2

LEMMA PartsAreSums == ASSUME NEW xs PROVE Parts(xs) = SumOf(Qty, xs)
  BY DEF Parts, MapThenSumSet, MapThenFoldSet, SumOf, SumTable, First

-----------------------------------------------------------------------------
(* Types                                                                  *)

LEMMA PartsIsNat == ASSUME NEW xs \in SUBSET Drafts PROVE Parts(xs) \in Nat
<1>1. SumOf(Qty, xs) \in Nat
  <2>1. Qty \in [Drafts -> Nat] /\ IsFiniteSet(Drafts)
    BY VanAssumption
  <2> QED BY <2>1, SumIsNat
<1> QED BY <1>1, PartsAreSums

\* A worker takes a job of one of the kinds.
LEMMA TakeType ==
    ASSUME TypeOK, NEW w \in Workers, NEW j \in Job, job' = [job EXCEPT ![w] = j]
    PROVE  job' \in [Workers -> Job]
  BY DEF TypeOK

LEMMA IdleJob == Idle \in Job
  BY DEF Idle, Job

LEMMA ReadType ==
    ASSUME TypeOK, NEW w \in Workers, Read(w)
    PROVE  TypeOK'
<1>1. ASSUME NEW j \in Job, Begin(w, j) PROVE TypeOK'
  BY <1>1, TakeType DEF Begin, rows, TypeOK
<1>2. ASSUME NEW x \in Drafts, SubmitRead(w, x) \/ ConflictRead(w, x) PROVE TypeOK'
  <2>1. PICK op \in {"submit", "conflict"} : Begin(w, [op |-> op, x |-> x])
    BY <1>2 DEF SubmitRead, ConflictRead
  <2>2. [op |-> op, x |-> x] \in Job
    BY DEF Job
  <2> QED BY <1>1, <2>1, <2>2
<1>3. ASSUME NEW t \in Tickets, VerifyScan(w, t) PROVE TypeOK'
  <2>1. [op |-> "verify", t |-> t] \in Job
    BY DEF Job
  <2> QED BY <1>1, <1>3, <2>1 DEF VerifyScan
<1>4. ASSUME NEW t \in Tickets, NEW to \in Closures, CloseRead(w, t, to) PROVE TypeOK'
  <2>1. [op |-> "close", t |-> t, to |-> to] \in Job
    BY DEF Job
  <2> QED BY <1>1, <1>4, <2>1 DEF CloseRead
<1>5. ASSUME NEW x \in Drafts, NEW k \in Slots, NEW to \in {"RECONCILED", "DISPUTED"},
             ReconcileRead(w, x, k, to)
      PROVE  TypeOK'
  <2>1. [op |-> "reconcile", x |-> x, k |-> k, to |-> to] \in Job
    BY DEF Job
  <2> QED BY <1>1, <1>5, <2>1 DEF ReconcileRead
<1> QED BY <1>2, <1>3, <1>4, <1>5 DEF Read

\* What a job of each kind remembers.
LEMMA JobFields ==
    ASSUME NEW j \in Job
    PROVE  /\ j.op \in {"submit", "conflict"} => j.x \in Drafts
           /\ j.op \in {"consume", "shadow"} => j.x \in Drafts /\ j.row \in BOOLEAN /\ j.had \in Nat
           /\ j.op = "verify" => j.t \in Tickets
           /\ j.op = "close" => j.t \in Tickets /\ j.to \in Closures
           /\ j.op = "reconcile" => /\ j.x \in Drafts /\ j.k \in Slots
                                    /\ j.to \in {"RECONCILED", "DISPUTED"}
<1>1. \/ j \in [op : {"idle"}]
      \/ j \in [op : {"submit", "conflict"}, x : Drafts]
      \/ j \in [op : {"consume", "shadow"}, x : Drafts, row : BOOLEAN, had : Nat]
      \/ j \in [op : {"verify"}, t : Tickets]
      \/ j \in [op : {"close"}, t : Tickets, to : Closures]
      \/ j \in [op : {"reconcile"}, x : Drafts, k : Slots, to : {"RECONCILED", "DISPUTED"}]
  BY DEF Job
<1>2. CASE j \in [op : {"idle"}]
  BY <1>2
<1>3. CASE j \in [op : {"submit", "conflict"}, x : Drafts]
  BY <1>3
<1>4. CASE j \in [op : {"consume", "shadow"}, x : Drafts, row : BOOLEAN, had : Nat]
  BY <1>4
<1>5. CASE j \in [op : {"verify"}, t : Tickets]
  BY <1>5
<1>6. CASE j \in [op : {"close"}, t : Tickets, to : Closures]
  BY <1>6
<1>7. CASE j \in [op : {"reconcile"}, x : Drafts, k : Slots, to : {"RECONCILED", "DISPUTED"}]
  BY <1>7
<1> QED BY <1>1, <1>2, <1>3, <1>4, <1>5, <1>6, <1>7

LEMMA JobAt == ASSUME TypeOK, NEW w \in Workers PROVE job[w] \in Job
  BY DEF TypeOK

\* A transaction starts: what it reads is a quantity.
LEMMA StartType ==
    ASSUME TypeOK, NEW w \in Workers, SubmitConsume(w) \/ ConflictConsume(w)
    PROVE  TypeOK'
<1>1. PICK op \in {"consume", "shadow"} :
         job' = [job EXCEPT ![w] = Reading(op, job[w].x)] /\ UNCHANGED rows
  BY DEF SubmitConsume, ConflictConsume
<1>2. PICK x \in Drafts : x = job[w].x
  <2>1. PICK k \in Job : k = job[w]
    BY JobAt
  <2>2. k.op \in {"submit", "conflict"}
    BY <2>1 DEF SubmitConsume, ConflictConsume, Running
  <2> QED BY <2>1, <2>2, JobFields
<1>3. PICK e \in Engineers : e = EngineerOf[x]
  BY <1>2, VanAssumption
<1>4. stock[e] \in Nat
  BY DEF TypeOK
<1>5. PICK j : j = [op |-> op, x |-> x, row |-> e \in tracked, had |-> stock[e]]
  OBVIOUS
<1>6. j \in Job
  <2>1. (e \in tracked) \in BOOLEAN
    OBVIOUS
  <2> QED BY <1>2, <1>4, <1>5, <2>1 DEF Job
<1>7. job' = [job EXCEPT ![w] = j]
  BY <1>1, <1>2, <1>3, <1>5 DEF Reading
<1> QED BY <1>1, <1>6, <1>7, TakeType DEF rows, TypeOK

\* A decrement never makes a quantity negative.
LEMMA DecrementType ==
    ASSUME TypeOK, NEW w \in Workers, Running(w, "consume") \/ Running(w, "shadow"), Decrement(w)
    PROVE  stock' \in [Engineers -> Nat]
<1>1. PICK x \in Drafts, had \in Nat : x = job[w].x /\ had = job[w].had
  BY JobAt, JobFields DEF Running
<1>2. Qty[x] \in Nat
  BY VanAssumption
<1>3. Less(had, Qty[x]) \in Nat
  BY <1>2 DEF Less
<1> QED BY <1>1, <1>3 DEF Decrement, TypeOK

LEMMA WriteType ==
    ASSUME TypeOK, NEW w \in Workers, Write(w) \/ RollBack(w)
    PROVE  TypeOK'
<1>1. ASSUME Finish(w) PROVE job' \in [Workers -> Job]
  BY <1>1, IdleJob, TakeType DEF Finish
<1>2. PICK j \in Job : j = job[w]
  BY JobAt
<1>3. CASE SubmitCommit(w)
  <2>1. Running(w, "consume") /\ j.x \in Drafts /\ TicketOf[j.x] \in Tickets
    BY <1>2, <1>3, JobFields, VanAssumption DEF SubmitCommit, Running
  <2>2. stock' \in [Engineers -> Nat]
    BY <1>3, <2>1, DecrementType DEF SubmitCommit
  <2> QED BY <1>1, <1>2, <1>3, <2>1, <2>2 DEF SubmitCommit, TypeOK, TicketStatus
<1>4. CASE ConflictCommit(w)
  <2>1. Running(w, "shadow") /\ j.x \in Drafts
    BY <1>2, <1>4, JobFields DEF ConflictCommit, Running
  <2>2. stock' \in [Engineers -> Nat]
    BY <1>4, <2>1, DecrementType DEF ConflictCommit
  <2>3. PICK k \in Slots : shadow' = [shadow EXCEPT ![j.x][k] = "SHADOW_USE"]
    BY <1>2, <1>4 DEF ConflictCommit
  <2>4. shadow' \in [Drafts -> [Slots -> ShadowStatus \cup {"NONE"}]]
    BY <2>1, <2>3 DEF TypeOK, ShadowStatus
  <2> QED BY <1>1, <1>4, <2>2, <2>4 DEF ConflictCommit, TypeOK
<1>5. CASE FinalizeClosed(w)
  <2>1. j.t \in Tickets
    BY <1>2, <1>5, JobFields DEF FinalizeClosed, Running
  <2>2. ticket' \in [Tickets -> TicketStatus]
    BY <1>2, <1>5, <2>1 DEF FinalizeClosed, TypeOK, TicketStatus
  <2>3. consumed' \in [Drafts -> {"NONE", "PRE_VERIFICATION"} \cup Settled]
    BY <1>5 DEF FinalizeClosed, Settle, TypeOK, Settled
  <2> QED BY <1>1, <1>5, <2>2, <2>3 DEF FinalizeClosed, TypeOK
<1>6. CASE FinalizeFailed(w)
  <2>1. j.t \in Tickets
    BY <1>2, <1>6, JobFields DEF FinalizeFailed, Running
  <2>2. ticket' \in [Tickets -> TicketStatus]
    BY <1>2, <1>6, <2>1 DEF FinalizeFailed, TypeOK, TicketStatus
  <2>3. consumed' \in [Drafts -> {"NONE", "PRE_VERIFICATION"} \cup Settled]
    BY <1>6 DEF FinalizeFailed, Settle, TypeOK, Settled
  <2>4. PICK U \in SUBSET Drafts : U = Unsettled(j.t)
    BY DEF Unsettled
  <2>5. stock' = [e \in Engineers |-> stock[e] + Parts({x \in U : EngineerOf[x] = e})]
    BY <1>2, <1>6, <2>4 DEF FinalizeFailed
  <2>6. ASSUME NEW e \in Engineers PROVE stock[e] + Parts({x \in U : EngineerOf[x] = e}) \in Nat
    <3>1. Parts({x \in U : EngineerOf[x] = e}) \in Nat
      BY PartsIsNat
    <3> QED BY <3>1 DEF TypeOK
  <2>7. stock' \in [Engineers -> Nat]
    BY <2>5, <2>6
  <2>8. tracked' \in SUBSET Engineers
    <3>1. tracked' = tracked \cup {EngineerOf[x] : x \in U}
      BY <1>2, <1>6, <2>4 DEF FinalizeFailed
    <3> QED BY <3>1, VanAssumption DEF TypeOK
  <2> QED BY <1>1, <1>6, <2>2, <2>3, <2>7, <2>8 DEF FinalizeFailed, TypeOK
<1>7. CASE CloseTicket(w)
  <2>1. j.t \in Tickets /\ j.to \in Closures
    BY <1>2, <1>7, JobFields DEF CloseTicket, Running
  <2> QED BY <1>1, <1>2, <1>7, <2>1 DEF CloseTicket, TypeOK, TicketStatus
<1>8. CASE Reconcile(w)
  <2>1. j.x \in Drafts /\ j.k \in Slots /\ j.to \in {"RECONCILED", "DISPUTED"}
    BY <1>2, <1>8, JobFields DEF Reconcile, Running
  <2>2. shadow' \in [Drafts -> [Slots -> ShadowStatus \cup {"NONE"}]]
    BY <1>2, <1>8, <2>1 DEF Reconcile, TypeOK, ShadowStatus
  <2> QED BY <1>1, <1>8, <2>2 DEF Reconcile, TypeOK
<1>9. CASE RollBack(w)
  BY <1>1, <1>9 DEF RollBack, rows, TypeOK
<1> QED BY <1>3, <1>4, <1>5, <1>6, <1>7, <1>8, <1>9, StartType DEF Write

\* The types of the ledger, for any number of overlapping executions; the stock of a van is
\* never negative (decrementStock's floor).
THEOREM TypeOKHolds == Spec => []TypeOK
<1>1. Init => TypeOK
  BY VanAssumption, IdleJob DEF Init, TypeOK, TicketStatus
<1>2. TypeOK /\ [Next]_vars => TypeOK'
  <2>1. CASE UNCHANGED vars
    BY <2>1 DEF vars, TypeOK
  <2> QED BY <2>1, ReadType, WriteType DEF Next
<1> QED BY <1>1, <1>2, PTL DEF Spec

-----------------------------------------------------------------------------
(* What a verification concludes                                          *)

Concluded(t) == ticket[t] \in {"CLOSED", "FAILED_VERIFICATION"}

\* A step that concludes no other ticket and brings nothing back in doubt.
LEMMA NothingReopened ==
    ASSUME OutcomeSettlesAll,
           \A t \in Tickets : Concluded(t)' => Concluded(t),
           \A x \in Drafts : consumed'[x] = "PRE_VERIFICATION" => consumed[x] = "PRE_VERIFICATION"
    PROVE  OutcomeSettlesAll'
BY DEF OutcomeSettlesAll, Unsettled, Concluded

\* The ticket that is finalized has all its rows settled, the others are left alone.
LEMMA FinalizeSettles ==
    ASSUME TypeOK, OutcomeSettlesAll, NEW w \in Workers, NEW t \in Tickets, NEW to,
           NEW outcome \in Settled,
           ticket' = [ticket EXCEPT ![t] = to],
           Settle(t, Unsettled(t), outcome)
    PROVE  OutcomeSettlesAll'
<1>1. \A x \in Drafts : consumed'[x] = IF x \in Unsettled(t) THEN outcome ELSE consumed[x]
  BY DEF Settle
<1>2. \A x \in Drafts : consumed'[x] = "PRE_VERIFICATION" =>
                          x \notin Unsettled(t) /\ consumed[x] = "PRE_VERIFICATION"
  BY <1>1 DEF Settled
<1>3. \A u \in Tickets : u # t => ticket'[u] = ticket[u]
  BY DEF TypeOK
<1> QED BY <1>2, <1>3 DEF OutcomeSettlesAll, Unsettled

LEMMA WriteSettles ==
    ASSUME TypeOK, OutcomeSettlesAll, NEW w \in Workers, Write(w)
    PROVE  OutcomeSettlesAll'
<1>1. PICK j \in Job : j = job[w]
  BY JobAt
<1>2. CASE SubmitCommit(w)
  <2>1. j.x \in Drafts /\ TicketOf[j.x] \in Tickets
    BY <1>1, <1>2, JobFields, VanAssumption DEF SubmitCommit, Running
  <2>2. /\ ticket' = [ticket EXCEPT ![TicketOf[j.x]] = "VERIFICATION_PENDING"]
        /\ consumed' = [consumed EXCEPT ![j.x] = "PRE_VERIFICATION"]
    BY <1>1, <1>2 DEF SubmitCommit
  <2> QED BY <2>1, <2>2 DEF OutcomeSettlesAll, Unsettled, TypeOK
<1>3. CASE FinalizeClosed(w)
  <2>1. j.t \in Tickets
    BY <1>1, <1>3, JobFields DEF FinalizeClosed, Running
  <2>2. /\ ticket' = [ticket EXCEPT ![j.t] = "CLOSED"]
        /\ Settle(j.t, Unsettled(j.t), "DEDUCTED")
    BY <1>1, <1>3 DEF FinalizeClosed
  <2> QED BY <2>1, <2>2, FinalizeSettles DEF Settled
<1>4. CASE FinalizeFailed(w)
  <2>1. j.t \in Tickets
    BY <1>1, <1>4, JobFields DEF FinalizeFailed, Running
  <2>2. /\ ticket' = [ticket EXCEPT ![j.t] = "FAILED_VERIFICATION"]
        /\ Settle(j.t, Unsettled(j.t), "ROLLED_BACK")
    BY <1>1, <1>4 DEF FinalizeFailed
  <2> QED BY <2>1, <2>2, FinalizeSettles DEF Settled
<1>5. CASE CloseTicket(w)
  <2>1. j.t \in Tickets /\ j.to \in Closures
    BY <1>1, <1>5, JobFields DEF CloseTicket, Running
  <2>2. /\ ticket' = [ticket EXCEPT ![j.t] = j.to]
        /\ UNCHANGED consumed
    BY <1>1, <1>5 DEF CloseTicket
  <2>3. \A t \in Tickets : Concluded(t)' => Concluded(t)
    BY <2>1, <2>2 DEF Concluded, Closures, TypeOK
  <2> QED BY <2>2, <2>3, NothingReopened
<1>6. CASE SubmitConsume(w) \/ ConflictConsume(w) \/ ConflictCommit(w) \/ Reconcile(w)
  <2>1. UNCHANGED <<ticket, consumed>>
    BY <1>6 DEF SubmitConsume, ConflictConsume, ConflictCommit, Reconcile, rows
  <2> QED BY <2>1, NothingReopened DEF Concluded
<1> QED BY <1>2, <1>3, <1>4, <1>5, <1>6 DEF Write

\* A concluded ticket has no part in doubt, for any number of submissions, sweeps and
\* closures that overlap: a finalization computes what it settles inside its own
\* transaction, and a submission puts its ticket back under verification in the step in
\* which it adds its row.
THEOREM OutcomeSettlesAllHolds == Spec => []OutcomeSettlesAll
<1>1. Init => OutcomeSettlesAll
  BY DEF Init, OutcomeSettlesAll
<1>2. TypeOK /\ OutcomeSettlesAll /\ [Next]_vars => OutcomeSettlesAll'
  <2> SUFFICES ASSUME TypeOK, OutcomeSettlesAll, [Next]_vars PROVE OutcomeSettlesAll'
    OBVIOUS
  <2>1. CASE UNCHANGED vars
    BY <2>1 DEF vars, OutcomeSettlesAll, Unsettled
  <2>2. ASSUME NEW w \in Workers, Read(w) \/ RollBack(w) PROVE OutcomeSettlesAll'
    <3>1. UNCHANGED <<ticket, consumed>>
      BY <2>2 DEF Read, SubmitRead, ConflictRead, VerifyScan, CloseRead, ReconcileRead, Begin,
                  RollBack, rows
    <3> QED BY <3>1, NothingReopened DEF Concluded
  <2> QED BY <2>1, <2>2, WriteSettles DEF Next
<1> QED BY <1>1, <1>2, TypeOKHolds, PTL DEF Spec

=============================================================================
