----------------------------- MODULE VanLedger -----------------------------
(***************************************************************************)
(* The parts in an engineer's van and the inventory ledger: se_van_stock,  *)
(* inventory_transactions and the statuses of the tickets they belong to.  *)
(* A repair submission takes its parts out of the van (PRE_VERIFICATION),  *)
(* the verification outcome settles them (DEDUCTED or ROLLED_BACK), and a  *)
(* submission that lost the ticket to somebody else leaves them as         *)
(* SHADOW_USE for the warehouse manager.                                   *)
(*                                                                         *)
(* One kind of component is modelled; a draft uses a fixed number of it.   *)
(* An execution of submit has three steps: it tests the ticket outside the *)
(* transaction, reads the stock inside it, and writes stock - qty.  The    *)
(* transaction has updated the ticket's row before it reads the stock, so  *)
(* until it commits other transactions that update that row wait.          *)
(***************************************************************************)
EXTENDS Integers, FiniteSets, FiniteSetsExt

CONSTANTS
    Engineers, Tickets,
    Drafts,     \* (se_id, client_submission_id) pairs of the mobile app
    EngineerOf, TicketOf,
    Qty,        \* parts a draft's consumedComponents name
    Tracked,    \* the engineers who have a se_van_stock row at the start
    Issued,     \* its quantity
    Workers,    \* executions that may be in progress at a time
    MaxShadow   \* bound: conflicts recorded per draft

ASSUME VanAssumption ==
    /\ IsFiniteSet(Drafts)
    /\ EngineerOf \in [Drafts -> Engineers]
    /\ TicketOf \in [Drafts -> Tickets]
    /\ Qty \in [Drafts -> Nat \ {0}]
    /\ Tracked \subseteq Engineers
    /\ Issued \in [Engineers -> Nat]
    /\ \A e \in Engineers \ Tracked : Issued[e] = 0
    /\ MaxShadow \in Nat

VARIABLES
    ticket,     \* tickets.status
    submitted,  \* drafts with a troubleshooting_submissions row
    tracked,    \* engineers who have a se_van_stock row
    stock,      \* its qty, 0 without a row
    consumed,   \* the status of the row a draft's submission put in the ledger
    shadow,     \* the statuses of a draft's SHADOW_USE rows
    job         \* what each worker has read and not yet written

rows == <<ticket, submitted, tracked, stock, consumed, shadow>>
vars == <<ticket, submitted, tracked, stock, consumed, shadow, job>>

Closures == {"CLOSED_AUTO_RECOVERY", "CLOSED_NON_OPERATIONAL"}
TicketStatus == {"OPEN", "VERIFICATION_PENDING", "CLOSED", "FAILED_VERIFICATION"} \cup Closures
Settled == {"DEDUCTED", "ROLLED_BACK"}
ShadowStatus == {"SHADOW_USE", "RECONCILED", "DISPUTED"}
Slots == 1..MaxShadow

Idle == [op |-> "idle"]
Job == [op : {"idle"}]
       \cup [op : {"submit", "conflict"}, x : Drafts]
       \cup [op : {"consume", "shadow"}, x : Drafts, row : BOOLEAN, had : Nat]
       \cup [op : {"verify"}, t : Tickets]
       \cup [op : {"close"}, t : Tickets, to : Closures]
       \cup [op : {"reconcile"}, x : Drafts, k : Slots, to : {"RECONCILED", "DISPUTED"}]

TypeOK ==
    /\ ticket \in [Tickets -> TicketStatus]
    /\ submitted \in SUBSET Drafts
    /\ tracked \in SUBSET Engineers
    /\ stock \in [Engineers -> Nat]
    /\ consumed \in [Drafts -> {"NONE", "PRE_VERIFICATION"} \cup Settled]
    /\ shadow \in [Drafts -> [Slots -> ShadowStatus \cup {"NONE"}]]
    /\ job \in [Workers -> Job]

Init ==
    /\ ticket = [t \in Tickets |-> "OPEN"]
    /\ submitted = {}
    /\ tracked = Tracked
    /\ stock = Issued
    /\ consumed = [x \in Drafts |-> "NONE"]
    /\ shadow = [x \in Drafts |-> [k \in Slots |-> "NONE"]]
    /\ job = [w \in Workers |-> Idle]

-----------------------------------------------------------------------------
(* Helpers                                                                *)

Running(w, op) == job[w].op = op

\* A worker reads and decides: no row changes.
Begin(w, j) ==
    /\ job[w] = Idle
    /\ job' = [job EXCEPT ![w] = j]
    /\ UNCHANGED rows

Finish(w) == job' = [job EXCEPT ![w] = Idle]

\* Another transaction has updated the ticket's row and not committed yet.
Locked(t) == \E w \in Workers : Running(w, "consume") /\ TicketOf[job[w].x] = t

\* decrementStock in two steps: what it reads, and what it writes of that.
Reading(op, x) ==
    LET e == EngineerOf[x] IN [op |-> op, x |-> x, row |-> e \in tracked, had |-> stock[e]]

\* Fault: the floor at zero is dropped.
LessUnfloored(had, qty) == had - qty

Less(had, qty) == IF had > qty THEN had - qty ELSE 0

Decrement(w) ==
    LET x == job[w].x IN
    stock' = IF job[w].row THEN [stock EXCEPT ![EngineerOf[x]] = Less(job[w].had, Qty[x])]
             ELSE stock

\* The parts a set of drafts uses.
Parts(xs) == MapThenSumSet(LAMBDA x : Qty[x], xs)

\* Fault: the rows of one submission are found and the others are not.
UnsettledOne(t) ==
    LET found == {x \in Drafts : TicketOf[x] = t /\ consumed[x] = "PRE_VERIFICATION"}
    IN {x \in found : x = CHOOSE y \in found : TRUE}

\* The drafts whose row a settlement of the ticket finds.
Unsettled(t) == {x \in Drafts : TicketOf[x] = t /\ consumed[x] = "PRE_VERIFICATION"}

\* Fault: the rows are found by ticket alone.
AnyStatus(t) == {x \in Drafts : TicketOf[x] = t /\ consumed[x] # "NONE"}

-----------------------------------------------------------------------------
(* TroubleshootSubmissionService.submit                                   *)

\* A draft already recorded is a DUPLICATE and ends the execution.
SubmitRead(w, x) ==
    /\ x \notin submitted
    /\ ticket[TicketOf[x]] = "OPEN"
    /\ Begin(w, [op |-> "submit", x |-> x])

\* A ticket that has left OPEN is a business conflict; a conflict leaves no
\* submission row behind, so a repeated draft comes here again.
ConflictRead(w, x) ==
    /\ x \notin submitted
    /\ ticket[TicketOf[x]] # "OPEN"
    /\ \E k \in Slots : shadow[x][k] = "NONE"
    /\ Begin(w, [op |-> "conflict", x |-> x])

\* The transaction inserts the submission, updates the ticket and reads the stock.
\* A second insert of the same draft violates the unique index (RollBack).
SubmitConsume(w) ==
    /\ Running(w, "submit")
    /\ LET x == job[w].x IN
       /\ x \notin submitted
       /\ ~Locked(TicketOf[x])
       /\ job' = [job EXCEPT ![w] = Reading("consume", x)]
    /\ UNCHANGED rows

SubmitCommit(w) ==
    /\ Running(w, "consume")
    /\ LET x == job[w].x IN
       /\ submitted' = submitted \cup {x}
       /\ ticket' = [ticket EXCEPT ![TicketOf[x]] = "VERIFICATION_PENDING"]
       /\ consumed' = [consumed EXCEPT ![x] = "PRE_VERIFICATION"]
    /\ Decrement(w)
    /\ Finish(w)
    /\ UNCHANGED <<tracked, shadow>>

ConflictConsume(w) ==
    /\ Running(w, "conflict")
    /\ job' = [job EXCEPT ![w] = Reading("shadow", job[w].x)]
    /\ UNCHANGED rows

\* Each recorded conflict is a row of its own.
ConflictCommit(w) ==
    /\ Running(w, "shadow")
    /\ LET x == job[w].x IN
       \E k \in Slots :
          /\ shadow[x][k] = "NONE"
          /\ \A i \in 1..(k - 1) : shadow[x][i] # "NONE"
          /\ shadow' = [shadow EXCEPT ![x][k] = "SHADOW_USE"]
    /\ Decrement(w)
    /\ Finish(w)
    /\ UNCHANGED <<ticket, submitted, tracked, consumed>>

-----------------------------------------------------------------------------
(* VerificationService: the sweep lists a ticket, judges it and settles   *)
(* its rows.  Two finalizations of one ticket update the same run row     *)
(* first, so the second one finds what the first one left.                *)

VerifyScan(w, t) ==
    /\ ticket[t] = "VERIFICATION_PENDING"
    /\ Begin(w, [op |-> "verify", t |-> t])

\* The settlement of the ticket's rows that are found.
Settle(t, found, outcome) ==
    consumed' = [x \in Drafts |-> IF x \in found THEN outcome ELSE consumed[x]]

\* Fault: the rows are settled whatever their status is.
FinalizeClosedAnyStatus(w) ==
    /\ Running(w, "verify")
    /\ LET t == job[w].t IN
       /\ ~Locked(t)
       /\ ticket' = [ticket EXCEPT ![t] = "CLOSED"]
       /\ Settle(t, AnyStatus(t), "DEDUCTED")
    /\ Finish(w)
    /\ UNCHANGED <<submitted, tracked, stock, shadow>>

FinalizeClosed(w) ==
    /\ Running(w, "verify")
    /\ LET t == job[w].t IN
       /\ ~Locked(t)
       /\ ticket' = [ticket EXCEPT ![t] = "CLOSED"]
       /\ Settle(t, Unsettled(t), "DEDUCTED")
    /\ Finish(w)
    /\ UNCHANGED <<submitted, tracked, stock, shadow>>

\* The parts go back by an increment, which does not depend on an earlier read,
\* and an engineer without a stock row gets one.
FinalizeFailed(w) ==
    /\ Running(w, "verify")
    /\ LET t == job[w].t
           Back(e) == {x \in Unsettled(t) : EngineerOf[x] = e} IN
       /\ ~Locked(t)
       /\ ticket' = [ticket EXCEPT ![t] = "FAILED_VERIFICATION"]
       /\ Settle(t, Unsettled(t), "ROLLED_BACK")
       /\ tracked' = tracked \cup {EngineerOf[x] : x \in Unsettled(t)}
       /\ stock' = [e \in Engineers |-> stock[e] + Parts(Back(e))]
    /\ Finish(w)
    /\ UNCHANGED <<submitted, shadow>>

-----------------------------------------------------------------------------
(* The closures that leave the ledger alone: runAutoRecovery, manualClose, *)
(* markAutoRecovery and the closing side effect of a Non-Operational       *)
(* marking.  They write the ticket by its id; markAutoRecovery takes any   *)
(* ticket that exists, one that is closed already too.                     *)

CloseRead(w, t, to) ==
    /\ to = "CLOSED_NON_OPERATIONAL" => ticket[t] \in {"OPEN", "VERIFICATION_PENDING"}
    /\ Begin(w, [op |-> "close", t |-> t, to |-> to])

CloseTicket(w) ==
    /\ Running(w, "close")
    /\ ~Locked(job[w].t)
    /\ ticket' = [ticket EXCEPT ![job[w].t] = job[w].to]
    /\ Finish(w)
    /\ UNCHANGED <<submitted, tracked, stock, consumed, shadow>>

-----------------------------------------------------------------------------
(* ShadowUseService.markReconciled and markDisputed                       *)

ReconcileRead(w, x, k, to) ==
    /\ shadow[x][k] = "SHADOW_USE"
    /\ Begin(w, [op |-> "reconcile", x |-> x, k |-> k, to |-> to])

Reconcile(w) ==
    /\ Running(w, "reconcile")
    /\ shadow' = [shadow EXCEPT ![job[w].x][job[w].k] = job[w].to]
    /\ Finish(w)
    /\ UNCHANGED <<ticket, submitted, tracked, stock, consumed>>

-----------------------------------------------------------------------------
\* An execution ends without writing.
RollBack(w) ==
    /\ job[w] # Idle
    /\ Finish(w)
    /\ UNCHANGED rows

Read(w) ==
    \/ \E x \in Drafts : SubmitRead(w, x) \/ ConflictRead(w, x)
    \/ \E t \in Tickets : VerifyScan(w, t) \/ \E to \in Closures : CloseRead(w, t, to)
    \/ \E x \in Drafts, k \in Slots, to \in {"RECONCILED", "DISPUTED"} :
          ReconcileRead(w, x, k, to)

Write(w) ==
    \/ SubmitConsume(w) \/ SubmitCommit(w) \/ ConflictConsume(w) \/ ConflictCommit(w)
    \/ FinalizeClosed(w) \/ FinalizeFailed(w) \/ CloseTicket(w) \/ Reconcile(w)

Next == \E w \in Workers : Read(w) \/ Write(w) \/ RollBack(w)

Spec == Init /\ [][Next]_vars

-----------------------------------------------------------------------------
(* Properties                                                             *)

\* A ledger row that a verification outcome has settled is never touched again,
\* whatever sweeps, retries and late submissions overlap: no part is deducted and
\* rolled back, or rolled back twice.
SettlementFinal ==
    [][\A x \in Drafts : consumed[x] \in Settled => consumed'[x] = consumed[x]]_vars

\* A verification that concludes a ticket leaves no part in doubt: the rows of every
\* submission of it are settled, of two that were accepted at one time both, and a late
\* submission brings its ticket back to be verified (finalize, submit).
OutcomeSettlesAll ==
    \A t \in Tickets : ticket[t] \in {"CLOSED", "FAILED_VERIFICATION"} => Unsettled(t) = {}

=============================================================================
