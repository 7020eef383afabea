------------------------- MODULE IntradayInsertion --------------------------
(***************************************************************************)
(* The offers of urgent tickets during the day, on top of the Day Plans:   *)
(* the sweep that offers a ticket to the best available engineer, the one- *)
(* tap Accept and Decline, the sweep of expired offers, and the manager's  *)
(* manual assignment.                                                      *)
(*                                                                         *)
(* Accept assigns the ticket in one transaction and marks the insertion in *)
(* another.  A reroute works on the insertion as it was read and writes it *)
(* unconditionally.                                                        *)
(***************************************************************************)
EXTENDS DayPlan

CONSTANTS
    MaxRetries,    \* MAX_RETRIES: reroutes before the manager takes over
    MaxInsertions  \* bound: insertion rows

ASSUME InsertionAssumption == MaxRetries \in Nat /\ MaxInsertions \in Nat

VARIABLES
    open,       \* tickets.status is OPEN
    insertion   \* intraday_insertions, by id

Live == {"PENDING_ACCEPTANCE", "ACCEPTED"}
InsertionStatus == Live \cup {"ESCALATION_REQUIRED"}

\* due: the acceptance deadline has passed; tried: the engineers of retryChain.
InsertionRow == [t : Tickets, status : InsertionStatus, se : Engineers, due : BOOLEAN,
                 retry : 0..MaxRetries, tried : SUBSET Engineers]

InsertionJob ==
    [op : {"fire"}, todo : SUBSET Tickets]
    \cup [op : {"accept", "acceptMark", "manual", "manualMark"},
          i : 1..MaxInsertions, se : Engineers]
    \cup [op : {"sweep"}, todo : SUBSET (1..MaxInsertions), seen : Seq(InsertionRow)]
    \cup [op : {"decline"}, i : 1..MaxInsertions, seen : InsertionRow]

InsertionTypeOK ==
    /\ PlanTypeOK
    /\ open \in [Tickets -> BOOLEAN]
    /\ insertion \in Seq(InsertionRow) /\ Len(insertion) <= MaxInsertions
    /\ \A w \in Workers : job[w] \in PlanJob \cup InsertionJob \cup {Idle}

intraday == <<open, insertion>>
allVars == <<plan, job, open, insertion>>

Init ==
    /\ PlanInit /\ job = [w \in Workers |-> Idle]
    /\ open = [t \in Tickets |-> TRUE]
    /\ insertion = <<>>

LiveInsertionsOf(t) == {i \in DOMAIN insertion : insertion[i].t = t /\ insertion[i].status \in Live}

SetInsertion(i, r) == insertion' = [insertion EXCEPT ![i] = r]

-----------------------------------------------------------------------------
(* fireForZone                                                            *)

UrgentTickets == {t \in Tickets : open[t] /\ ~assigned[t] /\ LiveInsertionsOf(t) = {}}

FireRead(w) ==
    /\ UrgentTickets # {}
    /\ Begin(w, [op |-> "fire", todo |-> UrgentTickets])
    /\ UNCHANGED <<plan, intraday>>

\* A ticket without an available candidate is skipped.
FireTicket(w) ==
    /\ Running(w, "fire")
    /\ \E t \in job[w].todo :
          /\ IF job[w].todo = {t} THEN Finish(w)
             ELSE Proceed(w, [job[w] EXCEPT !.todo = @ \ {t}])
          /\ \/ /\ Len(insertion) < MaxInsertions
                /\ \E e \in Engineers :
                      insertion' = Append(insertion,
                          [t |-> t, status |-> "PENDING_ACCEPTANCE", se |-> e, due |-> FALSE,
                           retry |-> 0, tried |-> {}])
             \/ UNCHANGED insertion
    /\ UNCHANGED <<plan, open>>

-----------------------------------------------------------------------------
(* accept and manualAssign                                                *)

\* The insertion, and then the ticket's assignment, which is not tested for being OPEN.
AcceptRead(w, i, e) ==
    /\ insertion[i].status = "PENDING_ACCEPTANCE" /\ insertion[i].se = e
    /\ ~assigned[insertion[i].t]
    /\ Begin(w, [op |-> "accept", i |-> i, se |-> e])
    /\ UNCHANGED <<plan, intraday>>

\* The manager assigns an insertion of any status.
ManualRead(w, i, e) ==
    /\ ~assigned[insertion[i].t]
    /\ Begin(w, [op |-> "manual", i |-> i, se |-> e])
    /\ UNCHANGED <<plan, intraday>>

\* assignTicket, at the top of the engineer's day.
InsertAtTop(w, op, next) ==
    /\ Running(w, op)
    /\ AssignTicketTx(w, insertion[job[w].i].t, job[w].se, TRUE)
    /\ Proceed(w, [job[w] EXCEPT !.op = next])
    /\ UNCHANGED intraday

AcceptMark(w) ==
    /\ Running(w, "acceptMark")
    /\ SetInsertion(job[w].i, [insertion[job[w].i] EXCEPT !.status = "ACCEPTED"])
    /\ Finish(w)
    /\ UNCHANGED <<plan, open>>

ManualMark(w) ==
    /\ Running(w, "manualMark")
    /\ SetInsertion(job[w].i,
                    [insertion[job[w].i] EXCEPT !.status = "ACCEPTED", !.se = job[w].se])
    /\ Finish(w)
    /\ UNCHANGED <<plan, open>>

-----------------------------------------------------------------------------
(* decline, sweepTimeouts and their reroute                               *)

DeclineRead(w, i) ==
    /\ insertion[i].status = "PENDING_ACCEPTANCE"
    /\ Begin(w, [op |-> "decline", i |-> i, seen |-> insertion[i]])
    /\ UNCHANGED <<plan, intraday>>

\* The sweep keeps the rows as listed and goes through them one by one.
SweepRead(w) ==
    LET expired == {i \in DOMAIN insertion :
                       insertion[i].status = "PENDING_ACCEPTANCE" /\ insertion[i].due}
    IN /\ expired # {}
       /\ Begin(w, [op |-> "sweep", todo |-> expired, seen |-> insertion])
       /\ UNCHANGED <<plan, intraday>>

\* Fault: the engineer who is asked now is not left out.
UntriedBefore(r) == Engineers \ r.tried

Untried(r) == Engineers \ (r.tried \cup {r.se})

\* Fault: the attempt is counted before the branch.
RerouteCounted(i, r) ==
    \/ /\ r.retry < MaxRetries
       /\ \E e \in Untried(r) :
             SetInsertion(i, [r EXCEPT !.status = "PENDING_ACCEPTANCE", !.se = e,
                                       !.due = FALSE, !.retry = @ + 1,
                                       !.tried = @ \cup {r.se}])
    \/ SetInsertion(i, [insertion[i] EXCEPT !.status = "ESCALATION_REQUIRED",
                                            !.retry = @ + 1,
                                            !.tried = r.tried \cup {r.se}])

\* The row read, offered to the next untried engineer who is available, or escalated.
Reroute(i, r) ==
    \/ /\ r.retry < MaxRetries
       /\ \E e \in Untried(r) :
             SetInsertion(i, [r EXCEPT !.status = "PENDING_ACCEPTANCE", !.se = e,
                                       !.due = FALSE, !.retry = @ + 1,
                                       !.tried = @ \cup {r.se}])
    \/ SetInsertion(i, [insertion[i] EXCEPT !.status = "ESCALATION_REQUIRED",
                                            !.tried = r.tried \cup {r.se}])

Decline(w) ==
    /\ Running(w, "decline")
    /\ Reroute(job[w].i, job[w].seen)
    /\ Finish(w)
    /\ UNCHANGED <<plan, open>>

TimeOut(w) ==
    /\ Running(w, "sweep")
    /\ \E i \in job[w].todo :
          /\ Reroute(i, job[w].seen[i])
          /\ IF job[w].todo = {i} THEN Finish(w)
             ELSE Proceed(w, [job[w] EXCEPT !.todo = @ \ {i}])
    /\ UNCHANGED <<plan, open>>

-----------------------------------------------------------------------------
(* The rest of the system                                                 *)

TenMinutesPass(i) ==
    /\ insertion[i].status = "PENDING_ACCEPTANCE" /\ ~insertion[i].due
    /\ SetInsertion(i, [insertion[i] EXCEPT !.due = TRUE])
    /\ UNCHANGED <<plan, job, open>>

\* Closing a ticket touches neither its insertions nor its assignment.
CloseTicket(t) ==
    /\ open[t]
    /\ open' = [open EXCEPT ![t] = FALSE]
    /\ UNCHANGED <<plan, job, insertion>>

IntradayRead(w) ==
    \/ FireRead(w) \/ SweepRead(w)
    \/ \E i \in DOMAIN insertion :
          DeclineRead(w, i) \/ \E e \in Engineers : AcceptRead(w, i, e) \/ ManualRead(w, i, e)

IntradayWrite(w) ==
    \/ FireTicket(w) \/ Decline(w) \/ TimeOut(w)
    \/ InsertAtTop(w, "accept", "acceptMark") \/ AcceptMark(w)
    \/ InsertAtTop(w, "manual", "manualMark") \/ ManualMark(w)

Step(w) ==
    \/ IntradayRead(w) \/ IntradayWrite(w)
    \/ PlanStep(w) /\ UNCHANGED intraday

Environment ==
    \/ \E i \in DOMAIN insertion : TenMinutesPass(i)
    \/ \E t \in Tickets : CloseTicket(t)
    \/ PlanEnvironment /\ UNCHANGED intraday

Next == (\E w \in Workers : Step(w)) \/ Environment

Spec == Init /\ [][Next]_allVars

-----------------------------------------------------------------------------
(* Properties                                                             *)

\* Nobody is asked twice: an engineer who declined an insertion or let it expire is not
\* offered it again (triedSeIds), and every engineer asked before counts as one retry, whatever
\* stale answers and sweeps write over each other (reroute).
NobodyAskedTwice ==
    \A i \in DOMAIN insertion :
       insertion[i].status = "PENDING_ACCEPTANCE" =>
          /\ insertion[i].se \notin insertion[i].tried
          /\ insertion[i].retry = Cardinality(insertion[i].tried)

=============================================================================
