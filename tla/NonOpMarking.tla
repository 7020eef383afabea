---------------------------- MODULE NonOpMarking ----------------------------
(**************************************************************************)
(* The dual confirmation of a Non-Operational marking: the rows of        *)
(* non_operational_markings, their one-time customer tokens, the RECOVERY *)
(* tickets a confirmation queues and the audit rows of each leg.          *)
(*                                                                        *)
(* Every confirmation reads the marking outside its transaction and       *)
(* applies its leg to the row as it was read, by primary key.  So an      *)
(* execution reads (the job keeps both legs), applies, and, when it came  *)
(* by the customer's link, burns the token in a third step.               *)
(**************************************************************************)
EXTENDS Naturals, FiniteSets

CONSTANTS
    Devices,
    Markings,    \* identifiers of marking rows
    DeviceOf,    \* the device a marking is requested for
    Qualifying,  \* markings of a RECURRING deal with a physical-retrieval reason
    Workers,     \* executions that may be in progress at a time
    MaxRecovery  \* bound: RECOVERY tickets counted per marking

ASSUME MarkingAssumption ==
    /\ DeviceOf \in [Markings -> Devices]
    /\ Qualifying \subseteq Markings
    /\ MaxRecovery \in Nat

VARIABLES
    state,     \* non_operational_markings.state, "NONE" before the row exists
    manager,   \* manager_confirmed_at is set
    customer,  \* customer_confirmed_at is set
    token,     \* customer_token is set
    overdue,   \* awaiting_since is at least 7 days ago
    recovery,  \* RECOVERY tickets created for the marking
    audited,   \* audit_logs actions recorded for the marking
    job        \* what each worker has read and not yet written

rows == <<state, manager, customer, token, overdue, recovery, audited>>
vars == <<state, manager, customer, token, overdue, recovery, audited, job>>

Awaiting == {"AWAITING_ZM_CONFIRMATION", "AWAITING_CUSTOMER_CONFIRMATION"}
QueueState == Awaiting \cup {"CONFIRMED"}
AuditAction == {"MANAGER_CONFIRMED", "CUSTOMER_CONFIRMED", "OVERRIDE_CONFIRMED"}

Idle == [op |-> "idle"]
Job == [op : {"idle"}]
       \cup [op : {"request", "link", "burn"}, m : Markings]
       \cup [op : {"leg"}, m : Markings, who : {"manager", "customer"},
             manager : BOOLEAN, customer : BOOLEAN]
       \cup [op : {"override"}, m : Markings]

TypeOK ==
    /\ state \in [Markings -> QueueState \cup {"NONE"}]
    /\ manager \in [Markings -> BOOLEAN]
    /\ customer \in [Markings -> BOOLEAN]
    /\ token \in [Markings -> BOOLEAN]
    /\ overdue \in [Markings -> BOOLEAN]
    /\ recovery \in [Markings -> 0..MaxRecovery]
    /\ audited \in [Markings -> SUBSET AuditAction]
    /\ job \in [Workers -> Job]

Init ==
    /\ state = [m \in Markings |-> "NONE"]
    /\ manager = [m \in Markings |-> FALSE]
    /\ customer = [m \in Markings |-> FALSE]
    /\ token = [m \in Markings |-> FALSE]
    /\ overdue = [m \in Markings |-> FALSE]
    /\ recovery = [m \in Markings |-> 0]
    /\ audited = [m \in Markings |-> {}]
    /\ job = [w \in Workers |-> Idle]

-----------------------------------------------------------------------------
(* Helpers                                                                *)

Running(w, op) == job[w].op = op

\* A worker reads and decides: no row changes.
Take(w, j) == job' = [job EXCEPT ![w] = j] /\ UNCHANGED rows
Begin(w, j) == job[w] = Idle /\ Take(w, j)
Finish(w) == job' = [job EXCEPT ![w] = Idle]

Audit(m, action) == audited' = [audited EXCEPT ![m] = @ \cup {action}]

\* Fault: the index is missing.
NoIndex(m) == TRUE

\* The partial unique index (invariant I13) accepts CONFIRMED in m's row.
IndexAllows(m) ==
    \A n \in Markings \ {m} : DeviceOf[n] = DeviceOf[m] => state[n] # "CONFIRMED"

\* maybeCreateRecoveryTicket; a device without fitment gets no ticket.
QueueRecovery(m) ==
    /\ recovery[m] < MaxRecovery
    /\ \/ recovery' = [recovery EXCEPT ![m] = IF m \in Qualifying THEN @ + 1 ELSE @]
       \/ UNCHANGED recovery

-----------------------------------------------------------------------------
(* requestMarking                                                         *)

RequestRead(w, m) ==
    /\ state[m] = "NONE"
    /\ \A n \in Markings : DeviceOf[n] = DeviceOf[m] => state[n] \notin QueueState
    /\ Begin(w, [op |-> "request", m |-> m])

\* Fault: the state of the decision record is written.
RequestMarkingRequested(w) ==
    /\ Running(w, "request")
    /\ state[job[w].m] = "NONE"
    /\ state' = [state EXCEPT ![job[w].m] = "REQUESTED"]
    /\ token' = [token EXCEPT ![job[w].m] = TRUE]
    /\ Finish(w)
    /\ UNCHANGED <<manager, customer, overdue, recovery, audited>>

RequestMarking(w) ==
    /\ Running(w, "request")
    /\ state[job[w].m] = "NONE"
    /\ state' = [state EXCEPT ![job[w].m] = "AWAITING_ZM_CONFIRMATION"]
    /\ token' = [token EXCEPT ![job[w].m] = TRUE]
    /\ Finish(w)
    /\ UNCHANGED <<manager, customer, overdue, recovery, audited>>

-----------------------------------------------------------------------------
(* The two legs                                                           *)

\* The row as a leg reads it, while it awaits somebody.
LegJob(m, who) ==
    [op |-> "leg", m |-> m, who |-> who, manager |-> manager[m], customer |-> customer[m]]

ManagerRead(w, m) ==
    /\ state[m] \in Awaiting
    /\ Begin(w, LegJob(m, "manager"))

\* The link finds a marking by its token, unless the token has expired.
LinkRead(w, m) ==
    /\ token[m]
    /\ Begin(w, [op |-> "link", m |-> m])

\* Fault: the token is burnt before the leg is applied.
CustomerReadBurning(w) ==
    /\ Running(w, "link")
    /\ state[job[w].m] \in Awaiting
    /\ job' = [job EXCEPT ![w] = LegJob(@.m, "customer")]
    /\ token' = [token EXCEPT ![job[w].m] = FALSE]
    /\ UNCHANGED <<state, manager, customer, overdue, recovery, audited>>

CustomerRead(w) ==
    /\ Running(w, "link")
    /\ state[job[w].m] \in Awaiting
    /\ Take(w, LegJob(job[w].m, "customer"))

\* The legs the row will have: the one given now and the other as it was read.
ManagerLeg(j) == j.who = "manager" \/ j.manager
CustomerLeg(j) == j.who = "customer" \/ j.customer

\* The customer's execution goes on to burn the token.
AfterLeg(w) ==
    IF job[w].who = "customer"
    THEN job' = [job EXCEPT ![w] = [op |-> "burn", m |-> @.m]]
    ELSE Finish(w)

LegAction(j) == IF j.who = "manager" THEN "MANAGER_CONFIRMED" ELSE "CUSTOMER_CONFIRMED"

\* One leg is still missing: the row waits for it from now on.
ParkLeg(w) ==
    /\ Running(w, "leg")
    /\ LET j == job[w] IN
       /\ ~(ManagerLeg(j) /\ CustomerLeg(j))
       /\ manager' = [manager EXCEPT ![j.m] = ManagerLeg(j)]
       /\ customer' = [customer EXCEPT ![j.m] = CustomerLeg(j)]
       /\ state' = [state EXCEPT ![j.m] =
                      IF ManagerLeg(j) THEN "AWAITING_CUSTOMER_CONFIRMATION"
                      ELSE "AWAITING_ZM_CONFIRMATION"]
       /\ overdue' = [overdue EXCEPT ![j.m] = FALSE]
       /\ Audit(j.m, LegAction(j))
    /\ AfterLeg(w)
    /\ UNCHANGED <<token, recovery>>

\* Fault: one leg is enough.
ConfirmEitherLeg(w) ==
    /\ Running(w, "leg")
    /\ LET j == job[w] IN
       /\ ManagerLeg(j) \/ CustomerLeg(j)
       /\ IndexAllows(j.m)
       /\ manager' = [manager EXCEPT ![j.m] = ManagerLeg(j)]
       /\ customer' = [customer EXCEPT ![j.m] = CustomerLeg(j)]
       /\ state' = [state EXCEPT ![j.m] = "CONFIRMED"]
       /\ QueueRecovery(j.m)
       /\ Audit(j.m, LegAction(j))
    /\ AfterLeg(w)
    /\ UNCHANGED <<token, overdue>>

\* Both legs are there: the marking takes effect, with its side effects.
ConfirmLeg(w) ==
    /\ Running(w, "leg")
    /\ LET j == job[w] IN
       /\ ManagerLeg(j) /\ CustomerLeg(j)
       /\ IndexAllows(j.m)
       /\ manager' = [manager EXCEPT ![j.m] = TRUE]
       /\ customer' = [customer EXCEPT ![j.m] = TRUE]
       /\ state' = [state EXCEPT ![j.m] = "CONFIRMED"]
       /\ QueueRecovery(j.m)
       /\ Audit(j.m, LegAction(j))
    /\ AfterLeg(w)
    /\ UNCHANGED <<token, overdue>>

BurnToken(w) ==
    /\ Running(w, "burn")
    /\ token' = [token EXCEPT ![job[w].m] = FALSE]
    /\ Finish(w)
    /\ UNCHANGED <<state, manager, customer, overdue, recovery, audited>>

-----------------------------------------------------------------------------
(* overrideConfirm                                                        *)

\* Fault: the state of the marking is not tested.
OverrideReadAny(w, m) ==
    /\ state[m] # "NONE" /\ overdue[m]
    /\ Begin(w, [op |-> "override", m |-> m])

OverrideRead(w, m) ==
    /\ state[m] \in Awaiting /\ overdue[m]
    /\ Begin(w, [op |-> "override", m |-> m])

OverrideConfirm(w) ==
    /\ Running(w, "override")
    /\ LET m == job[w].m IN
       /\ IndexAllows(m)
       /\ manager' = [manager EXCEPT ![m] = TRUE]
       /\ customer' = [customer EXCEPT ![m] = TRUE]
       /\ state' = [state EXCEPT ![m] = "CONFIRMED"]
       /\ QueueRecovery(m)
       /\ Audit(m, "OVERRIDE_CONFIRMED")
    /\ Finish(w)
    /\ UNCHANGED <<token, overdue>>

-----------------------------------------------------------------------------
\* Seven days without an answer.
WeekPasses(m) ==
    /\ state[m] \in Awaiting /\ ~overdue[m]
    /\ overdue' = [overdue EXCEPT ![m] = TRUE]
    /\ UNCHANGED <<state, manager, customer, token, recovery, audited, job>>

\* An execution ends without writing: the row is gone from its state, the index
\* refuses the row, the process dies.
RollBack(w) ==
    /\ job[w] # Idle
    /\ Finish(w)
    /\ UNCHANGED rows

Read(w, m) ==
    RequestRead(w, m) \/ ManagerRead(w, m) \/ LinkRead(w, m) \/ OverrideRead(w, m)

Write(w) ==
    \/ RequestMarking(w) \/ CustomerRead(w) \/ ParkLeg(w) \/ ConfirmLeg(w)
    \/ BurnToken(w) \/ OverrideConfirm(w)

Next ==
    \/ \E w \in Workers : Write(w) \/ RollBack(w) \/ \E m \in Markings : Read(w, m)
    \/ \E m \in Markings : WeekPasses(m)

Spec == Init /\ [][Next]_vars

-----------------------------------------------------------------------------
(* Properties                                                             *)

BothParties(m) == {"MANAGER_CONFIRMED", "CUSTOMER_CONFIRMED"} \subseteq audited[m]

\* Invariant I13: a device is under at most one confirmed marking, although nothing
\* keeps two requests of one device apart.
OneConfirmedPerDevice ==
    \A m, n \in Markings :
        state[m] = "CONFIRMED" /\ state[n] = "CONFIRMED" /\ DeviceOf[m] = DeviceOf[n] => m = n

\* No marking takes effect, and no RECOVERY ticket goes out, unless both parties
\* confirmed it or Operations Head overrode it: the audit log says so, whatever
\* stale rows the legs were applied to.
EffectNeedsBothParties ==
    \A m \in Markings :
        state[m] = "CONFIRMED" \/ recovery[m] > 0 =>
            BothParties(m) \/ "OVERRIDE_CONFIRMED" \in audited[m]

\* Once both parties have confirmed, the marking is in effect: "both legs present ->
\* CONFIRMED" (non-operational.service.ts).  No leg is lost.
NoLegLost == \A m \in Markings : BothParties(m) => state[m] = "CONFIRMED"

\* A marking sends an engineer to retrieve the device at most once: the link is
\* "One-time ... so the link can't be replayed" (non-operational.service.ts).
OneRecoveryTicket == \A m \in Markings : recovery[m] <= 1

\* A customer whose confirmation is outstanding still has an unused link, over crashes between
\* the leg and the burning of the token (confirmViaLink); that a link also expires is not
\* modelled.
CustomerCanAnswer ==
    \A m \in Markings : state[m] \in Awaiting /\ ~customer[m] => token[m]

=============================================================================
