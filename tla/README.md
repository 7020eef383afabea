# Field-service platform: models, checks and proofs

TLA+ models of the backend in `src/apps/backend` (NestJS, Prisma, PostgreSQL) and of
the admin console in `src/apps/admin` (React): the life of a device's failure
episodes, the inventory of the engineers' vans, Non-Operational markings, the Day Plans
and the intraday offers, the field tickets, the SLA clock, the approval desks, telemetry,
the recommender, and what the console offers to whom. TLC checks small instances, TLAPS
proves the most important properties for every value of the constants.

## The system

Devices in customers' vehicles send GPS pings. A device that stays silent gets a
*failure cycle* and a *ticket*. A recommender suggests an engineer, the morning dispatch and
the managers' overrides put the ticket on an engineer's *Day Plan*, and urgent ones are
offered during the day. The engineer repairs the device and submits a form; pings then
verify the repair. Parts leave the engineer's van stock and are settled by the
verification outcome. A device may instead be marked *Non-Operational* when both its
manager and the customer confirm; a *recovery ticket* then brings it to the warehouse.
An SLA clock runs on every cycle and stops while a part or the vehicle is missing.

All services share one PostgreSQL database at READ COMMITTED and run inside one or
several Node processes: HTTP handlers, and sweeps that run when somebody calls them. There is no
scheduler yet: "No scheduler here ... invoked on demand" (verification.service.ts:12-13), and the
sweep of expired offers is an endpoint for managers (intraday-insertion.controller.ts:28,57-62). The pattern
that makes them hard is the same everywhere: a service reads a row and tests it
**outside** a transaction, awaits, and then writes in a transaction by primary key,
**without testing again**. Sweeps list rows first and work through the list later. Some
operations take two transactions (accept, approve) or none (dispatch). What protects the
data is the unique indexes (some of them partial) and little else. The console adds the same
pattern once more: answers arrive late, for a choice that is no longer the present one.

| Component | State it keeps | Operations | Hard behaviour | What makes it correct |
|---|---|---|---|---|
| Device state | `device_states` (inactive, eligible, open flag, bucket) | recompute | markings and pings are read long before the upsert | eligible never contradicts a marking |
| Ticket creation | `failure_cycles`, `tickets` | createForInactiveEligible | two runs, stale scan, repeat within 24 h | one active cycle per device |
| Auto-recovery | the same | runAutoRecovery, manualClose | races a submission | closes only what is open; closure stamps the cycle |
| Repeat escalation | the same | runEscalationScan | stale list overwrites closures | one workable ticket per device |
| Troubleshoot submission | `troubleshooting_submissions`, ledger | submit (normal, component unavailable, duplicate, conflict) | retries, two engineers, late submissions | the ticket goes back together with its cycle |
| Verification | `verification_runs` | sweep, finalize, escalateFraud, markAutoRecovery | overlapping sweeps, 24 h timeout | parts follow the outcome; a settled row stays settled |
| Component requests | `component_request` | approve, reject, ship, receive, resubmit | resubmission after the episode ended | the clock restarts once |
| Van stock and ledger | `se_van_stock`, `inventory_transactions` | consume, settle, reconcile | read-then-write decrement, floor at zero, repeated drafts | a part is settled once, and all are when the outcome is known |
| Non-Operational | `non_operational_markings` | request, two legs, link, override | simultaneous legs, replayed link, crash before the token is burnt | both parties; confirmed once |
| Assignment, dispatch, override | schedules, batches, assignment rows | dispatch, assign, remove, defer, reorder, swap, move | dispatch is not transactional; overrides are stale | an assigned ticket is on a plan, at its plant, with the engineer named; positions distinct |
| Intraday insertion | `intraday_insertions` | fire, accept, decline, sweep, manual assign | accept is two transactions and races the ten-minute timeout | nobody asked twice |
| Recovery and install tickets | `tickets` | schedule, on site, collect, receive, fit, activate, sweep | stale transitions, flags that outlive their reason | received implies collected |
| SLA clock, vehicle unavailability | pause columns of the cycle, reports | fileReport, resumeSla, requests, forms | three desks share one pause | time is charged exactly while the cycle is not paused |
| Vouchers | `expense_vouchers` | create, review, resubmit, pay, export | retried claims, resubmission after clarification | paid is vouched for by another |
| Cross-zone escalation | `cross_zone_escalations` | sweep, flag, approve, deny, defer, re-escalate | approve is two transactions, decisions are stale | one open decision |
| Leave, availability | `leave_requests`, `se_availability` | submit, approve, reject, set | approve is two transactions, windows overlap | no work on an approved leave |
| Soft states, shared pool | `soft_states` | advance, expire, ping, submit | two advances race; tickets close underneath | no step skipped |
| Snapshot ingestion | `snapshot_runs`, raw pings | startRun, chunks, finishRun | failed attempts, answers lost after the commit, crashes | the banner is backed by rows; a run ends |
| Recommender | `recommendations`, component blocks | runForZone | presence, kit and capacity remembered while they change | capacity and tier order kept |
| API, roles | handlers and their allow-lists | guards, acting zone | about 140 allow-lists | with the console: what is offered is allowed |
| Admin console | token, session, acting zone, open page, pending answers | sign in, navigate, choose, act | late answers, expired tokens, reloads | shown rows are those chosen |
| Reports, dashboard, settings, org, planner, notifications, mobile application | derived data, master rows | queries, CRUD | - | no protocol of their own |

## Modules

| Module | Models | Uses |
|---|---|---|
| `FailureLifecycle` | device state, cycles, tickets, submissions, runs and component requests, and every service that writes a cycle's state or a troubleshoot ticket's status | |
| `EpisodeSlot` | abstract: a device is a slot that one episode occupies, with a flag | |
| `FailureEpisodes` | the refinement mapping from the lifecycle to the slot | both above |
| `VanLedger` | van stock, ledger rows and their settlement | |
| `NonOpMarking` | the dual confirmation | |
| `Executions` | the executions in progress, shared by all modules below | |
| `DayPlan` | schedules, batches, assignment rows; dispatch, overrides, one-click assignment, the engineer's own view | `Executions` |
| `IntradayInsertion` | offers of urgent tickets, on the tables of the Day Plans | `DayPlan` |
| `FieldTickets` | recovery and install tickets | `Executions` |
| `SlaClock` | one cycle's clock, component requests, vehicle reports, and the mapping to a stopwatch | `Executions`, `Stopwatch` |
| `Stopwatch` | abstract: a clock that is stopped and restarted | |
| `Vouchers`, `CrossZone`, `Absences`, `SoftStates` | the approval desks and what engineers say they do | `Executions` |
| `Telemetry` | the source of pings, runs, raw rows, device states | `Executions` |
| `Recommender` | one zone's run | `Executions` |
| `Desks` | the composition of the nine desks | `DayPlan` and `FieldTickets` to `Recommender` |
| `Endpoints` | every handler behind the guard, who may call it, whether it records the acting zone | |
| `ConsolePages` | every page: who reaches it, what it loads and offers | `Endpoints` |
| `Console` | one tab: token, session, page, choice, late answers | `ConsolePages` |
| `FailureLifecycle_proofs` | theorems of the lifecycle and its refinement of the slot | `FailureEpisodes`, `TLAPS` |
| `VanLedger_proofs`, `NonOpMarking_proofs`, `Console_proofs` | theorems | their module, `TLAPS` |
| `Plan_proofs` | theorems of the Day Plans and of the offers | `IntradayInsertion`, `TLAPS` |
| `Requests_proofs` | theorems of `CrossZone`, `Absences`, `Vouchers`, `FieldTickets`, `SlaClock`, `SoftStates` | these, `TLAPS` |
| `Runs_proofs` | theorems of `Telemetry` and `Recommender` | these, `TLAPS` |
| `Desks_proofs` | the types of every desk, and the theorems of the desks composed | `Desks`, the three above |
| `MC...` | the instances TLC checks | |

### How code becomes steps

*Workers.* `Workers` are the executions in progress at one time, whether HTTP
handlers or sweeps. `job[w]` is what worker `w` has read and decided and not yet
written. An operation is a `...Read` or `...Scan` action (the code up to the
transaction: its guard is the code's tests and early returns) and one action for the
transaction. Between them any other worker may step. The transaction action repeats
no guard the code does not repeat; what a unique index refuses is `IndexAllows` (the
execution then rolls back). `RollBack` ends an execution without effect at any point:
a crash, a refused insert, a ticket a sweep skips.

*Data.* Time windows (24 h, seven days) may come out either way, as may ping
criteria and PGI figures. A ticket and its cycle share an identifier because one
transaction creates both. Soft states, SLA pauses, audit rows (except those of the
confirmation legs) and notifications are left out.

*FailureLifecycle.* `inactive`, `eligible`, `hasOpen` are the columns of
`device_states`; `nonOp` says a confirmed marking exists; `cycle`, `closedAt`,
`repeat` are `failure_cycles`; `ticket`, `run`, `fraud`, `submitted`, `request` are the
statuses of the other tables. `CloseVerified` is the block of writes three closing paths share.
`VerifyScan` lists a ticket and opens its run in one step, because the run says
nothing to anybody else until it is judged. The warehouse legs of a component request are
single steps: they touch only the request's own row. A draft that reports an unavailable component moves only the cycle; the ticket
stays OPEN, as in the code. The un-confirming of a marking by a stale leg is a matter of
`NonOpMarking` and not repeated here.

*VanLedger.* The stock decrement is a read and an absolute write, so a submission has
three steps. A transaction that has updated a ticket's row keeps other writers of that
row waiting until it commits (`Locked`). One kind of component is modelled; several
kinds are several independent copies. Parts named by a component-unavailable
submission are never recorded by the code and so do not occur.

*NonOpMarking.* A leg keeps both legs as they were read (`LegJob`), then either parks
the row (`ParkLeg`) or confirms it (`ConfirmLeg`); the customer's execution burns the
token in a third step. `overdue` is the seven-day test on `awaiting_since`.

*Executions.* The later modules share these conventions. `Begin` is a handler that has read
and decided, `Proceed` one that goes on to its next database statement, `Finish` its end, and
`Abandon` a crash or a refused statement between any two. A handler that loads a row, tests it
and updates some columns by primary key keeps those columns in its job; `Updated` writes them
over whatever the row has become.

*DayPlan.* `row[t]` is the ticket's active assignment row and `rows[t]` the number of rows
there have been, so that `rows[t]` is also the id by which a stale override finds out that its
row is gone. `schedules` are in the order of `dispatched_at`. `dispatchForZone` has no
transaction: its schedule, batch, row and flag are four steps. `Positions` is the order
an override computes from the batches *as read*.

*IntradayInsertion.* `AcceptRead`, then `InsertAtTop` (assignTicket), then `AcceptMark`: two
transactions. `Reroute` is shared by decline and the sweep and works on the row as read. Which
candidate scores best is a free choice among engineers, and so is whether one is available.

*FieldTickets.* `RecoveryTransition` and `InstallTransition` are the one `transition` of each
service; every handler differs only in its test and its columns. The activation sweep lists
the activated tickets and then looks up each one's pings.

*SlaClock.* One cycle, because every statement touches one. The reports' tests of the pause
are inside their transaction and so one step; the form's is not there at all. Time is in
units longer than an execution. `Watch` maps the time, the clock shown, the pause flag and the
pause that runs to the abstract `Stopwatch`, whose one surprising action, `StopAgain`, is the form on a paused
cycle.

*Vouchers, CrossZone, Absences, SoftStates.* One row machine each, with the handlers' tests
outside the transactions. A payment is tested (`PaymentRead`) and written (`MarkPaid`) in two steps,
voucher after voucher. `CrossZone.Elsewhere` stands for the Day Plans' writes to a
ticket (an assignment, a reassignment, a removal) and for its closing; it may act between any two statements,
the two transactions of an approval included. A soft state is a row with an id, live until it is resolved:
`Advance` resolves the one row it has read, by its id. `SoftStates.PlaceChanges` and
`IntradayInsertion.CloseTicket` stand for the other services' writes to a ticket, e.g. the closing by auto-recovery.

*Telemetry.* The source is an array that grows at its end, as in the repository's reader. An
attempt that fails may have committed. `RecomputeRead` groups the pings once, `Upsert` writes
device after device.

*Recommender.* `LexBefore` is the comparator of canonical-sort.ts on the tuple of its
keys, and `CanonicalOrders` are the orders it leaves, with equal keys in any order. `Passed` are
the places in the list of candidates of those who pass the filters. A run keeps what it has looked up about an engineer (`Looked`); leaves, stock and managers
go on (`ZoneChanges`).

*Desks.* The nine desks are executions of one process. Some of them share tables: an approval and a
dispatch write the same tickets, the recommender reads the leaves. Each desk keeps the columns it
works with in variables of its own and takes what other desks write to them as steps of its environment
(`Elsewhere`, `ZoneChanges`, `PlaceChanges`), which are free to happen at any time. So a property of one desk
holds of the system if it holds at that desk among all its environment can do. A behaviour of `Desks` works at one desk, chosen at
the beginning; TLC explores the sum of the desks and not their product.

*Endpoints, ConsolePages, Console.* A handler is a record of its allow-list and of the
decorator that builds its actor. A page is a record of what it loads, whether its
effect drops late answers (`guarded`), and what it offers to each role in general
(`forms`) and on displayed rows (`rows`). `Console` has one action per thing a user or the
browser does. `sent` are the loads that are not answered; answers come in any order.

Definitions headed "Fault:" are not part of any specification: each is a plausible
bug, used to see that the property it is meant for notices it.

## Runs

| Run | Instance | What it shows |
|---|---|---|
| `LifecycleOverlap` | one device, two episodes, two drafts (one unavailable), two workers | `TypeOK`; `OneActiveCycle` (invariant I1) through reopened, escalated and repeat cycles; `OpenFlagBacked`: the creation fast path never withholds a ticket for nothing; `WorkableTicketBacked`, `OneWorkableTicket`: six writers of two statuses leave at most one ticket to work on, with an active cycle; `ClosedTicketStamped`; `ImplementsEpisodeSlot`: the whole is a slot per device |
| `LedgerOverlap` | two engineers (one without stock row), two tickets, three drafts, two of them for one ticket, short stock, two workers | `TypeOK` (no stock is negative); `SettlementFinal`; `OutcomeSettlesAll`: a ticket that a verification concluded has no part in doubt, even when two submissions of it were accepted at one time |
| `MarkingOverlap` | one device, two requests, two workers | `TypeOK`, `OneConfirmedPerDevice` (I13), `EffectNeedsBothParties` |
| `MarkingSerial` | two devices, three requests, one worker, crashes | `OneRecoveryTicket`, `CustomerCanAnswer` |
| `Intraday` | one urgent ticket, three engineers, two reroutes, two workers | `NobodyAskedTwice` over stale declines, accepts, sweeps and manual assignments, with overrides of the Day Plans in between; `InsertionTypeOK` bounds the reroutes |
| `DesksOverlap` | the nine desks, two workers | `ReceivedWasCollected`; `OffOnApprovedLeave`; `NoStepSkipped`; `FourEyes`; `RunIsFair` of each run's own rows; `StopsCoherent`: plant and engineer of a stop agree with its tickets and its schedule; `ImplementsStopwatch`: the SLA clock advances unless it is paused, and a resumption never moves it; `DesksTypeOK` |
| `Desks` | the nine desks, two of whatever can collide, one worker | `AssignedIsPlanned`, `PositionsDistinct` and `TakingAwayIsFlagged` over dispatch, with a crash after any of its statements, and five overrides; `OneOpenEscalation`; `PaidIsVouched` |
| `Ingestion` | one tracker, a source of three pings, chunks of one, two attempts, two runs, two workers, `FairTelemetrySpec` | `BannerBacked`; `RunEnds` |
| `Console` | five roles, two choices, two loads in flight | `OfferedIsAllowed`: no button or link whose call the guard refuses; `ShownIsChosen`: on guarded pages late answers never win |

Runs in which TLC finds what a comment of the code excludes; each checks one property.

| Run | Workers | Violated | How |
|---|---|---|---|
| `TerminatedCycle` | 1 | `TerminatedEpisodeFreesDevice` | a Non-Operational closure stamps the cycle and leaves it active for the index |
| `LostLeg` | 2 | `NoLegLost` | two legs read the same unconfirmed row; the later one blanks the earlier |
| `PlanEmptied` | 1 | `HeldTicketVisible` | a one-click assignment is deferred: its schedule is OVERRIDDEN and the engineer sees no plan |

*Two kinds of passing runs.* A run with one worker (`MarkingSerial`, `Desks`) takes the calls one after the other, in any
order and any number, and any of them may be abandoned between two of its statements. It shows what long sequences
of calls, retries and crashes keep, and nothing about calls that overlap. A run with two workers
keeps only what survives the missing re-tests; these properties are the ones that are proved. The
properties of the one-worker runs do **not** survive an overlap. The counterexamples:

- a manager's stale leg that takes the customer's answer back although his link is burnt (`CustomerCanAnswer`), two link clicks or an override next to a leg that queue two recovery tickets (`OneRecoveryTicket`),
- a removal between the row and the flag of the dispatch (`AssignedIsPlanned`), a one-click assignment into the schedule the dispatch is filling, or a reorder that overlaps it (`PositionsDistinct`), a removal from a batch that has been swapped away meanwhile, which marks the schedule it is no longer in (`TakingAwayIsFlagged`),
- two flags of one ticket (`OneOpenEscalation`),
- a second review, read before the first, that takes a paid voucher back, or a payment tested before a review that is written after it (`PaidIsVouched`).

Two runs of the recommender for one zone suggest the same tickets and fill the same capacity twice; `RunIsFair`
speaks of the rows of one run and survives that. An override that frees the ticket between the two
transactions of an approval leaves an APPROVED escalation whose engineer does not hold it; nothing in the
repository says otherwise, and no property is stated about it.

*Bounds.* One device suffices for the lifecycle because every guard and index speaks of one
device's rows; two episodes are the least that can collide. Two workers are the least that can interleave, and every race in
this code is between a stale write and one other write. `RepeatThreshold` is 1 so that
escalation happens. `MaxShadow` bounds recorded conflicts per draft, `MaxRecovery` recovery tickets
per marking, of which two are a duplicate. At the desks: two tickets at two plants, two
engineers, two schedules and two batches let every override find a target that exists and one that
does not; `MaxRows` 2 lets a ticket be moved once (and its first row go stale); `MaxRecs` 1
keeps dispatch to one row, with its four statements and a crash after each; two reroutes and three
engineers reach both ends of a retry chain and let a stale answer fall into its middle; `MaxTime` 3 allows two pauses; three
escalations of two tickets allow a second one after a denial; two overlapping windows of
two days are the least that can shadow each other; `MaxSoft` 4 allows the chain of three states and one more; chunks of two in a source of three rows
end in the middle; three pieces of work for two engineers of capacity 1 leave one out. Deadlock is
not checked where the bounded inputs may all be used up.

*Fairness.* Only `FairTelemetrySpec` has any: a run of the ingestion that was started is one loop in one process and goes on by
itself, so its next statement is weakly fair as long as its worker lives. A crash may end the worker at any statement, and then the
run stays RUNNING for good, which `RunEnds` excepts (`Orphaned`). Starting a run is not fair. `MaxPings` bounds the source; a
source that grows faster than it is read for ever is outside the model. No fairness is assumed of the sweeps, which nothing in the repository
schedules, nor of engineers, managers or customers; that pending tickets are judged and that expired offers are rerouted
is therefore not claimed.

## Proofs

TLAPS proves, for any constants that satisfy the named assumptions of their modules and for any number of overlapping
executions, every invariant and action property of `LifecycleOverlap`, `LedgerOverlap`, `MarkingOverlap`, `Intraday`, `DesksOverlap` and `Console`,
the refinements of the slot and of the stopwatch, and `BannerBacked`. No theorem assumes that executions do not overlap.

- `FailureLifecycle_proofs`: `TypeCorrect`, `OneActiveCycleHolds`,
  `OpenFlagBackedHolds`, `WorkableTicketBackedHolds`, `OneWorkableTicketHolds`,
  `ClosedTicketStampedHolds`. The inductive invariant is `IInv == TypeOK /\ RowInv`, with
  `RowInv` the four row properties. They need each other: a closure may lower the flag and
  free the device only because `OneActiveCycle` says that the cycle it ends was the only one.
  `EnterActive` is the key lemma: a cycle that moves into an active state the index
  accepts keeps all devices at one. One lemma per transaction carries the row invariants, `ReadStep`
  covers all reads, and `JobShape` gives the types of what a worker remembers.
- `FailureLifecycle_proofs`: `ImplementsEpisodeSlotHolds`, the refinement. Every transaction is a step of one
  device's slot or leaves all of them alone. Here `IInv` needs `Born`: the rows of an episode that
  does not exist yet are blank, and no job is about one, except to create it.
- `VanLedger_proofs`: `TypeOKHolds`, `SettlementFinalHolds`, `OutcomeSettlesAllHolds`. The content of the second is that `Unsettled` is
  computed inside the settling transaction, and that an accepted draft cannot be inserted a second time; that of the third
  is that a submission puts its ticket back under verification in the step in which it adds its row.
- `NonOpMarking_proofs`: `MarkingTypeCorrect`, `OneConfirmedPerDeviceHolds`,
  `EffectNeedsBothPartiesHolds`. The second needs `NInv`, which also says that a leg remembered
  in a job, or set in a row, is in the audit log: that is what makes a stale leg
  harmless for this property.
- `Requests_proofs`: `ClockRunsUnlessPausedHolds`. Every statement of every desk does one of three
  things to the clock (`Touched`: leave it, restart it, stop it); `ClockInv` says that the
  pauses, with the one that runs, fit into the time there has been, which is what keeps the
  subtraction in `PrimaryClock` from being cut off at zero.
- `Requests_proofs`: `ImplementsStopwatchHolds`, a refinement, from the same invariant: leaving the clock alone is a
  stutter, restarting it is `Restart`, and stopping it is `Stop` or `StopAgain`. It says more than `ClockRunsUnlessPaused`, which
  follows from it and is not in a run: a resumption that dropped the pause would move the clock forward, which that
  property allows and a stopwatch does not.
- `Requests_proofs`: `FourEyesHolds`, what survives overlap of `PaidIsVouched`. A stale review or resubmission
  may overwrite any decision, but every status it writes comes with a reviewer who is not the claimant, or
  leads back to the queue (`Fits`).
- `Requests_proofs`: `ReceivedWasCollectedHolds`. The invariant is about columns and not statuses: a
  recorded serial is never taken back, and no job in flight (`Harmless`) writes a collection
  or a receipt without one. That is why stale transitions do no harm here.
- `Requests_proofs`: `NoStepSkippedHolds`. Rows are never deleted and keep their type (`Resolved` only clears `live`), and an
  advance in flight remembers the row it follows, which exists and is of the type before its target: stale or not, the
  step it takes has its predecessor on record.
- `Requests_proofs`: `OffOnApprovedLeaveHolds`. An approval in flight has written its window
  (`DecisionsBacked`), windows are only added, and among those of a day the latest start decides.
- `Runs_proofs`: `BannerBackedHolds`. A run that has failed nowhere has stored all rows up to its cursor and
  knows the newest of them (`Progress`). The source grows at its end and stored rows stay (`Grown`), so that
  what a run in flight knows survives whatever the others do.
- `Console_proofs`: `ShownIsChosenHolds`. On a guarded page every load that is not answered, and may still be
  shown, was sent for the present choice.
- `Console_proofs`: `OfferedIsAllowedHolds`. The handlers and pages are tables; the proof goes through them by role. What
  needs an invariant, `OfferedInv`, is the token: a sign-in is half done only on the login page, every load under way was
  sent with a token of the present role, and the managers' landing page has no rows for a service engineer.
- `Plan_proofs`: `PlanTypeOKHolds` and `InsertionTypeOKHolds`. The tables are not inductive by themselves, because a stale override
  writes what it has read. `PlanTyped` adds what stays true of a stale job: the rows, batches and schedules
  it points to exist (`RowsKnown`, `HandKnown`), for tables only grow (`TablesGrow`).
- `Plan_proofs`: `StopsCoherentHolds`. Schedules keep their engineer and batches their plant, a batch goes to another
  schedule only together with its engineer, and a new row is at its ticket's plant (`Coherently`). A move in flight needs an invariant: the tickets it
  has read are of the plant of the batch it has read (`MoveReady`), which stays true however stale the move becomes.
- `Plan_proofs`: `NobodyAskedTwiceHolds`. A decline or a timeout writes the row it has read, whatever it has become; the row is
  well-formed by itself (whoever is asked is not among those tried, and the retries are their number), so that a stale row
  written back is well-formed too.
- `Runs_proofs`: `RunIsFairHolds`. The invariant relates a run's memory to the rows it has written (`mine`), which no other
  run changes: its count of an engineer is the number of his rows (`Counted`); all engineers of a ticket left out have
  been looked up, so that a later look cannot make one of them present (`LeftOut`); and rows and list together are in
  canonical order (`TierOrder`). Leaves and kits change at any time, and other runs write in between.
- `Desks_proofs`: `DesksTypeOKHolds`, with one invariant `XTyped` per desk: the columns an `UPDATE` will set have
  values of their types, and the row it will set them in exists.
- `Desks_proofs`: `DesksSoundOverlapping`. What is proved of one desk is carried to the specification TLC checks:
  a behaviour of `DesksSpec` is one of the desk's own specification, or leaves the desk's tables as they began (`XSide`, from
  `DeskStep`). At the recommender's desk the second half speaks of jobs, not tables: while the behaviour is
  elsewhere nobody runs a recommendation (`RecommenderAside`).

### Assumptions

The constants are sets of the kinds their modules name; bounds are naturals. `Tickets` of a plan, `Drafts` and
the recommender's `Work` are finite, which a table is; positions and sums make no sense otherwise. Engineers of the
recommender are numbered from 1, so that "nobody" is none of them. The hours of `Telemetry` are naturals and there is one.
Day 1 is among the `Days` of the absences, which begin there. TLC evaluates every assumption on its instances.

### Only model-checked

- `RunEnds`: liveness under fairness is out of the prover's reach.
- The properties of the one-worker runs `MarkingSerial` and `Desks`. They would need the hypothesis
  that executions do not overlap, which the code does not justify.

## Where code and documents disagree

The three runs above are checked. The rest was met while modelling; each path can be replayed
in the module named.

- *FailureLifecycle.* `confirmResubmit` tests only the request's status: a component-unavailable form, auto-recovery of the device,
  then approval, shipment, receipt and resubmission, and a VERIFIED cycle is OPEN again under a closed ticket, where CONTEXT.md:84 says
  "cycle immutable from here". A marking confirmed between the creation scan and the insert, or between recompute's
  reading of the markings and its upsert, is followed by a new ticket, where non-operational.service.ts:371-372 says
  that the marking "also blocks new Failure Cycles". A submission that overlaps auto-recovery puts the ended episode's ticket back to
  VERIFICATION_PENDING. `markAutoRecovery` closes a ticket that is closed already once more; only the page's list
  keeps a manager from it. A failed verification leaves
  the cycle SUBMITTED; CONTEXT.md names a FAILED state no code writes.
- *VanLedger.* The decrement stops at zero and the rollback adds the whole quantity: a van of one part and a form that names
  two end with two parts, where verification.service.ts:270 says "restored to physical reality". A conflicting draft leaves no submission behind, so its
  second delivery takes the parts again, where CONTEXT.md:175 says "duplicate retries do not produce duplicate inventory movement". Two submissions that
  both find the ticket open are both charged, and if one engineer makes two for two tickets, one decrement of his stock is lost. A second finalization,
  overlapping the first, overwrites the ticket's outcome and finds nothing to settle. A pending ticket closed by `markAutoRecovery` or by
  a marking keeps PRE_VERIFICATION rows for good.
- *NonOpMarking.* Two overlapping legs can take a CONFIRMED marking back to awaiting. Every
  repeated leg starts the override's seven days again.
- *SoftStates.* A VIEWED that is sent twice is read twice as the first step; one is written and advanced to ON_SITE, then the other is
  written: two live states, where soft-state.service.ts:10-11 says "at most one active state per ticket". A ticket closed by another path leaves
  its engineer ON_SITE for good; CONTEXT.md:342 says that the state ends then.
- *SlaClock.* The component-unavailable form overwrites the start of a pause that is running: the
  time since then is charged.
- *IntradayInsertion.* Two sweeps that both find a ticket without a live insertion both offer it, where
  intraday-insertion.service.ts:93-94 says "that has no live insertion". A decline that was read before an accept and is written between its
  two transactions reroutes the insertion; it is then ACCEPTED and names the second engineer. A crash between the transactions of an accept leaves an assigned ticket with an
  offer that expires and escalates. Escalated insertions do not keep `fireForZone` from offering the
  ticket again. Accepting does not test that the ticket is still OPEN.
- *CrossZone.* A denial that is read between the two transactions of an approval overwrites it: DENIED, and the
  ticket is with the engineer of the other zone. ESCALATED_TO_OPS is listed as actionable, but approve, deny and defer require
  PENDING or DEFERRED. A crash between the transactions of an approval leaves a PENDING escalation that can
  no longer be approved, because the ticket is assigned.
- *Absences.* A crash between window and request leaves a pending leave with its window in force.
- *FieldTickets.* The decision queue is told by the unable flag alone, so a ticket that was
  collected after all can be rescheduled. Nothing keeps two install tickets from naming one
  device or one vehicle.
- *Vouchers.* A zonal manager without a zone sees an empty queue but may review any voucher.
- *Telemetry.* A run whose process dies stays RUNNING and refuses all later ones. A run over an
  empty source is a SUCCESS whose banner has no time.
- *Recommender.* The score never ranks (CONTEXT.md:608); capacity is counted per run and not
  per day (CONTEXT.md:325).
- *Endpoints.* `engineers.controller.ts:90` and `leave-request.controller.ts:77,95` do not record
  the acting zone the console sends with every call. A zone's backup role is stored and read by no decision.
- *Console.* The warehouse dashboard calls a handler for managers only and swallows the 403 (`Swallowed`).
  The acting zone survives a reload and a sign-in as a zonal manager. A failed `apiMe` leaves the
  new token under the old session. Nothing refreshes an expired token. The engineers', territory and
  voucher pages display a late answer for an earlier choice, and the pages that load again
  after a mutation do so without a guard. The ticket drawer shows the previous ticket until the
  next one arrives, while Close acts on the new one.

## Not modelled, and why

Reports, dashboard, soft-inactive history, ticket and device queries aggregate rows that others write;
settings, org masters, the planner, common kits and SLA rules create, update and delete
single rows; a role backup is read by no decision. Notifications are
delivery, the audit log is append-only. Who may call them is in `Endpoints`, what the console shows of
them in `ConsolePages`. Verification and recovery criteria are arithmetic on GPS pings over distances and windows;
their outcome is a free choice in the models. Password checks, the rotation of refresh tokens (no
client asks for it) and the mobile application (so far a login screen) are left out.
