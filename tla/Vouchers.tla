------------------------------ MODULE Vouchers ------------------------------
(****************************************************************************)
(* Expense vouchers: an engineer claims, a manager reviews, the Operations  *)
(* Head pays the approved ones and exports them month by month.             *)
(*                                                                          *)
(* A claim is the draft a phone keeps and sends again until it is answered. *)
(* Amounts, items and their limits only colour the review queue.            *)
(****************************************************************************)
EXTENDS Executions, Naturals, Sequences

CONSTANTS
    Claims,       \* (se_id, client_submission_id) of the drafts
    ClaimantOf,   \* the engineer of a claim
    Reviewers,    \* users who may open the review queue; a claimant may be one
    Wide,         \* those of them who see every zone (CSM, Operations Head)
    ZoneOf,       \* the zone of a user, "none" when it is null
    MaxMonth      \* bound: months of the finance export

ASSUME VouchersAssumption == "nobody" \notin Reviewers /\ MaxMonth \in Nat

VARIABLES
    voucher,  \* claims with a voucher -> the voucher
    month     \* the current month

vouchers == <<voucher, month>>

Reviewed == {"APPROVED", "REJECTED", "NEEDS_CLARIFICATION"}
NoReviewer == "nobody"

VoucherRow == [status : Reviewed \cup {"ZONAL_MANAGER_REVIEW", "PAID"}, submitted : 0..MaxMonth,
               reviewer : Reviewers \cup {NoReviewer}, exported : BOOLEAN]

VouchersTypeOK ==
    /\ DOMAIN voucher \subseteq Claims
    /\ \A c \in DOMAIN voucher : voucher[c] \in VoucherRow
    /\ month \in 0..MaxMonth

VouchersInit == voucher = <<>> /\ month = 0

Filed == DOMAIN voucher

\* create: a retry is answered with the voucher on record; the unique index on the draft's id
\* stops the one that overtakes it.
ClaimRead(w, c) ==
    /\ c \notin Filed
    /\ Begin(w, [op |-> "claim", c |-> c])
    /\ UNCHANGED vouchers

CreateVoucher(w) ==
    /\ Running(w, "claim") /\ job[w].c \notin Filed
    /\ voucher' = [c \in Filed \cup {job[w].c} |->
                      IF c = job[w].c
                      THEN [status |-> "ZONAL_MANAGER_REVIEW", submitted |-> month,
                            reviewer |-> NoReviewer, exported |-> FALSE]
                      ELSE voucher[c]]
    /\ Finish(w)
    /\ UNCHANGED month

\* The queue of a manager without a zone is empty: no engineer is in zone -1.
ReviewQueue(u) ==
    {c \in Filed : /\ voucher[c].status = "ZONAL_MANAGER_REVIEW"
                   /\ u \in Wide \/ (ZoneOf[u] # "none" /\ ZoneOf[ClaimantOf[c]] = ZoneOf[u])}

\* Fault: the reviewer may be the claimant.
MayReviewOwn(u, c) == u \in Wide \/ ZoneOf[u] \in {"none", ZoneOf[ClaimantOf[c]]}

\* The review itself lets a manager without a zone through.
MayReview(u, c) ==
    /\ u # ClaimantOf[c]
    /\ u \in Wide \/ ZoneOf[u] \in {"none", ZoneOf[ClaimantOf[c]]}

VoucherRead(w, c, from, data) ==
    /\ voucher[c].status = from
    /\ Begin(w, [op |-> "voucher", c |-> c, data |-> data])
    /\ UNCHANGED vouchers

Review(w, c, u, next) ==
    /\ MayReview(u, c)
    /\ VoucherRead(w, c, "ZONAL_MANAGER_REVIEW", [status |-> next, reviewer |-> u])

\* By its claimant; the month of submission starts again, the reviewer stays on record.
Resubmit(w, c) ==
    VoucherRead(w, c, "NEEDS_CLARIFICATION",
                [status |-> "ZONAL_MANAGER_REVIEW", submitted |-> month])

\* Every handler loads the row, tests it and updates some columns by primary key.
UpdateVoucher(w) ==
    /\ Running(w, "voucher")
    /\ voucher' = [voucher EXCEPT ![job[w].c] = Updated(@, job[w].data)]
    /\ Finish(w)
    /\ UNCHANGED month

\* markPaid goes through the ids it was given, one transaction each.
PaidRead(w, cs) ==
    /\ cs # {}
    /\ Begin(w, [op |-> "pay", todo |-> cs])
    /\ UNCHANGED vouchers

\* It goes on with the ids left.
NextPayment(w, c) ==
    LET left == job[w].todo \ {c} IN
    IF left = {} THEN Finish(w) ELSE Proceed(w, [op |-> "pay", todo |-> left])

\* Outside the transaction, an id is tested.
PaymentRead(w, c) ==
    /\ Running(w, "pay") /\ c \in job[w].todo /\ voucher[c].status = "APPROVED"
    /\ Proceed(w, [op |-> "paying", c |-> c, todo |-> job[w].todo])
    /\ UNCHANGED vouchers

MarkPaid(w) ==
    /\ Running(w, "paying")
    /\ voucher' = [voucher EXCEPT ![job[w].c].status = "PAID"]
    /\ NextPayment(w, job[w].c)
    /\ UNCHANGED month

SkipPayment(w, c) ==
    /\ Running(w, "pay") /\ c \in job[w].todo /\ voucher[c].status # "APPROVED"
    /\ NextPayment(w, c)
    /\ UNCHANGED vouchers

\* The vouchers approved by now that were submitted in month m.
ExportApproved(w, m) ==
    /\ job[w] = Idle
    /\ voucher' = [c \in Filed |->
                      IF voucher[c].status = "APPROVED" /\ voucher[c].submitted = m
                      THEN [voucher[c] EXCEPT !.exported = TRUE] ELSE voucher[c]]
    /\ UNCHANGED <<month, job>>

NextMonth ==
    /\ month < MaxMonth
    /\ month' = month + 1
    /\ UNCHANGED <<voucher, job>>

VouchersStep(w) ==
    \/ \E c \in Claims : ClaimRead(w, c)
    \/ \E c \in Filed : \/ Resubmit(w, c) \/ PaymentRead(w, c) \/ SkipPayment(w, c)
                        \/ \E u \in Reviewers, next \in Reviewed : Review(w, c, u, next)
    \/ CreateVoucher(w) \/ UpdateVoucher(w) \/ MarkPaid(w)
    \/ \E cs \in SUBSET Filed : PaidRead(w, cs)
    \/ \E m \in 0..month : ExportApproved(w, m)
    \/ Abandon(w) /\ UNCHANGED vouchers

VouchersEnvironment == NextMonth

vouchersVars == <<vouchers, job>>

VouchersSpec ==
    /\ VouchersInit /\ job = [w \in Workers |-> Idle]
    /\ [][(\E w \in Workers : VouchersStep(w)) \/ VouchersEnvironment]_vouchersVars

-----------------------------------------------------------------------------
(* Properties                                                             *)

\* Money is paid only for a claim that somebody else has approved, and for good: whatever
\* was sent again, sent back, resubmitted and selected for payment (review, resubmit,
\* markPaid).
PaidIsVouched ==
    [][\A c \in Filed :
          /\ voucher[c].status = "PAID" => voucher'[c] = [voucher[c] EXCEPT !.exported = voucher'[c].exported]
          /\ voucher'[c].status = "PAID" /\ voucher[c].status # "PAID" =>
                /\ voucher[c].status = "APPROVED"
                /\ voucher[c].reviewer \notin {NoReviewer, ClaimantOf[c]}]_vouchersVars

\* Four eyes, whatever reviews, resubmissions and payments overlap: an approved or paid
\* voucher names a reviewer, and he is never its claimant (review).
FourEyes ==
    \A c \in Filed :
       voucher[c].status \in {"APPROVED", "PAID"} =>
          voucher[c].reviewer \notin {NoReviewer, ClaimantOf[c]}

=============================================================================
