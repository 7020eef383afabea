-------------------------- MODULE Requests_proofs ----------------------------
(**************************************************************************)
(* The desks that decide on requests, and the field, whatever executions  *)
(* overlap: an approved leave keeps the engineer off, an approved voucher *)
(* was reviewed by somebody else, what the warehouse receives has been    *)
(* collected, the SLA clock runs exactly while it is not paused, and an   *)
(* engineer leaves out no step at a ticket.                               *)
(**************************************************************************)
EXTENDS Absences, Vouchers, FieldTickets, SlaClock, SoftStates, FiniteSetTheorems, TLAPS

-----------------------------------------------------------------------------
(* Leave and availability                                                 *)

\* The window of a leave request has been written.
Written(r) ==
    \E k \in DOMAIN window :
       window[k].se = r.se /\ window[k].status = r.type /\ window[k].span = r.span

\* What an execution that has decided about a request knows.
DecisionsBacked ==
    \A w \in Workers :
       /\ Running(w, "leave") => job[w].i \in DOMAIN leave
       /\ Running(w, "decideLeave") =>
             /\ job[w].i \in DOMAIN leave
             /\ job[w].status \in {"APPROVED", "REJECTED"}
             /\ job[w].status = "APPROVED" => Written(leave[job[w].i])

ApprovedWritten == \A i \in DOMAIN leave : leave[i].status = "APPROVED" => Written(leave[i])

AbsencesInv ==
    /\ leave \in Seq(LeaveRow)
    /\ window \in Seq(WindowRow)
    /\ job = [w \in Workers |-> job[w]]
    /\ DecisionsBacked
    /\ ApprovedWritten

LEMMA AbsencesInvInit == AbsencesInit /\ job = [w \in Workers |-> Idle] => AbsencesInv
  BY DEF AbsencesInit, AbsencesInv, DecisionsBacked, ApprovedWritten, Running, Idle

LEMMA WindowOf ==
    ASSUME AbsencesInv, NEW k \in DOMAIN window
    PROVE  window[k].span.from \in Nat
<1>1. window[k] \in WindowRow
  BY DEF AbsencesInv
<1>2. window[k].span.from \in Days
  BY <1>1 DEF WindowRow, Spans
<1> QED BY <1>2, AbsencesAssumption

\* The window of the leave decides, unless another of that day starts later.
LEMMA AbsencesInvImplies == AbsencesInv => OffOnApprovedLeave
<1> SUFFICES ASSUME AbsencesInv, NEW i \in DOMAIN leave, NEW d \in Days,
                    leave[i].status = "APPROVED", Covers(leave[i].span, d),
                    \A k \in WindowsOf(leave[i].se, d) :
                       ~(window[k].span.from > leave[i].span.from)
             PROVE  leave[i].type \in CurrentStatus(leave[i].se, d)
  BY DEF OffOnApprovedLeave
<1>1. PICK k \in DOMAIN window :
         /\ window[k].se = leave[i].se /\ window[k].status = leave[i].type
         /\ window[k].span = leave[i].span
  BY DEF AbsencesInv, ApprovedWritten, Written
<1>2. k \in WindowsOf(leave[i].se, d)
  BY <1>1 DEF WindowsOf
<1>3. \A j \in WindowsOf(leave[i].se, d) : window[j].span.from <= window[k].span.from
  <2>1. ASSUME NEW j \in WindowsOf(leave[i].se, d)
        PROVE  window[j].span.from <= window[k].span.from
    <3>1. j \in DOMAIN window /\ ~(window[j].span.from > window[k].span.from)
      BY <1>1, <2>1 DEF WindowsOf
    <3> QED BY <3>1, WindowOf
  <2> QED BY <2>1
<1>4. leave[i].type \in Statuses(leave[i].se, d)
  BY <1>1, <1>2, <1>3 DEF Statuses
<1> QED BY <1>2, <1>4 DEF CurrentStatus

\* The requests keep who asked for what, the windows stay.
LeavesGrown ==
    /\ leave' \in Seq(LeaveRow) /\ window' \in Seq(WindowRow)
    /\ DOMAIN leave \subseteq DOMAIN leave' /\ DOMAIN window \subseteq DOMAIN window'
    /\ \A i \in DOMAIN leave : /\ leave'[i].se = leave[i].se /\ leave'[i].type = leave[i].type
                               /\ leave'[i].span = leave[i].span
    /\ \A k \in DOMAIN window : window'[k] = window[k]

LEMMA WrittenStays ==
    ASSUME LeavesGrown, NEW i \in DOMAIN leave, Written(leave[i])
    PROVE  Written(leave[i])'
  BY DEF LeavesGrown, Written

\* A step that grows the tables keeps the invariant when the execution it runs knows what it
\* should and a request it approves is one whose window is written.
LEMMA LeavesGrownKeeps ==
    ASSUME AbsencesInv, NEW w \in Workers, LeavesGrown, job' = [job EXCEPT ![w] = job'[w]],
           \A i \in DOMAIN leave' : leave'[i].status = "APPROVED" =>
              i \in DOMAIN leave /\ Written(leave[i]),
           Running(w, "leave")' => (job[w].i \in DOMAIN leave)',
           Running(w, "decideLeave")' =>
              /\ job'[w].i \in DOMAIN leave'
              /\ job'[w].status \in {"APPROVED", "REJECTED"}
              /\ job'[w].status = "APPROVED" => Written(leave[job[w].i])'
    PROVE  AbsencesInv'
<1>1. ApprovedWritten'
  BY WrittenStays DEF ApprovedWritten
<1>2. ASSUME NEW v \in Workers, v # w
      PROVE  /\ Running(v, "leave")' => job'[v].i \in DOMAIN leave'
             /\ Running(v, "decideLeave")' =>
                   /\ job'[v].i \in DOMAIN leave'
                   /\ job'[v].status \in {"APPROVED", "REJECTED"}
                   /\ job'[v].status = "APPROVED" => Written(leave[job[v].i])'
  <2>1. job'[v] = job[v]
    BY <1>2 DEF AbsencesInv
  <2>2. /\ Running(v, "leave") => job[v].i \in DOMAIN leave
        /\ Running(v, "decideLeave") =>
              /\ job[v].i \in DOMAIN leave
              /\ job[v].status \in {"APPROVED", "REJECTED"}
              /\ job[v].status = "APPROVED" => Written(leave[job[v].i])
    BY DEF AbsencesInv, DecisionsBacked
  <2>3. /\ Running(v, "leave")' = Running(v, "leave")
        /\ Running(v, "decideLeave")' = Running(v, "decideLeave")
    BY <2>1 DEF Running
  <2>4. ASSUME Running(v, "decideLeave"), job[v].status = "APPROVED"
        PROVE  Written(leave[job[v].i])'
    <3>1. job[v].i \in DOMAIN leave /\ Written(leave[job[v].i])
      BY <2>2, <2>4
    <3> QED BY <2>1, <3>1 DEF LeavesGrown, Written
  <2> QED BY <2>1, <2>2, <2>3, <2>4 DEF LeavesGrown
<1>3. DecisionsBacked'
  BY <1>2 DEF DecisionsBacked
<1> QED BY <1>1, <1>3 DEF AbsencesInv, LeavesGrown

LEMMA Jobs == AbsencesInv => DOMAIN job = Workers
  BY DEF AbsencesInv

LEMMA Unwritten ==
    ASSUME AbsencesInv, UNCHANGED <<leave, window>>
    PROVE  LeavesGrown /\ \A i \in DOMAIN leave' : leave'[i].status = "APPROVED" =>
                       i \in DOMAIN leave /\ Written(leave[i])
  BY DEF AbsencesInv, LeavesGrown, ApprovedWritten

LEMMA AbsencesReadsKeep ==
    ASSUME AbsencesInv, NEW w \in Workers,
           \/ \E i \in DOMAIN leave : ApproveLeaveRead(w, i) \/ RejectLeaveRead(w, i)
           \/ Abandon(w) /\ UNCHANGED absences
    PROVE  AbsencesInv'
<1> USE DEF Running, absences
<1>0. DOMAIN job = Workers
  BY Jobs
<1>1. ASSUME NEW i \in DOMAIN leave, ApproveLeaveRead(w, i) PROVE AbsencesInv'
  BY <1>0, <1>1, Unwritten, LeavesGrownKeeps DEF ApproveLeaveRead, Begin
<1>2. ASSUME NEW i \in DOMAIN leave, RejectLeaveRead(w, i) PROVE AbsencesInv'
  BY <1>0, <1>2, Unwritten, LeavesGrownKeeps DEF RejectLeaveRead, Begin
<1>3. CASE Abandon(w) /\ UNCHANGED absences
  BY <1>0, <1>3, Unwritten, LeavesGrownKeeps DEF Abandon, Finish, Idle
<1> QED BY <1>1, <1>2, <1>3

LEMMA SetAvailabilityKeeps ==
    ASSUME AbsencesInv, NEW w \in Workers, NEW e \in Staff, NEW status \in WindowStatus,
           NEW span \in Spans, SetAvailability(w, e, status, span)
    PROVE  AbsencesInv'
<1> DEFINE r == [se |-> e, status |-> status, span |-> span]
<1>1. r \in WindowRow
  BY DEF WindowRow
<1>2. window' = Append(window, r) /\ leave' = leave /\ job' = job /\ job[w].op = "idle"
  BY DEF SetAvailability, Idle
<1> HIDE DEF r
<1>3. LeavesGrown /\ \A i \in DOMAIN leave' : leave'[i].status = "APPROVED" =>
                  i \in DOMAIN leave /\ Written(leave[i])
  BY <1>1, <1>2 DEF AbsencesInv, LeavesGrown, ApprovedWritten
<1>4. job' = [job EXCEPT ![w] = job'[w]] /\ job'[w].op = "idle"
  BY <1>2 DEF AbsencesInv
<1>5. /\ ~Running(w, "leave")' /\ ~Running(w, "decideLeave")'
  BY <1>4 DEF Running
<1> QED BY <1>3, <1>4, <1>5, LeavesGrownKeeps

LEMMA SubmitKeeps ==
    ASSUME AbsencesInv, NEW w \in Workers, NEW e \in Staff, NEW type \in LeaveType,
           NEW span \in Spans, SubmitLeave(w, e, type, span)
    PROVE  AbsencesInv'
<1> DEFINE r == [se |-> e, type |-> type, span |-> span, status |-> "PENDING"]
<1>1. r \in LeaveRow /\ r.status = "PENDING"
  BY DEF LeaveRow
<1>2. leave' = Append(leave, r) /\ window' = window /\ job' = job /\ job[w].op = "idle"
  BY DEF SubmitLeave, Idle
<1> HIDE DEF r
<1>3. LeavesGrown /\ \A i \in DOMAIN leave' : leave'[i].status = "APPROVED" =>
                  i \in DOMAIN leave /\ Written(leave[i])
  BY <1>1, <1>2 DEF AbsencesInv, LeavesGrown, ApprovedWritten
<1>4. job' = [job EXCEPT ![w] = job'[w]] /\ job'[w].op = "idle"
  BY <1>2 DEF AbsencesInv
<1>5. /\ ~Running(w, "leave")' /\ ~Running(w, "decideLeave")'
  BY <1>4 DEF Running
<1> QED BY <1>3, <1>4, <1>5, LeavesGrownKeeps

LEMMA LeaveOf ==
    ASSUME AbsencesInv, NEW i \in DOMAIN leave
    PROVE  leave[i] \in LeaveRow
  BY DEF AbsencesInv

LEMMA WriteKeeps ==
    ASSUME AbsencesInv, NEW w \in Workers, WriteWindow(w)
    PROVE  AbsencesInv'
<1> DEFINE i == job[w].i
           r == [se |-> leave[i].se, status |-> leave[i].type, span |-> leave[i].span]
<1>1. DOMAIN job = Workers /\ i \in DOMAIN leave
  BY Jobs DEF WriteWindow, AbsencesInv, DecisionsBacked
<1>2. r \in WindowRow
  BY <1>1, LeaveOf DEF LeaveRow, WindowRow, WindowStatus
<1>3. window' = Append(window, r) /\ leave' = leave
  BY DEF WriteWindow
<1>4. job' = [job EXCEPT ![w] = job'[w]] /\ job'[w].op = "decideLeave" /\ job'[w].i = i
      /\ job'[w].status = "APPROVED"
  BY <1>1 DEF WriteWindow, Proceed
<1>5. r.se = leave[i].se /\ r.status = leave[i].type /\ r.span = leave[i].span
  OBVIOUS
<1> HIDE DEF r
<1>6. LeavesGrown /\ \A k \in DOMAIN leave' : leave'[k].status = "APPROVED" =>
                  k \in DOMAIN leave /\ Written(leave[k])
  BY <1>2, <1>3 DEF AbsencesInv, LeavesGrown, ApprovedWritten
<1>7. Len(window) + 1 \in DOMAIN window' /\ window'[Len(window) + 1] = r
  BY <1>2, <1>3 DEF AbsencesInv
<1>8. Written(leave[job[w].i])'
  BY <1>3, <1>4, <1>5, <1>7 DEF Written
<1> QED BY <1>1, <1>3, <1>4, <1>6, <1>8, LeavesGrownKeeps DEF Running

LEMMA DecideLeaveKeeps ==
    ASSUME AbsencesInv, NEW w \in Workers, DecideLeave(w)
    PROVE  AbsencesInv'
<1> DEFINE i == job[w].i
           r == [leave[i] EXCEPT !.status = job[w].status]
<1>1. /\ DOMAIN job = Workers /\ i \in DOMAIN leave
      /\ job[w].status \in {"APPROVED", "REJECTED"}
      /\ job[w].status = "APPROVED" => Written(leave[i])
  BY Jobs DEF DecideLeave, AbsencesInv, DecisionsBacked
<1>2. /\ r \in LeaveRow /\ r.status = job[w].status
      /\ r.se = leave[i].se /\ r.type = leave[i].type /\ r.span = leave[i].span
  BY <1>1, LeaveOf DEF LeaveRow
<1>3. leave' = [leave EXCEPT ![i] = r] /\ window' = window
  BY DEF DecideLeave
<1>4. job' = [job EXCEPT ![w] = job'[w]] /\ job'[w].op = "idle"
  BY <1>1 DEF DecideLeave, Finish, Idle
<1> HIDE DEF r
<1>5. /\ leave' \in Seq(LeaveRow) /\ DOMAIN leave' = DOMAIN leave
      /\ \A k \in DOMAIN leave : leave'[k] = IF k = i THEN r ELSE leave[k]
  BY <1>1, <1>2, <1>3 DEF AbsencesInv
<1>6. LeavesGrown
  BY <1>2, <1>3, <1>5 DEF LeavesGrown, AbsencesInv
<1>7. \A k \in DOMAIN leave' : leave'[k].status = "APPROVED" =>
         k \in DOMAIN leave /\ Written(leave[k])
  BY <1>1, <1>2, <1>5 DEF AbsencesInv, ApprovedWritten
<1> QED BY <1>4, <1>6, <1>7, LeavesGrownKeeps DEF Running

AbsencesNext == (\E w \in Workers : AbsencesStep(w)) \/ AbsencesEnvironment

LEMMA AbsencesInvNext ==
    ASSUME AbsencesInv, [AbsencesNext]_absencesVars
    PROVE  AbsencesInv'
<1>1. ASSUME NEW w \in Workers, AbsencesStep(w)
      PROVE  AbsencesInv'
  BY <1>1, AbsencesReadsKeep, SetAvailabilityKeeps, SubmitKeeps, WriteKeeps, DecideLeaveKeeps
     DEF AbsencesStep
<1>2. CASE UNCHANGED <<leave, window, job>>
  BY <1>2 DEF AbsencesInv, DecisionsBacked, ApprovedWritten, Written, Running
<1> QED BY <1>1, <1>2 DEF AbsencesNext, AbsencesEnvironment, NextDay, absencesVars, absences

\* On the days of an approved leave the engineer is not offered work unless a window that
\* starts later says so, for any number of engineers, days, requests and overlapping executions.
THEOREM OffOnApprovedLeaveHolds == AbsencesSpec => []OffOnApprovedLeave
<1>1. AbsencesSpec => AbsencesInv /\ [][AbsencesNext]_absencesVars
  BY AbsencesInvInit DEF AbsencesSpec, AbsencesNext
<1>2. AbsencesInv /\ [AbsencesNext]_absencesVars => AbsencesInv'
  BY AbsencesInvNext
<1> QED BY <1>1, <1>2, AbsencesInvImplies, PTL

-----------------------------------------------------------------------------
(* Vouchers                                                               *)

\* Somebody else than the claimant.
Other(c, u) == u \notin {NoReviewer, ClaimantOf[c]}

Vouched(c, r) == r.status \in {"APPROVED", "PAID"} => Other(c, r.reviewer)

\* What a handler has decided to write: a review by somebody else, or a resubmission.
IsReview(c, data) ==
    \E next \in Reviewed, u \in Reviewers :
       u # ClaimantOf[c] /\ data = [status |-> next, reviewer |-> u]
IsResubmission(data) ==
    \E m \in 0..MaxMonth : data = [status |-> "ZONAL_MANAGER_REVIEW", submitted |-> m]

\* A voucher that has once been reviewed keeps naming somebody else.
Seen(c) == c \in Filed /\ Other(c, voucher[c].reviewer)

\* What an execution will write is a new claim, a review by somebody else, a resubmission, or
\* the payment of a voucher that was approved when it was read.
Fits(j) ==
    /\ j.op = "claim" => j.c \in Claims
    /\ j.op = "voucher" => IsReview(j.c, j.data) \/ IsResubmission(j.data)
    /\ j.op = "paying" => Seen(j.c)

AllVouched == \A c \in Filed : Vouched(c, voucher[c])

FourEyesInv ==
    /\ VouchersTypeOK /\ AllVouched
    /\ DOMAIN job = Workers
    /\ \A w \in Workers : Fits(job[w])

\* What a step leaves of the vouchers.
StillSeen == \A c \in Filed : Seen(c) => Seen(c)'
Sound == VouchersTypeOK' /\ AllVouched' /\ StillSeen

VoucherColumns == {"status", "submitted", "reviewer", "exported"}

\* A row after the update: the columns of the data, and else its own.
LEMMA UpdatedRow ==
    ASSUME NEW c, NEW r \in VoucherRow, NEW data, IsReview(c, data) \/ IsResubmission(data)
    PROVE  /\ Updated(r, data) \in VoucherRow
           /\ Updated(r, data).status # "PAID"
           /\ Updated(r, data).status = "APPROVED" =>
                 Other(c, Updated(r, data).reviewer)
           /\ Other(c, r.reviewer) =>
                 Other(c, Updated(r, data).reviewer)
<1>1. ASSUME NEW next \in Reviewed, NEW u \in Reviewers, u # ClaimantOf[c],
             data = [status |-> next, reviewer |-> u]
      PROVE  Updated(r, data) = [r EXCEPT !.status = next, !.reviewer = u]
  <2>1. DOMAIN data = {"status", "reviewer"} /\ data["status"] = next /\ data["reviewer"] = u
    BY <1>1
  <2>2. DOMAIN r = VoucherColumns
    BY DEF VoucherRow, VoucherColumns
  <2> QED BY <2>1, <2>2 DEF Updated, VoucherColumns
<1>2. ASSUME NEW m \in 0..MaxMonth,
             data = [status |-> "ZONAL_MANAGER_REVIEW", submitted |-> m]
      PROVE  Updated(r, data) = [r EXCEPT !.status = "ZONAL_MANAGER_REVIEW", !.submitted = m]
  <2>1. /\ DOMAIN data = {"status", "submitted"}
        /\ data["status"] = "ZONAL_MANAGER_REVIEW" /\ data["submitted"] = m
    BY <1>2
  <2>2. DOMAIN r = VoucherColumns
    BY DEF VoucherRow, VoucherColumns
  <2> QED BY <2>1, <2>2 DEF Updated, VoucherColumns
<1>3. CASE IsReview(c, data)
  <2>1. PICK next \in Reviewed, u \in Reviewers :
           u # ClaimantOf[c] /\ data = [status |-> next, reviewer |-> u]
    BY <1>3 DEF IsReview
  <2>2. Updated(r, data) = [r EXCEPT !.status = next, !.reviewer = u]
    BY <1>1, <2>1
  <2> QED BY <2>1, <2>2, VouchersAssumption DEF VoucherRow, Reviewed, NoReviewer, Other
<1>4. CASE IsResubmission(data)
  <2>1. PICK m \in 0..MaxMonth : data = [status |-> "ZONAL_MANAGER_REVIEW", submitted |-> m]
    BY <1>4 DEF IsResubmission
  <2>2. Updated(r, data) = [r EXCEPT !.status = "ZONAL_MANAGER_REVIEW", !.submitted = m]
    BY <1>2, <2>1
  <2> QED BY <2>2 DEF VoucherRow, Reviewed, Other
<1> QED BY <1>3, <1>4


LEMMA FitsStays ==
    ASSUME StillSeen, NEW j, Fits(j)
    PROVE  Fits(j)'
  BY DEF Fits, IsReview, IsResubmission, StillSeen, Seen

\* An execution goes on with j, the vouchers being sound.
LEMMA FitsGoesOn ==
    ASSUME FourEyesInv, Sound, NEW w \in Workers, NEW j, Fits(j)', job' = [job EXCEPT ![w] = j]
    PROVE  FourEyesInv'
<1>1. DOMAIN job' = Workers /\ \A v \in Workers : job'[v] = j \/ job'[v] = job[v]
  BY DEF FourEyesInv
<1>2. ASSUME NEW v \in Workers PROVE Fits(job[v])'
  <2>1. PICK k : k = job[v]
    OBVIOUS
  <2>2. Fits(k)'
    BY <2>1, FitsStays DEF FourEyesInv, Sound
  <2>3. job'[v] = j \/ job'[v] = k
    BY <1>1, <2>1
  <2> QED BY <2>2, <2>3 DEF Fits, IsReview, IsResubmission
<1> QED BY <1>1, <1>2 DEF FourEyesInv, Sound

LEMMA FitsIdle == Fits(Idle)'
  BY DEF Fits, Idle

\* The vouchers stay.
LEMMA VouchersStay ==
    ASSUME FourEyesInv, UNCHANGED vouchers
    PROVE  Sound
  BY DEF FourEyesInv, VouchersTypeOK, AllVouched, Vouched, Other, Filed, vouchers, Sound,
         StillSeen, Seen

\* One row is written, as an approval by somebody else or no approval at all, and names
\* somebody else if it did before.
LEMMA RowWritten ==
    ASSUME FourEyesInv, NEW c, NEW r \in VoucherRow, Vouched(c, r), month' = month,
           Seen(c) => Other(c, r.reviewer), voucher' = [voucher EXCEPT ![c] = r]
    PROVE  Sound
<1>1. DOMAIN voucher' = DOMAIN voucher
      /\ \A d \in DOMAIN voucher : voucher'[d] = IF d = c THEN r ELSE voucher[d]
  OBVIOUS
<1>2. \A d \in DOMAIN voucher : voucher'[d] \in VoucherRow /\ Vouched(d, voucher'[d])
  BY <1>1 DEF FourEyesInv, VouchersTypeOK, AllVouched, Filed
<1>3. \A d \in DOMAIN voucher : Vouched(d, voucher[d])'
  BY <1>2 DEF Vouched, Other
<1>4. StillSeen
  BY <1>1 DEF StillSeen, Seen, Filed, Other
<1> QED BY <1>1, <1>2, <1>3, <1>4 DEF FourEyesInv, VouchersTypeOK, AllVouched, Filed, Sound

LEMMA ReadsKeepFourEyes ==
    ASSUME FourEyesInv, NEW w \in Workers,
           \/ \E c \in Claims : ClaimRead(w, c)
           \/ \E c \in Filed :
                 Resubmit(w, c) \/ \E u \in Reviewers, next \in Reviewed : Review(w, c, u, next)
           \/ \E cs \in SUBSET Filed : PaidRead(w, cs)
           \/ Abandon(w) /\ UNCHANGED vouchers
    PROVE  FourEyesInv'
<1>1. ASSUME NEW c \in Claims, ClaimRead(w, c) PROVE FourEyesInv'
  <2>1. PICK j : j = [op |-> "claim", c |-> c]
    OBVIOUS
  <2>2. Fits(j)'
    BY <2>1 DEF Fits
  <2> QED BY <1>1, <2>1, <2>2, VouchersStay, FitsGoesOn DEF ClaimRead, Begin
<1>2. ASSUME NEW c, NEW from, NEW data, VoucherRead(w, c, from, data),
             IsReview(c, data) \/ IsResubmission(data)
      PROVE  FourEyesInv'
  <2>1. PICK j : j = [op |-> "voucher", c |-> c, data |-> data]
    OBVIOUS
  <2>2. Fits(j)'
    BY <1>2, <2>1 DEF Fits, IsReview, IsResubmission
  <2> QED BY <1>2, <2>1, <2>2, VouchersStay, FitsGoesOn DEF VoucherRead, Begin
<1>3. ASSUME NEW c \in Filed, Resubmit(w, c) PROVE FourEyesInv'
  <2>1. IsResubmission([status |-> "ZONAL_MANAGER_REVIEW", submitted |-> month])
    BY DEF IsResubmission, FourEyesInv, VouchersTypeOK
  <2> QED BY <1>2, <1>3, <2>1 DEF Resubmit
<1>4. ASSUME NEW c \in Filed, NEW u \in Reviewers, NEW next \in Reviewed, Review(w, c, u, next)
      PROVE  FourEyesInv'
  <2>1. IsReview(c, [status |-> next, reviewer |-> u])
    BY <1>4 DEF IsReview, Review, MayReview
  <2> QED BY <1>2, <1>4, <2>1 DEF Review
<1>5. ASSUME NEW cs \in SUBSET Filed, PaidRead(w, cs) PROVE FourEyesInv'
  <2>1. PICK j : j = [op |-> "pay", todo |-> cs]
    OBVIOUS
  <2>2. Fits(j)'
    BY <2>1 DEF Fits
  <2> QED BY <1>5, <2>1, <2>2, VouchersStay, FitsGoesOn DEF PaidRead, Begin
<1>6. CASE Abandon(w) /\ UNCHANGED vouchers
  BY <1>6, VouchersStay, FitsIdle, FitsGoesOn DEF Abandon, Finish
<1> QED BY <1>1, <1>3, <1>4, <1>5, <1>6

LEMMA CreateKeepsFourEyes ==
    ASSUME FourEyesInv, NEW w \in Workers, CreateVoucher(w)
    PROVE  FourEyesInv'
<1>1. PICK c \in Claims : c = job[w].c /\ c \notin Filed
  BY DEF CreateVoucher, Running, FourEyesInv, Fits
<1>2. PICK r : r = [status |-> "ZONAL_MANAGER_REVIEW", submitted |-> month,
                    reviewer |-> NoReviewer, exported |-> FALSE]
  OBVIOUS
<1>3. r \in VoucherRow /\ r.status = "ZONAL_MANAGER_REVIEW"
  BY <1>2 DEF VoucherRow, FourEyesInv, VouchersTypeOK
<1>4. voucher' = [d \in Filed \cup {c} |-> IF d = c THEN r ELSE voucher[d]] /\ month' = month
  BY <1>1, <1>2 DEF CreateVoucher
<1>5. VouchersTypeOK'
  BY <1>3, <1>4 DEF FourEyesInv, VouchersTypeOK, Filed
<1>6. AllVouched'
  BY <1>3, <1>4 DEF FourEyesInv, AllVouched, Vouched, Filed, Other
<1>7. StillSeen
  BY <1>1, <1>4 DEF StillSeen, Seen, Filed, Other
<1> QED BY <1>5, <1>6, <1>7, FitsIdle, FitsGoesOn DEF CreateVoucher, Finish, Sound

\* A stale review or resubmission overwrites what has been decided since: with a review by
\* somebody else, or back to the queue.
LEMMA UpdateKeepsFourEyes ==
    ASSUME FourEyesInv, NEW w \in Workers, UpdateVoucher(w)
    PROVE  FourEyesInv'
<1>1. PICK c, data : /\ IsReview(c, data) \/ IsResubmission(data)
                     /\ voucher' = [voucher EXCEPT ![c] = Updated(voucher[c], data)]
  BY DEF UpdateVoucher, Running, FourEyesInv, Fits
<1>2. month' = month /\ job' = [job EXCEPT ![w] = Idle]
  BY DEF UpdateVoucher, Finish
<1>3. Sound
  <2>1. CASE c \in Filed
    <3>1. voucher[c] \in VoucherRow
      BY <2>1 DEF FourEyesInv, VouchersTypeOK, Filed
    <3>2. PICK r : r = Updated(voucher[c], data)
      OBVIOUS
    <3>3. /\ r \in VoucherRow /\ Vouched(c, r)
          /\ Other(c, voucher[c].reviewer) => Other(c, r.reviewer)
      BY <1>1, <3>1, <3>2, UpdatedRow DEF Vouched
    <3> QED BY <1>1, <1>2, <3>2, <3>3, RowWritten DEF Seen
  <2>2. CASE c \notin Filed
    <3>1. voucher' = [d \in DOMAIN voucher |-> voucher[d]]
      BY <1>1, <2>2 DEF Filed
    <3> QED BY <1>2, <3>1
            DEF FourEyesInv, VouchersTypeOK, AllVouched, Vouched, Other, Filed, Sound,
                StillSeen, Seen
  <2> QED BY <2>1, <2>2
<1> QED BY <1>2, <1>3, FitsIdle, FitsGoesOn

\* Going on with the payments, or being done.
LEMMA NextPaymentGoesOn ==
    ASSUME FourEyesInv, Sound, NEW w \in Workers, NEW c, NextPayment(w, c)
    PROVE  FourEyesInv'
<1>1. PICK todo : todo = job[w].todo \ {c}
  OBVIOUS
<1>2. CASE todo = {}
  BY <1>1, <1>2, FitsIdle, FitsGoesOn DEF NextPayment, Finish
<1>3. CASE todo # {}
  <2>1. PICK j : j = [op |-> "pay", todo |-> todo]
    OBVIOUS
  <2>2. Fits(j)'
    BY <2>1 DEF Fits
  <2>3. job' = [job EXCEPT ![w] = j]
    BY <1>1, <1>3, <2>1 DEF NextPayment, Proceed
  <2> QED BY <2>2, <2>3, FitsGoesOn
<1> QED BY <1>2, <1>3

LEMMA PaymentReadKeepsFourEyes ==
    ASSUME FourEyesInv, NEW w \in Workers, NEW c \in Filed, PaymentRead(w, c)
    PROVE  FourEyesInv'
<1>1. PICK j : j = [op |-> "paying", c |-> c, todo |-> job[w].todo]
  OBVIOUS
<1>2. job' = [job EXCEPT ![w] = j] /\ UNCHANGED vouchers /\ voucher[c].status = "APPROVED"
  BY <1>1 DEF PaymentRead, Proceed
<1>3. Seen(c)'
  BY <1>2 DEF Seen, FourEyesInv, AllVouched, Vouched, Other, Filed, vouchers
<1>4. Fits(j)'
  BY <1>1, <1>3 DEF Fits, Seen, Filed, Other
<1> QED BY <1>2, <1>4, VouchersStay, FitsGoesOn

\* The payment may find the voucher sent back or decided again: it names somebody else still.
LEMMA MarkPaidKeepsFourEyes ==
    ASSUME FourEyesInv, NEW w \in Workers, MarkPaid(w)
    PROVE  FourEyesInv'
<1>1. PICK c : c = job[w].c /\ Seen(c)
  BY DEF MarkPaid, Running, FourEyesInv, Fits
<1>2. PICK r : r = [voucher[c] EXCEPT !.status = "PAID"]
  OBVIOUS
<1>3. voucher[c] \in VoucherRow
  BY <1>1 DEF FourEyesInv, VouchersTypeOK, Filed, Seen
<1>4. r \in VoucherRow /\ r.reviewer = voucher[c].reviewer
  BY <1>2, <1>3 DEF VoucherRow
<1>5. Vouched(c, r) /\ Other(c, r.reviewer)
  BY <1>1, <1>4 DEF Vouched, Seen
<1>6. voucher' = [voucher EXCEPT ![c] = r] /\ month' = month /\ NextPayment(w, c)
  BY <1>1, <1>2 DEF MarkPaid
<1> QED BY <1>4, <1>5, <1>6, RowWritten, NextPaymentGoesOn

LEMMA ExportKeepsFourEyes ==
    ASSUME FourEyesInv, NEW w \in Workers, NEW m, ExportApproved(w, m)
    PROVE  FourEyesInv'
<1>1. Filed' = Filed /\ UNCHANGED <<month, job>> /\ job[w] = Idle
  BY DEF ExportApproved, Filed
<1>2. ASSUME NEW c \in Filed
      PROVE  /\ voucher'[c] \in VoucherRow
             /\ voucher'[c].status = voucher[c].status
             /\ voucher'[c].reviewer = voucher[c].reviewer
  <2>1. voucher[c] \in VoucherRow
    BY DEF FourEyesInv, VouchersTypeOK, Filed
  <2>2. voucher'[c] = voucher[c] \/ voucher'[c] = [voucher[c] EXCEPT !.exported = TRUE]
    BY DEF ExportApproved
  <2> QED BY <2>1, <2>2 DEF VoucherRow
<1>3. VouchersTypeOK' /\ AllVouched'
  BY <1>1, <1>2 DEF FourEyesInv, VouchersTypeOK, AllVouched, Vouched, Other, Filed
<1>4. StillSeen
  BY <1>1, <1>2 DEF StillSeen, Seen, Other, Filed
<1>5. \A v \in Workers : Fits(job[v])'
  <2> TAKE v \in Workers
  <2>1. PICK k : k = job[v]
    OBVIOUS
  <2>2. Fits(k)'
    BY <1>4, <2>1, FitsStays DEF FourEyesInv
  <2> QED BY <1>1, <2>1, <2>2 DEF Fits, IsReview, IsResubmission
<1> QED BY <1>1, <1>3, <1>5 DEF FourEyesInv

VouchersNext == (\E w \in Workers : VouchersStep(w)) \/ VouchersEnvironment

LEMMA FourEyesNext == FourEyesInv /\ [VouchersNext]_vouchersVars => FourEyesInv'
<1> SUFFICES ASSUME FourEyesInv, [VouchersNext]_vouchersVars PROVE FourEyesInv'
  OBVIOUS
<1>1. ASSUME NEW w \in Workers, VouchersStep(w) PROVE FourEyesInv'
  <2>1. ASSUME NEW c \in Filed, SkipPayment(w, c) PROVE FourEyesInv'
    BY <2>1, VouchersStay, NextPaymentGoesOn DEF SkipPayment
  <2> QED BY <1>1, <2>1, ReadsKeepFourEyes, CreateKeepsFourEyes, UpdateKeepsFourEyes,
             PaymentReadKeepsFourEyes, MarkPaidKeepsFourEyes, ExportKeepsFourEyes
          DEF VouchersStep
<1>2. CASE NextMonth
  <2>1. month' \in 0..MaxMonth
    BY <1>2, VouchersAssumption DEF NextMonth, FourEyesInv, VouchersTypeOK
  <2> QED BY <1>2, <2>1
          DEF NextMonth, FourEyesInv, VouchersTypeOK, AllVouched, Vouched, Other, Filed, Seen,
              Fits, IsReview, IsResubmission
<1>3. CASE UNCHANGED vouchersVars
  BY <1>3 DEF vouchersVars, vouchers, FourEyesInv, VouchersTypeOK, AllVouched, Vouched, Other,
              Filed, Seen, Fits, IsReview, IsResubmission
<1> QED BY <1>1, <1>2, <1>3 DEF VouchersNext, VouchersEnvironment

\* Whatever reviews, resubmissions and payments overlap, a voucher is approved or paid only with
\* somebody else than its claimant on record as the reviewer, for any number of claims,
\* reviewers and months (review, resubmit, markPaid).
THEOREM FourEyesHolds == VouchersSpec => []FourEyes
<1>1. VouchersInit /\ job = [w \in Workers |-> Idle] => FourEyesInv
  BY VouchersAssumption
     DEF VouchersInit, FourEyesInv, VouchersTypeOK, AllVouched, Filed, Fits, Idle
<1>2. VouchersSpec => FourEyesInv /\ [][VouchersNext]_vouchersVars
  BY <1>1 DEF VouchersSpec, VouchersNext
<1>3. FourEyesInv => FourEyes
  BY DEF FourEyesInv, FourEyes, AllVouched, Vouched, Other
<1> QED BY <1>2, <1>3, FourEyesNext, PTL

-----------------------------------------------------------------------------
(* Recovery and install tickets                                           *)

RecoveryColumns == {"status", "se", "serial", "unable", "closure"}

Received == "AUTO_CLOSED_ON_WAREHOUSE_RECEIPT"

\* The columns a handler has decided to write: none of them takes a recorded serial back, and
\* a collection or a receipt is decided only with a serial.
Harmless(t, data) ==
    /\ "serial" \in DOMAIN data => data["serial"]
    /\ "status" \in DOMAIN data /\ data["status"] = "COLLECTED" =>
          recovery[t]["serial"] \/ "serial" \in DOMAIN data
    /\ "closure" \in DOMAIN data /\ data["closure"] = Received => recovery[t]["serial"]

SerialKept ==
    \A t \in RecoveryTickets :
       /\ DOMAIN recovery[t] = RecoveryColumns
       /\ recovery[t]["status"] = "COLLECTED" => recovery[t]["serial"]
       /\ recovery[t]["closure"] = Received => recovery[t]["serial"]

JobsHarmless ==
    \A w \in Workers : Running(w, "recovery") =>
       job[w].t \in RecoveryTickets /\ Harmless(job[w].t, job[w].data)

FieldInv ==
    /\ DOMAIN recovery = RecoveryTickets
    /\ DOMAIN job = Workers
    /\ SerialKept
    /\ JobsHarmless

LEMMA FieldInitInv == FieldInit /\ job = [w \in Workers |-> Idle] => FieldInv
  BY DEF FieldInit, FieldInv, SerialKept, JobsHarmless, Running, Idle, RecoveryColumns, Received

\* An execution that has decided something harmless, or nothing about a recovery.
LEMMA NewJob ==
    ASSUME FieldInv, NEW w \in Workers, NEW j, job' = [job EXCEPT ![w] = j],
           UNCHANGED recovery,
           j.op = "recovery" => j.t \in RecoveryTickets /\ Harmless(j.t, j.data)
    PROVE  FieldInv'
<1>1. ASSUME NEW v \in Workers, Running(v, "recovery")'
      PROVE  job'[v].t \in RecoveryTickets /\ Harmless(job'[v].t, job'[v].data)
  BY <1>1 DEF FieldInv, JobsHarmless, Running
<1>2. JobsHarmless'
  BY <1>1 DEF JobsHarmless, Harmless
<1> QED BY <1>2 DEF FieldInv, SerialKept

LEMMA Decided ==
    ASSUME FieldInv, NEW w \in Workers, NEW t \in RecoveryTickets, NEW data,
           DecideRecovery(w, t, data), Harmless(t, data)
    PROVE  FieldInv'
<1>1. PICK j : j = [op |-> "recovery", t |-> t, data |-> data]
  OBVIOUS
<1>2. job' = [job EXCEPT ![w] = j] /\ UNCHANGED recovery
  BY <1>1 DEF DecideRecovery, Begin, field
<1> QED BY <1>1, <1>2, NewJob

\* Every decision about a recovery ticket is harmless.
LEMMA FieldReadKeeps ==
    ASSUME FieldInv, NEW w \in Workers, RecoveryRead(w)
    PROVE  FieldInv'
<1> PICK t \in RecoveryTickets :
       \/ \E e \in FieldEngineers :
             ScheduleRecovery(w, t, e) \/ MarkOnSite(w, t, e) \/ MarkCollected(w, t, e)
             \/ MarkUnableToCollect(w, t, e) \/ RescheduleRecovery(w, t, e)
       \/ ConfirmWarehouseReceipt(w, t) \/ CloseFailedRecovery(w, t) \/ EscalateToOh(w, t)
       \/ \E role \in Managers : ManualClose(w, t, role)
  BY DEF RecoveryRead
<1> USE DEF Harmless, Received
<1>1. ASSUME NEW e \in FieldEngineers, ScheduleRecovery(w, t, e) PROVE FieldInv'
  BY <1>1, Decided DEF ScheduleRecovery
<1>2. ASSUME NEW e \in FieldEngineers, MarkOnSite(w, t, e) PROVE FieldInv'
  BY <1>2, Decided DEF MarkOnSite
<1>3. ASSUME NEW e \in FieldEngineers, MarkCollected(w, t, e) PROVE FieldInv'
  BY <1>3, Decided DEF MarkCollected
<1>4. ASSUME NEW e \in FieldEngineers, MarkUnableToCollect(w, t, e) PROVE FieldInv'
  BY <1>4, Decided DEF MarkUnableToCollect
<1>5. ASSUME NEW e \in FieldEngineers, RescheduleRecovery(w, t, e) PROVE FieldInv'
  BY <1>5, Decided DEF RescheduleRecovery
<1>6. ASSUME ConfirmWarehouseReceipt(w, t) PROVE FieldInv'
  BY <1>6, Decided DEF ConfirmWarehouseReceipt, AwaitingReceipt, FieldInv, SerialKept
<1>7. ASSUME CloseFailedRecovery(w, t) PROVE FieldInv'
  BY <1>7, Decided DEF CloseFailedRecovery
<1>8. ASSUME EscalateToOh(w, t) PROVE FieldInv'
  BY <1>8, Decided DEF EscalateToOh, FieldInv, SerialKept
<1>9. ASSUME NEW role \in Managers, ManualClose(w, t, role) PROVE FieldInv'
  BY <1>9, Decided DEF ManualClose, ManualClosureType, Managers
<1> QED BY <1>1, <1>2, <1>3, <1>4, <1>5, <1>6, <1>7, <1>8, <1>9

\* A stale update writes what was harmless when it was decided, and a serial is never lost since.
LEMMA TransitionKeeps ==
    ASSUME FieldInv, NEW w \in Workers, RecoveryTransition(w)
    PROVE  FieldInv'
<1> DEFINE t == job[w].t
           data == job[w].data
<1>1. t \in RecoveryTickets /\ Harmless(t, data)
  BY DEF RecoveryTransition, FieldInv, JobsHarmless
<1>2. recovery' = [recovery EXCEPT ![t] = Updated(recovery[t], data)]
      /\ job' = [job EXCEPT ![w] = Idle]
  BY DEF RecoveryTransition, Finish
<1>3. DOMAIN recovery[t] = RecoveryColumns
  BY <1>1 DEF FieldInv, SerialKept
<1>4. DOMAIN recovery'[t] = RecoveryColumns
      /\ \A c \in RecoveryColumns :
            recovery'[t][c] = IF c \in DOMAIN data THEN data[c] ELSE recovery[t][c]
  BY <1>1, <1>2, <1>3 DEF Updated, FieldInv
<1>5. \A u \in RecoveryTickets : u # t => recovery'[u] = recovery[u]
  BY <1>2 DEF FieldInv
<1>6. \A u \in RecoveryTickets : recovery[u]["serial"] => recovery'[u]["serial"]
  BY <1>1, <1>4, <1>5 DEF Harmless, RecoveryColumns
<1>7. SerialKept'
  <2>1. ASSUME NEW u \in RecoveryTickets, u # t
        PROVE  /\ DOMAIN recovery'[u] = RecoveryColumns
               /\ recovery'[u]["status"] = "COLLECTED" => recovery'[u]["serial"]
               /\ recovery'[u]["closure"] = Received => recovery'[u]["serial"]
    BY <1>5, <2>1 DEF FieldInv, SerialKept
  <2>2. /\ recovery'[t]["status"] = "COLLECTED" => recovery'[t]["serial"]
        /\ recovery'[t]["closure"] = Received => recovery'[t]["serial"]
    BY <1>1, <1>4 DEF Harmless, RecoveryColumns, FieldInv, SerialKept
  <2> QED BY <1>4, <2>1, <2>2 DEF SerialKept
<1>8. ASSUME NEW v \in Workers, Running(v, "recovery")'
      PROVE  (job[v].t \in RecoveryTickets /\ Harmless(job[v].t, job[v].data))'
  <2>1. v # w /\ job'[v] = job[v] /\ Running(v, "recovery")
    BY <1>2, <1>8 DEF FieldInv, Running, Idle
  <2>2. job[v].t \in RecoveryTickets /\ Harmless(job[v].t, job[v].data)
    BY <2>1 DEF FieldInv, JobsHarmless
  <2> QED BY <1>6, <2>1, <2>2 DEF Harmless
<1> QED BY <1>2, <1>7, <1>8 DEF FieldInv, JobsHarmless

\* Nothing else touches the recovery tickets.
LEMMA FieldOthersKeep ==
    ASSUME FieldInv, NEW w \in Workers,
           InstallRead(w) \/ CreateInstalls(w) \/ InstallTransition(w) \/ VerifyRead(w)
           \/ InstallVerify(w) \/ (Abandon(w) /\ UNCHANGED field)
    PROVE  FieldInv'
<1>0. DOMAIN job = Workers
  BY DEF FieldInv
<1>1. ASSUME job' = [job EXCEPT ![w] = job'[w]], UNCHANGED recovery, job'[w].op # "recovery"
      PROVE  FieldInv'
  BY <1>1, NewJob
<1>2. CASE InstallRead(w)
  <2>1. ASSUME NEW i, NEW data, DecideInstall(w, i, data) PROVE FieldInv'
    BY <1>0, <1>1, <2>1 DEF DecideInstall, Begin, field
  <2>2. ASSUME NEW rows, CreateRead(w, rows) PROVE FieldInv'
    BY <1>0, <1>1, <2>2 DEF CreateRead, Begin, field
  <2> QED BY <1>2, <2>1, <2>2
          DEF InstallRead, ScheduleInstall, InstallOnSite, MarkFitted
<1>3. CASE CreateInstalls(w) \/ InstallTransition(w) \/ (Abandon(w) /\ UNCHANGED field)
  <2>1. Finish(w) /\ UNCHANGED recovery
    BY <1>3 DEF CreateInstalls, InstallTransition, Abandon, field
  <2> QED BY <1>0, <1>1, <2>1 DEF Finish, Idle
<1>4. CASE VerifyRead(w)
  BY <1>0, <1>1, <1>4 DEF VerifyRead, Begin, field
<1>5. CASE InstallVerify(w)
  <2>1. PICK i \in DOMAIN install : SweepOn(w, i)
    BY <1>5 DEF InstallVerify, CloseInstall, FailActivation, StillPending
  <2>2. CASE Finish(w)
    BY <1>0, <1>1, <2>1, <2>2 DEF SweepOn, Finish, Idle
  <2>3. CASE Proceed(w, [job[w] EXCEPT !.todo = @ \ {i}])
    BY <1>0, <1>1, <2>1, <2>3 DEF SweepOn, Proceed, Running
  <2> QED BY <2>1, <2>2, <2>3 DEF SweepOn
<1> QED BY <1>2, <1>3, <1>4, <1>5

FieldNext == (\E w \in Workers : FieldStep(w)) \/ FieldEnvironment

LEMMA FieldInvNext == FieldInv /\ [FieldNext]_fieldVars => FieldInv'
<1> SUFFICES ASSUME FieldInv, [FieldNext]_fieldVars PROVE FieldInv'
  OBVIOUS
<1>1. ASSUME NEW w \in Workers, FieldStep(w) PROVE FieldInv'
  <2>1. CASE RecoveryRead(w)
    BY <2>1, FieldReadKeeps
  <2>2. CASE RecoveryTransition(w)
    BY <2>2, TransitionKeeps
  <2>3. CASE InstallRead(w) \/ CreateInstalls(w) \/ InstallTransition(w) \/ VerifyRead(w)
             \/ InstallVerify(w) \/ (Abandon(w) /\ UNCHANGED field)
    BY <2>3, FieldOthersKeep
  <2> QED BY <1>1, <2>1, <2>2, <2>3 DEF FieldStep
<1>2. ASSUME UNCHANGED <<recovery, job>> PROVE FieldInv'
  BY <1>2 DEF FieldInv, SerialKept, JobsHarmless, Harmless, Running
<1>3. CASE FieldEnvironment
  BY <1>2, <1>3 DEF FieldEnvironment, FirstPing, WindowElapses
<1>4. CASE UNCHANGED fieldVars
  BY <1>2, <1>4 DEF fieldVars, field
<1> QED BY <1>1, <1>3, <1>4 DEF FieldNext

\* A ticket that the warehouse has received carries the serial of a collected device, for any
\* number of tickets, engineers and overlapping executions.
THEOREM ReceivedWasCollectedHolds == FieldSpec => []ReceivedWasCollected
<1>1. FieldInv => ReceivedWasCollected
  BY DEF FieldInv, SerialKept, ReceivedWasCollected, Received
<1>2. FieldSpec => FieldInv /\ [][FieldNext]_fieldVars
  BY FieldInitInv DEF FieldSpec, FieldNext
<1> QED BY <1>1, <1>2, FieldInvNext, PTL

-----------------------------------------------------------------------------
(* The SLA clock                                                          *)

Clock == [state : {"OPEN", "WAITING_COMPONENT", "SUBMITTED"}, paused : BOOLEAN,
          at : Nat, accumulated : Nat]

\* The pauses, with the one that is running, fit into the time there has been.
ClockInv ==
    /\ now \in Nat
    /\ cycle \in Clock
    /\ cycle.at <= now
    /\ cycle.accumulated + CurrentPause(cycle) <= now

Charged(c, n) == n - (c.accumulated + (IF c.paused THEN n - c.at ELSE 0))

SameClock == cycle'.paused = cycle.paused /\ cycle'.at = cycle.at
             /\ cycle'.accumulated = cycle.accumulated
Restarted == cycle.paused /\ ~cycle'.paused /\ cycle'.at = 0
             /\ cycle'.accumulated = cycle.accumulated + (now - cycle.at)
Stopped == cycle'.paused /\ cycle'.at = now /\ cycle'.accumulated = cycle.accumulated

\* What a statement of some desk may do to the clock of the cycle.
Touched == cycle' \in Clock /\ (SameClock \/ Restarted \/ Stopped)

\* The clock that is shown is the time there has been less the pauses.
LEMMA ClockIsCharged ==
    ASSUME ClockInv
    PROVE  PrimaryClock = Charged(cycle, now)
  BY DEF ClockInv, PrimaryClock, Charged, CurrentPause, Clock

\* Pausing, resuming and moving the cycle keep the invariant and charge nothing less.
LEMMA TouchedKeeps ==
    ASSUME ClockInv, now' = now, Touched
    PROVE  ClockInv' /\ Charged(cycle', now') >= Charged(cycle, now)
<1>1. now \in Nat /\ cycle.at \in Nat /\ cycle.accumulated \in Nat /\ cycle.paused \in BOOLEAN
      /\ cycle.at <= now
      /\ cycle.accumulated + (IF cycle.paused THEN now - cycle.at ELSE 0) <= now
  BY DEF ClockInv, CurrentPause, Clock
<1>2. cycle' \in Clock /\ cycle'.at \in Nat /\ cycle'.accumulated \in Nat
      /\ cycle'.paused \in BOOLEAN
  BY DEF Touched, Clock
<1>3. CASE SameClock
  BY <1>1, <1>2, <1>3 DEF SameClock, ClockInv, CurrentPause, Charged
<1>4. CASE Restarted
  BY <1>1, <1>2, <1>4 DEF Restarted, ClockInv, CurrentPause, Charged
<1>5. CASE Stopped
  BY <1>1, <1>2, <1>5 DEF Stopped, ClockInv, CurrentPause, Charged
<1> QED BY <1>3, <1>4, <1>5 DEF Touched

\* Every statement but the passing of time touches the clock in one of these ways.
LEMMA StepTouches ==
    ASSUME ClockInv, NEW w \in Workers, SlaStep(w)
    PROVE  now' = now /\ Touched
<1> USE DEF Touched, SameClock, Clock
<1>0. now \in Nat /\ cycle \in Clock /\ cycle.at <= now
  BY DEF ClockInv
<1>1. ASSUME cycle' = Resumed(cycle) \/ cycle' = [Resumed(cycle) EXCEPT !.state = "OPEN"]
      PROVE  Touched
  <2>1. CASE cycle.paused
    <3> DEFINE counted == cycle.accumulated + (now - cycle.at)
    <3>1. counted \in Nat
      BY <1>0
    <3>2. Resumed(cycle) = [state |-> cycle.state, paused |-> FALSE, at |-> 0,
                            accumulated |-> counted]
      BY <1>0, <2>1 DEF Resumed, CurrentPause
    <3>3. cycle' \in Clock
      <4> HIDE DEF counted
      <4>1. Resumed(cycle) \in Clock
        BY <1>0, <3>1, <3>2
      <4> QED BY <1>1, <4>1
    <3>4. Restarted
      BY <1>0, <1>1, <2>1, <3>2 DEF Restarted
    <3> QED BY <3>3, <3>4
  <2>2. CASE ~cycle.paused
    BY <1>0, <1>1, <2>2 DEF Resumed
  <2> QED BY <2>1, <2>2
<1>2. ASSUME cycle' = Paused(cycle)
             \/ cycle' = [Paused(cycle) EXCEPT !.state = "WAITING_COMPONENT"]
      PROVE  Touched
  BY <1>0, <1>2 DEF Paused, Stopped
<1>3. ASSUME cycle' = cycle
      PROVE  Touched
  BY <1>0, <1>3
<1>4. CASE ComponentUnavailable(w)
  BY <1>2, <1>4 DEF ComponentUnavailable
<1>5. CASE NormalSubmission(w)
  BY <1>0, <1>5 DEF NormalSubmission
<1>6. CASE ConfirmReceipt(w)
  BY <1>1, <1>3, <1>6 DEF ConfirmReceipt
<1>7. CASE ConfirmResubmit(w)
  BY <1>1, <1>7 DEF ConfirmResubmit
<1>8. CASE FileReport(w)
  BY <1>2, <1>3, <1>8 DEF FileReport
<1>9. CASE \E r \in DOMAIN reports : ResumeReport(w, r)
  BY <1>1, <1>9 DEF ResumeReport
<1>10. CASE UNCHANGED <<now, cycle>>
  BY <1>3, <1>10
<1>11. ASSUME NEW r \in DOMAIN requests,
              Approve(w, r) \/ Reject(w, r) \/ ResubmitRead(w, r)
              \/ (\E d \in Destination \ {"NONE"} : MarkShipped(w, r, d))
              \/ (\E resume \in BOOLEAN : ReceiptRead(w, r, resume))
       PROVE  UNCHANGED <<now, cycle>>
  BY <1>11 DEF Approve, Reject, MarkShipped, RequestRead, ReceiptRead, ResubmitRead, sla
<1>12. ASSUME FormRead(w, "unavailable") \/ FormRead(w, "fixed") \/ RequestTransition(w)
              \/ (Abandon(w) /\ UNCHANGED sla)
       PROVE  UNCHANGED <<now, cycle>>
  BY <1>12 DEF FormRead, RequestTransition, sla
<1> QED
  <2> HIDE DEF Touched
  <2> QED BY <1>4, <1>5, <1>6, <1>7, <1>8, <1>9, <1>10, <1>11, <1>12, Zenon DEF SlaStep

\* An hour is charged unless the cycle is paused.
LEMMA TimeCharges ==
    ASSUME ClockInv, TimePasses
    PROVE  ClockInv' /\ Charged(cycle', now')
                           = Charged(cycle, now) + (IF cycle.paused THEN 0 ELSE 1)
<1>1. now \in Nat /\ cycle \in Clock /\ now' = now + 1 /\ cycle' = cycle
  BY DEF ClockInv, TimePasses
<1> QED BY <1>1 DEF ClockInv, Clock, Charged, CurrentPause

LEMMA ClockInit == SlaInit => ClockInv
  BY DEF SlaInit, ClockInv, Clock, CurrentPause

SlaNext == (\E w \in Workers : SlaStep(w)) \/ TimePasses

ClockStep ==
    /\ PrimaryClock' >= PrimaryClock
    /\ now' = now + 1 => PrimaryClock' = PrimaryClock + IF cycle.paused THEN 0 ELSE 1

LEMMA ClockNext ==
    ASSUME ClockInv, [SlaNext]_slaVars
    PROVE  ClockInv' /\ [ClockStep]_slaVars
<1>1. ASSUME NEW w \in Workers, SlaStep(w)
      PROVE  ClockInv' /\ ClockStep
  <2>1. now' = now /\ Touched
    BY <1>1, StepTouches
  <2>2. ClockInv' /\ Charged(cycle', now') >= Charged(cycle, now)
    BY <2>1, TouchedKeeps
  <2>3. PrimaryClock = Charged(cycle, now)
    BY ClockIsCharged
  <2>4. PrimaryClock' = Charged(cycle', now')
    BY <2>2 DEF ClockInv, PrimaryClock, Charged, CurrentPause, Clock
  <2>5. now' # now + 1
    BY <2>1 DEF ClockInv
  <2> QED BY <2>2, <2>3, <2>4, <2>5 DEF ClockStep
<1>2. CASE TimePasses
  <2>1. ClockInv' /\ Charged(cycle', now')
                        = Charged(cycle, now) + (IF cycle.paused THEN 0 ELSE 1)
    BY <1>2, TimeCharges
  <2>2. PrimaryClock = Charged(cycle, now)
    BY ClockIsCharged
  <2>3. PrimaryClock' = Charged(cycle', now')
    BY <2>1 DEF ClockInv, PrimaryClock, Charged, CurrentPause, Clock
  <2>4. Charged(cycle, now) \in Nat
    BY DEF ClockInv, Clock, Charged, CurrentPause
  <2> QED BY <2>1, <2>2, <2>3, <2>4 DEF ClockStep
<1>3. CASE UNCHANGED slaVars
  BY <1>3 DEF slaVars, sla, ClockInv, CurrentPause
<1> QED BY <1>1, <1>2, <1>3 DEF SlaNext

\* Over any number of reports and component requests the time charged to the SLA never goes
\* back and advances with the time exactly while the cycle is not paused.
THEOREM ClockRunsUnlessPausedHolds == SlaSpec => ClockRunsUnlessPaused
<1>1. SlaSpec => ClockInv /\ [][SlaNext]_slaVars
  BY ClockInit DEF SlaSpec, SlaNext
<1>2. ClockInv /\ [SlaNext]_slaVars => ClockInv' /\ [ClockStep]_slaVars
  BY ClockNext
<1>3. ClockRunsUnlessPaused <=> [][ClockStep]_slaVars
  BY PTL DEF ClockRunsUnlessPaused, ClockStep
<1> QED BY <1>1, <1>2, <1>3, PTL

-----------------------------------------------------------------------------
(* The refinement of Stopwatch                                            *)

WatchFace == <<now, PrimaryClock, ~cycle.paused, CurrentPause(cycle)>>

WatchStep == [Watch!Next]_WatchFace

\* What the statements of the desks do to the clock, one step of the stopwatch each.
LEMMA TouchedMovesWatch ==
    ASSUME ClockInv, ClockInv', now' = now, Touched
    PROVE  WatchStep
<1> DEFINE pause == IF cycle.paused THEN now - cycle.at ELSE 0
<1>1. now \in Nat /\ cycle.at \in Nat /\ cycle.accumulated \in Nat /\ cycle.paused \in BOOLEAN
      /\ cycle'.paused \in BOOLEAN /\ cycle.at <= now
  BY DEF ClockInv, Touched, Clock
<1>2. PrimaryClock = now - (cycle.accumulated + pause) /\ CurrentPause(cycle) = pause
  BY ClockIsCharged DEF Charged, CurrentPause
<1>3. PrimaryClock' = Charged(cycle', now)
  BY DEF ClockInv, PrimaryClock, Charged, CurrentPause, Clock
<1>4. CurrentPause(cycle)' = IF cycle'.paused THEN now - cycle'.at ELSE 0
  BY DEF CurrentPause
<1>5. CASE SameClock
  <2>1. UNCHANGED WatchFace
    BY <1>2, <1>3, <1>4, <1>5 DEF SameClock, Charged, WatchFace
  <2> QED BY <2>1 DEF WatchStep
<1>6. CASE Restarted
  <2>1. PrimaryClock' = PrimaryClock /\ CurrentPause(cycle)' = 0
    BY <1>1, <1>2, <1>3, <1>4, <1>6 DEF Restarted, Charged
  <2>2. Watch!Restart
    BY <2>1, <1>6 DEF Restarted, Watch!Restart
  <2> QED BY <2>2 DEF WatchStep, Watch!Next
<1>7. CASE Stopped
  <2>1. PrimaryClock' = PrimaryClock + pause /\ CurrentPause(cycle)' = 0 /\ cycle'.paused
    BY <1>1, <1>2, <1>3, <1>4, <1>7 DEF Stopped, Charged
  <2>2. CASE cycle.paused
    <3>1. Watch!StopAgain
      BY <1>2, <2>1, <2>2 DEF Watch!StopAgain
    <3> QED BY <3>1 DEF WatchStep, Watch!Next
  <2>3. CASE ~cycle.paused
    <3>1. PrimaryClock \in Int
      BY <1>1, <1>2
    <3>2. Watch!Stop
      BY <1>2, <2>1, <2>3, <3>1 DEF Watch!Stop
    <3> QED BY <3>2 DEF WatchStep, Watch!Next
  <2> QED BY <2>2, <2>3
<1> QED BY <1>5, <1>6, <1>7 DEF Touched

LEMMA TimeMovesWatch ==
    ASSUME ClockInv, TimePasses
    PROVE  WatchStep
<1>1. now \in Nat /\ cycle \in Clock /\ cycle.at <= now /\ now' = now + 1 /\ cycle' = cycle
  BY DEF ClockInv, TimePasses
<1>2. ClockInv' /\ Charged(cycle', now')
                       = Charged(cycle, now) + (IF cycle.paused THEN 0 ELSE 1)
  BY TimeCharges
<1>3. PrimaryClock = Charged(cycle, now) /\ Charged(cycle, now) \in Int
  BY <1>1, ClockIsCharged DEF Charged, Clock
<1>4. PrimaryClock' = Charged(cycle', now')
  BY <1>2 DEF ClockInv, PrimaryClock, Charged, CurrentPause, Clock
<1>5. CurrentPause(cycle)' = CurrentPause(cycle) + (IF cycle.paused THEN 1 ELSE 0)
  BY <1>1 DEF CurrentPause, Clock
<1>6. CurrentPause(cycle) \in Int
  BY <1>1 DEF CurrentPause, Clock
<1>7. Watch!Tick
  BY <1>1, <1>2, <1>3, <1>4, <1>5, <1>6 DEF Watch!Tick
<1> QED BY <1>7 DEF WatchStep, Watch!Next

LEMMA WatchNext ==
    ASSUME ClockInv, ClockInv', [SlaNext]_slaVars
    PROVE  WatchStep
<1>1. ASSUME NEW w \in Workers, SlaStep(w)
      PROVE  WatchStep
  BY <1>1, StepTouches, TouchedMovesWatch
<1>2. CASE TimePasses
  BY <1>2, TimeMovesWatch
<1>3. CASE UNCHANGED slaVars
  BY <1>3 DEF slaVars, sla, WatchStep, WatchFace, PrimaryClock, CurrentPause
<1> QED BY <1>1, <1>2, <1>3 DEF SlaNext

LEMMA WatchInit == SlaInit => Watch!Init
  BY DEF SlaInit, Watch!Init, PrimaryClock, CurrentPause

\* The clock that the manager is shown is a stopwatch, for any number of reports and component
\* requests and however they overlap: it advances with the time unless the cycle is paused, a
\* resumption leaves it where the pause found it, and only the form that pauses a paused cycle
\* charges a pause.
THEOREM ImplementsStopwatchHolds == SlaSpec => ImplementsStopwatch
<1>1. SlaSpec => ClockInv /\ [][SlaNext]_slaVars /\ SlaInit
  BY ClockInit DEF SlaSpec, SlaNext
<1>2. ClockInv /\ [SlaNext]_slaVars => ClockInv'
  BY ClockNext
<1>3. ClockInv /\ ClockInv' /\ [SlaNext]_slaVars => WatchStep
  BY WatchNext
<1> QED BY <1>1, <1>2, <1>3, WatchInit, PTL
        DEF ImplementsStopwatch, Watch!Spec, WatchStep, WatchFace

-----------------------------------------------------------------------------
(* Soft states                                                            *)

\* Engineer e has had state type at ticket t, in an early enough row of s.
Before(s, n, t, e, type) ==
    \E h \in DOMAIN s : h < n /\ s[h].t = t /\ s[h].se = e /\ s[h].type = type

\* NoStepSkipped, of any sequence of rows.
InOrder(s) ==
    \A i \in DOMAIN s, k \in 1..2 :
       s[i].type = Chain[k + 1] => Before(s, i, s[i].t, s[i].se, Chain[k])

\* Who is about to advance was found at the step before.
Ready(s, j) ==
    \A k \in 1..2 :
       j.target = Chain[k + 1] => Before(s, Len(s) + 1, j.t, j.se, Chain[k])

SoftInv ==
    /\ SoftTypeOK /\ InOrder(soft)
    /\ DOMAIN job = Workers
    /\ \A w \in Workers : job[w].op = "advance" =>
          /\ job[w].t \in Places /\ job[w].se \in Crew /\ job[w].target \in SoftType
          /\ Ready(soft, job[w])

\* Rows are resolved and become due, and are added: nobody forgets a step.
Extends(s, r) ==
    /\ s \in Seq(SoftRow) /\ r \in Seq(SoftRow) /\ Len(s) <= Len(r)
    /\ \A i \in DOMAIN s : r[i].t = s[i].t /\ r[i].se = s[i].se /\ r[i].type = s[i].type

LEMMA ChainSteps ==
    /\ Chain[1] = "VIEWED" /\ Chain[2] = "ON_SITE" /\ Chain[3] = "TROUBLESHOOT_STARTED"
    /\ SoftType = {"VIEWED", "ON_SITE", "TROUBLESHOOT_STARTED"}
<1>1. Chain[1] = "VIEWED" /\ Chain[2] = "ON_SITE" /\ Chain[3] = "TROUBLESHOOT_STARTED"
  BY DEF Chain
<1>2. 1..3 = {1, 2, 3}
  OBVIOUS
<1> QED BY <1>1, <1>2 DEF SoftType

LEMMA ChainOneToOne == \A k \in 1..2, m \in 1..2 : Chain[k + 1] = Chain[m + 1] => k = m
<1> SUFFICES ASSUME NEW k \in 1..2, NEW m \in 1..2, Chain[k + 1] = Chain[m + 1]
             PROVE  k = m
  OBVIOUS
<1>1. CASE k = 1 /\ m = 2
  <2>1. Chain[2] = Chain[3]
    BY <1>1
  <2> QED BY <2>1, ChainSteps
<1>2. CASE k = 2 /\ m = 1
  <2>1. Chain[3] = Chain[2]
    BY <1>2
  <2> QED BY <2>1, ChainSteps
<1> QED BY <1>1, <1>2

LEMMA StillBefore ==
    ASSUME NEW s, NEW r, Extends(s, r), NEW n \in Nat, NEW m \in Nat, n <= m, NEW t, NEW e,
           NEW type, Before(s, n, t, e, type)
    PROVE  Before(r, m, t, e, type)
<1>1. PICK h \in DOMAIN s : h < n /\ s[h].t = t /\ s[h].se = e /\ s[h].type = type
  BY DEF Before
<1>2. h \in Nat /\ h \in DOMAIN r /\ h < m
  BY <1>1 DEF Extends
<1>3. r[h].t = t /\ r[h].se = e /\ r[h].type = type
  BY <1>1 DEF Extends
<1> QED BY <1>2, <1>3 DEF Before

\* The rows keep what they are about: nothing is added.
LEMMA StaysInOrder ==
    ASSUME NEW s, NEW r, Extends(s, r), InOrder(s), Len(r) = Len(s)
    PROVE  InOrder(r)
<1> SUFFICES ASSUME NEW i \in DOMAIN r, NEW k \in 1..2, r[i].type = Chain[k + 1]
             PROVE  Before(r, i, r[i].t, r[i].se, Chain[k])
  BY DEF InOrder
<1>1. i \in DOMAIN s /\ i \in Nat
  BY DEF Extends
<1>2. r[i].t = s[i].t /\ r[i].se = s[i].se /\ r[i].type = s[i].type
  BY <1>1 DEF Extends
<1>3. Before(s, i, s[i].t, s[i].se, Chain[k])
  BY <1>1, <1>2 DEF InOrder
<1> QED BY <1>1, <1>2, <1>3, StillBefore

LEMMA StillReady ==
    ASSUME NEW s, NEW r, Extends(s, r), NEW j, Ready(s, j)
    PROVE  Ready(r, j)
<1>1. Len(s) + 1 \in Nat /\ Len(r) + 1 \in Nat /\ Len(s) + 1 <= Len(r) + 1
  BY DEF Extends
<1> QED BY <1>1, StillBefore DEF Ready

\* What an execution goes on with is ready when it is an advance.
Prepared(j) == j.op = "advance" =>
    /\ j.t \in Places /\ j.se \in Crew /\ j.target \in SoftType
    /\ Ready(soft, j)

LEMMA SoftGoesOn ==
    ASSUME SoftInv, SoftTypeOK', InOrder(soft'), Extends(soft, soft'),
           NEW w \in Workers, NEW j, Prepared(j), job' = [job EXCEPT ![w] = j]
    PROVE  SoftInv'
<1>1. DOMAIN job' = Workers /\ \A v \in Workers : job'[v] = j \/ job'[v] = job[v]
  BY DEF SoftInv
<1>2. ASSUME NEW v \in Workers, job'[v].op = "advance"
      PROVE  /\ job'[v].t \in Places /\ job'[v].se \in Crew /\ job'[v].target \in SoftType
             /\ Ready(soft', job'[v])
  <2>1. PICK k : k = job'[v]
    OBVIOUS
  <2>2. k.t \in Places /\ k.se \in Crew /\ k.target \in SoftType /\ Ready(soft, k)
    BY <1>1, <1>2, <2>1 DEF SoftInv, Prepared
  <2>3. Ready(soft', k)
    BY <2>2, StillReady
  <2> QED BY <2>1, <2>2, <2>3
<1> QED BY <1>1, <1>2 DEF SoftInv

LEMMA SoftUnmoved ==
    ASSUME SoftInv, SoftTypeOK', InOrder(soft'), Extends(soft, soft'), job' = job
    PROVE  SoftInv'
<1>1. ASSUME NEW w \in Workers, job[w].op = "advance" PROVE Ready(soft', job[w])
  BY <1>1, StillReady DEF SoftInv
<1> QED BY <1>1 DEF SoftInv

LEMMA IdlePrepared == Prepared(Idle)
  BY DEF Prepared, Idle

LEMMA SoftSame == ASSUME SoftTypeOK PROVE Extends(soft, soft)
  BY DEF Extends, SoftTypeOK

\* The rows that are resolved or become due: the others stay, and so does what they are about.
LEMMA RowsKept ==
    ASSUME SoftInv, NEW r, r \in Seq(SoftRow), Len(r) = Len(soft),
           \A i \in DOMAIN soft :
              r[i].t = soft[i].t /\ r[i].se = soft[i].se /\ r[i].type = soft[i].type
    PROVE  Extends(soft, r) /\ InOrder(r)
<1>1. Extends(soft, r)
  BY DEF Extends, SoftInv, SoftTypeOK
<1> QED BY <1>1, StaysInOrder DEF SoftInv

LEMMA ResolvedKept ==
    ASSUME SoftInv, NEW ids
    PROVE  /\ Resolved(ids) \in Seq(SoftRow) /\ Len(Resolved(ids)) = Len(soft)
           /\ Extends(soft, Resolved(ids)) /\ InOrder(Resolved(ids))
<1>1. PICK r : r = Resolved(ids)
  OBVIOUS
<1>2. soft \in Seq(SoftRow) /\ DOMAIN soft = 1..Len(soft) /\ Len(soft) \in Nat
  BY DEF SoftInv, SoftTypeOK
<1>3. DOMAIN r = 1..Len(soft)
  BY <1>1, <1>2 DEF Resolved
<1>4. ASSUME NEW i \in 1..Len(soft)
      PROVE  /\ r[i] \in SoftRow
             /\ r[i].t = soft[i].t /\ r[i].se = soft[i].se /\ r[i].type = soft[i].type
  <2>1. soft[i] \in SoftRow
    BY <1>2
  <2>2. r[i] = soft[i] \/ r[i] = [soft[i] EXCEPT !.live = FALSE]
    BY <1>1, <1>2 DEF Resolved
  <2> QED BY <2>1, <2>2 DEF SoftRow
<1>5. r = [i \in 1..Len(soft) |-> r[i]]
  BY <1>1, <1>2, <1>3 DEF Resolved
<1>6. r \in Seq(SoftRow) /\ Len(r) = Len(soft)
  BY <1>2, <1>3, <1>4, <1>5
<1> QED BY <1>1, <1>2, <1>4, <1>6, RowsKept

\* runAdvance's guard: the row that was read is at the step before.
LEMMA AdvanceReadKeeps ==
    ASSUME SoftInv, NEW w \in Workers, NEW t \in Places, NEW e \in Crew, NEW target \in SoftType,
           AdvanceRead(w, t, e, target)
    PROVE  SoftInv'
<1>1. PICK i \in Current(t, e) :
         /\ Follows(target, i)
         /\ Begin(w, [op |-> "advance", t |-> t, se |-> e, target |-> target, from |-> i])
  BY DEF AdvanceRead
<1>2. PICK j : j = [op |-> "advance", t |-> t, se |-> e, target |-> target, from |-> i]
  OBVIOUS
<1>3. j.t = t /\ j.se = e /\ j.target = target
  BY <1>2
<1>4. Ready(soft, j)
  <2> SUFFICES ASSUME NEW k \in 1..2, target = Chain[k + 1]
               PROVE  Before(soft, Len(soft) + 1, t, e, Chain[k])
    BY <1>3 DEF Ready
  <2>1. k = 1 \/ k = 2
    OBVIOUS
  <2>2. target # Chain[1]
    BY <2>1, ChainSteps
  <2>3. i # NoneActive
    BY <1>1, <2>2 DEF Follows
  <2>4. i \in DOMAIN soft /\ soft[i].t = t /\ soft[i].se = e
    BY <1>1, <2>3 DEF Current, ActiveOf
  <2>5. soft[i].type = Chain[k]
    <3>1. PICK m \in 1..2 : soft[i].type = Chain[m] /\ target = Chain[m + 1]
      BY <1>1, <2>3 DEF Follows
    <3>2. k = m
      BY <3>1, ChainOneToOne
    <3> QED BY <3>1, <3>2
  <2>6. i < Len(soft) + 1
    BY <2>4 DEF SoftInv, SoftTypeOK
  <2> QED BY <2>4, <2>5, <2>6 DEF Before
<1>5. Prepared(j)
  BY <1>3, <1>4 DEF Prepared
<1>6. UNCHANGED <<soft, place, fresh>> /\ job' = [job EXCEPT ![w] = j]
  BY <1>1, <1>2 DEF AdvanceRead, softStates, Begin
<1> QED BY <1>5, <1>6, SoftSame, SoftGoesOn DEF SoftInv, SoftTypeOK

\* The row that is added follows one that is there already.
LEMMA AdvanceKeeps ==
    ASSUME SoftInv, NEW w \in Workers, Advance(w)
    PROVE  SoftInv'
<1>1. PICK t \in Places, e \in Crew, target \in SoftType :
         /\ job[w].t = t /\ job[w].se = e /\ job[w].target = target
         /\ \A k \in 1..2 : target = Chain[k + 1] => Before(soft, Len(soft) + 1, t, e, Chain[k])
  BY DEF Advance, Running, SoftInv, Ready
<1>2. PICK row : row = [t |-> t, se |-> e, type |-> target, live |-> TRUE, due |-> FALSE]
  OBVIOUS
<1>3. row \in SoftRow
  BY <1>2 DEF SoftRow
<1>4. PICK r : r = Resolved({job[w].from})
  OBVIOUS
<1>5. r \in Seq(SoftRow) /\ Len(r) = Len(soft) /\ Extends(soft, r) /\ InOrder(r)
  BY <1>4, ResolvedKept
<1>6. soft' = Append(r, row) /\ Len(soft) < MaxSoft
  BY <1>1, <1>2, <1>4 DEF Advance
<1>7. PICK n : n = Len(r) + 1
  OBVIOUS
<1>8. /\ n \in Nat /\ soft' \in Seq(SoftRow) /\ Len(soft') = n /\ soft'[n] = row
      /\ \A i \in 1..Len(r) : soft'[i] = r[i]
      /\ DOMAIN r = 1..Len(r) /\ Len(r) \in Nat /\ DOMAIN soft' = 1..n
  BY <1>3, <1>5, <1>6, <1>7
<1>9. Extends(r, soft')
  BY <1>5, <1>7, <1>8 DEF Extends
<1>10. Extends(soft, soft')
  BY <1>5, <1>7, <1>8 DEF Extends
<1>11. InOrder(soft')
  <2> SUFFICES ASSUME NEW i \in DOMAIN soft', NEW k \in 1..2, soft'[i].type = Chain[k + 1]
               PROVE  Before(soft', i, soft'[i].t, soft'[i].se, Chain[k])
    BY DEF InOrder
  <2>1. CASE i = n
    <3>1. soft'[i].t = t /\ soft'[i].se = e /\ soft'[i].type = target
      BY <1>2, <1>8, <2>1
    <3>2. Before(soft, Len(soft) + 1, t, e, Chain[k])
      BY <1>1, <3>1
    <3>3. Len(soft) + 1 = n
      BY <1>5, <1>7
    <3> QED BY <1>8, <1>10, <2>1, <3>1, <3>2, <3>3, StillBefore
  <2>2. CASE i # n
    <3>1. i \in DOMAIN r /\ i \in Nat
      BY <1>7, <1>8, <2>2
    <3>2. soft'[i] = r[i]
      BY <1>8, <3>1
    <3>3. Before(r, i, r[i].t, r[i].se, Chain[k])
      BY <1>5, <3>1, <3>2 DEF InOrder
    <3> QED BY <1>9, <3>1, <3>2, <3>3, StillBefore
  <2> QED BY <2>1, <2>2
<1>12. SoftTypeOK'
  <2>1. place' = place /\ fresh' \subseteq Crew
    BY <1>1 DEF Advance, SoftInv, SoftTypeOK
  <2>2. Len(soft') <= MaxSoft
    BY <1>5, <1>6, <1>7, <1>8, SoftAssumption DEF SoftInv, SoftTypeOK
  <2> QED BY <1>8, <2>1, <2>2 DEF SoftInv, SoftTypeOK
<1> QED BY <1>10, <1>11, <1>12, IdlePrepared, SoftGoesOn DEF Advance, Finish

LEMMA OtherSoftStepsKeep ==
    ASSUME SoftInv, NEW w \in Workers,
           \/ \E t \in Places, e \in Crew, fixed \in BOOLEAN : OpenForm(w, t, e, fixed)
           \/ SubmitForm(w) \/ ClearExpiredViewed(w)
           \/ \E e \in Crew : RecordActivityPing(w, e)
           \/ Abandon(w) /\ UNCHANGED softStates
    PROVE  SoftInv'
<1>1. ASSUME NEW t \in Places, NEW e \in Crew, NEW fixed \in BOOLEAN, OpenForm(w, t, e, fixed)
      PROVE  SoftInv'
  <2>1. PICK j : j = [op |-> "form", t |-> t, se |-> e, fixed |-> fixed]
    OBVIOUS
  <2>2. Prepared(j)
    BY <2>1 DEF Prepared
  <2>3. UNCHANGED <<soft, place, fresh>> /\ job' = [job EXCEPT ![w] = j]
    BY <1>1, <2>1 DEF OpenForm, softStates, Begin
  <2> QED BY <2>2, <2>3, SoftSame, SoftGoesOn DEF SoftInv, SoftTypeOK
<1>2. CASE SubmitForm(w)
  <2>1. PICK ids : soft' = Resolved(ids)
    BY <1>2 DEF SubmitForm
  <2>2. Extends(soft, soft') /\ InOrder(soft') /\ soft' \in Seq(SoftRow) /\ Len(soft') = Len(soft)
    BY <2>1, ResolvedKept
  <2>3. place' \in [Places -> [open : BOOLEAN, assigned : BOOLEAN]] /\ fresh' = fresh
    <3>1. PICK t : place' = [place EXCEPT ![t].open = @ /\ ~job[w].fixed]
      BY <1>2 DEF SubmitForm
    <3>2. PICK b \in BOOLEAN : place' = [place EXCEPT ![t].open = b]
      <4>1. PICK c : c = (place[t].open /\ ~job[w].fixed)
        OBVIOUS
      <4>2. c \in BOOLEAN
        BY <4>1
      <4> QED BY <3>1, <4>1, <4>2
    <3>3. place \in [Places -> [open : BOOLEAN, assigned : BOOLEAN]]
      BY DEF SoftInv, SoftTypeOK
    <3>4. PICK q : q = [place[t] EXCEPT !.open = b]
      OBVIOUS
    <3>5. t \in Places => q \in [open : BOOLEAN, assigned : BOOLEAN]
      BY <3>3, <3>4
    <3>6. place' = [place EXCEPT ![t] = q]
      BY <3>2, <3>4
    <3>7. place' \in [Places -> [open : BOOLEAN, assigned : BOOLEAN]]
      BY <3>3, <3>5, <3>6
    <3> QED BY <1>2, <3>7 DEF SubmitForm
  <2>4. SoftTypeOK'
    BY <2>2, <2>3 DEF SoftInv, SoftTypeOK
  <2> QED BY <1>2, <2>2, <2>4, IdlePrepared, SoftGoesOn DEF SubmitForm, Finish
<1>3. CASE ClearExpiredViewed(w)
  <2>1. PICK ids : soft' = Resolved(ids)
    BY <1>3 DEF ClearExpiredViewed
  <2>2. Extends(soft, soft') /\ InOrder(soft') /\ soft' \in Seq(SoftRow) /\ Len(soft') = Len(soft)
    BY <2>1, ResolvedKept
  <2>3. UNCHANGED <<place, fresh, job>> /\ job[w] = Idle
    BY <1>3 DEF ClearExpiredViewed
  <2>4. SoftTypeOK'
    BY <2>2, <2>3 DEF SoftInv, SoftTypeOK
  <2> QED BY <2>2, <2>3, <2>4, SoftUnmoved
<1>4. ASSUME NEW e \in Crew, RecordActivityPing(w, e) PROVE SoftInv'
  BY <1>4 DEF RecordActivityPing, SoftInv, SoftTypeOK
<1>5. CASE Abandon(w) /\ UNCHANGED softStates
  <2>1. UNCHANGED <<soft, place, fresh>> /\ job' = [job EXCEPT ![w] = Idle]
    BY <1>5 DEF Abandon, Finish, softStates
  <2> QED BY <2>1, IdlePrepared, SoftSame, SoftGoesOn DEF SoftInv, SoftTypeOK
<1> QED BY <1>1, <1>2, <1>3, <1>4, <1>5

LEMMA SoftEnvironmentKeeps == ASSUME SoftInv, SoftEnvironment PROVE SoftInv'
<1>1. ASSUME NEW i \in DOMAIN soft, ViewExpires(i) PROVE SoftInv'
  <2>1. soft \in Seq(SoftRow) /\ i \in 1..Len(soft) /\ Len(soft) \in Nat /\ soft[i] \in SoftRow
    BY DEF SoftInv, SoftTypeOK
  <2>2. PICK row : row = [soft[i] EXCEPT !.due = TRUE]
    OBVIOUS
  <2>3. row \in SoftRow /\ row.t = soft[i].t /\ row.se = soft[i].se /\ row.type = soft[i].type
    BY <2>1, <2>2 DEF SoftRow
  <2>4. soft' = [soft EXCEPT ![i] = row]
    BY <1>1, <2>2 DEF ViewExpires
  <2>5. soft' \in Seq(SoftRow) /\ Len(soft') = Len(soft)
    BY <2>1, <2>3, <2>4
  <2>6. \A k \in DOMAIN soft :
           soft'[k].t = soft[k].t /\ soft'[k].se = soft[k].se /\ soft'[k].type = soft[k].type
    BY <2>1, <2>3, <2>4
  <2>7. Extends(soft, soft') /\ InOrder(soft')
    BY <2>5, <2>6, RowsKept
  <2>8. UNCHANGED <<place, fresh, job>>
    BY <1>1 DEF ViewExpires
  <2>9. SoftTypeOK'
    BY <2>5, <2>8 DEF SoftInv, SoftTypeOK
  <2> QED BY <2>7, <2>8, <2>9, SoftUnmoved
<1>2. ASSUME NEW e \in Crew, HourPasses(e) PROVE SoftInv'
  BY <1>2 DEF HourPasses, SoftInv, SoftTypeOK
<1>3. ASSUME NEW t \in Places, PlaceChanges(t) PROVE SoftInv'
  <2>1. place' \in [Places -> [open : BOOLEAN, assigned : BOOLEAN]]
    <3>1. PICK p : p = place[t]
      OBVIOUS
    <3>2. p \in [open : BOOLEAN, assigned : BOOLEAN]
      BY <3>1 DEF SoftInv, SoftTypeOK
    <3>3. PICK q : q = [p EXCEPT !.open = FALSE] \/ q = [p EXCEPT !.assigned = ~@]
      OBVIOUS
    <3>4. \A b \in {[p EXCEPT !.open = FALSE], [p EXCEPT !.assigned = ~@]} :
             b \in [open : BOOLEAN, assigned : BOOLEAN]
      BY <3>2
    <3> QED BY <1>3, <3>1, <3>4 DEF PlaceChanges, SoftInv, SoftTypeOK
  <2> QED BY <1>3, <2>1 DEF PlaceChanges, SoftInv, SoftTypeOK
<1> QED BY <1>1, <1>2, <1>3 DEF SoftEnvironment

SoftNext == (\E w \in Workers : SoftStep(w)) \/ SoftEnvironment

LEMMA SoftInvNext == SoftInv /\ [SoftNext]_softVars => SoftInv'
<1> SUFFICES ASSUME SoftInv, [SoftNext]_softVars PROVE SoftInv'
  OBVIOUS
<1>1. ASSUME NEW w \in Workers, SoftStep(w) PROVE SoftInv'
  BY <1>1, AdvanceReadKeeps, AdvanceKeeps, OtherSoftStepsKeep DEF SoftStep
<1>2. CASE UNCHANGED softVars
  BY <1>2 DEF softVars, softStates, SoftInv, SoftTypeOK
<1> QED BY <1>1, <1>2, SoftEnvironmentKeeps DEF SoftNext

\* Whatever taps, forms, expiries and closures overlap, an engineer who is troubleshooting at a
\* ticket was on site there before, and who is on site viewed the ticket before, for any number
\* of tickets and engineers (runAdvance).
THEOREM NoStepSkippedHolds == SoftSpec => []NoStepSkipped
<1>1. SoftInit /\ job = [w \in Workers |-> Idle] => SoftInv
  BY SoftAssumption DEF SoftInit, SoftInv, SoftTypeOK, InOrder, Idle
<1>2. SoftSpec => SoftInv /\ [][SoftNext]_softVars
  BY <1>1 DEF SoftSpec, SoftNext
<1>3. SoftInv => NoStepSkipped
  BY DEF SoftInv, NoStepSkipped, InOrder, Before
<1> QED BY <1>2, <1>3, SoftInvNext, PTL

=============================================================================
