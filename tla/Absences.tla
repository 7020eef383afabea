------------------------------ MODULE Absences ------------------------------
(****************************************************************************)
(* Who is there: leave requests and the availability windows of the         *)
(* engineers.  Approving a leave writes the window in one transaction and   *)
(* marks the request in another.                                            *)
(*                                                                          *)
(* Who may call (the engineer, a manager of his zone) only selects callers: *)
(* it is left out.                                                          *)
(****************************************************************************)
EXTENDS Executions, Naturals, Sequences, FiniteSetsExt

CONSTANTS
    Staff,      \* engineers
    Days,       \* 1..n, the days windows are made of
    MaxLeaves,  \* bound: leave requests
    MaxWindows  \* bound: availability windows

ASSUME AbsencesAssumption ==
    Days \subseteq Nat /\ 1 \in Days /\ MaxLeaves \in Nat /\ MaxWindows \in Nat

VARIABLES
    today,
    leave,    \* leave_requests, by id
    window    \* se_availability, by id

absences == <<today, leave, window>>
absencesVars == <<absences, job>>

LeaveType == {"ON_LEAVE", "WEEKLY_OFF"}
WindowStatus == LeaveType \cup {"OFF_SHIFT", "SOFT_UNAVAILABLE"}

\* [from, to): a window without an end lasts past the last day.
Spans == {s \in [from : Days, to : Days \cup {Max(Days) + 1}] : s.from < s.to}

LeaveRow == [se : Staff, type : LeaveType, span : Spans,
             status : {"PENDING", "APPROVED", "REJECTED"}]
WindowRow == [se : Staff, status : WindowStatus, span : Spans]

AbsencesTypeOK ==
    /\ today \in Days
    /\ leave \in Seq(LeaveRow) /\ Len(leave) <= MaxLeaves
    /\ window \in Seq(WindowRow) /\ Len(window) <= MaxWindows

AbsencesInit == today = 1 /\ leave = <<>> /\ window = <<>>

Covers(span, d) == span.from <= d /\ d < span.to

-----------------------------------------------------------------------------
(* SeAvailabilityService                                                  *)

WindowsOf(e, d) == {i \in DOMAIN window : window[i].se = e /\ Covers(window[i].span, d)}

\* The latest window of the day decides; of two that start together, either.
Statuses(e, d) ==
    {window[i].status : i \in {j \in WindowsOf(e, d) :
        \A k \in WindowsOf(e, d) : window[k].span.from <= window[j].span.from}}

CurrentStatus(e, d) == IF WindowsOf(e, d) = {} THEN {"AVAILABLE"} ELSE Statuses(e, d)

SetAvailability(w, e, status, span) ==
    /\ job[w] = Idle /\ Len(window) < MaxWindows
    /\ window' = Append(window, [se |-> e, status |-> status, span |-> span])
    /\ UNCHANGED <<today, leave, job>>

-----------------------------------------------------------------------------
(* LeaveRequestService                                                    *)

SubmitLeave(w, e, type, span) ==
    /\ job[w] = Idle /\ Len(leave) < MaxLeaves
    /\ leave' = Append(leave, [se |-> e, type |-> type, span |-> span, status |-> "PENDING"])
    /\ UNCHANGED <<today, window, job>>

ApproveLeaveRead(w, i) ==
    /\ leave[i].status = "PENDING"
    /\ Begin(w, [op |-> "leave", i |-> i])
    /\ UNCHANGED absences

\* Fault: the request is marked and no window is written.
WriteWindowNever(w) ==
    /\ Running(w, "leave")
    /\ Proceed(w, [op |-> "decideLeave", i |-> job[w].i, status |-> "APPROVED"])
    /\ UNCHANGED absences

WriteWindow(w) ==
    /\ Running(w, "leave") /\ Len(window) < MaxWindows
    /\ LET r == leave[job[w].i]
       IN window' = Append(window, [se |-> r.se, status |-> r.type, span |-> r.span])
    /\ Proceed(w, [op |-> "decideLeave", i |-> job[w].i, status |-> "APPROVED"])
    /\ UNCHANGED <<today, leave>>

RejectLeaveRead(w, i) ==
    /\ leave[i].status = "PENDING"
    /\ Begin(w, [op |-> "decideLeave", i |-> i, status |-> "REJECTED"])
    /\ UNCHANGED absences

DecideLeave(w) ==
    /\ Running(w, "decideLeave")
    /\ leave' = [leave EXCEPT ![job[w].i].status = job[w].status]
    /\ Finish(w)
    /\ UNCHANGED <<today, window>>

-----------------------------------------------------------------------------
NextDay ==
    /\ today + 1 \in Days
    /\ today' = today + 1
    /\ UNCHANGED <<leave, window, job>>

AbsencesStep(w) ==
    \/ \E e \in Staff, span \in Spans :
          \/ \E type \in LeaveType : SubmitLeave(w, e, type, span)
          \/ \E status \in WindowStatus : SetAvailability(w, e, status, span)
    \/ \E i \in DOMAIN leave : ApproveLeaveRead(w, i) \/ RejectLeaveRead(w, i)
    \/ WriteWindow(w) \/ DecideLeave(w)
    \/ Abandon(w) /\ UNCHANGED absences

AbsencesEnvironment == NextDay

AbsencesSpec ==
    /\ AbsencesInit /\ job = [w \in Workers |-> Idle]
    /\ [][(\E w \in Workers : AbsencesStep(w)) \/ AbsencesEnvironment]_absencesVars

-----------------------------------------------------------------------------
(* Properties                                                             *)

\* On the days of an approved leave the engineer is not offered work, unless somebody set a
\* window that starts later and still covers the day, or as early (approve, currentStatus).
OffOnApprovedLeave ==
    \A i \in DOMAIN leave, d \in Days :
       leave[i].status = "APPROVED" /\ Covers(leave[i].span, d) =>
          \/ leave[i].type \in CurrentStatus(leave[i].se, d)
          \/ \E k \in WindowsOf(leave[i].se, d) : window[k].span.from > leave[i].span.from

=============================================================================
