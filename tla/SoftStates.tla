----------------------------- MODULE SoftStates -----------------------------
(****************************************************************************)
(* Soft states: what an engineer says he is doing on a ticket (VIEWED, then *)
(* ON_SITE, then TROUBLESHOOT_STARTED), the Activity Status derived from    *)
(* them, and the Shared Pool they start from.                               *)
(*                                                                          *)
(* Rows are resolved, never deleted.  Advancing reads and writes in one     *)
(* transaction, under READ COMMITTED.  The pool guides the phone; the       *)
(* handlers do not ask for it.                                              *)
(****************************************************************************)
EXTENDS Executions, Naturals, Sequences, FiniteSets

CONSTANTS
    Places,      \* tickets
    PlantOfPlace,
    Crew,        \* engineers
    Coverage,    \* (engineer, plant) pairs of se_coverage and of the floating territories
    MaxSoft      \* bound: soft_states

ASSUME SoftAssumption == MaxSoft \in Nat

VARIABLES
    soft,   \* soft_states, by id
    place,  \* the tickets
    fresh   \* engineers whose last activity ping is less than an hour old

softStates == <<soft, place, fresh>>
softVars == <<softStates, job>>

Chain == <<"VIEWED", "ON_SITE", "TROUBLESHOOT_STARTED">>
SoftType == {Chain[i] : i \in 1..3}

\* live: resolved_at is null; due: timeout_at has passed, which only VIEWED has.
SoftRow == [t : Places, se : Crew, type : SoftType, live : BOOLEAN, due : BOOLEAN]

SoftTypeOK ==
    /\ soft \in Seq(SoftRow) /\ Len(soft) <= MaxSoft
    /\ place \in [Places -> [open : BOOLEAN, assigned : BOOLEAN]]
    /\ fresh \subseteq Crew

SoftInit ==
    /\ soft = <<>> /\ fresh = {}
    /\ place = [t \in Places |-> [open |-> TRUE, assigned |-> FALSE]]

ActiveOf(t, e) == {i \in DOMAIN soft : soft[i].t = t /\ soft[i].se = e /\ soft[i].live}

\* The rows of ids are resolved.
Resolved(ids) ==
    [i \in DOMAIN soft |-> IF i \in ids THEN [soft[i] EXCEPT !.live = FALSE] ELSE soft[i]]

\* What findFirst may answer: none, or an active row.  It takes the newest by set_at, a stamp made
\* before the transaction, so which of several is left open.
NoneActive == 0
Current(t, e) == IF ActiveOf(t, e) = {} THEN {NoneActive} ELSE ActiveOf(t, e)

\* Fault: a step of the chain may be left out.
FollowsLoosely(target, i) ==
    IF i = NoneActive THEN TRUE ELSE \E k \in 1..2 : soft[i].type = Chain[k] /\ target # Chain[k]

Follows(target, i) ==
    IF i = NoneActive THEN target = Chain[1]
    ELSE \E k \in 1..2 : soft[i].type = Chain[k] /\ target = Chain[k + 1]

\* runAdvance: the read and the guard.
AdvanceRead(w, t, e, target) ==
    /\ \E i \in Current(t, e) :
          /\ Follows(target, i)
          /\ Begin(w, [op |-> "advance", t |-> t, se |-> e, target |-> target, from |-> i])
    /\ UNCHANGED softStates

\* The row that was read is resolved by its id.  The unique index ux_ss_active: one active row
\* per ticket, engineer and type.
Advance(w) ==
    /\ Running(w, "advance") /\ Len(soft) < MaxSoft
    /\ LET j == job[w] IN
       /\ \A i \in ActiveOf(j.t, j.se) : soft[i].type # j.target
       /\ soft' = Append(Resolved({j.from}),
                         [t |-> j.t, se |-> j.se, type |-> j.target, live |-> TRUE, due |-> FALSE])
       /\ fresh' = fresh \cup {j.se}
    /\ Finish(w)
    /\ UNCHANGED place

\* The form resolves whatever the engineer has active on the ticket; only a component that
\* is unavailable leaves the ticket OPEN.
OpenForm(w, t, e, fixed) ==
    /\ place[t].open
    /\ Begin(w, [op |-> "form", t |-> t, se |-> e, fixed |-> fixed])
    /\ UNCHANGED softStates

SubmitForm(w) ==
    /\ Running(w, "form")
    /\ soft' = Resolved(ActiveOf(job[w].t, job[w].se))
    /\ place' = [place EXCEPT ![job[w].t].open = @ /\ ~job[w].fixed]
    /\ Finish(w)
    /\ UNCHANGED fresh

ClearExpiredViewed(w) ==
    /\ job[w] = Idle
    /\ soft' = Resolved({i \in DOMAIN soft : soft[i].type = "VIEWED" /\ soft[i].due})
    /\ UNCHANGED <<place, fresh, job>>

RecordActivityPing(w, e) ==
    /\ job[w] = Idle
    /\ fresh' = fresh \cup {e}
    /\ UNCHANGED <<soft, place, job>>

-----------------------------------------------------------------------------
(* The clock, and the writers of tickets                                  *)

ViewExpires(i) ==
    /\ soft[i].type = "VIEWED" /\ soft[i].live /\ ~soft[i].due
    /\ soft' = [soft EXCEPT ![i].due = TRUE]
    /\ UNCHANGED <<place, fresh, job>>

HourPasses(e) ==
    /\ e \in fresh
    /\ fresh' = fresh \ {e}
    /\ UNCHANGED <<soft, place, job>>

\* No other way of closing or assigning a ticket touches the soft states.
PlaceChanges(t) ==
    /\ \/ place[t].open /\ place' = [place EXCEPT ![t].open = FALSE]
       \/ place' = [place EXCEPT ![t].assigned = ~@]
    /\ UNCHANGED <<soft, fresh, job>>

SoftStep(w) ==
    \/ \E t \in Places, e \in Crew :
          \/ \E target \in SoftType : AdvanceRead(w, t, e, target)
          \/ \E fixed \in BOOLEAN : OpenForm(w, t, e, fixed)
    \/ Advance(w) \/ SubmitForm(w) \/ ClearExpiredViewed(w)
    \/ \E e \in Crew : RecordActivityPing(w, e)
    \/ Abandon(w) /\ UNCHANGED softStates

SoftEnvironment ==
    \/ \E i \in DOMAIN soft : ViewExpires(i)
    \/ \E e \in Crew : HourPasses(e)
    \/ \E t \in Places : PlaceChanges(t)

SoftSpec ==
    /\ SoftInit /\ job = [w \in Workers |-> Idle]
    /\ [][(\E w \in Workers : SoftStep(w)) \/ SoftEnvironment]_softVars

-----------------------------------------------------------------------------
(* What is shown                                                          *)

\* activityStatusFor: availability is not consulted; shiftEnding is the last hour of a shift.
ActivityStatus(e, shiftEnding) ==
    LET types == {soft[i].type : i \in {k \in DOMAIN soft : soft[k].se = e /\ soft[k].live}}
    IN IF "TROUBLESHOOT_STARTED" \in types THEN "BUSY"
       ELSE IF types # {} THEN "ON_SITE"
       ELSE IF shiftEnding THEN "SHIFT_ENDING"
       ELSE IF e \notin fresh THEN "OFFLINE" ELSE "AVAILABLE"

SharedPool(e) ==
    {t \in Places : place[t].open /\ ~place[t].assigned /\ <<e, PlantOfPlace[t]>> \in Coverage}

-----------------------------------------------------------------------------
(* Properties                                                             *)

\* The steps are taken in order: who is troubleshooting has been on site, and who is on site
\* has viewed the ticket, whatever expires, is submitted or overlaps in between (runAdvance).
NoStepSkipped ==
    \A i \in DOMAIN soft, k \in 1..2 :
       soft[i].type = Chain[k + 1] =>
          \E h \in DOMAIN soft :
             h < i /\ soft[h].t = soft[i].t /\ soft[h].se = soft[i].se /\ soft[h].type = Chain[k]

=============================================================================
