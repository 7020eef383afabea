---------------------------- MODULE Recommender -----------------------------
(****************************************************************************)
(* The recommender's run over one zone: the unassigned tickets in canonical *)
(* order, the candidates of each by strict precedence, the hard filters     *)
(* with their memory of the run, and the rows it leaves.                    *)
(*                                                                          *)
(* The score explains a suggestion and decides nothing: it is left out, and *)
(* so are the two filters the code supplies as always passed.               *)
(****************************************************************************)
EXTENDS Executions, Naturals, Sequences, SequencesExt

CONSTANTS
    Work,         \* tickets of the zone
    Attr,         \* their columns, see AttrRow
    Candidates,   \* engineers, numbered from 1
    Covering,     \* plant -> engineers in the order of orderedCandidatesForPlant
    Capacity,     \* engineer_master.daily_capacity
    PlannerNames,      \* plant -> engineers the planner names for it today
    MaxRecommendations

\* tier, bucket: higher is more urgent, bucket 0 is none; rank: 1 is A; anchor: the last ping, or
\* the target date of an installation.
AttrRow == [kind : {"TROUBLESHOOT", "INSTALL"}, tier : 0..2, bucket : 0..8, rank : Nat,
            anchor : Nat, device : Nat, plant : DOMAIN Covering]

ASSUME RecommenderAssumption ==
    /\ IsFiniteSet(Work) /\ Attr \in [Work -> AttrRow]
    /\ Candidates \subseteq Nat \ {0} /\ Capacity \in [Candidates -> Nat]
    /\ \A p \in DOMAIN Covering : Covering[p] \in Seq(Candidates)
    /\ MaxRecommendations \in Nat

VARIABLES
    unassigned,   \* tickets waiting in the zone
    available,    \* engineers without a window of absence now
    kitComplete,  \* engineers with a complete Common Kit now
    suggested,    \* recommendations, by id
    blocked       \* tickets with an unresolved row in component_blocked_queue

zone == <<unassigned, available, kitComplete, suggested, blocked>>
zoneVars == <<zone, job>>

NoCandidate == 0
Suggestion == [t : Work, se : Candidates \cup {NoCandidate}]

RecommenderTypeOK ==
    /\ unassigned \subseteq Work /\ blocked \subseteq Work
    /\ available \subseteq Candidates /\ kitComplete \subseteq Candidates
    /\ suggested \in Seq(Suggestion) /\ Len(suggested) <= MaxRecommendations

RecommenderInit ==
    /\ unassigned = Work
    /\ available = Candidates /\ kitComplete = Candidates
    /\ suggested = <<>> /\ blocked = {}

-----------------------------------------------------------------------------
(* canonical-sort.ts                                                      *)

LexBefore(k, l) ==
    \E i \in DOMAIN k : k[i] < l[i] /\ \A h \in 1..(i - 1) : k[h] = l[h]

\* compareCandidates; without its bucket also compareInstallCandidates.
Key(t) == LET a == Attr[t] IN <<2 - a.tier, 8 - a.bucket, a.rank, a.anchor, a.device>>

\* canonicalSort: a sort keeps the order of the rows read for equal keys, which is any.
CanonicalOrders(ts) ==
    {q \in SetToSeqs(ts) : \A i, k \in DOMAIN q : i < k => ~LexBefore(Key(q[k]), Key(q[i]))}

OfKind(ts, kind) == {t \in ts : Attr[t].kind = kind}

\* A ticket whose device has no bucket cannot be ranked.
Rankable == {t \in OfKind(unassigned, "TROUBLESHOOT") : Attr[t].bucket > 0}
InstallBacklog == OfKind(unassigned, "INSTALL")

RunLists(mode) ==
    {first \o rest : first \in CanonicalOrders(Rankable),
                     rest \in CanonicalOrders(IF mode = "PREVENTIVE" THEN InstallBacklog ELSE {})}

-----------------------------------------------------------------------------
(* runForZone                                                             *)

RunRead(w, mode) ==
    /\ \E list \in RunLists(mode) :
          Begin(w, [op |-> "recommend", todo |-> list, used |-> [e \in Candidates |-> 0],
                    looked |-> {}, present |-> {}, kitted |-> {}, mine |-> {}])
    /\ UNCHANGED zone

CandidatesOf(t) == Covering[Attr[t].plant]

\* What is known of the engineers once ticket t is looked at: each is looked up once in a run.
Looked(j, t) ==
    LET new == ToSet(CandidatesOf(t)) \ j.looked
    IN [j EXCEPT !.looked = @ \cup new,
                 !.present = @ \cup (new \cap available),
                 !.kitted = @ \cup (new \cap kitComplete)]

\* Fault: an engineer at capacity passes.
PassesOverCapacity(j, e) == e \in j.present /\ j.used[e] <= Capacity[e] /\ e \in j.kitted
Passes(j, e) == e \in j.present /\ j.used[e] < Capacity[e] /\ e \in j.kitted

\* The places of those who pass among the candidates.
Passed(j, t) == {i \in DOMAIN CandidatesOf(t) : Passes(j, CandidatesOf(t)[i])}

\* The first of the planner's engineers, else the first of all.
Chosen(j, t) ==
    LET named == {i \in Passed(j, t) : CandidatesOf(t)[i] \in PlannerNames[Attr[t].plant]}
    IN CandidatesOf(t)[Min(IF named # {} THEN named ELSE Passed(j, t))]

DroppedForKit(j, t) ==
    \E e \in ToSet(CandidatesOf(t)) : e \in j.present /\ j.used[e] < Capacity[e] /\ e \notin j.kitted

Room == Len(suggested) < MaxRecommendations

Done(w, j) == IF Len(j.todo) = 1 THEN Finish(w) ELSE Proceed(w, [j EXCEPT !.todo = Tail(@)])

\* The run has written one row more; mine, its rows' ids, is only there for RunIsFair.
Wrote(j) == [j EXCEPT !.mine = @ \cup {Len(suggested) + 1}]

\* Nobody passes: a row all the same, and then the reason the manager sees.
Unassignable(w) ==
    /\ Running(w, "recommend") /\ job[w].todo # <<>> /\ Room
    /\ LET t == Head(job[w].todo)
           j == Looked(job[w], t)
       IN /\ Passed(j, t) = {}
          /\ suggested' = Append(suggested, [t |-> t, se |-> NoCandidate])
          /\ IF DroppedForKit(j, t) THEN Proceed(w, [Wrote(j) EXCEPT !.op = "block"])
                                    ELSE Done(w, Wrote(j))
    /\ UNCHANGED <<unassigned, available, kitComplete, blocked>>

RecordComponentBlock(w) ==
    /\ Running(w, "block")
    /\ blocked' = blocked \cup {Head(job[w].todo)}
    /\ Done(w, [job[w] EXCEPT !.op = "recommend"])
    /\ UNCHANGED <<unassigned, available, kitComplete, suggested>>

\* A stale block is resolved before the suggestion is written.
ResolveComponentBlock(w) ==
    /\ Running(w, "recommend") /\ job[w].todo # <<>>
    /\ LET t == Head(job[w].todo)
           j == Looked(job[w], t)
       IN /\ Passed(j, t) # {}
          /\ blocked' = blocked \ {t}
          /\ Proceed(w, [op |-> "suggest", j |-> j, se |-> Chosen(j, t)])
    /\ UNCHANGED <<unassigned, available, kitComplete, suggested>>

Suggest(w) ==
    /\ Running(w, "suggest") /\ Room
    /\ suggested' = Append(suggested, [t |-> Head(job[w].j.todo), se |-> job[w].se])
    /\ Done(w, [Wrote(job[w].j) EXCEPT !.used[job[w].se] = @ + 1])
    /\ UNCHANGED <<unassigned, available, kitComplete, blocked>>

NothingToDo(w) ==
    /\ Running(w, "recommend") /\ job[w].todo = <<>>
    /\ Finish(w)
    /\ UNCHANGED zone

-----------------------------------------------------------------------------
\* Leaves, the ledger and the managers go on during a run.
ZoneChanges ==
    /\ \/ \E e \in Candidates :
             \/ available' = (available \ {e}) \cup ({e} \ available) /\ UNCHANGED kitComplete
             \/ kitComplete' = (kitComplete \ {e}) \cup ({e} \ kitComplete) /\ UNCHANGED available
          /\ UNCHANGED unassigned
       \/ /\ \E t \in unassigned : unassigned' = unassigned \ {t}
          /\ UNCHANGED <<available, kitComplete>>
    /\ UNCHANGED <<suggested, blocked, job>>

RecommenderStep(w) ==
    \/ \E mode \in {"DEFICIT", "PREVENTIVE"} : RunRead(w, mode)
    \/ Unassignable(w) \/ RecordComponentBlock(w) \/ ResolveComponentBlock(w)
    \/ Suggest(w) \/ NothingToDo(w)
    \/ Abandon(w) /\ UNCHANGED zone

RecommenderSpec ==
    /\ RecommenderInit /\ job = [w \in Workers |-> Idle]
    /\ [][(\E w \in Workers : RecommenderStep(w)) \/ ZoneChanges]_zoneVars

-----------------------------------------------------------------------------
(* Properties                                                             *)

\* Of the rows a run has written while it goes on, whatever another run of the zone writes in
\* between: it has given nobody more than the capacity, it has left a ticket out only if every
\* engineer of its plant is absent, full or without a kit as far as the run knows, and within a
\* kind a row of a higher tier never follows one of a lower (runForZone, canonicalSort).
RunIsFair ==
    \A w \in Workers : Running(w, "recommend") =>
       LET j == job[w] IN
       /\ j.mine \subseteq DOMAIN suggested
       /\ \A e \in Candidates :
             Cardinality({i \in j.mine : suggested[i].se = e}) <= Capacity[e]
       /\ \A i \in j.mine : suggested[i].se = NoCandidate =>
             \A e \in ToSet(CandidatesOf(suggested[i].t)) :
                e \notin j.present \/ e \notin j.kitted \/ j.used[e] = Capacity[e]
       /\ \A i, k \in j.mine :
             i < k /\ Attr[suggested[i].t].kind = Attr[suggested[k].t].kind =>
                Attr[suggested[i].t].tier >= Attr[suggested[k].t].tier

=============================================================================
