------------------------------ MODULE MCDesks -------------------------------
(**************************************************************************)
(* A small instance of every desk.                                        *)
(**************************************************************************)
EXTENDS Desks

CONSTANTS p1, p2, t1, t3, u1, u2, u3, c1, c2

\* Day Plans: t1 is at plant p1, t3 at p2.
MCPlantOf == [t \in Tickets |-> IF t = t3 THEN p2 ELSE p1]

\* Vouchers: u1 claims and reviews in his zone, u2 has no zone, u3 sees every zone.
MCClaimantOf == [c \in Claims |-> IF c = c1 THEN u1 ELSE "engineer"]
MCZoneOf == [u \in {u1, u2, u3, "engineer"} |-> IF u \in {u2, u3} THEN "none" ELSE "home"]

MCDays == 1..2

\* Soft states: every engineer covers p1.
MCPlantOfPlace == [t \in Places |-> p1]
MCCoverage == Crew \X {p1}

\* Telemetry: two hours of different bands.
MCHours == {0, 4}

\* Recommender: two troubleshoot tickets, one of the higher tier and the other of the higher
\* bucket, and an installation.
MCAttr == 1 :> [kind |-> "TROUBLESHOOT", tier |-> 2, bucket |-> 1, rank |-> 1, anchor |-> 5,
                device |-> 1, plant |-> p1]
       @@ 2 :> [kind |-> "TROUBLESHOOT", tier |-> 0, bucket |-> 8, rank |-> 1, anchor |-> 5,
                device |-> 2, plant |-> p1]
       @@ 4 :> [kind |-> "INSTALL", tier |-> 1, bucket |-> 0, rank |-> 2, anchor |-> 1,
                device |-> 4, plant |-> p2]
Known(q) == SelectSeq(q, LAMBDA e : e \in Candidates)
MCCovering == p1 :> Known(<<1, 2>>) @@ p2 :> Known(<<2>>)
MCCapacity == [e \in Candidates |-> 1]
MCPlannerNames == p1 :> {2} @@ p2 :> {}

\* Of the Day Plans, the field tickets, the escalations and the soft states.
EngineerSymmetry == Permutations(Engineers)
WorkerSymmetry == Permutations(Engineers) \cup Permutations(Workers)

=============================================================================
