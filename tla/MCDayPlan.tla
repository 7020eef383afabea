----------------------------- MODULE MCDayPlan ------------------------------
(**************************************************************************)
(* Small instances of DayPlan: tickets t1 and t2 at plant p1, t3 at p2.   *)
(**************************************************************************)
EXTENDS DayPlan

CONSTANTS p1, p2, t3

MCPlantOf == [t \in Tickets |-> IF t = t3 THEN p2 ELSE p1]

=============================================================================
