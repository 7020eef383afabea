------------------------ MODULE MCIntradayInsertion -------------------------
(**************************************************************************)
(* Small instances of IntradayInsertion: every ticket is at plant p1.     *)
(**************************************************************************)
EXTENDS IntradayInsertion, TLC

CONSTANT p1

MCPlantOf == [t \in Tickets |-> p1]
Symmetry == Permutations(Engineers) \cup Permutations(Workers)

=============================================================================
