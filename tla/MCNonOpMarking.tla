--------------------------- MODULE MCNonOpMarking ---------------------------
(**************************************************************************)
(* Small instances of NonOpMarking: two requests for device d1, the first *)
(* of which sends an engineer to retrieve the device, and one for d2.     *)
(**************************************************************************)
EXTENDS NonOpMarking, TLC

CONSTANTS d1, d2, m1, m2, m3

MCDeviceOf == [m \in Markings |-> IF m = m3 THEN d2 ELSE d1]
WorkerSymmetry == Permutations(Workers)

=============================================================================
