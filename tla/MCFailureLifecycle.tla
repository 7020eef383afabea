------------------------- MODULE MCFailureLifecycle -------------------------
(**************************************************************************)
(* Small instances of FailureLifecycle: one device with one or two        *)
(* episodes and their drafts, one of which reports a missing component.   *)
(**************************************************************************)
EXTENDS FailureEpisodes, TLC

CONSTANTS d1, t1, t2, x1, x2

OneDevice == [t \in Tickets |-> d1]

\* x1 reports a missing component for t1, x2 repairs t1.
DraftTickets == [x \in Drafts |-> t1]

WorkerSymmetry == Permutations(Workers)

=============================================================================
