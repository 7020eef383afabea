-------------------------- MODULE FailureEpisodes --------------------------
(***************************************************************************)
(* FailureLifecycle implements EpisodeSlot: the slot of a device holds the *)
(* identifier whose failure cycle is active, and the flag is               *)
(* device_states.has_open_failure_cycle.                                   *)
(***************************************************************************)
EXTENDS FailureLifecycle

CONSTANT None

ASSUME NoneAssumption == None \notin Tickets

ActiveOn(d) == {t \in Tickets : DeviceOf[t] = d /\ Active(t)}

SlotOf(d) == IF ActiveOn(d) = {} THEN None ELSE CHOOSE t \in ActiveOn(d) : TRUE

Slot == INSTANCE EpisodeSlot WITH
    Episodes <- Tickets,
    slot <- [d \in Devices |-> SlotOf(d)],
    flag <- hasOpen

\* Whatever overlaps, an episode takes a device over only from no episode at all,
\* and the step that ends it also lowers the device's open-episode flag.
ImplementsEpisodeSlot == Slot!Spec

=============================================================================
