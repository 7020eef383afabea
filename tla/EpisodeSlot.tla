---------------------------- MODULE EpisodeSlot ----------------------------
(**************************************************************************)
(* What the failure lifecycle promises about one active episode per       *)
(* device: a device has one slot, an episode occupies it only when it is  *)
(* free and leaves it before another one comes, and the open-episode flag *)
(* is raised only while the slot is occupied.                             *)
(**************************************************************************)
CONSTANTS
    Devices,
    Episodes,
    None  \* not an episode

VARIABLES
    slot,  \* the episode that occupies the device
    flag   \* the device is known to have an open episode

Init ==
    /\ slot = [d \in Devices |-> None]
    /\ flag = [d \in Devices |-> FALSE]

\* An episode starts, or comes back, when no other one is there.
Occupy(d, e) ==
    /\ slot[d] = None
    /\ slot' = [slot EXCEPT ![d] = e]
    /\ \E raise \in BOOLEAN : flag' = [flag EXCEPT ![d] = raise]

Vacate(d) ==
    /\ slot' = [slot EXCEPT ![d] = None]
    /\ flag' = [flag EXCEPT ![d] = FALSE]

LowerFlag(d) ==
    /\ flag' = [flag EXCEPT ![d] = FALSE]
    /\ UNCHANGED slot

Next == \E d \in Devices : Vacate(d) \/ LowerFlag(d) \/ \E e \in Episodes : Occupy(d, e)

Spec == Init /\ [][Next]_<<slot, flag>>

=============================================================================
