------------------------------ MODULE Stopwatch ------------------------------
(**************************************************************************)
(* What the pause and resume code promises about the clock of a cycle: a  *)
(* stopwatch.  It shows how long it has run; while it is stopped it times *)
(* the pause, which is not shown unless it is stopped a second time: then *)
(* the pause so far counts as running, and the pause begins anew.         *)
(**************************************************************************)
EXTENDS Naturals

VARIABLES
    time,     \* since the stopwatch was started
    shown,    \* the time shown
    running,  \* not stopped
    pause     \* how long it has been stopped, 0 while it runs

Init == time = 0 /\ shown = 0 /\ running = TRUE /\ pause = 0

Tick ==
    /\ time' = time + 1
    /\ shown' = IF running THEN shown + 1 ELSE shown
    /\ pause' = IF running THEN pause ELSE pause + 1
    /\ UNCHANGED running

Stop ==
    /\ running
    /\ running' = FALSE
    /\ UNCHANGED <<time, shown, pause>>

\* The pause that was running is taken back.
StopAgain ==
    /\ ~running
    /\ shown' = shown + pause
    /\ pause' = 0
    /\ UNCHANGED <<time, running>>

Restart ==
    /\ ~running
    /\ running' = TRUE
    /\ pause' = 0
    /\ UNCHANGED <<time, shown>>

Next == Tick \/ Stop \/ StopAgain \/ Restart

Spec == Init /\ [][Next]_<<time, shown, running, pause>>

=============================================================================
