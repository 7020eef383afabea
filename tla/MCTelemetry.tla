---------------------------- MODULE MCTelemetry ------------------------------
(* Ingestion by itself, under the fairness of a run that was started.     *)
EXTENDS Telemetry

MCHours == {0, 5}

=============================================================================
