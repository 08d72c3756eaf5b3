---------------------------- MODULE MCIntegration ----------------------------
(* Values of the constants of Integration for the model checker. *)
EXTENDS Integration

MCValues == [enabled : BOOLEAN, schedule : Schedules \union {Default}]
=============================================================================
