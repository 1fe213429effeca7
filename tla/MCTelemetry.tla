---------------------------- MODULE MCTelemetry ----------------------------
(* A small instance of Telemetry for TLC. *)
EXTENDS Telemetry, TLC
CONSTANTS s1, s2, m1, f1, f2
=============================================================================
