---------------------------- MODULE MCEventTimers ----------------------------
(* Small instances of the timer queue for TLC. *)
EXTENDS EventTimers, TLC

CONSTANTS a, b, c
=============================================================================
