---------------------------- MODULE MCScheduler -----------------------------
(* Small instances of Scheduler for TLC. *)
EXTENDS Scheduler, TLC

CONSTANTS idle, a, b

MCPrioTwo == (idle :> 0) @@ (a :> 1) @@ (b :> 2)
=============================================================================
