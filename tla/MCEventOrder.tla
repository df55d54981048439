---------------------------- MODULE MCEventOrder ----------------------------
(* Two tasks wait on an object while a third changes a priority. *)
EXTENDS Scheduler, TLC

CONSTANTS idle, a, b, c

MCPrio == (idle :> 0) @@ (a :> 1) @@ (b :> 2) @@ (c :> 0)
=============================================================================
