------------------------------ MODULE MCQueue -------------------------------
(* Two tasks of different priority that send and receive, one of which     *)
(* also peeks, and interrupts that send and receive.                       *)
EXTENDS Queue, TLC

CONSTANTS idle, a, b, tx, rx

MCPrio == (idle :> 0) @@ (a :> 1) @@ (b :> 2)
MCRole == (idle :> {}) @@ (a :> {"send", "receive", "peek"}) @@ (b :> {"send", "receive"})
=============================================================================
