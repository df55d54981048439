-------------------------- MODULE MCStaleReadyBit ---------------------------
(* The middle task of three holds a mutex the highest waits for, with a    *)
(* block time, and waits itself for one the lowest holds.                  *)
EXTENDS Mutex, TLC

CONSTANTS idle, a, b, c, m1, m2

MCPrio == (idle :> 0) @@ (a :> 1) @@ (b :> 2) @@ (c :> 3)
MCUses == (idle :> {}) @@ (a :> {<<m2, 0>>}) @@ (b :> {<<m1, 1>>, <<m2, 1>>})
            @@ (c :> {<<m1, 1>>})
=============================================================================
