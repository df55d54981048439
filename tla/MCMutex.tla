------------------------------ MODULE MCMutex -------------------------------
(***************************************************************************)
(* Two mutexes, the first recursive.  The lowest of three tasks takes      *)
(* both; the others wait for the first, sleep, and the middle one's wait   *)
(* can be aborted.                                                         *)
(***************************************************************************)
EXTENDS Mutex, TLC

CONSTANTS idle, a, b, c, m1, m2

MutexPrio == (idle :> 0) @@ (a :> 1) @@ (b :> 2) @@ (c :> 3)
MutexUses == (idle :> {}) @@ (a :> {<<m1, 0>>, <<m2, 0>>}) @@ (b :> {<<m1, 2>>})
               @@ (c :> {<<m1, 1>>})

ASSUME MutexAssumption
=============================================================================
