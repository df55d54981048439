---------------------------- MODULE MCEventGroup ----------------------------
(***************************************************************************)
(* Two tasks that wait, one for all and one for any of the bits, of which  *)
(* one also sets a bit and synchronises with the third, and a task that    *)
(* sets, clears and deletes.                                               *)
(***************************************************************************)
EXTENDS EventGroup, TLC

CONSTANTS idle, a, b, c, x, y

None(S) == [t \in S |-> {}]
GroupPrio == (idle :> 0) @@ (a :> 1) @@ (b :> 2) @@ (c :> 1)
GroupWaits == None({idle, c})
  @@ (a :> {[bits |-> {x, y}, all |-> TRUE, clear |-> TRUE]})
  @@ (b :> {[bits |-> {x}, all |-> FALSE, clear |-> TRUE],
            [bits |-> {x, y}, all |-> FALSE, clear |-> FALSE]})
GroupSets == None({idle, a}) @@ (b :> {{y}}) @@ (c :> {{x}, {y}, {x, y}})
GroupClears == None({idle, a, b}) @@ (c :> {{y}})
GroupSyncs == None({idle, a})
  @@ (b :> {[set |-> {y}, bits |-> {x, y}]}) @@ (c :> {[set |-> {x}, bits |-> {x, y}]})

ASSUME EventGroupAssumption
=============================================================================
