----------------------------- MODULE Allocator ------------------------------
(***************************************************************************)
(* What the heap promises its callers: the memory it hands out lies in the *)
(* heap, is aligned, has the size asked for, and belongs to nobody else    *)
(* until it is given back.                                                 *)
(***************************************************************************)
EXTENDS Integers

CONSTANTS
  Low, High,    \* the heap's addresses are Low .. High - 1
  Alignment

VARIABLE used   \* the regions handed out

Region == [at : Low .. High, length : Nat]

Disjoint(r, s) == r.at + r.length <= s.at \/ s.at + s.length <= r.at

AllocatorInit == used = {}

Allocate(r) ==
  /\ r \in Region /\ r.length > 0
  /\ r.at % Alignment = 0 /\ r.at + r.length <= High
  /\ \A s \in used : Disjoint(r, s)
  /\ used' = used \cup {r}

Release(r) == r \in used /\ used' = used \ {r}

AllocatorNext ==
  \/ \E r \in used' \ used : Allocate(r)
  \/ \E r \in used \ used' : Release(r)

AllocatorSpec == AllocatorInit /\ [][AllocatorNext]_used

=============================================================================
