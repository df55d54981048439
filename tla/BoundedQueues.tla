---------------------------- MODULE BoundedQueues ---------------------------
(***************************************************************************)
(* What the storage of queue.c promises: every queue is a sequence of at   *)
(* most its length of items, and a step puts an item at one of its ends,   *)
(* takes the first, replaces the only one, or empties the queue.  A new    *)
(* semaphore can hold some from the start.                                 *)
(***************************************************************************)
EXTENDS Naturals, Sequences

CONSTANTS Queue, Length, Item, NoQueue

VARIABLE contents   \* of each queue; NoQueue if it does not exist

Longer(s) ==
  {Append(s, x) : x \in Item} \cup {<<x>> \o s : x \in Item}

(* What can become of contents s of a queue of length n *)
Successors(s, n) ==
  IF s = NoQueue THEN {NoQueue} \cup {[i \in 1 .. m |-> x] : m \in 0 .. n, x \in Item}
  ELSE {s, <<>>, NoQueue}
         \cup (IF Len(s) < n THEN Longer(s) ELSE {})
         \cup (IF s # <<>> THEN {Tail(s)} ELSE {})
         \cup (IF n = 1 THEN {<<x>> : x \in Item} ELSE {})

BoundedInit == contents = [q \in Queue |-> NoQueue]

BoundedNext ==
  /\ contents' # contents
  /\ \A q \in Queue : contents'[q] \in Successors(contents[q], Length[q])

BoundedSpec == BoundedInit /\ [][BoundedNext]_contents

=============================================================================
