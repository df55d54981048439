----------------------------- MODULE MCObjects ------------------------------
(***************************************************************************)
(* A queue, a task notification and a stream or message buffer, each with  *)
(* two tasks of different priority; and what queues and a set hold.        *)
(***************************************************************************)
EXTENDS Objects, TLC

CONSTANTS idle, low, high, tx, rx, q1, q2, set, count, item1, item2, token, none

(* Two tasks of different priority that send and receive, one of which     *)
(* also peeks, and interrupts that send and receive.                       *)
ObjectsPrio == (idle :> 0) @@ (low :> 1) @@ (high :> 2)
ObjectsRole == (idle :> {}) @@ (low :> {"send", "receive", "peek"}) @@ (high :> {"send", "receive"})

(* Two tasks that take and wait, notified by tasks and by interrupts; and  *)
(* a ring of three bytes, in the configuration.                            *)
ObjectsNotifyRole == (idle :> {}) @@ (low :> {"take"}) @@ (high :> {"take", "wait"})

(* A queue, one of length 1, a set and a counting semaphore                *)
ObjectsStoreLength == (q1 :> 2) @@ (q2 :> 1) @@ (set :> 4) @@ (count :> 1)

ASSUME ObjectsAssumption ==
  /\ QueueAssumption /\ Notify!NotifyAssumption /\ Streams!StreamBufferAssumption
  /\ Streams!LevelOnlyRises
  /\ Storage!StorageAssumption /\ Storage!SetAssumption
=============================================================================
