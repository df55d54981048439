------------------------------ MODULE Objects -------------------------------
(***************************************************************************)
(* The objects that carry data between tasks and interrupts, side by side: *)
(* a behaviour is one of a queue and a task notification, each with the    *)
(* same tasks on the same kernel, of a stream or message buffer, and of    *)
(* what several queues and sets hold.  What is promised of each kind of    *)
(* object is promised of the four together.                                *)
(***************************************************************************)
EXTENDS Queue

CONSTANTS
  NotifyRole, Times, Actions, MaxValue,   \* of TaskNotify
  RingLength, LengthBytes, Kinds, Triggers, SendSizes, ReceiveSizes, Waits,
  NewTriggers,                            \* of StreamBuffer
  Stores, StoreLength, Sets, Counting, Data, Token, NoQueue, Buffered,
  Shared, Removable, StoreTasks, MaxMiscounts
                                          \* of QueueStorage: the queues are Stores

(* The variables of the notification, the stream buffer and the storage,   *)
(* in the order their modules have them, and 0 in the other behaviours     *)
VARIABLES scenario, v1, v2, v3, v4, v5, v6, v7, v8, v9, v10, v11, v12

From9 == <<v9, v10, v11, v12>>
From4 == <<v4, v5, v6, v7, v8, From9>>
others == <<scenario, v1, v2, v3, From4>>

(* Tasks that take and wait, notified by tasks and by interrupts; they do  *)
(* not delay themselves.                                                   *)
Notify == INSTANCE NotifyProofs
  WITH OvfMod <- 1, Delays <- {}, Role <- NotifyRole,
       value <- v1, call <- v2, disturbed <- v3

Streams == INSTANCE StreamProofs
  WITH Length <- RingLength,
       config <- v1, ring <- v2, head <- v3, tail <- v4, waitingToSend <- v5,
       waitingToReceive <- v6, notify <- v7, w <- v8, r <- v9, sent <- v10, got <- v11,
       lengths <- v12

Storage == INSTANCE StorageProofs
  WITH Queue <- Stores, Length <- StoreLength, Tasks <- StoreTasks,
       queue <- v1, removing <- v2, selected <- v3, allocated <- v4,
       locked <- v5, cTxLock <- v6, unlocking <- v7, miscounts <- v8

Unused9 == v9 = 0 /\ v10 = 0 /\ v11 = 0 /\ v12 = 0
Unused4 == v4 = 0 /\ v5 = 0 /\ v6 = 0 /\ v7 = 0 /\ v8 = 0 /\ Unused9

ObjectsInit ==
  /\ QueueInit
  /\ \/ scenario = "queue" /\ v1 = 0 /\ v2 = 0 /\ v3 = 0 /\ Unused4
     \/ scenario = "notify" /\ Notify!NotifyInit /\ Unused4
     \/ scenario = "stream" /\ Streams!StreamInit
     \/ scenario = "storage" /\ Storage!StorageInit /\ Unused9

ObjectsNext ==
  \/ scenario = "queue" /\ QueueNext /\ UNCHANGED others
  \/ scenario = "notify" /\ Notify!NotifyNext /\ UNCHANGED <<scenario, From4, queueVars>>
  \/ scenario = "stream" /\ Streams!StreamNext /\ UNCHANGED <<scenario, vars>>
  \/ scenario = "storage" /\ Storage!StorageNext /\ UNCHANGED <<scenario, From9, vars>>

ObjectsSpec == ObjectsInit /\ [][ObjectsNext]_<<vars, others>>

-----------------------------------------------------------------------------
(* No task sleeps that has been notified, and none returns as notified     *)
(* that has not been.                                                      *)
NoNoticeLost ==
  scenario = "notify" =>
    Notify!NotifyTypeOK /\ Notify!NoneSleepsNotified /\ Notify!WaitReturnsNotified

(* The ring holds the bytes written and not yet read, whole messages in a  *)
(* message buffer, and the reader gets them in order, although the writer  *)
(* and the reader work at the same time and without a lock; and neither    *)
(* sleeps beside the bytes or the room it waits for.                       *)
RingDelivers ==
  scenario = "stream" =>
    /\ Streams!StreamTypeOK /\ Streams!RingHoldsUnread /\ Streams!DeliversInOrder
    /\ Streams!NoneSleepsInVain

(* The pointers of a queue agree with its count, and its set announces     *)
(* every item once, until the lock of a member has counted one that was    *)
(* overwritten or has left one out.                                        *)
QueuesAnnounce == scenario = "storage" => Storage!PointersAgree /\ Storage!EveryItemAnnounced

(* The rings of items implement bounded queues.                            *)
BoundedByStorage == INSTANCE BoundedQueues
  WITH Queue <- Stores, Length <- StoreLength, Item <- Storage!Item,
       contents <- [q \in Stores |->
                     IF scenario = "storage" THEN Storage!Contents(q) ELSE NoQueue]

QueuesImplementBounded == BoundedByStorage!BoundedSpec
=============================================================================
