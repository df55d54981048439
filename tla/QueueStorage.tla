---------------------------- MODULE QueueStorage ----------------------------
(***************************************************************************)
(* What queues hold: the life of the queues of queue.c, from the heap or   *)
(* from buffers, the ring in which each keeps its items, and queue sets    *)
(* (configUSE_QUEUE_SETS), whose items are handles of their members.       *)
(* Tasks and interrupts reach the storage in critical sections only.  The  *)
(* blocking around them is the subject of Queue; of it only the lock of a  *)
(* queue is here, because what interrupts send to a locked queue its set   *)
(* hears of when it is unlocked.                                           *)
(***************************************************************************)
EXTENDS Naturals, Sequences, FiniteSets

CONSTANTS
  Queue,      \* the queues' control blocks
  Length,     \* uxLength of each
  Sets,       \* those made by xQueueCreateSet
  Counting,   \* the counting semaphores: queues with items of size 0
  Data,       \* what the others hold
  Token,      \* stands for an item of size 0
  NoQueue,    \* NULL
  Buffered,   \* those made in a buffer, by the static functions
  Shared,     \* those that others than the task that removes them send to
  Removable,  \* the queues xQueueRemoveFromSet is called for
  Tasks,      \* uxTaskGetNumberOfTasks()
  MaxMiscounts  \* bound: on miscounts

Item == Data \cup Queue \cup {Token}

(* A control block of q: the ring with pcWriteTo and pcReadFrom as indices, *)
(* uxMessagesWaiting, ucStaticallyAllocated, pxQueueSetContainer            *)
Block(q) ==
  [items : [0 .. Length[q] - 1 -> Item \cup {NoQueue}],
   write : 0 .. Length[q] - 1, read : 0 .. Length[q] - 1, waiting : 0 .. Length[q],
   static : BOOLEAN, set : Sets \cup {NoQueue}]

(* NULL is no queue and nothing that one holds.                            *)
StorageAssumption ==
  /\ IsFiniteSet(Queue) /\ Length \in [Queue -> Nat \ {0}]
  /\ Sets \subseteq Queue /\ Counting \subseteq Queue \ Sets
  /\ Tasks \in Nat \ {0} /\ MaxMiscounts \in Nat
  /\ NoQueue \notin Item \cup Seq(Item) /\ \A q \in Queue : NoQueue \notin Block(q)

(* A set has room for every item of the queues that can be its members, as *)
(* queue.h asks of uxEventQueueLength, and nothing else sends to a queue   *)
(* while it is removed from a set.                                         *)
Places == UNION {{q} \X (1 .. Length[q]) : q \in Queue \ Sets}

SetAssumption ==
  (\A s \in Sets : Cardinality(Places) <= Length[s]) /\ Shared \cap Removable = {}

VARIABLES
  queue,      \* the control block of each queue, or NoQueue
  removing,   \* the queues whose removal from a set was found possible
  selected,   \* history: how often each was selected and is still to be read
  allocated,  \* the queues whose memory is from the heap
  locked,     \* the member of a set a task has locked, with the scheduler
              \* suspended; NoQueue if none is
  cTxLock,    \* its count of what was sent since
  unlocking,  \* is the task in the critical section of prvUnlockQueue?
  miscounts   \* history: how often cTxLock counted a send that added no item,
              \* or did not count one that did

lockVars == <<locked, cTxLock, unlocking, miscounts>>
vars == <<queue, removing, selected, allocated, lockVars>>

Exists(q) == queue[q] # NoQueue

(* What q holds, oldest first: of a semaphore only the number counts, the  *)
(* items of a queue are those after pcReadFrom                             *)
Contents(q) ==
  IF ~Exists(q) THEN NoQueue
  ELSE IF q \in Counting THEN [i \in 1 .. queue[q].waiting |-> Token]
  ELSE [i \in 1 .. queue[q].waiting |-> queue[q].items[(queue[q].read + i) % Length[q]]]

StorageInit ==
  /\ queue = [q \in Queue |-> NoQueue]
  /\ removing = {} /\ selected = [q \in Queue |-> 0]
  /\ allocated = {}
  /\ locked = NoQueue /\ cTxLock = 0 /\ unlocking = FALSE /\ miscounts = 0

(* Other tasks run only when the scheduler is not suspended, interrupts    *)
(* also between the two critical sections of the lock.                     *)
TasksRun == locked = NoQueue
InterruptsRun == ~unlocking

-----------------------------------------------------------------------------
(* uxQueueMessagesWaiting, prvIsQueueEmpty, prvIsQueueFull *)
IsQueueEmpty(q) == queue[q].waiting = 0
IsQueueFull(q) == queue[q].waiting = Length[q]

(* xQueueGenericReset: slots that hold no item are never read again; they  *)
(* are all the same here                                                   *)
Cleared(q, static) ==
  [items |-> [i \in 0 .. Length[q] - 1 |-> NoQueue], write |-> 0, read |-> Length[q] - 1,
   waiting |-> 0, static |-> static, set |-> NoQueue]

(* xQueueGenericCreate and xQueueGenericCreateStatic, if there is memory;  *)
(* prvInitialiseNewQueue.  xQueueCreateCountingSemaphore, with its initial *)
(* count, and the static version of it                                     *)
Create(q, static) ==
  /\ TasksRun
  /\ ~Exists(q)
  /\ \E n \in IF q \in Counting THEN 0 .. Length[q] ELSE {0} :
       queue' = [queue EXCEPT ![q] = [Cleared(q, static) EXCEPT !.waiting = n]]
  /\ allocated' = IF static THEN allocated ELSE allocated \cup {q}
  /\ UNCHANGED <<removing, selected, lockVars>>

(* Faulty: the read pointer stays *)
Reset_KeepsRead(q) ==
  /\ TasksRun
  /\ Exists(q) /\ queue[q].set = NoQueue /\ q \notin Sets
  /\ queue' = [queue EXCEPT ![q].write = 0, ![q].waiting = 0]
  /\ UNCHANGED <<removing, selected, allocated, lockVars>>

(* xQueueReset, of a queue that is in no set and is none *)
Reset(q) ==
  /\ TasksRun
  /\ Exists(q) /\ queue[q].set = NoQueue /\ q \notin Sets
  /\ queue' = [queue EXCEPT ![q] = Cleared(q, @.static)]
  /\ UNCHANGED <<removing, selected, allocated, lockVars>>

(* vQueueDelete, of a queue that is in no set and is none *)
Delete(q) ==
  /\ TasksRun
  /\ Exists(q) /\ queue[q].set = NoQueue /\ q \notin Sets \cup removing
  /\ queue' = [queue EXCEPT ![q] = NoQueue]
  /\ allocated' = IF queue[q].static THEN allocated ELSE allocated \ {q}
  /\ UNCHANGED <<removing, selected, lockVars>>

-----------------------------------------------------------------------------
(* prvCopyDataToQueue *)
ToBack(r, x, n) ==
  [r EXCEPT !.items[r.write] = x, !.write = (@ + 1) % n, !.waiting = @ + 1]

(* Faulty: the read pointer moves before the item is stored *)
ToFront_Before(r, x, n, waiting) ==
  LET read == (r.read + n - 1) % n
  IN  [r EXCEPT !.items[read] = x, !.read = read, !.waiting = waiting]

ToFront(r, x, n, waiting) ==
  [r EXCEPT !.items[r.read] = x, !.read = (@ + n - 1) % n, !.waiting = waiting]

(* queueOVERWRITE is for queues of one item. *)
Position(q) ==
  {"back", "front"} \cup (IF Length[q] = 1 THEN {"overwrite"} ELSE {})

CopyDataToQueue(q, x, position) ==
  LET r == queue[q]
  IN  CASE position = "back"  -> ToBack(r, x, Length[q])
        [] position = "front" -> ToFront(r, x, Length[q], r.waiting + 1)
        [] OTHER              -> ToFront(r, x, Length[q], 1)

(* prvCopyDataFromQueue, and the count of its caller *)
Taken(q) ==
  LET read == (queue[q].read + 1) % Length[q]
  IN  IF q \in Counting THEN [queue[q] EXCEPT !.waiting = @ - 1]
      ELSE [queue[q] EXCEPT !.read = read, !.waiting = @ - 1, !.items[read] = NoQueue]

(* An item that does not replace one *)
IsNew(q, position) == position = "overwrite" => queue[q].waiting = 0

(* Faulty: an item that replaces another is announced again *)
Announced_Again(q, position) == queue[q].set # NoQueue /\ locked # q

(* The container is notified of a new item, unless the queue is locked. *)
Announced(q, position) ==
  queue[q].set # NoQueue /\ locked # q /\ IsNew(q, position)

(* prvNotifyQueueSetContainer: a handle that does not fit is dropped *)
NotifyQueueSetContainer(s, q) ==
  IF ~IsQueueFull(s) THEN ToBack(queue[s], q, Length[s]) ELSE queue[s]

(* What is stored, and what the container of q hears of it *)
Stored(q, r, position) ==
  [o \in Queue |-> IF o = q THEN r
                   ELSE IF o = queue[q].set /\ Announced(q, position)
                     THEN NotifyQueueSetContainer(o, q)
                     ELSE queue[o]]

(* prvIncrementQueueTxLock: an interrupt counts what it sends to a locked  *)
(* queue, an item that replaces another too, but no more than there are    *)
(* tasks.                                                                  *)
Counts(q) == locked = q /\ cTxLock < Tasks
Miscounts(q, position) == locked = q /\ Counts(q) # IsNew(q, position)

IncrementQueueTxLock(q, position) ==
  /\ cTxLock' = IF Counts(q) THEN cTxLock + 1 ELSE cTxLock
  /\ IF Miscounts(q, position) THEN miscounts < MaxMiscounts /\ miscounts' = miscounts + 1
                               ELSE UNCHANGED miscounts
  /\ UNCHANGED <<locked, unlocking>>

(* xQueueGenericSend and xQueueGenericSendFromISR when there is room *)
Send(q, x, position) ==
  /\ InterruptsRun
  /\ Exists(q) /\ q \notin Sets \cup Counting
  /\ q \in removing => q \in Shared
  /\ IsQueueFull(q) => position = "overwrite"
  /\ queue' = Stored(q, CopyDataToQueue(q, x, position), position)
  /\ IncrementQueueTxLock(q, position)
  /\ UNCHANGED <<removing, selected, allocated>>

(* xSemaphoreGive and xQueueGiveFromISR: a semaphore only counts *)
Give(q) ==
  /\ InterruptsRun
  /\ Exists(q) /\ q \in Counting /\ ~IsQueueFull(q)
  /\ q \in removing => q \in Shared
  /\ queue' = Stored(q, [queue[q] EXCEPT !.waiting = @ + 1], "back")
  /\ IncrementQueueTxLock(q, "back")
  /\ UNCHANGED <<removing, selected, allocated>>

(* prvLockQueue, by a task that is about to block on q.  Nothing here      *)
(* depends on the lock of a queue that is in no set.                       *)
LockQueue(q) ==
  /\ TasksRun /\ Exists(q) /\ queue[q].set # NoQueue
  /\ locked' = q
  /\ UNCHANGED <<queue, removing, selected, allocated, cTxLock, unlocking, miscounts>>

(* prvUnlockQueue, a critical section: the container is notified once for  *)
(* each that was counted, ...                                              *)
NotifyCounted ==
  /\ locked # NoQueue /\ cTxLock > 0
  /\ queue' = [o \in Queue |-> IF o = queue[locked].set THEN NotifyQueueSetContainer(o, locked)
                                                       ELSE queue[o]]
  /\ unlocking' = TRUE /\ cTxLock' = cTxLock - 1
  /\ UNCHANGED <<removing, selected, allocated, locked, miscounts>>

(* ... and the queue is free. *)
UnlockQueue ==
  /\ locked # NoQueue /\ cTxLock = 0
  /\ locked' = NoQueue /\ unlocking' = FALSE
  /\ UNCHANGED <<queue, removing, selected, allocated, cTxLock, miscounts>>

(* xQueueReceive and xQueueReceiveFromISR; a member of a set is read only  *)
(* after it was selected                                                   *)
Receive(q) ==
  /\ InterruptsRun
  /\ Exists(q) /\ ~IsQueueEmpty(q) /\ q \notin Sets
  /\ queue[q].set # NoQueue => selected[q] > 0
  /\ queue' = [queue EXCEPT ![q] = Taken(q)]
  /\ selected' = [selected EXCEPT ![q] = IF queue[q].set # NoQueue THEN @ - 1 ELSE @]
  /\ UNCHANGED <<removing, allocated, lockVars>>

(* xQueueSelectFromSet and xQueueSelectFromSetFromISR *)
SelectFromSet(s) ==
  /\ InterruptsRun
  /\ Exists(s) /\ s \in Sets /\ ~IsQueueEmpty(s)
  /\ queue' = [queue EXCEPT ![s] = Taken(s)]
  /\ selected' = [selected EXCEPT ![Head(Contents(s))] = @ + 1]
  /\ UNCHANGED <<removing, allocated, lockVars>>

(* xQueueAddToSet, a critical section *)
AddToSet(q, s) ==
  /\ TasksRun
  /\ Exists(q) /\ Exists(s) /\ s \in Sets /\ q \notin Sets
  /\ queue[q].set = NoQueue /\ IsQueueEmpty(q)
  /\ queue' = [queue EXCEPT ![q].set = s]
  /\ UNCHANGED <<removing, selected, allocated, lockVars>>

(* xQueueRemoveFromSet: the test ... *)
RemoveFromSet(q) ==
  /\ TasksRun
  /\ Exists(q) /\ q \in Removable \ removing
  /\ queue[q].set # NoQueue /\ IsQueueEmpty(q)
  /\ removing' = removing \cup {q}
  /\ UNCHANGED <<queue, selected, allocated, lockVars>>

(* ... and the critical section after it *)
Removed(q) ==
  /\ TasksRun
  /\ q \in removing
  /\ removing' = removing \ {q}
  /\ queue' = [queue EXCEPT ![q].set = NoQueue]
  /\ UNCHANGED <<selected, allocated, lockVars>>

StorageNext ==
  \/ \E q \in Queue :
       \/ Create(q, q \in Buffered)
       \/ Reset(q) \/ Delete(q) \/ Receive(q) \/ SelectFromSet(q)
       \/ RemoveFromSet(q) \/ Removed(q)
       \/ Give(q) \/ LockQueue(q)
       \/ \E x \in Data, p \in Position(q) : Send(q, x, p)
       \/ \E s \in Sets : AddToSet(q, s)
  \/ NotifyCounted \/ UnlockQueue

StorageSpec == StorageInit /\ [][StorageNext]_vars

-----------------------------------------------------------------------------
(* Properties. *)

(* The pointers never leave the ring and agree with the number of items,   *)
(* so that pcWriteTo never passes an item that is still to be read.  The   *)
(* heap has given memory to exactly the queues made from it.               *)
PointersAgree ==
  /\ allocated \subseteq {q \in Queue : Exists(q)}
  /\ \A q \in Queue : Exists(q) =>
       /\ queue[q].waiting <= Length[q]
       /\ queue[q].static <=> q \notin allocated
       /\ q \notin Counting => queue[q].write = (queue[q].read + 1 + queue[q].waiting) % Length[q]

(* Every item in a member of a set was announced and is still to be        *)
(* selected or read, or is counted by the lock and will be announced, once *)
(* each: a task that waits on the set misses none, and is never sent to a  *)
(* queue that holds nothing.  It is so until the count of a lock goes      *)
(* wrong: when an interrupt overwrites the item of a locked member, or     *)
(* sends it more than there are tasks.                                     *)
AnnouncedFor(q) ==
  LET s == queue[q].set
  IN  Cardinality({i \in 1 .. queue[s].waiting : Contents(s)[i] = q}) + selected[q]

Counted(q) == IF locked = q THEN cTxLock ELSE 0

EveryItemAnnounced ==
  miscounts = 0 => \A q \in Queue : Exists(q) /\ queue[q].set # NoQueue =>
                     AnnouncedFor(q) + Counted(q) = queue[q].waiting

(* "Do not notify the queue set as an existing item was overwritten in the *)
(* queue so the number of items in the queue has not changed" (queue.c):   *)
(* a member is not announced more often than it has items.                 *)
OverwriteNotAnnounced ==
  \A q \in Queue : Exists(q) /\ queue[q].set # NoQueue => AnnouncedFor(q) <= queue[q].waiting

(* "A queue or semaphore can only be removed from a queue set if the queue  *)
(* or semaphore is empty" (queue.h): it holds when the queue was tested,    *)
(* and need not when it leaves the set.                                     *)
RemovedOnlyIfEmpty ==
  [][\A q \in Queue : Exists(q) /\ queue[q].set # NoQueue /\ Removed(q) => IsQueueEmpty(q)]_vars

(* The rings of items implement bounded queues, whichever ends are used.   *)
Abstract == INSTANCE BoundedQueues WITH contents <- [q \in Queue |-> Contents(q)]
ImplementsQueues == Abstract!BoundedSpec

=============================================================================
