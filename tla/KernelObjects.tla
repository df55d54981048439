--------------------------- MODULE KernelObjects ---------------------------
(***************************************************************************)
(* The pool of kernel objects of the MPU wrappers, version 2               *)
(* (portable/Common/mpu_wrappers_v2.c).  An application task never sees a  *)
(* kernel handle: it gets the index of a slot of the pool, and every       *)
(* wrapper of the API turns the index back into the handle, which must be  *)
(* of the type the call is for.  Slots are reserved with the scheduler     *)
(* suspended and freed in a critical section; everything else is           *)
(* unprotected, so the calls of several tasks interleave between the       *)
(* steps below.  The checks of access rights and of user buffers refuse a  *)
(* call before it has done anything: such a call is one that is not made.  *)
(***************************************************************************)
EXTENDS Naturals, Sequences, FiniteSetsExt, SequencesExt, Functions

CONSTANTS Caller,   \* the tasks inside a wrapper
          Slots,    \* configPROTECTED_KERNEL_OBJECT_POOL_SIZE
          Block,    \* the places in memory where the kernel makes its objects
          Types,    \* the types of object that this instance creates
          Traced,   \* the types whose handles the properties translate back
          Eager,    \* may a new task delete itself before its handle is stored?
          Null,     \* the handle of a free slot
          Reserved, \* the handle ~0 of a slot that was just taken
          Gone      \* an object whose index the application has thrown away

VARIABLES pool,     \* [Slot -> [handle, type]]: xKernelObjectPool
          kernel,   \* [Block -> the type of the kernel object there]
          given,    \* [Slot -> the object the application has this index for]
          call      \* [Caller -> what the task's wrapper has yet to do]

vars == <<pool, kernel, given, call>>

Slot == 1..Slots
NoSlot == 0
Invalid == "invalid"
Task == "task"
Queue == "queue"
StreamBuffer == "stream_buffer"
EventGroup == "event_group"
Timer == "timer"

KernelObjectsAssumption ==
  /\ Slots \in Nat \ {0}
  /\ Types \subseteq {Task, Queue, StreamBuffer, EventGroup, Timer}
  /\ Traced \subseteq Types /\ Eager \in BOOLEAN
  /\ {Null, Reserved, Gone} \cap Block = {} /\ Null \notin {Reserved, Gone}

FreeSlot == [handle |-> Null, type |-> Invalid]
Idle == [todo |-> <<>>, slot |-> NoSlot, object |-> Null, type |-> Invalid, args |-> <<>>]

Init ==
  /\ pool = [s \in Slot |-> FreeSlot]
  /\ kernel = [b \in Block |-> Invalid]
  /\ given = [s \in Slot |-> Null]
  /\ call = [t \in Caller |-> Idle]

----------------------------------------------------------------------------
(* The pool.                                                               *)

\* The first slot with property P, or NoSlot.
FirstSlot(found) == IF found = {} THEN NoSlot ELSE Min(found)

FreeIndex == FirstSlot({s \in Slot : pool[s].handle = Null})

IndexForHandle(object, type) ==
  FirstSlot({s \in Slot : pool[s] = [handle |-> object, type |-> type]})

\* Faulty: without the test of the slot's type
HandleAtIndex_AnyType(s, type) == pool[s].handle

HandleAtIndex(s, type) == IF pool[s].type = type THEN pool[s].handle ELSE Null

----------------------------------------------------------------------------
(* The wrappers: the types of the objects each takes the index of, and     *)
(* what an index of 0 means, the calling task or nothing at all.           *)

Wrapper == [takes : Seq({Task, Queue, StreamBuffer, EventGroup, Timer}), null : {"caller", "refused"}]
Takes(types, null, names) == [f \in names |-> [takes |-> types, null |-> null]]
On(type, names) == Takes(<<type>>, "refused", names)
OnTaskOrCaller(names) == Takes(<<Task>>, "caller", names)
OnNothing(names) == Takes(<<>>, "refused", names)

DelayWrappers == On(Task, {"xTaskAbortDelay", "eTaskGetState"}) @@ OnTaskOrCaller({"uxTaskPriorityGet"})
  @@ OnNothing({"xTaskDelayUntil", "vTaskDelay"})
SuspendWrappers == On(Task, {"vTaskResume"}) @@ OnTaskOrCaller({"vTaskGetInfo", "vTaskSuspend"})
  @@ OnNothing({"xTaskGetIdleTaskHandle"})
CountWrappers == OnTaskOrCaller({"ulTaskGetRunTimeCounter", "ulTaskGetRunTimePercent"})
  @@ OnNothing({"xTaskGetTickCount", "uxTaskGetNumberOfTasks", "ulTaskGetIdleRunTimePercent", "ulTaskGetIdleRunTimeCounter"})
TagWrappers == OnTaskOrCaller({"vTaskSetApplicationTaskTag", "xTaskGetApplicationTaskTag", "vTaskSetThreadLocalStoragePointer"})
StateWrappers == OnTaskOrCaller({"pvTaskGetThreadLocalStoragePointer", "uxTaskGetStackHighWaterMark"})
  @@ OnNothing({"uxTaskGetSystemState"})
TimeOutWrappers == OnTaskOrCaller({"uxTaskGetStackHighWaterMark2"})
  @@ OnNothing({"xTaskGetCurrentTaskHandle", "xTaskGetSchedulerState", "vTaskSetTimeOutState", "xTaskCheckForTimeOut"})
NotifyWrappers == On(Task, {"xTaskGenericNotify"}) @@ OnNothing({"xTaskGenericNotifyWait"})
NotifyClearWrappers == OnTaskOrCaller({"xTaskGenericNotifyStateClear", "ulTaskGenericNotifyValueClear"})
  @@ OnNothing({"ulTaskGenericNotifyTake"})
PriorityWrappers == OnTaskOrCaller({"vTaskPrioritySet", "xTaskCallApplicationTaskHook"}) @@ OnNothing({"xTaskGetHandle"})
RegionWrappers == OnTaskOrCaller({"vTaskAllocateMPURegions", "xTaskGetStaticBuffers", "pcTaskGetName", "uxTaskPriorityGetFromISR"})
BasePriorityWrappers == On(Task, {"xTaskResumeFromISR"})
  @@ OnTaskOrCaller({"uxTaskBasePriorityGet", "uxTaskBasePriorityGetFromISR", "xTaskGetApplicationTaskTagFromISR"})
NotifyFromISRWrappers == On(Task, {"xTaskGenericNotifyFromISR", "vTaskGenericNotifyGiveFromISR"})

SendWrappers == On(Queue, {"xQueueGenericSend", "uxQueueMessagesWaiting", "uxQueueSpacesAvailable"})
ReceiveWrappers == On(Queue, {"xQueueReceive", "xQueuePeek", "xQueueSemaphoreTake"})
MutexWrappers == On(Queue, {"xQueueGetMutexHolder", "xQueueTakeMutexRecursive", "xQueueGiveMutexRecursive"})
SetWrappers == On(Queue, {"xQueueSelectFromSet", "vQueueAddToRegistry", "vQueueUnregisterQueue"})
  @@ Takes(<<Queue, Queue>>, "refused", {"xQueueAddToSet"})
NameWrappers == On(Queue, {"pcQueueGetName"})
ResetWrappers == On(Queue, {"xQueueGenericReset"})
QueueFromISRWrappers ==
  On(Queue, {"xQueueGenericGetStaticBuffers", "xQueueGenericSendFromISR", "xQueueGiveFromISR", "xQueuePeekFromISR"})
  @@ Takes(<<Queue, Queue>>, "refused", {"xQueueRemoveFromSet"})
QueryFromISRWrappers == On(Queue, {"xQueueReceiveFromISR", "xQueueIsQueueEmptyFromISR", "xQueueIsQueueFullFromISR",
                                   "uxQueueMessagesWaitingFromISR", "xQueueGetMutexHolderFromISR"})
SelectFromISRWrappers == On(Queue, {"xQueueSelectFromSetFromISR"})

TimerWrappers == On(Timer, {"pvTimerGetTimerID", "vTimerSetTimerID", "xTimerIsTimerActive"})
  @@ OnNothing({"xTimerGetTimerDaemonTaskHandle"})
TimerCommandWrappers == On(Timer, {"xTimerGenericCommandFromTask"})
ReloadWrappers == On(Timer, {"pcTimerGetName", "vTimerSetReloadMode", "xTimerGetReloadMode", "uxTimerGetReloadMode"})
PeriodWrappers == On(Timer, {"xTimerGetPeriod", "xTimerGetExpiryTime"})
TimerFromISRWrappers == On(Timer, {"xTimerGetStaticBuffer", "xTimerGenericCommandFromISR"})

GroupWrappers == On(EventGroup, {"xEventGroupWaitBits", "xEventGroupClearBits", "xEventGroupSetBits"})
SyncWrappers == On(EventGroup, {"xEventGroupSync", "uxEventGroupGetNumber", "vEventGroupSetNumber"})
GroupFromISRWrappers == On(EventGroup, {"xEventGroupGetStaticBuffer", "xEventGroupClearBitsFromISR",
                                        "xEventGroupSetBitsFromISR", "xEventGroupGetBitsFromISR"})

StreamWrappers == On(StreamBuffer, {"xStreamBufferSend", "xStreamBufferReceive", "xStreamBufferIsFull"})
SpaceWrappers == On(StreamBuffer, {"xStreamBufferIsEmpty", "xStreamBufferSpacesAvailable",
                                   "xStreamBufferBytesAvailable", "xStreamBufferSetTriggerLevel"})
LengthWrappers == On(StreamBuffer, {"xStreamBufferNextMessageLengthBytes"})
StreamFromISRWrappers == On(StreamBuffer, {"xStreamBufferReset", "xStreamBufferGetStaticBuffers", "xStreamBufferSendFromISR",
                                           "xStreamBufferReceiveFromISR", "xStreamBufferSendCompletedFromISR"})
CompletedWrappers == On(StreamBuffer, {"xStreamBufferReceiveCompletedFromISR", "xStreamBufferResetFromISR"})

TaskApi == DelayWrappers @@ SuspendWrappers @@ CountWrappers @@ TagWrappers @@ StateWrappers @@ TimeOutWrappers
  @@ NotifyWrappers @@ NotifyClearWrappers @@ PriorityWrappers @@ RegionWrappers @@ BasePriorityWrappers @@ NotifyFromISRWrappers
QueueApi == SendWrappers @@ ReceiveWrappers @@ MutexWrappers @@ SetWrappers @@ NameWrappers @@ ResetWrappers
  @@ QueueFromISRWrappers @@ QueryFromISRWrappers @@ SelectFromISRWrappers
TimerApi == TimerWrappers @@ TimerCommandWrappers @@ ReloadWrappers @@ PeriodWrappers @@ TimerFromISRWrappers
GroupApi == GroupWrappers @@ SyncWrappers @@ GroupFromISRWrappers
StreamApi == StreamWrappers @@ SpaceWrappers @@ LengthWrappers @@ StreamFromISRWrappers @@ CompletedWrappers
Api == TaskApi @@ QueueApi @@ TimerApi @@ GroupApi @@ StreamApi

TaskMakers == [f \in {"xTaskCreate", "xTaskCreateStatic"} |-> Task]
RestrictedMakers == [f \in {"xTaskCreateRestricted", "xTaskCreateRestrictedStatic"} |-> Task]
SemaphoreMakers == [f \in {"xQueueCreateMutex", "xQueueCreateMutexStatic", "xQueueCreateCountingSemaphore",
                           "xQueueCreateCountingSemaphoreStatic"} |-> Queue]
QueueMakers == [f \in {"xQueueGenericCreate", "xQueueGenericCreateStatic", "xQueueCreateSet"} |-> Queue]
TimerMakers == [f \in {"xTimerCreate", "xTimerCreateStatic"} |-> Timer]
GroupMakers == [f \in {"xEventGroupCreate", "xEventGroupCreateStatic"} |-> EventGroup]
StreamMakers == [f \in {"xStreamBufferGenericCreate", "xStreamBufferGenericCreateStatic"} |-> StreamBuffer]
Makers == TaskMakers @@ RestrictedMakers @@ SemaphoreMakers @@ QueueMakers @@ TimerMakers @@ GroupMakers @@ StreamMakers

\* Faulty: in the order of the other objects
TaskDeletion_Late == <<"delete", "free">>

\* What deleting an object does, in order: a task's slot is freed before the
\* task is deleted, since the call may not return; a queue, an event group or
\* a stream buffer is deleted first; a timer is deleted by a command to the
\* timer task, and its slot is never freed.
TaskDeletion == <<"free", "delete">>

QueueDeletion == <<"delete", "free">>
GroupDeletion == <<"delete", "free">>
StreamDeletion == <<"delete", "free">>
TimerDeletion == <<"delete">>
Deletion(type) ==
  CASE type = Task -> TaskDeletion [] type = Queue -> QueueDeletion [] type = EventGroup -> GroupDeletion
    [] type = StreamBuffer -> StreamDeletion [] type = Timer -> TimerDeletion

----------------------------------------------------------------------------
(* The steps of a call.                                                    *)

Known(s) == given[s] \in Block
\* The application does not delete what it is using, nor use what it is deleting.
InUse(s) == \E t \in Caller : \E a \in ToSet(call[t].args) : a.slot = s

Busy(t) == call[t].todo # <<>>
Holds(t, s) == call[t].slot = s /\ ToSet(call[t].todo) \cap {"store_handle", "store_type", "free"} # {}
Step(t, name) == Busy(t) /\ Head(call[t].todo) = name
Begins(t, type, s, object, todo) ==
  call' = [call EXCEPT ![t] = [Idle EXCEPT !.todo = todo, !.slot = s, !.object = object, !.type = type]]
Continue(t) == IF Len(call[t].todo) = 1 THEN Idle ELSE [call[t] EXCEPT !.todo = Tail(@)]
Continues(t) == call' = [call EXCEPT ![t] = Continue(t)]

\* A wrapper that creates an object starts by reserving a slot; with none free it returns NULL.
Create(t, f) ==
  /\ ~Busy(t) /\ Makers[f] \in Types
  /\ FreeIndex # NoSlot
  /\ pool' = [pool EXCEPT ![FreeIndex].handle = Reserved]
  /\ Begins(t, Makers[f], FreeIndex, Null, <<"make", "store_handle", "store_type">>)
  /\ UNCHANGED <<kernel, given>>

\* The kernel's function creates the object.
Make(t) ==
  /\ Step(t, "make")
  /\ \E b \in Block :
       /\ kernel[b] = Invalid
       /\ kernel' = [kernel EXCEPT ![b] = call[t].type]
       /\ call' = [call EXCEPT ![t] = [Continue(t) EXCEPT !.object = b]]
  /\ UNCHANGED <<pool, given>>

\* Faulty: the slot of an object that was not created is not freed
MakeFails_KeepsSlot(t) ==
  /\ Step(t, "make")
  /\ call' = [call EXCEPT ![t] = Idle]
  /\ UNCHANGED <<pool, kernel, given>>

\* It may return NULL instead: then the wrapper frees the slot again.
MakeFails(t) ==
  /\ Step(t, "make")
  /\ call' = [call EXCEPT ![t].todo = <<"free">>]
  /\ UNCHANGED <<pool, kernel, given>>

\* MPU_StoreHandleAndDataAtIndex, a write at a time; the wrapper then returns the index.
StoreHandle(t) ==
  /\ Step(t, "store_handle")
  /\ pool' = [pool EXCEPT ![call[t].slot].handle = call[t].object]
  /\ Continues(t)
  /\ UNCHANGED <<kernel, given>>

StoreType(t) ==
  /\ Step(t, "store_type")
  /\ pool' = [pool EXCEPT ![call[t].slot].type = call[t].type]
  /\ given' = [given EXCEPT ![call[t].slot] = call[t].object]
  /\ Continues(t)
  /\ UNCHANGED kernel

\* A wrapper looks up the objects whose indices s the application gives it,
\* which may be of any type, and refuses to go on unless all are of the
\* types w takes.  A 0 that stands for the caller looks nothing up.
Use(t, w, s) ==
  /\ ~Busy(t) /\ Len(s) = Len(w.takes) /\ s # <<>>
  /\ \A i \in DOMAIN s : Known(s[i]) /\ HandleAtIndex(s[i], w.takes[i]) # Null
  /\ call' = [call EXCEPT ![t] = [Idle EXCEPT !.todo = <<"call">>,
       !.args = [i \in DOMAIN s |-> [slot |-> s[i], object |-> HandleAtIndex(s[i], w.takes[i]), type |-> w.takes[i]]]]]
  /\ UNCHANGED <<pool, kernel, given>>

\* The kernel's function runs on the handles that were looked up.
Call(t) == Step(t, "call") /\ Continues(t) /\ UNCHANGED <<pool, kernel, given>>

Delete(t, s) ==
  /\ ~Busy(t) /\ Known(s) /\ ~InUse(s)
  /\ LET type == kernel[given[s]] IN
       /\ HandleAtIndex(s, type) # Null
       /\ Begins(t, type, s, HandleAtIndex(s, type), Deletion(type))
       /\ given' = [given EXCEPT ![s] = IF type = Timer THEN Gone ELSE Null]
  /\ UNCHANGED <<pool, kernel>>

\* MPU_vTaskDelete(NULL): the task in b deletes itself.  It looks its own
\* index up, and has none if its creator has not stored its handle yet.
DeleteSelf(t, b) ==
  /\ ~Busy(t) /\ kernel[b] = Task
  /\ LET s == IndexForHandle(b, Task) IN
       /\ IF s = NoSlot THEN Eager /\ Begins(t, Task, s, b, <<"delete">>)
          ELSE /\ given[s] = b /\ ~InUse(s)
               /\ Begins(t, Task, s, b, TaskDeletion)
       /\ given' = [u \in Slot |-> IF u = s THEN Null ELSE given[u]]
  /\ UNCHANGED <<pool, kernel>>

DeleteObject(t) ==
  /\ Step(t, "delete")
  /\ kernel' = [kernel EXCEPT ![call[t].object] = Invalid]
  /\ Continues(t)
  /\ UNCHANGED <<pool, given>>

SetIndexFree(t) ==
  /\ Step(t, "free")
  /\ pool' = [pool EXCEPT ![call[t].slot] = FreeSlot]
  /\ Continues(t)
  /\ UNCHANGED <<kernel, given>>

Conversions == Range(Api)

Next == \E t \in Caller :
  \/ \E f \in DOMAIN Makers : Create(t, f)
  \/ Make(t) \/ MakeFails(t) \/ StoreHandle(t) \/ StoreType(t)
  \/ \E w \in Conversions : \E s \in [1..Len(w.takes) -> Slot] : Use(t, w, s)
  \/ Call(t)
  \/ \E s \in Slot : Delete(t, s)
  \/ \E b \in Block : DeleteSelf(t, b)
  \/ DeleteObject(t) \/ SetIndexFree(t)

Spec == Init /\ [][Next]_vars

----------------------------------------------------------------------------
(* Properties.                                                             *)

\* The kernel's function that a wrapper calls gets, at the moment of the call,
\* a live object of the type it is for: the one the caller's index was given
\* for, whatever the other tasks create and delete between the wrapper's
\* look-up and the call.
CallsReachTheirObject == \A t \in Caller : \A a \in ToSet(call[t].args) :
  kernel[a.object] = a.type /\ given[a.slot] = a.object

\* No slot is lost and none is given twice: a slot is taken exactly when the
\* application has its index, a call under way has reserved it or has yet to
\* free it, or a deleted timer has left it behind.
EverySlotAccounted == \A s \in Slot :
  LET holders == {t \in Caller : Holds(t, s)} IN
  /\ pool[s].handle # Null <=> given[s] # Null \/ holders # {}
  /\ Cardinality(holders) <= (IF Known(s) THEN 0 ELSE 1)

\* A handle of the kernel is translated back to the index that the
\* application knows the object by: the holder of a mutex, the current task,
\* the member that a queue set selected, the timer whose callback runs.
TranslatesBack == \A s \in Slot :
  Known(s) /\ kernel[given[s]] \in Traced => IndexForHandle(given[s], kernel[given[s]]) = s
=============================================================================
