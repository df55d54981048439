---------------------------- MODULE MpuPrivilege ----------------------------
(***************************************************************************)
(* The MPU wrappers, version 1 (portable/Common/mpu_wrappers.c).  Every    *)
(* function of the API is called through a wrapper that raises the task's  *)
(* privilege if it is not raised already, calls the kernel's function, and *)
(* resets the privilege if it was this wrapper that raised it.  The        *)
(* kernel's function may block for long, while other tasks run in wrappers *)
(* of their own, and one of them, xTaskCallApplicationTaskHook, runs       *)
(* application code that makes calls in turn.                              *)
(***************************************************************************)
EXTENDS Naturals, SequencesExt

CONSTANTS Task, First, Depth   \* First: the tasks main() creates; Depth: calls inside one another
CONSTANT NoTask

VARIABLES privileged,  \* the tasks that execute with privilege
          own,         \* [Task -> the privilege the task was created with]
          frames,      \* [Task -> the calls the task is in, with what each found]
          maker        \* [Task -> the task that created it], NoTask for those not created so

vars == <<privileged, own, frames, maker>>

MpuPrivilegeAssumption == First \subseteq Task /\ Depth \in Nat /\ NoTask \notin Task

\* main() creates its tasks before the scheduler runs, with any privilege.
Init ==
  /\ own \in [Task -> BOOLEAN] /\ \A t \in Task \ First : ~own[t]
  /\ privileged = {t \in Task : own[t]}
  /\ frames = [t \in Task |-> <<>>]
  /\ maker = [t \in Task |-> NoTask]

Alive(t) == t \in First \/ maker[t] # NoTask

----------------------------------------------------------------------------
(* The wrappers, by what their call does besides the kernel's work.        *)

CreateCalls == {"xTaskCreate", "xTaskCreateStatic", "vTaskDelete"}
DelayCalls == {"xTaskDelayUntil", "xTaskAbortDelay", "vTaskDelay", "uxTaskPriorityGet", "vTaskPrioritySet", "eTaskGetState"}
InfoCalls == {"vTaskGetInfo", "xTaskGetIdleTaskHandle", "vTaskSuspend", "vTaskResume", "vTaskSuspendAll", "xTaskResumeAll"}
TickCalls == {"xTaskGetTickCount", "uxTaskGetNumberOfTasks", "xTaskGetHandle", "vTaskList", "vTaskGetRunTimeStats",
              "ulTaskGetIdleRunTimePercent"}
TagCalls == {"ulTaskGetIdleRunTimeCounter", "vTaskSetApplicationTaskTag", "xTaskGetApplicationTaskTag",
             "vTaskSetThreadLocalStoragePointer", "pvTaskGetThreadLocalStoragePointer", "xTaskCallApplicationTaskHook"}
StateCalls == {"uxTaskGetSystemState", "xTaskCatchUpTicks", "uxTaskGetStackHighWaterMark", "uxTaskGetStackHighWaterMark2",
               "xTaskGetCurrentTaskHandle"}
NotifyCalls == {"xTaskGetSchedulerState", "vTaskSetTimeOutState", "xTaskCheckForTimeOut", "xTaskGenericNotify",
                "xTaskGenericNotifyWait"}
NotifyTakeCalls == {"ulTaskGenericNotifyTake", "xTaskGenericNotifyStateClear", "ulTaskGenericNotifyValueClear",
                    "xQueueGenericCreate", "xQueueGenericCreateStatic"}
QueueCalls == {"xQueueGenericReset", "xQueueGenericSend", "uxQueueMessagesWaiting", "uxQueueSpacesAvailable",
               "xQueueReceive", "xQueuePeek"}
MutexCalls == {"xQueueSemaphoreTake", "xQueueGetMutexHolder", "xQueueCreateMutex", "xQueueCreateMutexStatic",
               "xQueueCreateCountingSemaphore"}
RecursiveCalls == {"xQueueCreateCountingSemaphoreStatic", "xQueueTakeMutexRecursive", "xQueueGiveMutexRecursive",
                   "xQueueCreateSet", "xQueueSelectFromSet"}
SetCalls == {"xQueueAddToSet", "xQueueRemoveFromSet", "vQueueAddToRegistry", "vQueueUnregisterQueue", "pcQueueGetName",
             "vQueueDelete"}
TimerCalls == {"pvTimerGetTimerID", "vTimerSetTimerID", "xTimerIsTimerActive", "xTimerGetTimerDaemonTaskHandle",
               "vTimerSetReloadMode", "uxTimerGetReloadMode"}
TimerQueryCalls == {"pcTimerGetName", "xTimerGetPeriod", "xTimerGetExpiryTime", "xTimerGenericCommandFromTask",
                    "xEventGroupCreate"}
GroupCalls == {"xEventGroupCreateStatic", "xEventGroupWaitBits", "xEventGroupClearBits", "xEventGroupSetBits",
               "xEventGroupSync"}
StreamCalls == {"vEventGroupDelete", "xStreamBufferSend", "xStreamBufferNextMessageLengthBytes", "xStreamBufferReceive",
                "vStreamBufferDelete"}
StreamQueryCalls == {"xStreamBufferIsFull", "xStreamBufferIsEmpty", "xStreamBufferReset", "xStreamBufferSpacesAvailable",
                     "xStreamBufferBytesAvailable"}
StreamCreateCalls == {"xStreamBufferSetTriggerLevel", "xStreamBufferGenericCreate", "xStreamBufferGenericCreateStatic"}

Calls == UNION {CreateCalls, DelayCalls, InfoCalls, TickCalls, TagCalls, StateCalls, NotifyCalls, NotifyTakeCalls,
  QueueCalls, MutexCalls, RecursiveCalls, SetCalls, TimerCalls, TimerQueryCalls, GroupCalls, StreamCalls,
  StreamQueryCalls, StreamCreateCalls}
Creates == {"xTaskCreate", "xTaskCreateStatic"}
RunsApplication == {"xTaskCallApplicationTaskHook"}

\* What the model tells calls apart by.
Kind(f) == IF f \in Creates THEN "create" ELSE IF f \in RunsApplication THEN "hook" ELSE "call"

----------------------------------------------------------------------------
(* A wrapper.                                                              *)

Calling(t) == frames[t] # <<>>
Top(t) == frames[t][Len(frames[t])]
\* Application code runs outside of all calls, and in a hook.
InApplication(t) == Alive(t) /\ (Calling(t) => Top(t).kind = "hook")

\* portIS_PRIVILEGED, and portRAISE_PRIVILEGE if it is not.
Enter(t, kind) ==
  /\ InApplication(t) /\ Len(frames[t]) < Depth
  /\ frames' = [frames EXCEPT ![t] = Append(@, [kind |-> kind, raised |-> t \notin privileged])]
  /\ privileged' = privileged \cup {t}
  /\ UNCHANGED <<own, maker>>

\* Faulty: portRESET_PRIVILEGE whatever the wrapper found
Leave_Resets(t) ==
  /\ Calling(t)
  /\ frames' = [frames EXCEPT ![t] = Front(@)]
  /\ privileged' = privileged \ {t}
  /\ UNCHANGED <<own, maker>>

Leave(t) ==
  /\ Calling(t)
  /\ frames' = [frames EXCEPT ![t] = Front(@)]
  /\ privileged' = IF Top(t).raised THEN privileged \ {t} ELSE privileged
  /\ UNCHANGED <<own, maker>>

\* Faulty: the privilege bit is passed on
Masked_Never(t, bit) == bit

\* A wrapper that has raised the caller's privilege clears the privilege bit
\* of the priority that it passes to xTaskCreate or xTaskCreateStatic.
Masked(t, bit) == bit /\ ~Top(t).raised

\* The kernel creates the task, which may run at once.  Hooks are assumed to
\* create no tasks.
CreateTask(t, child, bit) ==
  /\ Calling(t) /\ Top(t).kind = "create" /\ Len(frames[t]) = 1 /\ ~Alive(child)
  /\ own' = [own EXCEPT ![child] = Masked(t, bit)]
  /\ privileged' = IF Masked(t, bit) THEN privileged \cup {child} ELSE privileged
  /\ maker' = [maker EXCEPT ![child] = t]
  /\ frames' = [frames EXCEPT ![t] = <<[@[1] EXCEPT !.kind = "call"]>>]

Next == \E t \in Task :
  \/ \E kind \in {Kind(f) : f \in Calls} : Enter(t, kind)
  \/ Leave(t)
  \/ \E child \in Task, bit \in BOOLEAN : CreateTask(t, child, bit)

Spec == Init /\ [][Next]_vars

----------------------------------------------------------------------------
(* Properties.                                                             *)

\* A task has privilege exactly while it is in a call, besides what it was
\* created with, however its calls nest: "the privilege state on exit equals
\* the privilege state on entry" (mpu_wrappers.c:2519-2521).
PrivilegeKept == \A t \in Task : Alive(t) => (t \in privileged <=> own[t] \/ Calling(t))

\* A task without privilege creates none with it.
NoneOutranksItsMaker == \A t \in Task : maker[t] # NoTask /\ own[t] => own[maker[t]]
=============================================================================
