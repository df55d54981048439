------------------------------- MODULE Kernel -------------------------------
(***************************************************************************)
(* The state of the FreeRTOS kernel (tasks.c, lines 358-523) as one record *)
(* and the functions of tasks.c that change it as operators on that        *)
(* record, so that a handler which calls several of them is their          *)
(* composition.                                                            *)
(*                                                                         *)
(* A list of the kernel is the set of the tasks on it.  What the code gets *)
(* from the order of a list is kept where a property depends on it:        *)
(*   - a delayed list is sorted by wake time: its head is EarliestWake;    *)
(*   - an event list is sorted by the value its items had when they were   *)
(*     inserted: the relation "before" is that order;                      *)
(*   - the round-robin order of a ready list is left open: any task of the *)
(*     list may be the next one.                                           *)
(***************************************************************************)
EXTENDS Naturals, FiniteSets

CONSTANTS
  Task,       \* the task control blocks (TCB_t), the idle task's included
  Idle,       \* the task created by prvCreateIdleTasks
  Object,     \* the objects a task can wait on: their event lists
  MaxPrio,    \* configMAX_PRIORITIES
  TickMod,    \* 2 ^ (width of TickType_t)
  OvfMod,     \* 2 ^ (width of the overflow counter)
  Boot,       \* the tasks that exist when the scheduler is started
  InitPrio    \* the priority each task is created with

Prio == 0 .. MaxPrio - 1
Tick == 0 .. TickMod - 1
MaxDelay == TickMod - 1         \* portMAX_DELAY

ASSUME KernelAssumption ==
  /\ IsFiniteSet(Task)
  /\ MaxPrio \in Nat \ {0} /\ TickMod \in Nat \ {0, 1} /\ OvfMod \in Nat \ {0}
  /\ Boot \subseteq Task /\ Idle \in Boot
  /\ InitPrio \in [Task -> Prio] /\ InitPrio[Idle] = 0

(* ucNotifyState *)
NotifyState == {"not_waiting", "waiting", "received"}

KType ==
  [ cur          : Task,                     \* pxCurrentTCB
    prio         : [Task -> Prio],           \* uxPriority
    base         : [Task -> Prio],           \* uxBasePriority
    ready        : [Prio -> SUBSET Task],    \* pxReadyTasksLists
    top          : SUBSET Prio,              \* uxTopReadyPriority, a bit map
    delayed      : SUBSET Task,              \* *pxDelayedTaskList
    overflow     : SUBSET Task,              \* *pxOverflowDelayedTaskList
    suspended    : SUBSET Task,              \* xSuspendedTaskList
    dying        : SUBSET Task,              \* xTasksWaitingTermination
    wake         : [Task -> Tick],           \* value of xStateListItem
    pending      : SUBSET Task,              \* xPendingReadyList
    waiting      : [Object -> SUBSET Task],  \* the event lists
    before       : SUBSET (Task \X Task),    \* their order
    key          : [Task -> 1 .. MaxPrio],   \* value of xEventListItem
    aborted      : SUBSET Task,              \* ucDelayAborted is pdTRUE
    notify       : [Task -> NotifyState],    \* ucNotifyState[ 0 ]
    tick         : Tick,                     \* xTickCount
    next         : Tick,                     \* xNextTaskUnblockTime
    overflows    : 0 .. OvfMod - 1,          \* xNumOfOverflows
    pended       : Nat,                      \* xPendedTicks
    depth        : Nat,                      \* uxSchedulerSuspended
    yieldPending : BOOLEAN,                  \* xYieldPendings[ 0 ]
    count        : Nat,                      \* uxCurrentNumberOfTasks
    cleanup      : Nat ]                     \* uxDeletedTasksWaitingCleanUp

-----------------------------------------------------------------------------
(* The lists of state items and of event items. *)

ReadyTasks(k) == UNION {k.ready[p] : p \in Prio}

StateLists(k) ==
  {k.ready[p] : p \in Prio} \cup {k.delayed, k.overflow, k.suspended, k.dying}

Listed(k) == UNION StateLists(k)

Waiters(k) == UNION {k.waiting[o] : o \in Object}

(* uxListRemove returned 0: the item was the last of its list. *)
AloneOnList(k, t) == \A L \in StateLists(k) : t \in L => L = {t}

(* The value of a state item is read on a delayed list only, and forgotten *)
(* (set to 0) when the item leaves it.                                     *)
Forget(wake, S) == [t \in Task |-> IF t \in S THEN 0 ELSE wake[t]]

(* uxListRemove( &( pxTCB->xStateListItem ) ) *)
OffStateList(k, t) ==
  [k EXCEPT !.ready = [p \in Prio |-> @[p] \ {t}], !.delayed = @ \ {t},
            !.overflow = @ \ {t}, !.suspended = @ \ {t}, !.dying = @ \ {t},
            !.wake = Forget(@, {t})]

(* Faulty: the event item stays on the pending list *)
OffEventLists_KeepsPending(k, S) ==
  [k EXCEPT !.waiting = [o \in Object |-> @[o] \ S],
            !.before = {e \in @ : e[1] \notin S /\ e[2] \notin S}]

(* uxListRemove( &( pxTCB->xEventListItem ) ), for every task of S *)
OffEventLists(k, S) ==
  [k EXCEPT !.waiting = [o \in Object |-> @[o] \ S], !.pending = @ \ S,
            !.before = {e \in @ : e[1] \notin S /\ e[2] \notin S}]

(* taskRESET_READY_PRIORITY *)
ResetReadyPriority(k, p) ==
  [k EXCEPT !.top = IF k.ready[p] = {} THEN @ \ {p} ELSE @]

(* prvAddTaskToReadyList *)
AddToReadyList(k, t) ==
  [k EXCEPT !.ready[k.prio[t]] = @ \cup {t}, !.top = @ \cup {k.prio[t]}]

(* Faulty: the state item stays on the delayed list *)
MakeReady_LeavesDelayed(k, S) ==
  [OffEventLists(k, S) EXCEPT
     !.ready = [p \in Prio |-> @[p] \cup {t \in S : k.prio[t] = p}],
     !.top = @ \cup {k.prio[t] : t \in S}, !.suspended = @ \ S]

(* Every task of S leaves the lists it waits on and joins its ready list. *)
MakeReady(k, S) ==
  [OffEventLists(k, S) EXCEPT
     !.ready = [p \in Prio |-> (@[p] \ S) \cup {t \in S : k.prio[t] = p}],
     !.top = @ \cup {k.prio[t] : t \in S},
     !.delayed = @ \ S, !.overflow = @ \ S, !.suspended = @ \ S,
     !.wake = Forget(@, S)]

(* A task leaves the lists it is on, and the bit map is brought up to date: *)
(* how vTaskDelete and vTaskSuspend begin.                                 *)
TakenOff(k, t) ==
  ResetReadyPriority(OffEventLists(OffStateList(k, t), {t}), k.prio[t])

-----------------------------------------------------------------------------
(* Choosing the running task. *)

(* The tasks on the ready list that the bit map says is the highest. *)
HighestReady(k) ==
  UNION {k.ready[p] : p \in {q \in k.top : \A r \in k.top : r <= q}}

(* Faulty: switches with the scheduler suspended *)
SwitchContext_IgnoresSuspension(k) ==
  {[k EXCEPT !.yieldPending = FALSE, !.cur = t] : t \in HighestReady(k)}

(* vTaskSwitchContext, as the set of the states it can lead to *)
SwitchContext(k) ==
  IF k.depth # 0
    THEN {[k EXCEPT !.yieldPending = TRUE]}
    ELSE {[k EXCEPT !.yieldPending = FALSE, !.cur = t] : t \in HighestReady(k)}

YieldIf(wanted, k) == IF wanted THEN SwitchContext(k) ELSE {k}

(* taskYIELD_ANY_CORE_IF_USING_PREEMPTION: some task of S beats the running one *)
Preempts(k, S) == \E t \in S : k.prio[t] > k.prio[k.cur]

-----------------------------------------------------------------------------
(* Time. *)

EarliestWake(k) ==
  CHOOSE w \in Tick : /\ \E t \in k.delayed : k.wake[t] = w
                      /\ \A t \in k.delayed : w <= k.wake[t]

(* prvResetNextTaskUnblockTime *)
ResetNextUnblockTime(k) ==
  [k EXCEPT !.next = IF k.delayed = {} THEN MaxDelay ELSE EarliestWake(k)]

(* Faulty: xNextTaskUnblockTime is left as it was *)
SwitchDelayedLists_NoReset(k) ==
  [k EXCEPT !.delayed = k.overflow, !.overflow = k.delayed, !.overflows = (@ + 1) % OvfMod]

(* Faulty: the lists are not swapped *)
SwitchDelayedLists_NoSwap(k) ==
  ResetNextUnblockTime([k EXCEPT !.overflows = (@ + 1) % OvfMod])

(* taskSWITCH_DELAYED_LISTS *)
SwitchDelayedLists(k) ==
  ResetNextUnblockTime(
    [k EXCEPT !.delayed = k.overflow, !.overflow = k.delayed,
              !.overflows = (@ + 1) % OvfMod])

(* Faulty: the counter does not wrap *)
AdvanceTick_NoWrap(k) == [k EXCEPT !.tick = @ + 1]

(* xTaskIncrementTick up to the wake-up loop: xTickCount + 1 *)
AdvanceTick(k) ==
  LET ticked == [k EXCEPT !.tick = (@ + 1) % TickMod]
  IN  IF ticked.tick = 0 THEN SwitchDelayedLists(ticked) ELSE ticked

(* Faulty: off by one *)
DueTasks_Late(k) ==
  IF k.tick >= k.next THEN {t \in k.delayed : k.wake[t] < k.tick} ELSE {}

(* The tasks the wake-up loop takes off the delayed list. *)
DueTasks(k) ==
  IF k.tick >= k.next THEN {t \in k.delayed : k.wake[t] <= k.tick} ELSE {}

(* The wake-up loop: it ends by setting xNextTaskUnblockTime. *)
WakeDueTasks(k) ==
  IF k.tick >= k.next THEN ResetNextUnblockTime(MakeReady(k, DueTasks(k))) ELSE k

(* xTaskIncrementTick with the scheduler not suspended: the new state ... *)
IncrementTick(k) == WakeDueTasks(AdvanceTick(k))

(* ... and its result: a woken task, a time slice or a pended yield. *)
TickWantsSwitch(k) ==
  \/ Preempts(k, DueTasks(AdvanceTick(k)))
  \/ LET r == IncrementTick(k).ready[k.prio[k.cur]]
     IN  \E a, b \in r : a # b
  \/ k.yieldPending

(* prvAddCurrentTaskToDelayedList *)
AddCurrentToDelayedList(k, n, indefinitely) ==
  LET t    == k.cur
      w    == (k.tick + n) % TickMod
      free == [OffStateList(k, t) EXCEPT
                 !.aborted = @ \ {t},
                 !.top = IF AloneOnList(k, t) THEN @ \ {k.prio[t]} ELSE @]
  IN  IF n = MaxDelay /\ indefinitely
        THEN [free EXCEPT !.suspended = @ \cup {t}]
        ELSE IF w < k.tick
          THEN [free EXCEPT !.wake[t] = w, !.overflow = @ \cup {t}]
          ELSE [free EXCEPT !.wake[t] = w, !.delayed = @ \cup {t},
                            !.next = IF w < @ THEN w ELSE @]

-----------------------------------------------------------------------------
(* Event lists. *)

(* vListInsert: the waiters the list walk passes before it stops, which is *)
(* at the first one with a larger value                                    *)
PassedOnInsert(k, o, t) ==
  {u \in k.waiting[o] :
     \A w \in k.waiting[o] :
        (w = u \/ <<w, u>> \in k.before) => k.key[w] <= k.key[t]}

(* vTaskPlaceOnEventList *)
PlaceOnEventList(k, o, n) ==
  LET t      == k.cur
      passed == PassedOnInsert(k, o, t)
  IN  AddCurrentToDelayedList(
        [k EXCEPT !.waiting[o] = @ \cup {t},
                  !.before = @ \cup (passed \X {t})
                               \cup ({t} \X (k.waiting[o] \ passed))],
        n, TRUE)

(* The first n waiters of the list: those with fewer than n before them *)
FirstWaiters(k, o, n) ==
  {t \in k.waiting[o] : Cardinality({u \in k.waiting[o] : <<u, t>> \in k.before}) < n}

(* xTaskRemoveFromEventList, called in a row for the tasks S at the head   *)
(* of an event list.  Its result is Preempts(k, S).                        *)
RemoveFromEventList(k, S) ==
  LET off == IF k.depth = 0
               THEN MakeReady(k, S)
               ELSE [OffEventLists(k, S) EXCEPT !.pending = @ \cup S]
  IN  [off EXCEPT !.yieldPending = @ \/ Preempts(k, S)]

-----------------------------------------------------------------------------
(* Suspending the scheduler. *)

(* vTaskSuspendAll *)
SuspendAll(k) == [k EXCEPT !.depth = @ + 1]

(* Faulty: a task of higher priority may have become ready *)
DrainPending_NoYield(k) ==
  LET down == [k EXCEPT !.depth = @ - 1]
  IN  IF down.depth = 0 THEN ResetNextUnblockTime(MakeReady(down, k.pending)) ELSE down

(* xTaskResumeAll up to the pended ticks *)
DrainPending(k) ==
  LET down == [k EXCEPT !.depth = @ - 1]
  IN  IF down.depth = 0 /\ k.pending # {}
        THEN [ResetNextUnblockTime(MakeReady(down, k.pending))
                EXCEPT !.yieldPending = @ \/ Preempts(k, k.pending)]
        ELSE down

(* Faulty: the ticks left are forgotten *)
CatchUpTick_Once(k) ==
  [IncrementTick(k) EXCEPT !.pended = 0, !.yieldPending = @ \/ TickWantsSwitch(k)]

(* One turn of the loop of xTaskResumeAll over the pended ticks *)
CatchUpTick(k) ==
  [IncrementTick(k) EXCEPT !.pended = @ - 1,
                           !.yieldPending = @ \/ TickWantsSwitch(k)]

-----------------------------------------------------------------------------
(* What the kernel keeps true of its record. *)

OnOneListOnly(k) ==
  /\ k.delayed \cap (k.overflow \cup k.suspended \cup k.dying) = {}
  /\ k.overflow \cap (k.suspended \cup k.dying) = {}
  /\ k.suspended \cap k.dying = {}
  /\ ReadyTasks(k) \cap (k.delayed \cup k.overflow \cup k.suspended \cup k.dying) = {}

ReadyAtPriority(k) == \A p \in Prio : \A t \in k.ready[p] : k.prio[t] = p

TopIsExact(k) == \A p \in Prio : p \in k.top <=> k.ready[p] # {}

TimesConsistent(k) ==
  /\ \A t \in k.delayed : k.tick < k.wake[t] /\ k.next <= k.wake[t]
  /\ \A t \in k.overflow : k.wake[t] < k.tick

(* A task with its event item on a list is blocked, and the item is on one *)
(* list only; the pending list is used only with the scheduler suspended.  *)
EventItemsConsistent(k) ==
  /\ \A o \in Object : k.waiting[o] \cap k.pending = {}
  /\ \A o, q \in Object : o # q => k.waiting[o] \cap k.waiting[q] = {}
  /\ Waiters(k) \cup k.pending \subseteq k.delayed \cup k.overflow \cup k.suspended
  /\ k.pending # {} => k.depth > 0

EventListsOrdered(k) ==
  /\ \A e \in k.before : \E o \in Object : e[1] \in k.waiting[o] /\ e[2] \in k.waiting[o]
  /\ \A o \in Object : \A t, u \in k.waiting[o] :
       /\ t # u => (<<t, u>> \in k.before <=> <<u, t>> \notin k.before)
       /\ <<t, t>> \notin k.before
       /\ \A w \in k.waiting[o] :
            <<t, u>> \in k.before /\ <<u, w>> \in k.before => <<t, w>> \in k.before

-----------------------------------------------------------------------------
(* The state in which xPortStartScheduler starts the first task *)
InitialKernel ==
  LET first(t) == \A u \in Boot : InitPrio[u] <= InitPrio[t]
  IN  {[ cur |-> c, prio |-> InitPrio, base |-> InitPrio,
         ready |-> [p \in Prio |-> {t \in Boot : InitPrio[t] = p}],
         top |-> {InitPrio[t] : t \in Boot},
         delayed |-> {}, overflow |-> {}, suspended |-> {}, dying |-> {},
         wake |-> [t \in Task |-> 0], pending |-> {},
         waiting |-> [o \in Object |-> {}], before |-> {},
         key |-> [t \in Task |-> MaxPrio - InitPrio[t]],
         aborted |-> {}, notify |-> [t \in Task |-> "not_waiting"],
         tick |-> 0, next |-> MaxDelay, overflows |-> 0, pended |-> 0,
         depth |-> 0, yieldPending |-> FALSE,
         count |-> Cardinality(Boot), cleanup |-> 0 ] : c \in {t \in Boot : first(t)}}

=============================================================================
