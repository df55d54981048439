----------------------------- MODULE Scheduler ------------------------------
(***************************************************************************)
(* The task API of tasks.c: creating, deleting, delaying, suspending and   *)
(* resuming tasks, changing priorities, waiting on an object's event list  *)
(* and waking its first waiter, from tasks and from interrupts.            *)
(*                                                                         *)
(* What application code must not do is left out: using the handle of a    *)
(* deleted task, deleting or suspending the idle task, and calling what    *)
(* may block or yield while the scheduler is suspended (task.h:1660).      *)
(***************************************************************************)
EXTENDS Dispatch

CONSTANTS
  Delays,    \* the block times tasks ask for
  NewPrios   \* the priorities vTaskPrioritySet is called with

ASSUME SchedulerAssumption == Delays \subseteq Tick \ {0} /\ NewPrios \subseteq Prio

Place == BasePlace \cup {"created", "suspend", "abort", "aborted"}

-----------------------------------------------------------------------------
(* Functions of tasks.c on the kernel record. *)

(* eTaskGetState( t ) = eBlocked, for a task that is not running *)
IsBlocked(t) ==
  /\ t # k.cur /\ t \notin k.pending
  /\ \/ t \in k.delayed \cup k.overflow
     \/ t \in k.suspended /\ (t \in Waiters(k) \/ k.notify[t] = "waiting")

(* prvTaskIsTaskSuspended *)
IsSuspended(t) ==
  /\ t \in k.suspended /\ t \notin k.pending \cup Waiters(k)
  /\ k.notify[t] # "waiting"

(* Faulty: the wrap of the wake time is not seen *)
ShouldDelay_NoWrap(now, prev, n) ==
  LET w == (prev + n) % TickMod
  IN  IF now < prev THEN w < prev /\ w > now ELSE w > now

(* xTaskDelayUntil's test, with the wrap of the counter, that the wake     *)
(* time prev + n is still to come                                          *)
ShouldDelay(now, prev, n) ==
  LET w == (prev + n) % TickMod
  IN  IF now < prev THEN w < prev /\ w > now ELSE w < prev \/ w > now

(* The list and priority changes of vTaskPrioritySet *)
ChangePriority(t, p) ==
  LET old     == k.prio[t]
      changed == [k EXCEPT !.prio[t] = IF k.base[t] = old \/ p > old THEN p ELSE @,
                           !.base[t] = p, !.key[t] = MaxPrio - p]
      moved   == [changed EXCEPT !.ready[old] = @ \ {t},
                                 !.top = IF k.ready[old] = {t} THEN @ \ {old} ELSE @]
  IN  IF t \in k.ready[old] THEN AddToReadyList(moved, t) ELSE changed

-----------------------------------------------------------------------------
(* xTaskCreate: prvAddNewTaskToReadyList, its critical section ... *)
Create(t) ==
  /\ Running /\ k.depth = 0 /\ pc[t] = "gone"
  /\ LET new == [k EXCEPT !.prio[t] = InitPrio[t], !.base[t] = InitPrio[t],
                          !.key[t] = MaxPrio - InitPrio[t],
                          !.aborted = @ \ {t}, !.notify[t] = "not_waiting",
                          !.count = @ + 1]
     IN  k' = AddToReadyList(new, t)
  /\ pc' = [pc EXCEPT ![t] = "run", ![k.cur] = "created"]
  /\ arg' = [arg EXCEPT ![k.cur] = t, ![t] = t]
  /\ UNCHANGED <<after, ticks>>

(* ... and after it, the yield if the new task's priority is higher: the   *)
(* TCB is read again, whatever became of the task                          *)
Created ==
  /\ At("created")
  /\ k' \in YieldIf(Preempts(k, {arg[k.cur]}), k)
  /\ Goto("run")
  /\ arg' = [arg EXCEPT ![k.cur] = k.cur]
  /\ UNCHANGED <<after, ticks>>

(* vTaskDelete of the running task: the idle task will free it *)
DeleteSelf ==
  /\ Running /\ k.depth = 0
  /\ k' = [TakenOff(k, k.cur) EXCEPT !.dying = @ \cup {k.cur}, !.cleanup = @ + 1]
  /\ Goto("exit")
  /\ UNCHANGED <<after, arg, ticks>>

(* vTaskDelete of another task, freed at once *)
Delete(t) ==
  /\ Running /\ Alive(t) /\ t \notin {k.cur, Idle}
  /\ k' = ResetNextUnblockTime([TakenOff(k, t) EXCEPT !.count = @ - 1])
  /\ pc' = [pc EXCEPT ![t] = "gone"]
  /\ UNCHANGED <<after, arg, ticks>>

-----------------------------------------------------------------------------
(* vTaskDelay up to xTaskResumeAll: with the scheduler suspended, an       *)
(* interrupt between its steps only adds to the pended ticks and the       *)
(* pending list                                                            *)
Delay(n) ==
  /\ Running /\ k.depth = 0
  /\ k' = AddCurrentToDelayedList(SuspendAll(k), n, FALSE)
  /\ Goto("block")
  /\ UNCHANGED <<after, arg, ticks>>

(* vTaskDelay( 0 ) and taskYIELD *)
TaskYield ==
  /\ Running /\ k.depth = 0
  /\ k' \in SwitchContext(k)
  /\ UNCHANGED <<pc, after, arg, ticks>>

(* xTaskDelayUntil, called with *pxPreviousWakeTime = prev *)
DelayUntil(prev, n) ==
  /\ Running /\ k.depth = 0
  /\ k' = IF ShouldDelay(k.tick, prev, n)
            THEN AddCurrentToDelayedList(
                   SuspendAll(k), (prev + n + TickMod - k.tick) % TickMod, FALSE)
            ELSE SuspendAll(k)
  /\ Goto("block")
  /\ UNCHANGED <<after, arg, ticks>>

(* A task blocks on an object, the way xQueueReceive does: with the        *)
(* scheduler suspended it joins the event list, then resumes the scheduler *)
WaitOn(o, n) ==
  /\ Running /\ k.depth = 0
  /\ k' = PlaceOnEventList(SuspendAll(k), o, n)
  /\ Goto("block")
  /\ UNCHANGED <<after, arg, ticks>>

(* The object's event wakes the first waiter, in a critical section *)
Signal(o) ==
  /\ k.waiting[o] # {}
  /\ LET first == FirstWaiters(k, o, 1)
     IN  k' \in YieldIf(Preempts(k, first), RemoveFromEventList(k, first))
  /\ UNCHANGED <<pc, after, arg, ticks>>

SignalFromTask(o) == Running /\ k.depth = 0 /\ Signal(o)

(* ... in an interrupt that ends with portYIELD_FROM_ISR *)
SignalFromISR(o) == ~Masked /\ Signal(o)

-----------------------------------------------------------------------------
(* vTaskPrioritySet *)
PrioritySet(t, p) ==
  /\ Running /\ k.depth = 0 /\ Alive(t) /\ p # k.base[t]
  /\ LET yield == IF p > k.base[t]
                    THEN t # k.cur /\ p > k.prio[k.cur]
                    ELSE t = k.cur
     IN  k' \in YieldIf(yield, ChangePriority(t, p))
  /\ UNCHANGED <<pc, after, arg, ticks>>

(* vTaskSuspend: its first critical section ... *)
Suspend(t) ==
  /\ Running /\ Alive(t) /\ t # Idle /\ (t = k.cur => k.depth = 0)
  /\ k' = [TakenOff(k, t) EXCEPT
              !.suspended = @ \cup {t},
              !.notify[t] = IF @ = "waiting" THEN "not_waiting" ELSE @]
  /\ Goto("suspend")
  /\ arg' = [arg EXCEPT ![k.cur] = t]
  /\ UNCHANGED <<after, ticks>>

(* ... and its second one, and whether to yield *)
Suspended ==
  /\ At("suspend")
  /\ k' = ResetNextUnblockTime(k)
  /\ Goto(IF arg[k.cur] = k.cur THEN "yield" ELSE "run")
  /\ arg' = [arg EXCEPT ![k.cur] = k.cur]
  /\ UNCHANGED <<after, ticks>>

(* vTaskResume *)
Resume(t) ==
  /\ Running /\ k.depth = 0 /\ Alive(t) /\ t # k.cur /\ IsSuspended(t)
  /\ k' \in YieldIf(Preempts(k, {t}), MakeReady(k, {t}))
  /\ UNCHANGED <<pc, after, arg, ticks>>

(* xTaskResumeFromISR, in an interrupt that ends with portYIELD_FROM_ISR *)
ResumeFromISR(t) ==
  /\ ~Masked /\ Alive(t) /\ IsSuspended(t)
  /\ LET wins == Preempts(k, {t})
     IN  k' \in IF k.depth = 0
                  THEN YieldIf(wins, [MakeReady(k, {t}) EXCEPT !.yieldPending = @ \/ wins])
                  ELSE {[k EXCEPT !.pending = @ \cup {t}]}
  /\ UNCHANGED <<pc, after, arg, ticks>>

-----------------------------------------------------------------------------
(* vTaskSuspendAll and xTaskResumeAll, called by a task *)
SuspendScheduler ==
  /\ Running /\ k.depth < MaxDepth
  /\ k' = SuspendAll(k)
  /\ UNCHANGED <<pc, after, arg, ticks>>

ResumeScheduler ==
  /\ Running /\ k.depth > 0
  /\ k' = DrainPending(k)
  /\ Goto(IF k.depth = 1 THEN "catchup" ELSE "run")
  /\ UNCHANGED <<after, arg, ticks>>

(* xTaskCatchUpTicks *)
CatchUpTicks(n) ==
  /\ Running /\ k.depth = 0 /\ k.pended + n <= MaxPended
  /\ k' = [SuspendAll(k) EXCEPT !.pended = @ + n]
  /\ Goto("unlock")
  /\ ticks' = (ticks + n) % TickMod
  /\ UNCHANGED <<after, arg>>

-----------------------------------------------------------------------------
(* xTaskAbortDelay: the scheduler is suspended and the state read ... *)
AbortDelay(t) ==
  /\ Running /\ k.depth = 0 /\ Alive(t)
  /\ k' = SuspendAll(k)
  /\ Goto(IF IsBlocked(t) THEN "abort" ELSE "unlock")
  /\ arg' = [arg EXCEPT ![k.cur] = IF IsBlocked(t) THEN t ELSE k.cur]
  /\ UNCHANGED <<after, ticks>>

(* ... then the task leaves its lists, unless an interrupt moved its event *)
(* item meanwhile it is the one it was found on ...                        *)
AbortBlocked ==
  /\ At("abort")
  /\ LET t   == arg[k.cur]
         off == OffEventLists(OffStateList(k, t), {t})
     IN  k' = IF t \in Waiters(k) \cup k.pending
                THEN [off EXCEPT !.aborted = @ \cup {t}] ELSE off
  /\ Goto("aborted")
  /\ UNCHANGED <<after, arg, ticks>>

(* ... and joins its ready list, before the scheduler is resumed *)
AbortReady ==
  /\ At("aborted")
  /\ LET t == arg[k.cur]
     IN  k' = [AddToReadyList(k, t) EXCEPT !.yieldPending = @ \/ Preempts(k, {t})]
  /\ Goto("unlock")
  /\ arg' = [arg EXCEPT ![k.cur] = k.cur]
  /\ UNCHANGED <<after, ticks>>

-----------------------------------------------------------------------------
KernelStep == UnlockScheduler \/ CatchUp \/ Unlocked \/ Yield \/ Exit
              \/ Created \/ Suspended \/ AbortBlocked \/ AbortReady

TaskCall ==
  \/ \E t \in Task : \/ Create(t) \/ Delete(t) \/ Suspend(t) \/ Resume(t)
                     \/ AbortDelay(t)
                     \/ \E p \in NewPrios : PrioritySet(t, p)
  \/ \E n \in Delays : \/ Delay(n) \/ CatchUpTicks(n)
                       \/ \E prev \in Tick : DelayUntil(prev, n)
                       \/ \E o \in Object : WaitOn(o, n)
  \/ \E o \in Object : SignalFromTask(o)
  \/ DeleteSelf \/ TaskYield \/ SuspendScheduler \/ ResumeScheduler

Interrupt ==
  \/ TickInterrupt
  \/ \E t \in Task : ResumeFromISR(t)
  \/ \E o \in Object : SignalFromISR(o)

Next == KernelStep \/ TaskCall \/ Interrupt \/ IdleCleanUp \/ IdleYield

Init == DispatchInit

Spec == Init /\ [][Next]_kernelVars

-----------------------------------------------------------------------------
(* Properties. *)

TypeOK ==
  /\ k \in KType
  /\ pc \in [Task -> Place] /\ after \in [Task -> Place]
  /\ arg \in [Task -> Task]
  /\ ticks \in Tick

(* The state item of the task that xTaskAbortDelay is moving is on no list *)
InTransit == IF At("aborted") THEN {arg[k.cur]} ELSE {}

(* No task is ever lost or on two lists at once: the state item of every   *)
(* task that exists is on exactly one list, that of a task that does not   *)
(* on none.  A ready task is on the list of its priority, and the bit map  *)
(* says exactly which of these have a task: taskSELECT_HIGHEST_PRIORITY_   *)
(* TASK is never sent to an empty one (its configASSERT).                  *)
EveryTaskOnItsList ==
  /\ OnOneListOnly(k)
  /\ Listed(k) = {t \in Task : pc[t] # "gone"} \ InTransit
  /\ k.dying = {t \in Task : pc[t] = "exit"}
  /\ ReadyAtPriority(k) /\ TopIsExact(k)

(* The event items agree with the state items, whatever interrupts did to  *)
(* them while the scheduler was suspended; each event list is in an order. *)
EventItems == EventItemsConsistent(k) /\ EventListsOrdered(k)

(* xNextTaskUnblockTime never hides a wake-up: no task on the delayed list *)
(* is due before it, none is overdue, and the overflow list holds what is  *)
(* due after the counter has wrapped.                                      *)
NoOversleep == TimesConsistent(k)

(* No tick is lost or counted twice while the scheduler is suspended. *)
TicksConserved == (k.tick + k.pended) % TickMod = ticks

(* A task that runs its own code with the scheduler running has the        *)
(* highest priority of the ready tasks: no call and no interrupt forgets   *)
(* the context switch it owes.                                             *)
RunsHighest ==
  At("run") /\ k.depth = 0 =>
    /\ k.cur \in k.ready[k.prio[k.cur]]
    /\ \A p \in k.top : p <= k.prio[k.cur]

(* "The event list is sorted in priority order, so the first in the list   *)
(* [...] is known to be the highest priority" (xTaskRemoveFromEventList)   *)
HeadHasHighestPriority ==
  \A o \in Object : \A t \in FirstWaiters(k, o, 1), u \in k.waiting[o] :
     k.prio[u] <= k.prio[t]

(* The numbers of tasks and of tasks to be freed are those of the lists:   *)
(* prvCheckTasksWaitingTermination never reads the head of an empty list.  *)
CountsMatch ==
  /\ k.count = Cardinality({t \in Task : pc[t] # "gone"})
  /\ k.cleanup = Cardinality(k.dying)

(* A tick makes ready exactly the delayed tasks whose wake time has come,  *)
(* across the wrap of the counter and the swap of the delayed lists.       *)
TickWakesExactly ==
  [][ k'.tick # k.tick =>
        /\ k'.tick = (k.tick + 1) % TickMod
        /\ \A t \in k.delayed \cup k.overflow :
             t \in ReadyTasks(k') <=> k.wake[t] = k'.tick ]_kernelVars

(* xTaskDelayUntil keeps its period: exactly when fewer than n ticks have  *)
(* passed since the previous wake time the task waits, and then until n    *)
(* ticks after it, wherever the counter wrapped in between.                *)
PeriodStep ==
  \A prev \in Tick, n \in Delays : DelayUntil(prev, n) =>
    IF (k.tick + TickMod - prev) % TickMod < n
      THEN /\ k.cur \in k'.delayed \cup k'.overflow
           /\ k'.wake[k.cur] = (prev + n) % TickMod
      ELSE k'.ready = k.ready

DelayUntilKeepsPeriod == [][PeriodStep]_kernelVars

(* Sections with the scheduler suspended exclude each other: a task in the *)
(* middle of one is the running task, no other is in one, and the          *)
(* suspension it sees is its own.                                          *)
SuspendedSectionsExclusive ==
  /\ \A t \in Task \ {k.cur} :
       pc[t] \notin {"unlock", "block", "abort", "aborted", "catchup", "catchup_block"}
  /\ pc[k.cur] \in {"unlock", "block", "abort", "aborted"} => k.depth = 1
  /\ Masked => k.depth = 0

(* The inductive invariant behind these properties, in two layers.  The    *)
(* first says who is where: the idle task never leaves its loop, only      *)
(* tasks that exist wait to be freed, and an abort is about a live task.   *)
ControlInv ==
  /\ TypeOK /\ SuspendedSectionsExclusive /\ TicksConserved /\ CountsMatch
  /\ k.dying = {t \in Task : pc[t] = "exit"}
  /\ pc[Idle] = "run" /\ after = [t \in Task |-> "run"]
  /\ At("abort") => Alive(arg[k.cur])

(* With the scheduler suspended the running task is inside a section that  *)
(* ends by resuming it, and the task an abort is about is still where the  *)
(* abort found it.                                                         *)
SuspendedByCurrent ==
  /\ k.depth > 0 =>
       \/ pc[k.cur] \in {"run", "unlock", "block", "abort", "aborted"}
       \/ At("suspend") /\ arg[k.cur] # k.cur
  /\ At("abort") => arg[k.cur] \in k.delayed \cup k.overflow \cup k.suspended
  /\ At("aborted") => pc[arg[k.cur]] # "gone"

(* The places at which the running task is ready and has no switch to come *)
(* but the one xTaskResumeAll makes.                                       *)
InCode ==
  \/ pc[k.cur] \in {"run", "unlock", "catchup", "abort", "aborted"}
  \/ At("suspend") /\ arg[k.cur] # k.cur

(* A context switch that is owed is taken by the running task itself, or   *)
(* noted in xYieldPendings while the scheduler is, or was just, suspended. *)
SwitchIsOwed ==
  /\ Idle \in ReadyTasks(k)
  /\ k.base = k.prio
  /\ InCode => /\ k.cur \in ReadyTasks(k)
               /\ \/ \A p \in k.top : p <= k.prio[k.cur]
                  \/ k.yieldPending /\ (k.depth > 0 \/ Masked)
  /\ At("created") =>
       /\ k.cur \in ReadyTasks(k)
       /\ \A p \in k.top : p <= k.prio[k.cur] \/ p <= k.prio[arg[k.cur]]

(* The second says what the lists hold, and which context switch is owed. *)
IInv ==
  /\ ControlInv /\ EveryTaskOnItsList /\ EventItemsConsistent(k) /\ NoOversleep
  /\ SuspendedByCurrent /\ SwitchIsOwed

(* A task that delays, or waits with a time limit, does not stay on the    *)
(* delayed lists for good, though these change places at each wrap.        *)
DelaysEnd ==
  \A t \in Task : []<>(t \notin k.delayed \cup k.overflow)

=============================================================================
