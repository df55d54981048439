------------------------------ MODULE MultiCore ------------------------------
(***************************************************************************)
(* The scheduler of tasks.c built for several cores                        *)
(* (configNUMBER_OF_CORES > 1).  A core changes the scheduler's state only *)
(* with the task lock and the interrupt lock held, so a critical section,  *)
(* an interrupt handler's call and a context switch are one step each; the *)
(* cores' steps interleave, and a core asked to yield does so later.  The  *)
(* interrupt that portYIELD_CORE raises and the locks belong to the port.  *)
(***************************************************************************)
EXTENDS Integers, Sequences, FiniteSetsExt, SequencesExt

CONSTANTS
  Cores,        \* configNUMBER_OF_CORES
  Task,         \* the tasks of the application
  Idle,         \* [Core -> its idle task]
  MaxPriority,  \* configMAX_PRIORITIES - 1
  Masks,        \* the affinity masks that tasks are given: sets of cores
  Options,      \* the builds: [multi, affinity, hold], configRUN_MULTIPLE_PRIORITIES,
                \* configUSE_CORE_AFFINITY and configUSE_TASK_PREEMPTION_DISABLE
  Repriorities, \* may a task InBetween be given another priority?
  MaxPended,    \* bound: ticks while the scheduler is suspended
  NoCore

Core == 0 .. Cores - 1
IdleTasks == {Idle[c] : c \in Core}
All == Task \cup IdleTasks
Priorities == 0 .. MaxPriority
NotRunning == -1
Yielding == -2                                 \* taskTASK_SCHEDULED_TO_YIELD

MultiCoreAssumption ==
  /\ Cores \in Nat \ {0} /\ MaxPriority \in Nat /\ MaxPended \in Nat
  /\ Repriorities \in BOOLEAN
  /\ Idle \in [Core -> All] /\ \A c, d \in Core : c # d => Idle[c] # Idle[d]
  /\ IdleTasks \cap Task = {} /\ NoCore \notin Core
  /\ Masks \subseteq SUBSET Core \ {{}} /\ Core \in Masks
  /\ \A o \in Options : o.hold => o.multi

VARIABLES
  k,        \* the scheduler's lists and task control blocks, see BootedWith
  option,   \* the build, one of Options
  owner,    \* the core that has suspended the scheduler, or NoCore
  leaving,  \* has the task that did blocked itself?
  owed      \* cores whose interrupt handler ends in a context switch

smpVars == <<k, option, owner, leaving, owed>>

-----------------------------------------------------------------------------
(* The ready lists.                                                        *)

Ready(s, t) == \E p \in Priorities : Contains(s.ready[p], t)

AddToReady(s, t) ==
  [s EXCEPT !.ready[s.prio[t]] = Append(@, t),
            !.top = IF s.prio[t] > @ THEN s.prio[t] ELSE @]

(* The scheduler has started and every core runs its idle task *)
BootedWith(prio) ==
  [ready |-> [p \in Priorities |-> IF p = 0 THEN [c \in 1 .. Cores |-> Idle[c - 1]] ELSE <<>>],
   prio |-> [t \in All |-> IF t \in Task THEN prio[t] ELSE 0],
   top |-> 0,
   cur |-> [c \in Core |-> Idle[c]],
   run |-> [t \in All |-> IF t \in Task THEN NotRunning ELSE CHOOSE c \in Core : Idle[c] = t],
   yp |-> [c \in Core |-> FALSE],
   aff |-> [t \in All |-> Core],
   held |-> {}, pending |-> <<>>, pended |-> 0,
   delayed |-> <<>>, suspended |-> {}, dying |-> <<>>, free |-> {}]

(* Tasks made before the scheduler starts are ready, and every core runs its *)
(* idle task, which yields at once                                           *)
Init ==
  /\ \E p \in [Task -> Priorities] :
       k = FoldSet(LAMBDA t, s : AddToReady(s, t), BootedWith(p), Task)
  /\ option \in Options
  /\ owner = NoCore /\ leaving = FALSE /\ owed = Core

(* A task leaves every list its state item and its event item are on *)
Unlist(s, t) ==
  [s EXCEPT !.ready = [p \in Priorities |-> SelectSeq(s.ready[p], LAMBDA u : u # t)],
            !.delayed = SelectSeq(@, LAMBDA u : u # t), !.suspended = @ \ {t},
            !.pending = SelectSeq(@, LAMBDA u : u # t)]

MakeReady(s, t) == AddToReady(Unlist(s, t), t)

(* The priority of what a core runs: an idle task counts as less than 0 *)
Level(s, c) == IF s.cur[c] \in IdleTasks THEN s.prio[s.cur[c]] - 1 ELSE s.prio[s.cur[c]]

IsRunning(s, t) == s.run[t] \in Core

-----------------------------------------------------------------------------
(* Asking cores to yield.  here is the core that executes the code.        *)

(* prvYieldCore *)
YieldCore(s, here, c) ==
  IF c = here THEN [s EXCEPT !.yp[c] = TRUE] ELSE [s EXCEPT !.run[s.cur[c]] = Yielding]

YieldCores(s, here, cs) == FoldSet(LAMBDA c, r : YieldCore(r, here, c), s, cs)

(* A core that runs its task and has not been asked to yield *)
Settled(s, c) == IsRunning(s, s.cur[c]) /\ ~s.yp[c]

(* Among cs, the core of the lowest level; of several, the last *)
LowestCore(s, cs) ==
  CHOOSE c \in cs : \A d \in cs : Level(s, c) < Level(s, d) \/ (Level(s, c) = Level(s, d) /\ d <= c)

(* The cores where t may take the place of what runs there *)
Preemptible(s, t, most) ==
  {c \in Core : /\ Settled(s, c) /\ Level(s, c) <= most
                /\ c \in s.aff[t] /\ s.cur[c] \notin s.held}

YieldLowest(s, here, cs) == IF cs = {} THEN s ELSE YieldCore(s, here, LowestCore(s, cs))


(* prvYieldForTask: one core yields for t; where only one priority runs at *)
(* a time, every core with a task of a lower one                           *)
YieldForTask(s, here, t) ==
  LET cs       == IF IsRunning(s, t) THEN {} ELSE Preemptible(s, t, s.prio[t] - 1)
      lower == {c \in Core : Settled(s, c) /\ Level(s, c) \in 0 .. s.prio[t] - 1}
  IN  IF option.multi THEN YieldLowest(s, here, cs)
      ELSE IF s.prio[t] < s.top THEN s
      ELSE IF lower # {} THEN YieldCores(s, here, lower)
      ELSE YieldLowest(s, here, cs)

-----------------------------------------------------------------------------
(* prvSelectHighestPriorityTask, on core c.                                *)

Rotated(s, c) ==
  LET t == s.cur[c]
      p == s.prio[t]
  IN  IF Contains(s.ready[p], t)
      THEN [s EXCEPT !.ready[p] = Append(SelectSeq(@, LAMBDA u : u # t), t)] ELSE s

Eligible(s, c, p) ==
  SelectSeq(s.ready[p], LAMBDA t : /\ s.run[t] = NotRunning \/ t = s.cur[c]
                                   /\ c \in s.aff[t]
                                   /\ option.multi \/ p = s.top \/ t \in IdleTasks)

(* The levels that are looked at: where only one priority runs at a time,  *)
(* the highest and then the idle tasks                                     *)
Levels(s) == IF option.multi THEN 0 .. s.top ELSE {0, s.top}

(* The previous task of the core is still ready: some other core that may  *)
(* run it has a lower one                                                  *)
MoveElsewhere(s, c, previous, chosen) ==
  LET allowed == IF c \in s.aff[previous] THEN s.aff[previous] \ s.aff[chosen] ELSE s.aff[previous]
      level   == IF previous \in IdleTasks THEN s.prio[previous] - 1 ELSE s.prio[previous]
      cs      == {d \in allowed : Settled(s, d) /\ Level(s, d) < level /\ s.cur[d] \notin s.held}
  IN  IF option.affinity /\ previous # chosen /\ Ready(s, previous)
      THEN YieldLowest(s, c, cs) ELSE s

(* The idle cores look again when the highest priority has dropped *)
Spread(s, c, dropped) ==
  IF ~option.multi /\ dropped
  THEN YieldCores(s, c, {d \in Core : s.cur[d] \in IdleTasks}) ELSE s

Select(s, c) ==
  LET r   == Rotated(s, c)
      top == Max({p \in 0 .. r.top : r.ready[p] # <<>>})
      u   == [r EXCEPT !.top = top]
      ps  == {p \in Levels(u) : Eligible(u, c, p) # <<>>}
      t   == Head(Eligible(u, c, Max(ps)))
      v   == [u EXCEPT !.run = [[@ EXCEPT ![u.cur[c]] = NotRunning] EXCEPT ![t] = c],
                       !.cur[c] = t]
  IN  IF ps = {} THEN u
      ELSE MoveElsewhere(Spread(v, c, top < s.top), c, s.cur[c], t)

(* vTaskSwitchContext, when the port gives core c the locks *)
SwitchContext(c) ==
  \/ /\ owner = NoCore
     /\ k' = Select([k EXCEPT !.yp[c] = FALSE], c)
     /\ owed' = owed \ {c}
     /\ UNCHANGED <<option, owner, leaving>>
  \/ /\ owner = c /\ (k.run[k.cur[c]] = Yielding \/ c \in owed)
     /\ k' = [k EXCEPT !.yp[c] = TRUE]
     /\ owed' = owed \ {c}
     /\ UNCHANGED <<option, owner, leaving>>

-----------------------------------------------------------------------------
(* What the tasks call.  A task that has been asked to yield does so before *)
(* it enters a critical section (prvCheckForRunStateChange), and leaving    *)
(* one yields if the core was asked to meanwhile (vTaskExitCritical).       *)

InTask(c) ==
  /\ k.cur[c] \in Task
  /\ \/ owner = NoCore /\ c \notin owed /\ ~k.yp[c] /\ k.run[k.cur[c]] = c
     \/ owner = c /\ ~leaving

Keep == UNCHANGED <<option, owner, leaving, owed>>

(* xTaskCreate, xTaskCreateAffinitySet: prvAddNewTaskToReadyList *)
Create(c) ==
  /\ InTask(c)
  /\ \E t \in k.free, p \in Priorities, m \in Masks :
       /\ option.affinity \/ m = Core
       /\ LET s == [k EXCEPT !.prio[t] = p, !.aff[t] = m, !.free = @ \ {t}]
          IN  k' = YieldForTask(AddToReady(s, t), c, t)
  /\ Keep

Created == Task \ (k.free \cup Range(k.dying))

(* prvDeleteTCB; nothing reads what is left of the control block *)
DeleteTCB(s, t) ==
  [s EXCEPT !.free = @ \cup {t}, !.prio[t] = 0, !.aff[t] = Core, !.held = @ \ {t}]

(* vTaskDelete: a task that some core still runs is freed by the idle task *)
Delete(c) ==
  /\ InTask(c)
  /\ \E t \in Created :
       LET s == Unlist(k, t) IN
       IF k.run[t] = NotRunning THEN k' = DeleteTCB(s, t)
       ELSE LET d == [s EXCEPT !.dying = Append(@, t)] IN
            /\ t = k.cur[c] => owner = NoCore
            /\ k' = IF IsRunning(k, t) THEN YieldCore(d, c, k.run[t]) ELSE d
  /\ Keep

(* Faulty: the idle task frees a task that a core has not left yet *)
CheckTasksWaitingTermination_Any(c) ==
  /\ k.cur[c] = Idle[0] /\ owner = NoCore /\ k.run[Idle[0]] = c
  /\ k.dying # <<>>
  /\ k' = DeleteTCB([k EXCEPT !.dying = Tail(@)], Head(k.dying))
  /\ Keep

(* prvCheckTasksWaitingTermination *)
CheckTasksWaitingTermination(c) ==
  /\ k.cur[c] = Idle[0] /\ owner = NoCore /\ k.run[Idle[0]] = c
  /\ k.dying # <<>> /\ k.run[Head(k.dying)] = NotRunning
  /\ k' = DeleteTCB([k EXCEPT !.dying = Tail(@)], Head(k.dying))
  /\ Keep

(* A task on its way to or from a core *)
InBetween(t) == \/ Contains(k.pending, t)
                \/ k.run[t] = Yielding \/ \E c \in Core : k.cur[c] = t /\ (k.yp[c] \/ c \in owed)

(* vTaskPrioritySet *)
PrioritySet(c) ==
  /\ InTask(c)
  /\ \E t \in Created, p \in Priorities :
       /\ p # k.prio[t] /\ (Repriorities \/ ~InBetween(t))
       /\ LET s == [k EXCEPT !.prio[t] = p]
              r == IF Ready(k, t) THEN MakeReady(s, t) ELSE s
          IN  k' = IF p > k.prio[t] THEN IF Ready(k, t) THEN YieldForTask(r, c, t) ELSE r
                   ELSE IF IsRunning(k, t) /\ t \notin k.held THEN YieldCore(r, c, k.run[t])
                   ELSE r
  /\ Keep

(* vTaskCoreAffinitySet *)
CoreAffinitySet(c) ==
  /\ option.affinity /\ InTask(c)
  /\ \E t \in Created, m \in Masks :
       LET s == [k EXCEPT !.aff[t] = m] IN
       k' = IF IsRunning(k, t)
            THEN IF k.run[t] \in m THEN s ELSE YieldCore(s, c, k.run[t])
            ELSE IF m \ k.aff[t] # {} THEN YieldForTask(s, c, t) ELSE s
  /\ Keep

(* vTaskPreemptionDisable *)
PreemptionDisable(c) ==
  /\ option.hold /\ InTask(c)
  /\ \E t \in Created : k' = [k EXCEPT !.held = @ \cup {t}]
  /\ Keep

(* vTaskPreemptionEnable *)
PreemptionEnable(c) ==
  /\ option.hold /\ InTask(c)
  /\ \E t \in k.held \cap Created :
       LET s == [k EXCEPT !.held = @ \ {t}] IN
       k' = IF IsRunning(k, t) THEN YieldCore(s, c, k.run[t]) ELSE s
  /\ Keep

(* vTaskSuspend *)
Suspend(c) ==
  /\ InTask(c)
  /\ \E t \in Created :
       LET s == [Unlist(k, t) EXCEPT !.suspended = @ \cup {t}] IN
       /\ t = k.cur[c] => owner = NoCore
       /\ k' = IF IsRunning(k, t) THEN YieldCore(s, c, k.run[t]) ELSE s
  /\ Keep

(* prvTaskIsTaskSuspended *)
IsSuspended(t) == t \in k.suspended /\ ~Contains(k.pending, t)

(* vTaskResume *)
Resume(c) ==
  /\ InTask(c)
  /\ \E t \in Task : IsSuspended(t) /\ k' = YieldForTask(MakeReady(k, t), c, t)
  /\ Keep

(* vTaskSuspendAll takes the task lock until xTaskResumeAll releases it *)
SuspendAll(c) ==
  /\ InTask(c) /\ owner = NoCore
  /\ owner' = c
  /\ UNCHANGED <<k, option, leaving, owed>>

(* vTaskDelay, with the scheduler suspended: prvAddCurrentTaskToDelayedList. *)
(* The list is sorted by wake times, so the task may go anywhere in it.      *)
Delay(c) ==
  /\ InTask(c) /\ owner = c
  /\ Ready(k, k.cur[c])
  /\ \E i \in 1 .. Len(k.delayed) + 1 :
       k' = [Unlist(k, k.cur[c]) EXCEPT !.delayed = InsertAt(@, i, k.cur[c])]
  /\ leaving' = TRUE
  /\ UNCHANGED <<option, owner, owed>>

(* xTaskAbortDelay, with the scheduler suspended *)
AbortDelay(c) ==
  /\ InTask(c) /\ owner = c
  /\ \E t \in Range(k.delayed) : k' = YieldForTask(MakeReady(k, t), c, t)
  /\ Keep

-----------------------------------------------------------------------------
(* The tick and the other interrupts.                                      *)

(* The n tasks whose time has come *)
WakeFirst(s, here, n) ==
  FoldLeft(LAMBDA r, t : YieldForTask(MakeReady(r, t), here, t), s, SubSeq(s.delayed, 1, n))

Shared(s, c) == Len(s.ready[s.prio[s.cur[c]]]) > 1

(* xTaskIncrementTick: the state after it, and whether this core switches *)
MustYield(s) == {c \in Core : (Shared(s, c) \/ s.yp[c]) /\ s.cur[c] \notin s.held}
IncrementTick(s, here, n) ==
  LET w == WakeFirst(s, here, n)
  IN  [state |-> YieldCores(w, here, MustYield(w) \ {here}), switch |-> here \in MustYield(w)]

Tick(c) ==
  \/ /\ owner = NoCore
     /\ \E n \in 0 .. Len(k.delayed) :
          LET r == IncrementTick(k, c, n)
          IN  /\ k' = r.state
              /\ owed' = IF r.switch THEN owed \cup {c} ELSE owed
     /\ UNCHANGED <<option, owner, leaving>>
  \/ /\ owner # NoCore /\ k.pended < MaxPended
     /\ k' = [k EXCEPT !.pended = @ + 1]
     /\ Keep

(* xTaskResumeFromISR, and xTaskRemoveFromEventList called by an interrupt: *)
(* a suspended task, or one that waits for an event with a timeout          *)
ResumeFromISR(c) ==
  /\ \E t \in {u \in Task : IsSuspended(u)} \cup (Range(k.delayed) \ Range(k.pending)) :
       LET s == IF owner = NoCore THEN MakeReady(k, t) ELSE [k EXCEPT !.pending = Append(@, t)]
           r == YieldForTask(s, c, t)
       IN  /\ k' = r
           /\ owed' = IF r.yp[c] THEN owed \cup {c} ELSE owed
  /\ UNCHANGED <<option, owner, leaving>>

(* One tick that was missed, when n tasks or all that are left have to wake *)
MissedTick(s, here, n) ==
  LET r == IncrementTick(s, here, Min({n, Len(s.delayed)}))
  IN  IF r.switch THEN [r.state EXCEPT !.yp[here] = TRUE] ELSE r.state

(* xTaskResumeAll, and the rest of vTaskDelay: the pending tasks become     *)
(* ready, for which cores were asked to yield when they came, the ticks     *)
(* that were missed follow, and leaving the critical section yields         *)
ResumeAll(c) ==
  /\ owner = c
  /\ LET s == FoldLeft(MakeReady, k, k.pending) IN
     \E wakes \in [1 .. k.pended -> 0 .. Len(s.delayed)] :
       LET r == [FoldLeft(LAMBDA u, n : MissedTick(u, c, n), s, wakes) EXCEPT !.pended = 0]
       IN  k' = IF leaving THEN [r EXCEPT !.yp[c] = TRUE] ELSE r
  /\ owner' = NoCore /\ leaving' = FALSE
  /\ UNCHANGED <<option, owed>>

Next ==
  \E c \in Core :
    \/ SwitchContext(c) \/ Create(c) \/ Delete(c) \/ CheckTasksWaitingTermination(c)
    \/ PrioritySet(c) \/ CoreAffinitySet(c) \/ PreemptionDisable(c) \/ PreemptionEnable(c)
    \/ Suspend(c) \/ Resume(c) \/ SuspendAll(c) \/ Delay(c) \/ AbortDelay(c)
    \/ Tick(c) \/ ResumeFromISR(c) \/ ResumeAll(c)

Spec == Init /\ [][Next]_smpVars

-----------------------------------------------------------------------------
(* No core has a context switch to do *)
Quiet == owner = NoCore /\ owed = {} /\ \A c \in Core : Settled(k, c)

(* The cores run different tasks, a task knows the core it runs on and      *)
(* exists until that core has left it; and when every core has done the     *)
(* switches it was asked for, each runs a ready task that it may run.       *)
CoresAgree ==
  /\ \A c \in Core : /\ k.run[k.cur[c]] \in {c, Yielding}
                     /\ k.cur[c] \notin k.free
                     /\ \A d \in Core : c # d => k.cur[c] # k.cur[d]
                     /\ Quiet => Ready(k, k.cur[c]) /\ c \in k.aff[k.cur[c]]
  /\ \A t \in All : k.run[t] # NotRunning => \E c \in Core : k.cur[c] = t

(* Of the ready tasks, those of the highest priority                       *)
Top == {t \in All : Ready(k, t) /\ \A u \in All : Ready(k, u) => k.prio[u] <= k.prio[t]}

(* Then, too, in a build that runs several priorities no task waits for a   *)
(* core that runs something of lower priority, unless that has disabled its *)
(* preemption.  In one that runs one priority at a time each core runs a    *)
(* task of the highest priority, or idles when no such task waits.  (With   *)
(* core affinities it fails: a task whose core is taken by one that may run *)
(* on no other core is not moved to a core where it could run.)             *)
HighestRun ==
  Quiet /\ ~option.affinity =>
    /\ option.multi =>
         \A t \in Task, c \in Core :
           Ready(k, t) /\ k.run[t] = NotRunning
             => k.cur[c] \in k.held \/ k.prio[k.cur[c]] >= k.prio[t]
    /\ ~option.multi =>
         \A c \in Core : \/ k.cur[c] \in Top
                         \/ k.cur[c] \in IdleTasks /\ \A t \in Top : k.run[t] # NotRunning
=============================================================================
