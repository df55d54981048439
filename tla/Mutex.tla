------------------------------- MODULE Mutex --------------------------------
(***************************************************************************)
(* Mutexes of queue.c (configUSE_MUTEXES), plain and recursive, on top of  *)
(* the kernel, and the priority inheritance of tasks.c.  A mutex is a      *)
(* queue of one item of size 0 that holds its item while it is free; its   *)
(* event list is that of the tasks that wait to take it.  No interrupt     *)
(* reaches a mutex, and while a task has the scheduler suspended no other  *)
(* task does: what a call does then, up to xTaskResumeAll, is one step.    *)
(***************************************************************************)
EXTENDS Scheduler

CONSTANTS
  Nobody,      \* no task holds the mutex: xMutexHolder is NULL
  Recursive,   \* the recursive mutexes
  Uses,        \* the mutexes each task takes, and with which block times
  MaxNesting,  \* bound: nested takes of a recursive mutex
  Abortable,   \* the tasks xTaskAbortDelay is called on
  Sleepers     \* the tasks that call vTaskDelay

MutexAssumption ==
  /\ Nobody \notin Task \cup Object /\ Recursive \subseteq Object
  /\ Uses \in [Task -> SUBSET (Object \X Tick)] /\ Uses[Idle] = {}
  /\ MaxNesting \in Nat \ {0} /\ Abortable \cup Sleepers \subseteq Task

VARIABLES
  holder,      \* xMutexHolder of each mutex; it is free when this is Nobody
  nesting,     \* uxRecursiveCallCount
  held,        \* uxMutexesHeld of each task
  call,        \* the mutex each task is taking, or Nobody
  left,        \* its xTicksToWait
  entry,       \* its xTimeOut
  inherited    \* its xInheritanceOccurred

mutexVars == <<holder, nesting, held, call, left, entry, inherited>>
vars == <<kernelVars, mutexVars>>

NotSet == [set |-> FALSE, overflows |-> 0, at |-> 0]

MutexInit ==
  /\ DispatchInit
  /\ holder = [m \in Object |-> Nobody] /\ nesting = [m \in Object |-> 0]
  /\ held = [t \in Task |-> 0] /\ call = [t \in Task |-> Nobody]
  /\ left = [t \in Task |-> 0] /\ entry = [t \in Task |-> NotSet]
  /\ inherited = [t \in Task |-> FALSE]

-----------------------------------------------------------------------------
(* Priority inheritance, on the kernel's record s. *)

(* Faulty: the bit of a list that becomes empty stays set *)
MoveReady_KeepsBit(s, t, p, cleared) ==
  LET off == [s EXCEPT !.prio[t] = p, !.ready[s.prio[t]] = @ \ {t}]
  IN  IF t \in s.ready[s.prio[t]] THEN AddToReadyList(off, t) ELSE [s EXCEPT !.prio[t] = p]

(* The state item of a ready task moves to the list of priority p, and the *)
(* bit of "cleared" is cleared if it was alone on its list.                *)
MoveReady(s, t, p, cleared) ==
  LET old  == s.prio[t]
      off  == [s EXCEPT !.prio[t] = p, !.ready[old] = @ \ {t},
                        !.top = IF s.ready[old] = {t} THEN @ \ {cleared} ELSE @]
  IN  IF t \in s.ready[old] THEN AddToReadyList(off, t) ELSE [s EXCEPT !.prio[t] = p]

(* xTaskPriorityInherit: the holder h gets the priority of the running     *)
(* task if that is higher; its event item keeps its place in its list      *)
PriorityInherit(s, h) ==
  IF s.prio[h] < s.prio[s.cur]
    THEN MoveReady([s EXCEPT !.key[h] = MaxPrio - s.prio[s.cur]], h, s.prio[s.cur], s.prio[h])
    ELSE s

(* ... and its result *)
InheritanceOccurs(s, h) == s.prio[h] < s.prio[s.cur] \/ s.base[h] < s.prio[s.cur]

(* xTaskPriorityDisinherit: the running task gives its last mutex back ... *)
Disinherits(s, t) == s.prio[t] # s.base[t] /\ held[t] = 1

(* ... and with it the priority it inherited. *)
PriorityDisinherit(s, t) ==
  IF Disinherits(s, t)
    THEN MoveReady([s EXCEPT !.key[t] = MaxPrio - s.base[t]], t, s.base[t], s.prio[t])
    ELSE s

(* prvGetDisinheritPriorityAfterTimeout: from the head of the event list *)
HighestWaiting(s, m) ==
  IF s.waiting[m] = {} THEN 0
  ELSE LET head == CHOOSE t \in s.waiting[m] : t \in FirstWaiters(s, m, 1)
       IN  MaxPrio - s.key[head]

(* Faulty: the tasks that still wait are overlooked *)
PriorityToUse_Base(s, h, m) == s.base[h]

PriorityToUse(s, h, m) ==
  LET highest == HighestWaiting(s, m) IN IF s.base[h] < highest THEN highest ELSE s.base[h]

(* vTaskPriorityDisinheritAfterTimeout.  The bit it clears is that of the  *)
(* new priority.                                                           *)
DisinheritAfterTimeout(s, h, m) ==
  LET p == PriorityToUse(s, h, m)
  IN  IF s.prio[h] # p /\ held[h] = 1
        THEN MoveReady([s EXCEPT !.key[h] = MaxPrio - p], h, p, p) ELSE s

-----------------------------------------------------------------------------
me == k.cur

Calling == Running /\ k.depth = 0

Leave ==
  /\ call' = [call EXCEPT ![me] = Nobody] /\ left' = [left EXCEPT ![me] = 0]
  /\ entry' = [entry EXCEPT ![me] = NotSet]
  /\ inherited' = [inherited EXCEPT ![me] = FALSE]
  /\ pc' = [pc EXCEPT ![me] = "run"] /\ after' = [after EXCEPT ![me] = "run"]

(* xSemaphoreTake, or xSemaphoreTakeRecursive by a task that does not hold *)
(* the mutex: xQueueSemaphoreTake                                          *)
Take(m, n) ==
  /\ Calling /\ holder[m] # me
  /\ call' = [call EXCEPT ![me] = m] /\ left' = [left EXCEPT ![me] = n]
  /\ Goto("try")
  /\ UNCHANGED <<k, after, arg, ticks, holder, nesting, held, entry, inherited>>

(* xQueueTakeMutexRecursive by the holder *)
TakeAgain(m) ==
  /\ Calling /\ m \in Recursive /\ holder[m] = me /\ nesting[m] < MaxNesting
  /\ nesting' = [nesting EXCEPT ![m] = @ + 1]
  /\ UNCHANGED <<kernelVars, holder, held, call, left, entry, inherited>>

(* The critical section at the top of the loop: the mutex is free, ... *)
Obtain ==
  /\ At("try") /\ holder[call[me]] = Nobody
  /\ holder' = [holder EXCEPT ![call[me]] = me]
  /\ held' = [held EXCEPT ![me] = @ + 1]
  /\ nesting' = [nesting EXCEPT ![call[me]] = IF call[me] \in Recursive THEN @ + 1 ELSE @]
  /\ Leave
  /\ UNCHANGED <<k, arg, ticks>>

(* ... or is not, and the caller may not block, ... *)
GiveUp ==
  /\ At("try") /\ holder[call[me]] # Nobody /\ left[me] = 0
  /\ Leave
  /\ UNCHANGED <<k, arg, ticks, holder, nesting, held>>

(* ... or may, and notes the time. *)
Enter ==
  /\ At("try") /\ holder[call[me]] # Nobody /\ left[me] # 0
  /\ entry' = IF entry[me].set THEN entry
                ELSE [entry EXCEPT ![me] =
                        [set |-> TRUE, overflows |-> k.overflows, at |-> k.tick]]
  /\ Goto("enter")
  /\ UNCHANGED <<k, after, arg, ticks, holder, nesting, held, call, left, inherited>>

(* xTaskCheckForTimeOut *)
Elapsed == (k.tick + TickMod - entry[me].at) % TickMod

TimedOut ==
  /\ left[me] # MaxDelay
  /\ \/ k.overflows # entry[me].overflows /\ k.tick >= entry[me].at
     \/ Elapsed >= left[me]

(* With the scheduler suspended, the call was aborted, or has timed out:   *)
(* then no ticks are left, ...                                             *)
RunsOut ==
  /\ At("enter") /\ (me \in k.aborted \/ TimedOut)
  /\ k' = [SuspendAll(k) EXCEPT !.aborted = @ \ {me}]
  /\ left' = IF me \in k.aborted THEN left ELSE [left EXCEPT ![me] = 0]
  /\ Goto("unlock") /\ after' = [after EXCEPT ![me] = "expired"]
  /\ UNCHANGED <<arg, ticks, holder, nesting, held, call, entry, inherited>>

TicksGone ==
  IF left[me] = MaxDelay THEN UNCHANGED <<left, entry>>
  ELSE /\ left' = [left EXCEPT ![me] = @ - Elapsed]
       /\ entry' = [entry EXCEPT ![me].overflows = k.overflows, ![me].at = k.tick]

(* ... or the mutex is still taken: its holder inherits, the caller waits  *)
Wait ==
  /\ At("enter") /\ me \notin k.aborted /\ ~TimedOut /\ holder[call[me]] # Nobody
  /\ TicksGone
  /\ LET m == call[me]
     IN  /\ k' = PlaceOnEventList(PriorityInherit(SuspendAll(k), holder[m]), m, left'[me])
         /\ inherited' = [inherited EXCEPT ![me] = InheritanceOccurs(k, holder[m])]
  /\ Goto("block") /\ after' = [after EXCEPT ![me] = "try"]
  /\ UNCHANGED <<arg, ticks, holder, nesting, held, call>>

(* ... or it was given back meanwhile. *)
TryAgain ==
  /\ At("enter") /\ me \notin k.aborted /\ ~TimedOut /\ holder[call[me]] = Nobody
  /\ k' = SuspendAll(k)
  /\ TicksGone
  /\ Goto("unlock") /\ after' = [after EXCEPT ![me] = "try"]
  /\ UNCHANGED <<arg, ticks, holder, nesting, held, call, inherited>>

(* The call has timed out: once more it looks whether the mutex is free ... *)
Expired ==
  /\ At("expired")
  /\ \/ holder[call[me]] = Nobody /\ Goto("try")
        /\ UNCHANGED <<after, call, left, entry, inherited>>
     \/ holder[call[me]] # Nobody /\ inherited[me] /\ Goto("disinherit")
        /\ UNCHANGED <<after, call, left, entry, inherited>>
     \/ holder[call[me]] # Nobody /\ ~inherited[me] /\ Leave
  /\ UNCHANGED <<k, arg, ticks, holder, nesting, held>>

(* ... and takes back the priority the holder had from it. *)
Disinherit ==
  /\ At("disinherit")
  /\ LET m == call[me]
     IN  k' = IF holder[m] = Nobody THEN k ELSE DisinheritAfterTimeout(k, holder[m], m)
  /\ Leave
  /\ UNCHANGED <<arg, ticks, holder, nesting, held>>

(* xQueueGiveMutexRecursive, before the last of the gives *)
GiveNested(m) ==
  /\ Calling /\ m \in Recursive /\ holder[m] = me /\ nesting[m] > 1
  /\ nesting' = [nesting EXCEPT ![m] = @ - 1]
  /\ UNCHANGED <<kernelVars, holder, held, call, left, entry, inherited>>

(* Faulty: the waiters are left to their time-outs *)
HandOver_NoWake(s, m, restored) == YieldIf(restored, s)

(* The first waiter is woken.  Whether the priority given back calls for a *)
(* yield is looked at only if no task waits.                               *)
HandOver(s, m, restored) ==
  LET first == FirstWaiters(s, m, 1)
  IN  IF s.waiting[m] # {}
        THEN YieldIf(Preempts(s, first), RemoveFromEventList(s, first))
        ELSE YieldIf(restored, s)

(* The give that frees the mutex: xQueueGenericSend, prvCopyDataToQueue *)
Give(m) ==
  /\ Calling /\ holder[m] = me /\ (m \in Recursive => nesting[m] = 1)
  /\ holder' = [holder EXCEPT ![m] = Nobody]
  /\ held' = [held EXCEPT ![me] = @ - 1]
  /\ nesting' = [nesting EXCEPT ![m] = 0]
  /\ k' \in HandOver(PriorityDisinherit(k, me), m, Disinherits(k, me))
  /\ UNCHANGED <<pc, after, arg, ticks, call, left, entry, inherited>>

-----------------------------------------------------------------------------
MutexStep ==
  \/ Obtain \/ GiveUp \/ Enter \/ RunsOut \/ Wait \/ TryAgain \/ Expired \/ Disinherit
  \/ (UnlockScheduler \/ CatchUp \/ Unlocked \/ Yield) /\ UNCHANGED mutexVars

MutexCall ==
  \/ \E u \in Uses[me] : Take(u[1], u[2])
  \/ \E m \in Object : TakeAgain(m) \/ GiveNested(m) \/ Give(m)

OtherCall ==
  \/ \E t \in Abortable : AbortDelay(t)
  \/ AbortBlocked \/ AbortReady
  \/ \E n \in Delays : me \in Sleepers /\ Delay(n)
  \/ \E t \in Task, p \in NewPrios : PrioritySet(t, p)
  \/ TickInterrupt \/ IdleYield

MutexNext == MutexStep \/ MutexCall \/ (OtherCall /\ UNCHANGED mutexVars)

MutexSpec == MutexInit /\ [][MutexNext]_vars

-----------------------------------------------------------------------------
(* Properties. *)

HeldBy(t) == {m \in Object : holder[m] = t}

(* uxMutexesHeld, which decides when an inherited priority is given back,  *)
(* is the number of mutexes the task holds, though it is counted apart     *)
(* from the holders; a recursive mutex is held exactly while its takes     *)
(* outnumber its gives.                                                    *)
HoldersCounted ==
  /\ \A t \in Task : held[t] = Cardinality(HeldBy(t))
  /\ \A m \in Recursive : nesting[m] > 0 <=> holder[m] # Nobody

(* The lists, the counters and the holders agree. *)
MutexesConsistent ==
  /\ k \in KType /\ holder \in [Object -> Task \cup {Nobody}]
  /\ nesting \in [Object -> 0 .. MaxNesting] /\ HoldersCounted
  /\ EveryTaskOnItsList /\ EventItemsConsistent(k)

(* Some task may wait for m. *)
Contended(m) == \E t \in Task : \E u \in Uses[t] : u[1] = m /\ u[2] # 0

(* No task nests m with another mutex that tasks wait for, nor waits for m *)
(* while it holds another one.                                             *)
TakenAlone(m) ==
  \A t \in Task : \A u, v \in Uses[t] :
    u[1] = m /\ v[1] # m => u[2] = 0 /\ ~Contended(v[1])

(* No task of middle priority keeps a waiter from its mutex: the holder    *)
(* runs at least at the priority of every task that waits for the mutex,   *)
(* whichever of them give up.  With nested mutexes it need not: a task     *)
(* that waits for one while it holds another does not pass inheritance on  *)
(* and keeps its place in the list when its priority falls; and a give     *)
(* that takes a higher one than the first waiter's from its caller does    *)
(* not yield, so that the caller can take again what a ready task of       *)
(* higher priority was woken for.                                          *)
HoldersInherit ==
  \A m \in Object : holder[m] # Nobody /\ TakenAlone(m) =>
     \A t \in k.waiting[m] : k.base[t] <= k.prio[holder[m]]

(* A task that holds no mutex is back at its own priority. *)
OwnPriorityAtLast == \A t \in Task : held[t] = 0 => k.prio[t] = k.base[t]

NoPriorityInversion == HoldersInherit /\ OwnPriorityAtLast

(* No task waits for a mutex that is free, unless another one woken for it *)
(* is on its way.                                                          *)
NoneWaitsForFreeMutex ==
  \A m \in Object : holder[m] = Nobody /\ k.waiting[m] # {} =>
    \E t \in Task : call[t] = m /\ t \notin Waiters(k)

(* "configASSERT( listCURRENT_LIST_LENGTH( ... ) > 0 )": the priority the  *)
(* bit map says is the highest has a ready task.                           *)
SelectsFromNonEmptyList == HighestReady(k) # {}

=============================================================================
