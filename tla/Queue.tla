------------------------------- MODULE Queue --------------------------------
(***************************************************************************)
(* One queue of queue.c on top of the kernel: xQueueGenericSend,           *)
(* xQueueReceive and xQueuePeek with their loop of retries, the two locks  *)
(* that keep interrupts off the event lists, and the calls from            *)
(* interrupts.  A counting semaphore is the same code with items of size   *)
(* 0; what the items hold is the subject of QueueStorage.                  *)
(***************************************************************************)
EXTENDS Scheduler, Integers

CONSTANTS
  Length,     \* uxLength
  ToSend,     \* xTasksWaitingToSend
  ToReceive,  \* xTasksWaitingToReceive
  Role,       \* the calls each task makes
  Abortable   \* the tasks xTaskAbortDelay is called on

QueueCall == {"send", "receive", "peek"}

QueueAssumption ==
  /\ Length \in Nat \ {0} /\ ToSend # ToReceive /\ Object = {ToSend, ToReceive}
  /\ Role \in [Task -> SUBSET QueueCall] /\ Role[Idle] = {}
  /\ Abortable \subseteq Task
  /\ Boot = Task   \* this module creates no task

VARIABLES
  messages,   \* uxMessagesWaiting
  lock,       \* cTxLock is lock[ToReceive], cRxLock is lock[ToSend]
  call,       \* what each task is calling
  left,       \* its xTicksToWait
  entry,      \* its xTimeOut, and whether it is set
  fate,       \* how it leaves the locked part of the loop
  hit         \* history: xTaskAbortDelay hit the task in this call

queueVars == <<messages, lock, call, left, entry, fate, hit>>
vars == <<kernelVars, queueVars>>

UNLOCKED == -1     \* queueUNLOCKED

NotSet == [set |-> FALSE, overflows |-> 0, at |-> 0]

(* The steps of the loop, in order, and the end of a call that timed out. *)
QueuePlace ==
  {"try", "enter", "lock", "check", "test", "place", "unlockTx", "unlockRx", "expired"}

QueueTypeOK ==
  /\ messages \in 0 .. Length
  /\ lock \in [Object -> UNLOCKED .. Cardinality(Task)]
  /\ call \in [Task -> QueueCall \cup {"none"}]
  /\ left \in [Task -> Tick]
  /\ entry \in [Task -> [set : BOOLEAN, overflows : 0 .. OvfMod - 1, at : Tick]]
  /\ fate \in [Task -> {"none", "blocked", "retry", "expired"}]
  /\ hit \in [Task -> BOOLEAN]
  /\ k \in KType
  /\ pc \in [Task -> Place \cup QueuePlace]

QueueInit ==
  /\ DispatchInit
  /\ messages = 0
  /\ lock = [o \in Object |-> UNLOCKED]
  /\ call = [t \in Task |-> "none"]
  /\ left = [t \in Task |-> 0]
  /\ entry = [t \in Task |-> NotSet]
  /\ fate = [t \in Task |-> "none"]
  /\ hit = [t \in Task |-> FALSE]

-----------------------------------------------------------------------------
me == k.cur

(* The test a caller makes, and the list it then waits on. *)
CanProceed(c) == IF c = "send" THEN messages < Length ELSE messages > 0
WaitList(c) == IF c = "send" THEN ToSend ELSE ToReceive

(* The messages left by a successful call, and the list it wakes. *)
MessagesAfter(c) ==
  CASE c = "send" -> messages + 1 [] c = "receive" -> messages - 1 [] OTHER -> messages
WakeList(c) == IF c = "receive" THEN ToSend ELSE ToReceive

(* xTaskRemoveFromEventList if the list is not empty, and the yield it asks for *)
WakeOne(o) ==
  LET first == FirstWaiters(k, o, 1)
  IN  YieldIf(Preempts(k, first), RemoveFromEventList(k, first))

Leave == /\ call' = [call EXCEPT ![me] = "none"]
         /\ left' = [left EXCEPT ![me] = 0]
         /\ entry' = [entry EXCEPT ![me] = NotSet]
         /\ fate' = [fate EXCEPT ![me] = "none"]
         /\ hit' = [hit EXCEPT ![me] = FALSE]
         /\ pc' = [pc EXCEPT ![me] = "run"]
         /\ after' = [after EXCEPT ![me] = "run"]

-----------------------------------------------------------------------------
(* xQueueGenericSend, xQueueReceive or xQueuePeek is called with block     *)
(* time n.                                                                 *)
Call(c, n) ==
  /\ Running /\ k.depth = 0
  /\ call' = [call EXCEPT ![me] = c]
  /\ left' = [left EXCEPT ![me] = n]
  /\ Goto("try")
  /\ UNCHANGED <<k, after, arg, ticks, messages, lock, entry, fate, hit>>

(* The critical section at the top of the loop: the call succeeds, ... *)
Succeed ==
  /\ At("try") /\ CanProceed(call[me])
  /\ messages' = MessagesAfter(call[me])
  /\ k' \in WakeOne(WakeList(call[me]))
  /\ Leave
  /\ UNCHANGED <<arg, ticks, lock>>

(* ... gives up because it may not block, ... *)
GiveUp ==
  /\ At("try") /\ ~CanProceed(call[me]) /\ left[me] = 0
  /\ Leave
  /\ UNCHANGED <<k, arg, ticks, messages, lock>>

(* ... or goes on to block, with the time of its first attempt noted. *)
Enter ==
  /\ At("try") /\ ~CanProceed(call[me]) /\ left[me] # 0
  /\ entry' = IF entry[me].set THEN entry
                ELSE [entry EXCEPT ![me] =
                        [set |-> TRUE, overflows |-> k.overflows, at |-> k.tick]]
  /\ Goto("enter")
  /\ UNCHANGED <<k, after, arg, ticks, messages, lock, call, left, fate, hit>>

LockScheduler ==
  /\ At("enter")
  /\ k' = SuspendAll(k)
  /\ Goto("lock")
  /\ UNCHANGED <<after, arg, ticks, queueVars>>

(* prvLockQueue *)
LockQueue ==
  /\ At("lock")
  /\ lock' = [o \in Object |-> IF lock[o] = UNLOCKED THEN 0 ELSE lock[o]]
  /\ Goto("check")
  /\ UNCHANGED <<k, after, arg, ticks, messages, call, left, entry, fate, hit>>

(* xTaskCheckForTimeOut: the ticks since the time noted, modulo the        *)
(* counter, and whether a whole round of the counter has gone by           *)
Elapsed == (k.tick + TickMod - entry[me].at) % TickMod

Wrapped == k.overflows # entry[me].overflows /\ k.tick >= entry[me].at

TicksLeft == left[me] - Elapsed

CheckForTimeOut ==
  /\ At("check")
  /\ \/ /\ me \in k.aborted
        /\ k' = [k EXCEPT !.aborted = @ \ {me}]
        /\ fate' = [fate EXCEPT ![me] = "expired"] /\ Goto("unlockTx")
        /\ UNCHANGED <<left, entry>>
     \/ /\ me \notin k.aborted /\ left[me] = MaxDelay
        /\ Goto("test")
        /\ UNCHANGED <<k, left, entry, fate>>
     \/ /\ me \notin k.aborted /\ left[me] # MaxDelay
        /\ ~Wrapped /\ Elapsed < left[me]
        /\ left' = [left EXCEPT ![me] = TicksLeft]
        /\ entry' = [entry EXCEPT ![me].overflows = k.overflows, ![me].at = k.tick]
        /\ Goto("test")
        /\ UNCHANGED <<k, fate>>
     \/ /\ me \notin k.aborted /\ left[me] # MaxDelay
        /\ Wrapped \/ Elapsed >= left[me]
        /\ left' = [left EXCEPT ![me] = 0]
        /\ fate' = [fate EXCEPT ![me] = "expired"] /\ Goto("unlockTx")
        /\ UNCHANGED <<k, entry>>
  /\ UNCHANGED <<after, arg, ticks, messages, lock, call, hit>>

(* Faulty: what the first attempt found is taken to be still so *)
TestAgain_Trusts ==
  /\ At("test")
  /\ Goto("place")
  /\ UNCHANGED <<k, after, arg, ticks, messages, lock, call, left, entry, fate, hit>>

(* prvIsQueueFull or prvIsQueueEmpty *)
TestAgain ==
  /\ At("test")
  /\ IF CanProceed(call[me])
       THEN fate' = [fate EXCEPT ![me] = "retry"] /\ Goto("unlockTx")
       ELSE Goto("place") /\ UNCHANGED fate
  /\ UNCHANGED <<k, after, arg, ticks, messages, lock, call, left, entry, hit>>

(* vTaskPlaceOnEventList *)
JoinWaiters ==
  /\ At("place")
  /\ k' = PlaceOnEventList(k, WaitList(call[me]), left[me])
  /\ fate' = [fate EXCEPT ![me] = "blocked"] /\ Goto("unlockTx")
  /\ UNCHANGED <<after, arg, ticks, messages, lock, call, left, entry, hit>>

(* Faulty: the calls made while the queue was locked wake nobody *)
UnlockList_NoWake(o) ==
  /\ lock' = [lock EXCEPT ![o] = UNLOCKED]
  /\ UNCHANGED <<k, arg, ticks, messages, call, left, entry, fate, hit>>

(* Faulty: the lock is left at what was counted *)
UnlockList_KeepsLock(o) ==
  /\ k' = IF lock[o] > 0 THEN RemoveFromEventList(k, FirstWaiters(k, o, lock[o])) ELSE k
  /\ UNCHANGED <<lock, arg, ticks, messages, call, left, entry, fate, hit>>

(* prvUnlockQueue, first the transmit lock, then the receive lock: wakes a *)
(* waiter for each call an interrupt made while the queue was locked, as   *)
(* long as there is one.  vTaskMissedYield is the yieldPending it leaves.  *)
UnlockList(o) ==
  /\ k' = IF lock[o] > 0 THEN RemoveFromEventList(k, FirstWaiters(k, o, lock[o])) ELSE k
  /\ lock' = [lock EXCEPT ![o] = UNLOCKED]
  /\ UNCHANGED <<arg, ticks, messages, call, left, entry, fate, hit>>

UnlockTx == At("unlockTx") /\ UnlockList(ToReceive) /\ Goto("unlockRx") /\ UNCHANGED after

UnlockRx ==
  /\ At("unlockRx") /\ UnlockList(ToSend)
  /\ Goto(IF fate[me] = "blocked" THEN "block" ELSE "unlock")
  /\ after' = [after EXCEPT ![me] = IF fate[me] = "expired" THEN "expired" ELSE "try"]

(* Back in the loop after xTaskResumeAll, the call timed out: a receiver   *)
(* looks once more, a sender does not.                                     *)
Expired ==
  /\ At("expired")
  /\ IF call[me] # "send" /\ messages > 0
       THEN Goto("try") /\ UNCHANGED <<after, call, left, entry, fate, hit>>
       ELSE Leave
  /\ UNCHANGED <<k, arg, ticks, messages, lock>>

-----------------------------------------------------------------------------
(* xQueueSendFromISR, xQueueGiveFromISR and xQueueReceiveFromISR, in an    *)
(* interrupt that ends with portYIELD_FROM_ISR.  With the queue locked the *)
(* call is only counted, up to the number of tasks.                        *)
FromISR(c) ==
  /\ ~Masked /\ CanProceed(c)
  /\ messages' = MessagesAfter(c)
  /\ LET o == WakeList(c)
     IN  IF lock[o] = UNLOCKED
           THEN k' \in WakeOne(o) /\ UNCHANGED lock
           ELSE /\ lock' = [lock EXCEPT ![o] = IF @ < k.count THEN @ + 1 ELSE @]
                /\ UNCHANGED k
  /\ UNCHANGED <<pc, after, arg, ticks, call, left, entry, fate, hit>>

SendFromISR == FromISR("send")
ReceiveFromISR == FromISR("receive")

(* xTaskAbortDelay of a task that may be in a call *)
Abort ==
  \/ /\ \E t \in Abortable : AbortDelay(t)
     /\ UNCHANGED queueVars
  \/ /\ AbortBlocked
     /\ hit' = [hit EXCEPT ![arg[me]] = call[arg[me]] # "none"]
     /\ UNCHANGED <<messages, lock, call, left, entry, fate>>
  \/ AbortReady /\ UNCHANGED queueVars

-----------------------------------------------------------------------------
QueueStep ==
  \/ Succeed \/ GiveUp \/ Enter \/ LockScheduler \/ LockQueue \/ CheckForTimeOut
  \/ TestAgain \/ JoinWaiters \/ UnlockTx \/ UnlockRx \/ Expired
  \/ (UnlockScheduler \/ CatchUp \/ Unlocked \/ Yield) /\ UNCHANGED queueVars

QueueNext ==
  \/ QueueStep
  \/ \E c \in Role[me], n \in Delays \cup {0} : Call(c, n)
  \/ SendFromISR \/ ReceiveFromISR
  \/ Abort
  \/ (TickInterrupt \/ IdleYield) /\ UNCHANGED queueVars

QueueSpec == QueueInit /\ [][QueueNext]_vars

-----------------------------------------------------------------------------
(* Properties. *)

(* The places of a task inside prvLockQueue ... prvUnlockQueue *)
LockedPlace == {"check", "test", "place", "unlockTx", "unlockRx"}

(* A queue is locked exactly while the current task is between             *)
(* prvLockQueue and prvUnlockQueue, with the scheduler suspended: it is    *)
(* never left locked, and no two tasks hold the locks at once.             *)
LocksHeldByCurrent ==
  /\ lock[ToSend] # UNLOCKED <=> pc[me] \in LockedPlace
  /\ lock[ToReceive] # UNLOCKED <=> pc[me] \in LockedPlace \ {"unlockRx"}
  /\ \A t \in Task : pc[t] \in LockedPlace \cup {"lock"} => t = me /\ k.depth = 1

(* The tasks in a call of c that will look at the queue again. *)
OnTheirWay(cs) ==
  {t \in Task : call[t] \in cs /\ t \notin Waiters(k) /\ fate[t] # "expired"}

(* No wake-up is lost: while tasks wait to receive, each message of an     *)
(* unlocked queue has a receiver of its own on its way to take it, though  *)
(* it may be overtaken; while tasks wait to send, each free place has a    *)
(* sender on its way to it.                                                *)
NoLostWakeup ==
  /\ lock[ToReceive] = UNLOCKED /\ k.waiting[ToReceive] # {} =>
       messages <= Cardinality(OnTheirWay({"receive", "peek"}))
  /\ lock[ToSend] = UNLOCKED /\ k.waiting[ToSend] # {} =>
       Length - messages <= Cardinality(OnTheirWay({"send"}))

(* A call that blocks indefinitely ends without success only if            *)
(* xTaskAbortDelay hit the task in that call.                              *)
AbortEndsItsOwnCall == At("expired") /\ left[me] = MaxDelay => hit[me]

=============================================================================
