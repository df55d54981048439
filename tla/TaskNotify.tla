----------------------------- MODULE TaskNotify -----------------------------
(***************************************************************************)
(* Direct-to-task notifications of tasks.c, on top of the kernel.  A task  *)
(* waits for a notification of its own; tasks and interrupts notify it.    *)
(* The wait marks the task as waiting in a critical section, blocks it     *)
(* with the scheduler suspended only, and looks at the notification in     *)
(* another critical section: interrupts come in between.                   *)
(***************************************************************************)
EXTENDS Scheduler

CONSTANTS
  Role,       \* the calls each task makes: "take", "wait", both or none
  Times,      \* the block times of their calls
  Actions,    \* values of eNotifyAction
  MaxValue    \* bound: ulNotifiedValue

Action == {"none", "bits", "increment", "overwrite", "no_overwrite"}

NotifyAssumption ==
  /\ Role \in [Task -> SUBSET {"take", "wait"}] /\ Times \subseteq Tick
  /\ Actions \subseteq Action /\ MaxValue \in Nat \ {0}

VARIABLES
  value,      \* ulNotifiedValue[ 0 ]
  call,       \* the call each task waits in
  disturbed   \* history: the tasks whose wait was ended, or whose
              \* notification was taken away, by another task's call

Receivers == {t \in Task : Role[t] # {}}

notifyVars == <<value, call, disturbed>>
vars == <<kernelVars, notifyVars>>

(* ulTaskGenericNotifyTake with xClearCountOnExit, xTaskGenericNotifyWait  *)
(* that clears all bits, or none, on entry and on exit                     *)
Call == [kind : {"take"}, entry : {FALSE}, exit : BOOLEAN, time : Times]
          \cup [kind : {"wait"}, entry : BOOLEAN, exit : BOOLEAN, time : Times]

NoCall == [kind |-> "none", entry |-> FALSE, exit |-> FALSE, time |-> 0]

NotifyTypeOK ==
  /\ value \in [Task -> 0 .. MaxValue]
  /\ call \in [Task -> Call \cup {NoCall}]
  /\ disturbed \subseteq Task
  /\ k \in KType
  /\ pc \in [Task -> Place \cup {"join", "waited"}]
  /\ after \in [Task -> {"run", "waited"}]

NotifyInit ==
  /\ DispatchInit
  /\ value = [t \in Task |-> 0] /\ call = [t \in Task |-> NoCall]
  /\ disturbed = {}

-----------------------------------------------------------------------------
(* The call of a task that waits. *)

me == k.cur

(* A task that takes waits for the value, one that waits for the state. *)
MustWait(t, c) ==
  IF c.kind = "take" THEN value[t] = 0 ELSE k.notify[t] # "received"

(* The first critical section of the call *)
Start(c) ==
  /\ Running /\ c.kind \in Role[me] /\ k.depth = 0
  /\ call' = [call EXCEPT ![me] = c]
  /\ after' = [after EXCEPT ![me] = "waited"]
  /\ IF MustWait(me, c)
       THEN /\ k' = [SuspendAll(k) EXCEPT !.notify[me] = "waiting"]
            /\ value' = [value EXCEPT ![me] = IF c.entry THEN 0 ELSE @]
            /\ Goto(IF c.time > 0 THEN "join" ELSE "unlock")
       ELSE k' = SuspendAll(k) /\ Goto("unlock") /\ UNCHANGED value
  /\ UNCHANGED <<arg, ticks, disturbed>>

(* Faulty: a wait without a limit ends with the longest time *)
Join_Limited ==
  /\ At("join")
  /\ k' = AddCurrentToDelayedList(k, call[me].time, FALSE)
  /\ Goto("block")
  /\ UNCHANGED <<after, arg, ticks, notifyVars>>

(* Out of the critical section, it blocks whatever interrupts did since. *)
Join ==
  /\ At("join")
  /\ k' = AddCurrentToDelayedList(k, call[me].time, TRUE)
  /\ Goto("block")
  /\ UNCHANGED <<after, arg, ticks, notifyVars>>

(* Whether the call returns a notification *)
Notified(t) ==
  IF call[t].kind = "take" THEN value[t] # 0 ELSE k.notify[t] = "received"

(* Faulty: a take that timed out counts down too *)
ValueLeft_Underflows(t) ==
  IF call[t].exit THEN 0 ELSE IF call[t].kind = "take" THEN value[t] - 1 ELSE value[t]

(* A take counts down or clears the value, a wait clears it or leaves it. *)
ValueLeft(t) ==
  IF ~Notified(t) THEN value[t]
  ELSE IF call[t].exit THEN 0
  ELSE IF call[t].kind = "take" THEN value[t] - 1 ELSE value[t]

(* The last critical section of the call *)
Waited ==
  /\ At("waited")
  /\ Goto("run") /\ after' = [after EXCEPT ![me] = "run"]
  /\ k' = [k EXCEPT !.notify[me] = "not_waiting"]
  /\ value' = [value EXCEPT ![me] = ValueLeft(me)]
  /\ call' = [call EXCEPT ![me] = NoCall]
  /\ disturbed' = disturbed \ {me}
  /\ UNCHANGED <<arg, ticks>>

-----------------------------------------------------------------------------
(* Notifying a task. *)

(* What an action makes of the value; ulValue is 1. *)
Updated(t, a) ==
  CASE a = "bits" -> IF value[t] % 2 = 0 THEN value[t] + 1 ELSE value[t]
    [] a = "increment" -> value[t] + 1
    [] a = "overwrite" -> 1
    [] a = "no_overwrite" -> IF k.notify[t] = "received" THEN value[t] ELSE 1
    [] a = "none" -> value[t]

Receives(t, a) ==
  /\ Alive(t) /\ Updated(t, a) <= MaxValue
  /\ value' = [value EXCEPT ![t] = Updated(t, a)]
  /\ UNCHANGED <<pc, after, arg, ticks, call, disturbed>>

(* A task that was waiting is made ready, even with the scheduler suspended *)
Wake(s, t) == YieldIf(Preempts(s, {t}), MakeReady(s, {t}))

(* xTaskGenericNotify *)
Notify(t, a) ==
  /\ Running /\ Receives(t, a)
  /\ LET s == [k EXCEPT !.notify[t] = "received"]
     IN  k' \in IF k.notify[t] = "waiting" THEN Wake(s, t) ELSE {s}

(* Faulty: with the scheduler suspended the task is left where it is *)
WakeFromISR_NotPended(s, t) ==
  IF s.depth = 0 THEN RemoveFromEventList(s, {t}) ELSE s

(* In an interrupt it may have to go on the pending list first. *)
WakeFromISR(s, t) == RemoveFromEventList(s, {t})

(* xTaskGenericNotifyFromISR, vTaskGenericNotifyGiveFromISR *)
NotifyFromISR(t, a) ==
  /\ ~Masked /\ Receives(t, a)
  /\ LET s == [k EXCEPT !.notify[t] = "received"]
     IN  k' \in IF k.notify[t] = "waiting"
                  THEN YieldIf(Preempts(k, {t}), WakeFromISR(s, t)) ELSE {s}

(* xTaskGenericNotifyStateClear *)
StateClear(t) ==
  /\ Running /\ Alive(t) /\ k.notify[t] = "received"
  /\ k' = [k EXCEPT !.notify[t] = "not_waiting"]
  /\ disturbed' = IF after[t] = "waited" THEN disturbed \cup {t} ELSE disturbed
  /\ UNCHANGED <<pc, after, arg, ticks, value, call>>

(* ulTaskGenericNotifyValueClear, of all bits *)
ValueClear(t) ==
  /\ Running /\ Alive(t)
  /\ value' = [value EXCEPT ![t] = 0]
  /\ disturbed' = IF after[t] = "waited" THEN disturbed \cup {t} ELSE disturbed
  /\ UNCHANGED <<kernelVars, call>>

-----------------------------------------------------------------------------
(* What other tasks do to one that waits: vTaskSuspend, vTaskResume,       *)
(* xTaskAbortDelay                                                         *)
Others ==
  /\ \E t \in Receivers \ {me} :
       \/ /\ Suspend(t) \/ AbortDelay(t)
          /\ disturbed' = IF after[t] = "waited" THEN disturbed \cup {t} ELSE disturbed
       \/ Resume(t) /\ UNCHANGED disturbed
  /\ UNCHANGED <<value, call>>

NotifyStep ==
  \/ Join \/ Waited
  \/ \E c \in Call : Start(c)
  \/ \E t \in Receivers :
       \/ \E a \in Actions : Notify(t, a) \/ NotifyFromISR(t, a)
       \/ StateClear(t) \/ ValueClear(t)
  \/ Others

NotifyNext ==
  \/ NotifyStep
  \/ /\ \/ KernelStep \/ TickInterrupt \/ SuspendScheduler \/ ResumeScheduler
        \/ IdleYield
     /\ UNCHANGED notifyVars

NotifySpec == NotifyInit /\ [][NotifyNext]_vars

-----------------------------------------------------------------------------
(* Properties. *)

(* No task stays blocked in a wait that a notification has ended: one that *)
(* an interrupt gave before the task was on its list, or while another     *)
(* task had the scheduler suspended, is on the pending list.               *)
NoneSleepsNotified ==
  \A t \in Receivers :
    /\ after[t] = "waited" /\ t \notin disturbed
    /\ t \in k.delayed \cup k.overflow \cup k.suspended
    /\ Notified(t)
    => t \in k.pending

(* A wait without a time limit ends with a notification, unless another    *)
(* task suspended or aborted it or cleared the notification.               *)
WaitReturnsNotified ==
  At("waited") /\ call[me].time = MaxDelay => Notified(me) \/ me \in disturbed

=============================================================================
