------------------------------ MODULE Dispatch ------------------------------
(***************************************************************************)
(* How the kernel runs tasks: the tick interrupt, the end of               *)
(* xTaskResumeAll, a task's yield and the idle task.  Every module about a *)
(* kernel API extends this one with the steps of its functions.            *)
(*                                                                         *)
(* The CPU has one core.  The current task takes the steps; a step is one  *)
(* critical section, or code that no interrupt can observe.  An interrupt  *)
(* can come between two steps, never inside one.  xTaskResumeAll is one    *)
(* critical section too, but it calls xTaskIncrementTick once per pended   *)
(* tick: it is a sequence of steps during which interrupts are Masked.     *)
(***************************************************************************)
EXTENDS Kernel

CONSTANTS
  MaxPended,   \* bound: ticks that come while the scheduler is suspended
  MaxDepth     \* bound: nesting of vTaskSuspendAll

VARIABLES
  k,      \* the kernel
  pc,     \* where each task is in the kernel's code
  after,  \* where each task goes on when xTaskResumeAll or a yield returns
  arg,    \* the task the call in progress is about; the caller if none
  ticks   \* history: the tick interrupts so far, modulo TickMod

kernelVars == <<k, pc, after, arg, ticks>>

(* The places of the code every module shares.                             *)
(*   "gone"        no such task, or a deleted one whose memory is freed    *)
(*   "run"         in its own code                                         *)
(*   "unlock"      about to call xTaskResumeAll                            *)
(*   "block"       the same, then to yield if xTaskResumeAll did not       *)
(*   "catchup", "catchup_block"   inside that call of xTaskResumeAll       *)
(*   "yield"       about to yield                                          *)
(*   "exit"        deleted itself, about to yield for the last time        *)
BasePlace ==
  {"gone", "run", "unlock", "block", "catchup", "catchup_block", "yield", "exit"}

At(place) == pc[k.cur] = place
Goto(place) == pc' = [pc EXCEPT ![k.cur] = place]

Masked == pc[k.cur] \in {"catchup", "catchup_block"}

(* In its own code, free to call the kernel. *)
Running == At("run") /\ k.cur # Idle

Alive(t) == pc[t] \notin {"gone", "exit"}

DispatchInit ==
  /\ k \in InitialKernel
  /\ pc = [t \in Task |-> IF t \in Boot THEN "run" ELSE "gone"]
  /\ after = [t \in Task |-> "run"]
  /\ arg = [t \in Task |-> t]
  /\ ticks = 0

-----------------------------------------------------------------------------
(* The machine timer interrupt: xTaskIncrementTick, then                   *)
(* vTaskSwitchContext if it returned pdTRUE.                               *)
TickInterrupt ==
  /\ ~Masked
  /\ \/ k.depth > 0 /\ k.pended < MaxPended /\ k' = [k EXCEPT !.pended = @ + 1]
     \/ k.depth = 0 /\ k' \in YieldIf(TickWantsSwitch(k), IncrementTick(k))
  /\ ticks' = (ticks + 1) % TickMod
  /\ UNCHANGED <<pc, after, arg>>

-----------------------------------------------------------------------------
(* xTaskResumeAll, called by kernel code that suspended the scheduler *)
Unlock ==
  \/ At("unlock") /\ Goto("catchup")
  \/ At("block") /\ Goto("catchup_block")

UnlockScheduler ==
  /\ Unlock
  /\ k' = DrainPending(k)
  /\ UNCHANGED <<after, arg, ticks>>

CatchUp ==
  /\ Masked /\ k.pended > 0
  /\ k' = CatchUpTick(k)
  /\ UNCHANGED <<pc, after, arg, ticks>>

(* The end of xTaskResumeAll: it yields inside its critical section, or    *)
(* returns pdFALSE.                                                        *)
Unlocked ==
  /\ Masked /\ k.pended = 0
  /\ k' \in YieldIf(k.yieldPending, k)
  /\ Goto(IF At("catchup") \/ k.yieldPending THEN after[k.cur] ELSE "yield")
  /\ UNCHANGED <<after, arg, ticks>>

Yield ==
  /\ At("yield")
  /\ k' \in SwitchContext(k)
  /\ Goto(after[k.cur])
  /\ UNCHANGED <<after, arg, ticks>>

(* The yield at the end of vTaskDelete of the running task *)
Exit ==
  /\ At("exit")
  /\ k' \in SwitchContext(k)
  /\ UNCHANGED <<pc, after, arg, ticks>>

-----------------------------------------------------------------------------
(* prvIdleTask *)

(* Faulty: the number of tasks is left as it was *)
IdleCleanUp_KeepsCount ==
  /\ k.cur = Idle /\ k.cleanup > 0
  /\ \E t \in k.dying :
       /\ k' = [OffStateList(k, t) EXCEPT !.cleanup = @ - 1]
       /\ pc' = [pc EXCEPT ![t] = "gone"]
  /\ UNCHANGED <<after, arg, ticks>>

(* One turn of prvCheckTasksWaitingTermination *)
IdleCleanUp ==
  /\ k.cur = Idle /\ k.cleanup > 0
  /\ \E t \in k.dying :
       /\ k' = [OffStateList(k, t) EXCEPT !.count = @ - 1, !.cleanup = @ - 1]
       /\ pc' = [pc EXCEPT ![t] = "gone"]
  /\ UNCHANGED <<after, arg, ticks>>

(* configIDLE_SHOULD_YIELD: another task is ready at the idle priority *)
IdleYield ==
  /\ k.cur = Idle /\ k.cleanup = 0
  /\ \E t \in k.ready[0] : t # Idle
  /\ k' \in SwitchContext(k)
  /\ UNCHANGED <<pc, after, arg, ticks>>

=============================================================================
