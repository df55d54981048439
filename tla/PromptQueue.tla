---------------------------- MODULE PromptQueue -----------------------------
(***************************************************************************)
(* Queue, with kernel code that is prompt: between two steps of a task in  *)
(* the kernel at most MaxLag ticks come.  A task that were slower than a   *)
(* whole round of the tick counter could not tell how long it has waited;  *)
(* on the target a round is 2^32 ticks.                                    *)
(***************************************************************************)
EXTENDS Queue

CONSTANT MaxLag   \* bound: ticks between two steps of kernel code

PromptAssumption == MaxLag \in Nat

VARIABLE lag      \* ticks since the last step of a task

promptVars == <<vars, lag>>

InKernel == pc[me] # "run"

PromptInit == QueueInit /\ lag = 0

Tock ==
  /\ TickInterrupt /\ UNCHANGED queueVars
  /\ InKernel => lag < MaxLag
  /\ lag' = IF InKernel THEN lag + 1 ELSE 0

PromptTaskStep ==
  /\ \/ QueueStep
     \/ \E c \in Role[me], n \in Delays \cup {0} : Call(c, n)
     \/ IdleYield /\ UNCHANGED queueVars
  /\ lag' = 0

PromptISR == (SendFromISR \/ ReceiveFromISR) /\ UNCHANGED lag

PromptNext == Tock \/ PromptTaskStep \/ PromptISR

(* The timer keeps interrupting and kernel code does not stop half way. *)
PromptFairness == SF_promptVars(Tock) /\ WF_promptVars(QueueStep /\ lag' = 0)

PromptSpec == PromptInit /\ [][PromptNext]_promptVars /\ PromptFairness

(* The highest-priority task returns from every call with a bounded block  *)
(* time, however often the queue's messages or places are taken by others  *)
(* before it gets to them.                                                 *)
CallsEnd ==
  \A t \in Task :
    (\A u \in Task \ {t} : InitPrio[u] < InitPrio[t])
      => (call[t] # "none" ~> call[t] = "none")

=============================================================================
