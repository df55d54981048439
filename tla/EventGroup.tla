----------------------------- MODULE EventGroup -----------------------------
(***************************************************************************)
(* An event group of event_groups.c on top of the kernel.  Its bits are    *)
(* read and changed by tasks only, with the scheduler suspended or in a    *)
(* critical section; interrupts reach it through the timer task, which     *)
(* calls the same functions.  An interrupt during a call can therefore     *)
(* change nothing the call reads, and each part of a call up to            *)
(* xTaskResumeAll is one step.                                             *)
(***************************************************************************)
EXTENDS Scheduler

CONSTANTS
  Group,      \* xTasksWaitingForBits
  Bit,        \* the bits of uxEventBits
  Waits,      \* the conditions each task waits for
  Sets,       \* the bits each task sets,
  Clears,     \* and clears
  Syncs,      \* the bits each task sets and waits for in xEventGroupSync
  Times,      \* the block times of these calls
  Abortable,  \* the tasks xTaskAbortDelay is called on
  Deleters    \* the tasks that may delete the group

(* uxBitsToWaitFor with eventWAIT_FOR_ALL_BITS and eventCLEAR_EVENTS_ON_EXIT_BIT *)
Condition == [bits : SUBSET Bit \ {{}}, all : BOOLEAN, clear : BOOLEAN]

EventGroupAssumption ==
  /\ Object = {Group}
  /\ Waits \in [Task -> SUBSET Condition]
  /\ Sets \in [Task -> SUBSET SUBSET Bit] /\ Clears \in [Task -> SUBSET SUBSET Bit]
  /\ Syncs \in [Task -> SUBSET [set : SUBSET Bit, bits : SUBSET Bit \ {{}}]]
  /\ Times \subseteq Tick /\ Abortable \subseteq Task /\ Deleters \subseteq Task

VARIABLES
  bits,      \* uxEventBits
  alive,     \* the group has not been deleted
  cond,      \* what each task waits for: the value of its event item
  outcome,   \* of its call; "met" is eventUNBLOCKED_DUE_TO_BIT_SET
  value      \* the bits its call returns

groupVars == <<bits, alive, cond, outcome, value>>
vars == <<kernelVars, groupVars>>

NoCondition == [bits |-> {}, all |-> FALSE, clear |-> FALSE]

GroupTypeOK ==
  /\ bits \subseteq Bit /\ alive \in BOOLEAN
  /\ cond \in [Task -> Condition \cup {NoCondition}]
  /\ outcome \in [Task -> {"none", "waiting", "met", "unmet"}]
  /\ value \in [Task -> SUBSET Bit]
  /\ k \in KType /\ pc \in [Task -> Place \cup {"woken"}]

GroupInit ==
  /\ DispatchInit
  /\ bits = {} /\ alive = TRUE
  /\ cond = [t \in Task |-> NoCondition]
  /\ outcome = [t \in Task |-> "none"]
  /\ value = [t \in Task |-> {}]

-----------------------------------------------------------------------------
me == k.cur

(* prvTestWaitCondition *)
Met(b, c) == IF c.all THEN c.bits \subseteq b ELSE c.bits \cap b # {}

Cleared(b, c) == IF c.clear THEN b \ c.bits ELSE b

(* vTaskPlaceOnUnorderedEventList: at the end of the list *)
PlaceOnUnorderedEventList(s, o, n) ==
  AddCurrentToDelayedList(
    [s EXCEPT !.waiting[o] = @ \cup {s.cur},
              !.before = @ \cup (s.waiting[o] \X {s.cur})], n, TRUE)

(* vTaskRemoveFromUnorderedEventList, for each task of S *)
RemoveFromUnorderedEventList(s, S) ==
  [MakeReady(s, S) EXCEPT !.yieldPending = @ \/ Preempts(s, S)]

Calling == Running /\ k.depth = 0 /\ alive

Return(how, what) ==
  /\ outcome' = [outcome EXCEPT ![me] = how]
  /\ value' = [value EXCEPT ![me] = what]

-----------------------------------------------------------------------------
(* xEventGroupWaitBits *)
WaitBits(c, n) ==
  /\ Calling
  /\ cond' = [cond EXCEPT ![me] = c]
  /\ \/ /\ Met(bits, c)
        /\ bits' = Cleared(bits, c)
        /\ k' = SuspendAll(k)
        /\ Return("met", bits)
        /\ Goto("unlock") /\ UNCHANGED after
     \/ /\ ~Met(bits, c) /\ n = 0
        /\ k' = SuspendAll(k)
        /\ Return("unmet", bits)
        /\ Goto("unlock") /\ UNCHANGED <<bits, after>>
     \/ /\ ~Met(bits, c) /\ n # 0
        /\ k' = PlaceOnUnorderedEventList(SuspendAll(k), Group, n)
        /\ Return("waiting", {})
        /\ Goto("block") /\ after' = [after EXCEPT ![me] = "woken"]
        /\ UNCHANGED bits
  /\ UNCHANGED <<arg, ticks, alive>>

(* The end of xEventGroupWaitBits and xEventGroupSync, after the task has  *)
(* been blocked: unblocked by a bit being set, or in a critical section it *)
(* looks once more.                                                        *)
Woken ==
  /\ At("woken")
  /\ Goto("run") /\ after' = [after EXCEPT ![me] = "run"]
  /\ \/ outcome[me] = "met" /\ UNCHANGED <<bits, outcome, value>>
     \/ /\ outcome[me] # "met" /\ alive
        /\ bits' = IF Met(bits, cond[me]) THEN Cleared(bits, cond[me]) ELSE bits
        /\ Return(IF Met(bits, cond[me]) THEN "met" ELSE "unmet", bits)
     \/ /\ outcome[me] # "met" /\ ~alive     \* reads memory already freed
        /\ \E b \in SUBSET Bit : Return("unmet", b)
        /\ UNCHANGED bits
  /\ UNCHANGED <<k, arg, ticks, alive, cond>>

(* Faulty: the walk along the list ends at the first match *)
Satisfied_First(b) ==
  {t \in k.waiting[Group] :
     \A u \in k.waiting[Group] :
        (<<u, t>> \in k.before => ~Met(bits \cup b, cond[u])) /\ Met(bits \cup b, cond[t])}

(* The tasks whose condition holds once the bits b are set too *)
Satisfied(b) == {t \in k.waiting[Group] : Met(bits \cup b, cond[t])}

(* Faulty: what the waiters left behind wait for is cleared too *)
BitsLeft_ClearsAll(b, S) ==
  (bits \cup b) \ UNION {IF cond[t].clear THEN cond[t].bits ELSE {} : t \in k.waiting[Group]}

(* uxBitsToClear: the bits the tasks S asked to be cleared *)
BitsLeft(b, S) ==
  (bits \cup b) \ UNION {IF cond[t].clear THEN cond[t].bits ELSE {} : t \in S}

(* Faulty: the waiters get the bits that are left *)
Unblock_AfterClearing(b, S) ==
  /\ outcome' = [t \in Task |-> IF t \in S THEN "met" ELSE outcome[t]]
  /\ value' = [t \in Task |-> IF t \in S THEN BitsLeft(b, S) ELSE value[t]]

(* The tasks S get all the bits that were set before any is cleared. *)
Unblock(b, S) ==
  /\ outcome' = [t \in Task |-> IF t \in S THEN "met" ELSE outcome[t]]
  /\ value' = [t \in Task |-> IF t \in S THEN bits \cup b ELSE value[t]]

(* xEventGroupSetBits *)
SetBits(b) ==
  /\ Calling
  /\ bits' = BitsLeft(b, Satisfied(b))
  /\ k' = RemoveFromUnorderedEventList(SuspendAll(k), Satisfied(b))
  /\ Unblock(b, Satisfied(b))
  /\ Goto("unlock")
  /\ UNCHANGED <<after, arg, ticks, alive, cond>>

(* xEventGroupClearBits *)
ClearBits(b) ==
  /\ Calling
  /\ bits' = bits \ b
  /\ UNCHANGED <<kernelVars, alive, cond, outcome, value>>

(* xEventGroupSync: sets bits, then waits for all of some bits, which are  *)
(* cleared when they are all set                                           *)
Sync(c, n) ==
  /\ Calling
  /\ LET all  == bits \cup c.set
         S    == Satisfied(c.set)
         left == BitsLeft(c.set, S)
         own  == [bits |-> c.bits, all |-> TRUE, clear |-> TRUE]
         next == RemoveFromUnorderedEventList(SuspendAll(k), S)
         ends(how, what) ==
           /\ outcome' = [t \in Task |-> IF t = me THEN how
                                          ELSE IF t \in S THEN "met" ELSE outcome[t]]
           /\ value' = [t \in Task |-> IF t = me THEN what
                                        ELSE IF t \in S THEN all ELSE value[t]]
     IN  /\ cond' = [cond EXCEPT ![me] = own]
         /\ \/ /\ Met(all, own)
               /\ bits' = left \ c.bits /\ k' = next /\ ends("met", all)
               /\ Goto("unlock") /\ UNCHANGED after
            \/ /\ ~Met(all, own) /\ n = 0
               /\ bits' = left /\ k' = next /\ ends("unmet", left)
               /\ Goto("unlock") /\ UNCHANGED after
            \/ /\ ~Met(all, own) /\ n # 0
               /\ bits' = left /\ k' = PlaceOnUnorderedEventList(next, Group, n)
               /\ ends("waiting", {})
               /\ Goto("block") /\ after' = [after EXCEPT ![me] = "woken"]
  /\ UNCHANGED <<arg, ticks, alive>>

(* vEventGroupDelete: every waiter is told that the bits are 0 *)
DeleteGroup ==
  /\ Calling /\ me \in Deleters
  /\ alive' = FALSE
  /\ LET S == k.waiting[Group]
     IN  /\ k' = RemoveFromUnorderedEventList(SuspendAll(k), S)
         /\ outcome' = [t \in Task |-> IF t \in S THEN "met" ELSE outcome[t]]
         /\ value' = [t \in Task |-> IF t \in S THEN {} ELSE value[t]]
  /\ Goto("unlock")
  /\ UNCHANGED <<after, arg, ticks, bits, cond>>

-----------------------------------------------------------------------------
(* xTaskAbortDelay of a task that may be waiting *)
Abort ==
  \/ \E t \in Abortable : AbortDelay(t)
  \/ AbortBlocked
  \/ AbortReady

GroupStep ==
  \/ Woken
  \/ (UnlockScheduler \/ CatchUp \/ Unlocked \/ Yield) /\ UNCHANGED groupVars

GroupCall ==
  \/ \E c \in Waits[me], n \in Times : WaitBits(c, n)
  \/ \E b \in Sets[me] : SetBits(b)
  \/ \E b \in Clears[me] : ClearBits(b)
  \/ \E c \in Syncs[me], n \in Times : Sync(c, n)
  \/ DeleteGroup

GroupNext ==
  \/ GroupStep
  \/ GroupCall
  \/ Abort /\ UNCHANGED groupVars
  \/ (TickInterrupt \/ IdleYield) /\ UNCHANGED groupVars

GroupSpec == GroupInit /\ [][GroupNext]_vars

-----------------------------------------------------------------------------
(* Properties. *)

(* No task sleeps in vain: none waits at a deleted group, and none for     *)
(* bits that are set, whatever was set between its test and its wait, and  *)
(* whatever other waiters had cleared.                                     *)
NoneSleepsInVain ==
  \A t \in k.waiting[Group] : alive /\ outcome[t] = "waiting" /\ ~Met(bits, cond[t])

(* A call that returns successfully returns bits for which its condition   *)
(* holds, although they may have been cleared since, by itself or others.  *)
ReturnsWhatItWaitedFor ==
  \A t \in Task : outcome[t] = "met" /\ alive => Met(value[t], cond[t])

(* No bit is lost: one that is set, or would be after this step, and is    *)
(* gone was handed to a task that waited for it and asked to clear it, or  *)
(* was cleared by xEventGroupClearBits.                                    *)
Delivered(x) ==
  \E t \in Task : /\ outcome'[t] = "met" /\ (outcome[t] = "waiting" \/ t = me)
                  /\ cond'[t].clear /\ x \in cond'[t].bits

NoBitLostStep ==
  /\ \A b \in Sets[me] : SetBits(b) => \A x \in (bits \cup b) \ bits' : Delivered(x)
  /\ \A x \in bits \ bits' : Delivered(x) \/ \E b \in Clears[me] : ClearBits(b)

NoBitLost == [][NoBitLostStep]_vars

-----------------------------------------------------------------------------
(* Tasks that meet: each sets its own bit and waits for all of them.  With *)
(* no block time this is a rendezvous.                                     *)
Party == {t \in Task : Syncs[t] # {}}

SyncCall == \E c \in Syncs[me], n \in Times : Sync(c, n)

(* The timer keeps interrupting, and the code of a task gets some time     *)
(* between ticks that end its time slice.                                  *)
SyncSpec ==
  /\ GroupSpec
  /\ SF_vars(TickInterrupt /\ UNCHANGED groupVars)
  /\ SF_vars(GroupStep) /\ SF_vars(SyncCall)

=============================================================================
