-------------------------- MODULE EventGroupProofs --------------------------
(***************************************************************************)
(* Theorems about event groups: that no task sleeps while the bits it      *)
(* waits for are set, that a successful call returns what it waited for,   *)
(* that no bit is lost, and that xEventGroupSync is a rendezvous - for     *)
(* every number of tasks, bits and conditions, with time-outs, aborts,     *)
(* ticks and the deletion of the group in between.                         *)
(***************************************************************************)
EXTENDS EventGroup, SchedulerProofs

-----------------------------------------------------------------------------
(* The inductive invariant.                                                *)

Suspending == {"unlock", "block", "abort", "aborted"}
Sections == Suspending \cup {"catchup", "catchup_block"}

(* Who is where: the scheduler is suspended exactly while the running task *)
(* is in the middle of a section that suspends it, and no other task is.   *)
GroupControl ==
  /\ k \in KType
  /\ pc \in [Task -> Place \cup {"woken"}] /\ after \in [Task -> {"run", "woken"}]
  /\ arg \in [Task -> Task]
  /\ \A t \in Task \ {k.cur} : pc[t] \notin Sections
  /\ k.depth = IF pc[k.cur] \in Suspending THEN 1 ELSE 0
  /\ pc[Idle] = "run"

(* The part of xEventGroupWaitBits in which a task may be on the list *)
InWait(t) ==
  /\ pc[t] \in {"block", "catchup_block", "yield", "woken"}
  /\ pc[t] # "woken" => after[t] = "woken"

(* The tasks on the group's list are blocked in the middle of a wait: none *)
(* runs on before it is off the list, or is being made ready on it.        *)
WaitersInWait ==
  /\ WaitersBlocked(k)
  /\ \A t \in k.waiting[Group] : InWait(t)
  /\ pc[k.cur] = "woken" => k.cur \notin k.waiting[Group]
  /\ pc[k.cur] = "aborted" => arg[k.cur] \notin k.waiting[Group]

(* What the tasks and the group have of each other. *)
GroupState ==
  /\ bits \subseteq Bit /\ alive \in BOOLEAN
  /\ cond \in [Task -> Condition \cup {NoCondition}]
  /\ outcome \in [Task -> {"none", "waiting", "met", "unmet"}]
  /\ value \in [Task -> SUBSET Bit]
  /\ NoneSleepsInVain /\ ReturnsWhatItWaitedFor

GroupInv == GroupControl /\ WaitersInWait /\ GroupState

LEMMA GroupFacts ==
  ASSUME GroupInv
  PROVE  /\ k \in KType /\ k.cur \in Task /\ k.depth \in Nat /\ Idle \in Task
         /\ k.waiting \in [Object -> SUBSET Task]
         /\ pc \in [Task -> Place \cup {"woken"}] /\ after \in [Task -> {"run", "woken"}]
         /\ arg \in [Task -> Task]
         /\ pc[k.cur] # "run" => k.cur # Idle
         /\ pc[k.cur] \in Suspending => k.depth = 1
         /\ pc[k.cur] \notin Suspending => k.depth = 0
BY KernelAssumption DEF GroupInv, GroupControl, KType

(* The only object is the group. *)
LEMMA GroupWaiters ==
  ASSUME EventGroupAssumption, NEW s
  PROVE  /\ Group \in Object
         /\ \A t : t \in Waiters(s) <=> t \in s.waiting[Group]
BY WaitersElements DEF EventGroupAssumption

-----------------------------------------------------------------------------
(* Who is where.                                                           *)

LEMMA MoveKeepsControl ==
  ASSUME GroupInv, k.cur # Idle, NEW p \in Place \cup {"woken"},
         pc' = [pc EXCEPT ![k.cur] = p], after' \in [Task -> {"run", "woken"}],
         arg' \in [Task -> Task], k' \in KType,
         p \in Sections => k'.cur = k.cur,
         k'.depth = IF p \in Suspending THEN 1 ELSE 0
  PROVE  GroupControl'
<1>1. pc' \in [Task -> Place \cup {"woken"}] /\ pc'[Idle] = "run" /\ pc'[k.cur] = p
  BY GroupFacts DEF GroupInv, GroupControl
<1>2. \A t \in Task \ {k.cur} : pc'[t] = pc[t] /\ pc[t] \notin Sections
  BY GroupFacts DEF GroupInv, GroupControl
<1>3. \A t \in Task \ {k'.cur} : pc'[t] \notin Sections
  BY <1>1, <1>2
<1>4. k'.depth = IF pc'[k'.cur] \in Suspending THEN 1 ELSE 0
  <2>1. k'.cur \in Task
    BY DEF KType
  <2>2. CASE k'.cur = k.cur
    BY <1>1, <2>2
  <2>3. CASE k'.cur # k.cur
    BY <1>1, <1>2, <2>1, <2>3 DEF Sections
  <2>4. QED
    BY <2>2, <2>3
<1>5. QED
  BY <1>1, <1>3, <1>4 DEF GroupControl

LEMMA StayKeepsControl ==
  ASSUME GroupInv, pc' = pc, after' = after, arg' = arg, k' \in KType,
         k'.depth = k.depth, pc[k.cur] \in Sections => k'.cur = k.cur
  PROVE  GroupControl'
<1>1. \A t \in Task \ {k'.cur} : pc'[t] \notin Sections
  BY DEF GroupInv, GroupControl
<1>2. k'.depth = IF pc'[k'.cur] \in Suspending THEN 1 ELSE 0
  <2>1. k'.cur \in Task
    BY DEF KType
  <2>2. QED
    BY <2>1 DEF GroupInv, GroupControl, Sections
<1>3. QED
  BY <1>1, <1>2 DEF GroupInv, GroupControl

-----------------------------------------------------------------------------
(* Steps of the kernel, which leave the group as it is.                    *)

(* What is left to show of a step that places nobody on the list. *)
LEMMA QuietKeeps ==
  ASSUME GroupInv, GroupControl', UNCHANGED groupVars, WaitersInWait',
         k'.waiting[Group] \subseteq k.waiting[Group]
  PROVE  GroupInv'
<1>1. GroupState'
  BY DEF GroupInv, GroupState, groupVars, NoneSleepsInVain, ReturnsWhatItWaitedFor
<1>2. QED
  BY <1>1 DEF GroupInv

(* The running task goes on, from pc[k.cur] to p. *)
LEMMA QuietStep ==
  ASSUME EventGroupAssumption, GroupInv, GroupControl', UNCHANGED groupVars,
         Eases(k', k), after' = after,
         NEW p, pc' = [pc EXCEPT ![k.cur] = p],
         k.cur \in k'.waiting[Group] =>
           p \in {"block", "catchup_block", "yield"} /\ after[k.cur] = "woken",
         p = "aborted" => arg'[k.cur] \notin k'.waiting[Group]
  PROVE  GroupInv'
<1>1. k'.cur = k.cur /\ k'.waiting[Group] \subseteq k.waiting[Group]
  BY GroupWaiters DEF Eases
<1>2. WaitersBlocked(k')
  BY EasesKeepsBlocked DEF GroupInv, WaitersInWait
<1>3. pc'[k.cur] = p /\ \A t \in Task \ {k.cur} : pc'[t] = pc[t]
  BY GroupFacts
<1>4. ASSUME NEW t \in k'.waiting[Group]
      PROVE  InWait(t)'
  <2>1. t \in Task
    BY <1>1, <1>4, GroupFacts, GroupWaiters
  <2>2. CASE t = k.cur
    BY <1>3, <1>4, <2>2 DEF InWait
  <2>3. CASE t # k.cur
    BY <1>1, <1>3, <1>4, <2>1, <2>3 DEF InWait, GroupInv, WaitersInWait
  <2>4. QED
    BY <2>2, <2>3
<1>5. WaitersInWait'
  BY <1>1, <1>2, <1>3, <1>4 DEF WaitersInWait
<1>6. QED
  BY <1>1, <1>5, QuietKeeps

(* The running task gives way, at place p, to a ready task. *)
LEMMA SwitchStep ==
  ASSUME EventGroupAssumption, GroupInv, GroupControl', UNCHANGED groupVars,
         NEW m, Eases(m, k), m.depth = 0, k' \in SwitchContext(m), after' = after,
         NEW p, p \notin Sections, pc' = [pc EXCEPT ![k.cur] = p],
         k.cur \in m.waiting[Group] =>
           p \in {"yield", "woken"} /\ after[k.cur] = "woken"
  PROVE  GroupInv'
<1>1. m \in KType /\ m.waiting[Group] \subseteq k.waiting[Group]
  BY GroupWaiters DEF Eases
<1>2. /\ k' \in KType /\ k'.cur \in ReadyTasks(m) /\ k'.waiting = m.waiting
      /\ ReadyTasks(k') = ReadyTasks(m) /\ Waiters(k') = Waiters(m)
  BY <1>1, SwitchContextWaits
<1>3. WaitersBlocked(m)
  BY EasesKeepsBlocked DEF GroupInv, WaitersInWait
<1>4. WaitersBlocked(k') /\ k'.cur \notin k'.waiting[Group]
  BY <1>2, <1>3, GroupWaiters DEF WaitersBlocked
<1>5. pc'[k.cur] = p /\ \A t \in Task \ {k.cur} : pc'[t] = pc[t]
  BY GroupFacts
<1>6. \A t \in Task : pc'[t] # "aborted"
  BY <1>5 DEF GroupInv, GroupControl, Sections, Suspending
<1>7. ASSUME NEW t \in k'.waiting[Group]
      PROVE  InWait(t)'
  <2>1. t \in Task
    BY <1>1, <1>2, <1>7, GroupFacts, GroupWaiters
  <2>2. CASE t = k.cur
    BY <1>2, <1>5, <1>7, <2>2 DEF InWait
  <2>3. CASE t # k.cur
    BY <1>1, <1>2, <1>5, <1>7, <2>1, <2>3 DEF InWait, GroupInv, WaitersInWait
  <2>4. QED
    BY <2>2, <2>3
<1>8. k'.cur \in Task
  BY <1>2 DEF KType
<1>9. WaitersInWait'
  BY <1>4, <1>6, <1>7, <1>8 DEF WaitersInWait
<1>10. QED
  BY <1>1, <1>2, <1>9, QuietKeeps

LEMMA UnlockSchedulerKeeps ==
  ASSUME EventGroupAssumption, GroupInv, UnlockScheduler, UNCHANGED groupVars
  PROVE  GroupInv'
<1> DEFINE p == IF At("unlock") THEN "catchup" ELSE "catchup_block"
<1>1. /\ pc[k.cur] = IF p = "catchup" THEN "unlock" ELSE "block"
      /\ pc' = [pc EXCEPT ![k.cur] = p] /\ after' = after /\ arg' = arg
      /\ k' = DrainPending(k)
  BY DEF UnlockScheduler, Unlock, At, Goto
<1>2. k.depth = 1 /\ k.cur # Idle
  BY <1>1, GroupFacts DEF Suspending
<1>3. Eases(k', k) /\ k'.depth = 0
  BY <1>1, <1>2, GroupFacts, DrainPendingEases, DrainPendingControl
<1>4. p \in Place \cup {"woken"} /\ p \notin Suspending /\ p # "aborted"
  BY DEF Place, BasePlace, Suspending
<1>5. k.cur \in k'.waiting[Group] => p = "catchup_block" /\ after[k.cur] = "woken"
  BY <1>1, <1>3, GroupWaiters DEF Eases, GroupInv, WaitersInWait, InWait
<1> HIDE DEF p
<1>6. GroupControl'
  BY <1>1, <1>2, <1>3, <1>4, GroupFacts, MoveKeepsControl DEF Eases
<1>7. QED
  BY <1>1, <1>3, <1>4, <1>5, <1>6, QuietStep

LEMMA CatchUpKeeps ==
  ASSUME EventGroupAssumption, GroupInv, CatchUp, UNCHANGED groupVars
  PROVE  GroupInv'
<1>1. /\ pc[k.cur] \in {"catchup", "catchup_block"} /\ k.pended > 0
      /\ k' = CatchUpTick(k) /\ pc' = pc /\ after' = after /\ arg' = arg
  BY DEF CatchUp, Masked
<1>2. Eases(k', k) /\ k'.depth = k.depth /\ k' \in KType
  BY <1>1, GroupFacts, CatchUpTickEases, CatchUpTickControl
<1>3. GroupControl'
  BY <1>1, <1>2, StayKeepsControl DEF Eases
<1>4. pc' = [pc EXCEPT ![k.cur] = pc[k.cur]]
  BY <1>1, GroupFacts
<1>5. k.cur \in k'.waiting[Group] =>
        pc[k.cur] = "catchup_block" /\ after[k.cur] = "woken"
  BY <1>1, <1>2, GroupWaiters DEF Eases, GroupInv, WaitersInWait, InWait
<1>6. QED
  BY <1>1, <1>2, <1>3, <1>4, <1>5, QuietStep

LEMMA UnlockedKeeps ==
  ASSUME EventGroupAssumption, GroupInv, Unlocked, UNCHANGED groupVars
  PROVE  GroupInv'
<1> DEFINE p == IF At("catchup") \/ k.yieldPending THEN after[k.cur] ELSE "yield"
<1>1. /\ pc[k.cur] \in {"catchup", "catchup_block"} /\ k' \in YieldIf(k.yieldPending, k)
      /\ pc' = [pc EXCEPT ![k.cur] = p] /\ after' = after /\ arg' = arg
  BY DEF Unlocked, Masked, Goto
<1>2. k.cur # Idle /\ k.depth = 0 /\ k.yieldPending \in BOOLEAN
  BY <1>1, GroupFacts DEF Suspending, KType
<1>3. p \in Place \cup {"woken"} /\ p \notin Sections /\ p \notin Suspending
  BY GroupFacts DEF Place, BasePlace, Sections, Suspending
<1>4. k.cur \in k.waiting[Group] =>
        /\ p \in {"yield", "woken"} /\ after[k.cur] = "woken"
        /\ ~k.yieldPending => p = "yield"
  BY <1>1 DEF At, GroupInv, WaitersInWait, InWait
<1> HIDE DEF p
<1>5. Eases(k, k)
  BY GroupFacts, SameWaits
<1>6. CASE k.yieldPending
  <2>1. k' \in SwitchContext(k)
    BY <1>1, <1>6 DEF YieldIf
  <2>2. k' \in KType /\ k'.depth = 0
    BY <1>2, <2>1, GroupFacts, SwitchContextWaits
  <2>3. GroupControl'
    BY <1>1, <1>2, <1>3, <2>2, GroupFacts, MoveKeepsControl
  <2>4. QED
    BY <1>1, <1>2, <1>3, <1>4, <1>5, <2>1, <2>3, SwitchStep
<1>7. CASE ~k.yieldPending
  <2>1. k' = k
    BY <1>1, <1>7 DEF YieldIf
  <2>2. GroupControl'
    BY <1>1, <1>2, <1>3, <2>1, GroupFacts, MoveKeepsControl
  <2>3. p # "aborted"
    BY <1>3 DEF Suspending
  <2>4. QED
    BY <1>1, <1>4, <1>5, <1>7, <2>1, <2>2, <2>3, QuietStep
<1>8. QED
  BY <1>6, <1>7

LEMMA YieldKeeps ==
  ASSUME EventGroupAssumption, GroupInv, Yield, UNCHANGED groupVars
  PROVE  GroupInv'
<1> DEFINE p == after[k.cur]
<1>1. /\ pc[k.cur] = "yield" /\ k' \in SwitchContext(k)
      /\ pc' = [pc EXCEPT ![k.cur] = p] /\ after' = after /\ arg' = arg
  BY DEF Yield, At, Goto
<1>2. k.cur # Idle /\ k.depth = 0
  BY <1>1, GroupFacts DEF Suspending
<1>3. p \in Place \cup {"woken"} /\ p \notin Sections /\ p \notin Suspending
  BY GroupFacts DEF Place, BasePlace, Sections, Suspending
<1>4. k.cur \in k.waiting[Group] => p = "woken"
  BY <1>1 DEF GroupInv, WaitersInWait, InWait
<1> HIDE DEF p
<1>5. k' \in KType /\ k'.depth = 0
  BY <1>1, <1>2, GroupFacts, SwitchContextWaits
<1>6. GroupControl'
  BY <1>1, <1>2, <1>3, <1>5, GroupFacts, MoveKeepsControl
<1>7. Eases(k, k)
  BY GroupFacts, SameWaits
<1>8. QED
  BY <1>1, <1>2, <1>3, <1>4, <1>6, <1>7, SwitchStep DEF p

LEMMA IdleYieldKeeps ==
  ASSUME EventGroupAssumption, GroupInv, IdleYield, UNCHANGED groupVars
  PROVE  GroupInv'
<1>1. /\ k.cur = Idle /\ k' \in SwitchContext(k)
      /\ pc' = pc /\ after' = after /\ arg' = arg
  BY DEF IdleYield
<1>2. pc[k.cur] = "run" /\ k.depth = 0
  BY <1>1, GroupFacts DEF Suspending, GroupInv, GroupControl
<1>3. k' \in KType /\ k'.depth = 0
  BY <1>1, <1>2, GroupFacts, SwitchContextWaits
<1>4. GroupControl'
  BY <1>1, <1>2, <1>3, StayKeepsControl DEF Sections, Suspending
<1>5. Eases(k, k) /\ pc' = [pc EXCEPT ![k.cur] = "run"] /\ "run" \notin Sections
  BY <1>1, <1>2, GroupFacts, SameWaits DEF Sections, Suspending
<1>6. k.cur \notin k.waiting[Group]
  BY <1>2 DEF GroupInv, WaitersInWait, InWait
<1>7. QED
  BY <1>1, <1>2, <1>4, <1>5, <1>6, SwitchStep

LEMMA TickInterruptKeeps ==
  ASSUME EventGroupAssumption, GroupInv, TickInterrupt, UNCHANGED groupVars
  PROVE  GroupInv'
<1>1. /\ pc[k.cur] \notin {"catchup", "catchup_block"}
      /\ pc' = pc /\ after' = after /\ arg' = arg
  BY DEF TickInterrupt, Masked
<1>2. pc' = [pc EXCEPT ![k.cur] = pc[k.cur]]
  BY <1>1, GroupFacts
<1> DEFINE p == pc[k.cur]
<1>3. k.cur \in k.waiting[Group] => p \in {"block", "yield"} /\ after[k.cur] = "woken"
  BY <1>1 DEF GroupInv, WaitersInWait, InWait
<1>4. p = "aborted" => arg[k.cur] \notin k.waiting[Group]
  BY DEF GroupInv, WaitersInWait
<1>5. CASE k.depth > 0 /\ k' = [k EXCEPT !.pended = k.pended + 1]
  <2>1. k.pended + 1 \in Nat
    BY GroupFacts DEF KType
  <2>2. /\ k' \in KType /\ k'.cur = k.cur /\ k'.waiting = k.waiting
        /\ k'.ready = k.ready /\ k'.depth = k.depth /\ k'.before = k.before
    BY <1>5, <2>1, GroupFacts DEF KType
  <2>3. Eases(k', k) /\ GroupControl'
    BY <1>1, <2>2, SameWaits, StayKeepsControl
  <2> HIDE DEF p
  <2>4. QED
    BY <1>1, <1>2, <1>3, <1>4, <2>2, <2>3, QuietStep DEF p
<1>6. CASE k.depth = 0 /\ k' \in YieldIf(TickWantsSwitch(k), IncrementTick(k))
  <2> DEFINE m == IncrementTick(k)
  <2>1. Eases(m, k) /\ m.depth = 0 /\ m \in KType
    BY <1>6, GroupFacts, IncrementTickEases, IncrementTickControl DEF Ticked
  <2>2. p \notin Suspending /\ p \notin Sections
    BY <1>1, <1>6, GroupFacts DEF Sections
  <2>3. m.waiting[Group] \subseteq k.waiting[Group]
    BY <2>1, GroupWaiters DEF Eases
  <2> HIDE DEF m
  <2>4. CASE k' \in SwitchContext(m)
    <3>1. k' \in KType /\ k'.depth = 0
      BY <2>1, <2>4, SwitchContextWaits
    <3>2. GroupControl'
      BY <1>1, <1>6, <2>2, <3>1, StayKeepsControl
    <3> HIDE DEF p
    <3>3. k.cur \in m.waiting[Group] => p \in {"yield", "woken"} /\ after[k.cur] = "woken"
      BY <1>3, <2>2, <2>3 DEF Sections, Suspending
    <3>4. QED
      BY <1>1, <1>2, <2>1, <2>2, <2>4, <3>2, <3>3, SwitchStep DEF p
  <2>5. CASE k' = m
    <3>1. GroupControl'
      BY <1>1, <1>6, <2>1, <2>5, StayKeepsControl DEF Eases
    <3> HIDE DEF p
    <3>2. QED
      BY <1>1, <1>2, <1>3, <1>4, <2>1, <2>3, <2>5, <3>1, QuietStep DEF p
  <2>6. QED
    BY <1>6, <2>4, <2>5 DEF YieldIf, m
<1>7. QED
  BY <1>5, <1>6 DEF TickInterrupt

-----------------------------------------------------------------------------
(* xTaskAbortDelay                                                         *)

LEMMA RunningFacts ==
  ASSUME EventGroupAssumption, GroupInv, pc[k.cur] = "run"
  PROVE  /\ k.depth = 0 /\ k.cur \notin k.waiting[Group]
         /\ LET s == SuspendAll(k)
            IN  /\ s \in KType /\ s.depth = 1 /\ s.cur = k.cur /\ s.waiting = k.waiting
                /\ Eases(s, k) /\ WaitersBlocked(s)
<1> DEFINE s == SuspendAll(k)
<1>1. k.depth = 0 /\ k.cur \notin k.waiting[Group]
  BY GroupFacts DEF Suspending, GroupInv, WaitersInWait, InWait
<1>2. s \in KType /\ s = [k EXCEPT !.depth = k.depth + 1]
  BY GroupFacts, SuspendAllControl
<1> HIDE DEF s
<1>3. /\ s.depth = 1 /\ s.cur = k.cur /\ s.waiting = k.waiting /\ s.ready = k.ready
      /\ s.before = k.before
  BY <1>1, <1>2, GroupFacts DEF KType
<1>4. Eases(s, k) /\ WaitersBlocked(s)
  BY <1>2, <1>3, SameWaits, EasesKeepsBlocked DEF GroupInv, WaitersInWait
<1>5. QED
  BY <1>1, <1>2, <1>3, <1>4 DEF s

LEMMA AbortDelayKeeps ==
  ASSUME EventGroupAssumption, GroupInv, NEW t \in Task, AbortDelay(t), UNCHANGED groupVars
  PROVE  GroupInv'
<1> DEFINE p == IF IsBlocked(t) THEN "abort" ELSE "unlock"
<1>1. /\ pc[k.cur] = "run" /\ k.cur # Idle /\ k' = SuspendAll(k)
      /\ pc' = [pc EXCEPT ![k.cur] = p] /\ after' = after
      /\ arg' = [arg EXCEPT ![k.cur] = IF IsBlocked(t) THEN t ELSE k.cur]
  BY DEF AbortDelay, Running, At, Goto
<1>2. /\ k' \in KType /\ k'.depth = 1 /\ k'.cur = k.cur /\ k'.waiting = k.waiting
      /\ Eases(k', k) /\ k.cur \notin k.waiting[Group]
  BY <1>1, RunningFacts
<1>3. p \in Place \cup {"woken"} /\ p \in Suspending /\ p # "aborted"
  BY DEF Place, BasePlace, Suspending
<1>4. arg' \in [Task -> Task]
  BY <1>1, GroupFacts
<1> HIDE DEF p
<1>5. GroupControl'
  BY <1>1, <1>2, <1>3, <1>4, GroupFacts, MoveKeepsControl
<1>6. QED
  BY <1>1, <1>2, <1>3, <1>5, QuietStep

LEMMA AbortBlockedKeeps ==
  ASSUME EventGroupAssumption, GroupInv, AbortBlocked, UNCHANGED groupVars
  PROVE  GroupInv'
<1> DEFINE t == arg[k.cur]
           off == OffEventLists(OffStateList(k, t), {t})
<1>1. /\ pc[k.cur] = "abort" /\ pc' = [pc EXCEPT ![k.cur] = "aborted"]
      /\ after' = after /\ arg' = arg
      /\ \/ k' = [off EXCEPT !.aborted = off.aborted \cup {t}]
         \/ k' = off
  BY DEF AbortBlocked, At, Goto
<1>2. t \in Task /\ k.cur # Idle /\ k.depth = 1
  BY <1>1, GroupFacts DEF Suspending
<1>3. Eases(off, k) /\ off.depth = 1 /\ t \notin Waiters(off)
  BY <1>2, GroupFacts, OffBothEases
<1> HIDE DEF t, off
<1>4. /\ k' \in KType /\ k'.depth = 1 /\ k'.cur = off.cur /\ k'.waiting = off.waiting
      /\ k'.ready = off.ready /\ k'.before = off.before
  <2>1. off \in KType
    BY <1>3 DEF Eases
  <2>2. off.aborted \cup {t} \in SUBSET Task
    BY <1>2, <2>1 DEF KType
  <2>3. QED
    BY <1>1, <1>3, <2>1, <2>2 DEF KType
<1>5. Eases(k', k) /\ t \notin Waiters(k')
  BY <1>3, <1>4, SameWaits, EasesTransitive
<1>6. k.cur \notin k'.waiting[Group] /\ t \notin k'.waiting[Group]
  BY <1>1, <1>5, GroupWaiters DEF Eases, GroupInv, WaitersInWait, InWait
<1>7. "aborted" \in Place /\ "aborted" \in Suspending
  BY DEF Place, Suspending
<1>8. GroupControl'
  BY <1>1, <1>2, <1>4, <1>5, <1>7, GroupFacts, MoveKeepsControl DEF Eases
<1>9. QED
  BY <1>1, <1>5, <1>6, <1>8, QuietStep DEF t

LEMMA AbortReadyKeeps ==
  ASSUME EventGroupAssumption, GroupInv, AbortReady, UNCHANGED groupVars
  PROVE  GroupInv'
<1> DEFINE t == arg[k.cur]
           r == AddToReadyList(k, t)
           y == Preempts(k, {t})
<1>1. /\ pc[k.cur] = "aborted" /\ pc' = [pc EXCEPT ![k.cur] = "unlock"]
      /\ after' = after /\ arg' = [arg EXCEPT ![k.cur] = k.cur]
      /\ k' = [r EXCEPT !.yieldPending = r.yieldPending \/ y]
  BY DEF AbortReady, At, Goto
<1>2. t \in Task /\ k.cur # Idle /\ k.depth = 1 /\ y \in BOOLEAN
  BY <1>1, GroupFacts DEF Suspending, Preempts
<1>3. t \notin Waiters(k)
  BY <1>1, GroupWaiters DEF GroupInv, WaitersInWait
<1>4. Eases(r, k) /\ r.depth = 1
  BY <1>2, <1>3, GroupFacts, AddToReadyListEases, AddToReadyListFields
<1> HIDE DEF t, r, y
<1>5. r \in KType /\ (r.yieldPending \/ y) \in BOOLEAN
  BY <1>2, <1>4 DEF Eases, KType
<1>6. /\ k' \in KType /\ k'.depth = 1 /\ k'.cur = r.cur /\ k'.waiting = r.waiting
      /\ k'.ready = r.ready /\ k'.before = r.before
  BY <1>1, <1>4, <1>5 DEF KType
<1>7. Eases(k', k)
  BY <1>4, <1>6, SameWaits, EasesTransitive
<1>8. k.cur \notin k'.waiting[Group]
  BY <1>1, <1>7, GroupWaiters DEF Eases, GroupInv, WaitersInWait, InWait
<1>9. "unlock" \in Place /\ "unlock" \in Suspending
  BY DEF Place, BasePlace, Suspending
<1>10. arg' \in [Task -> Task]
  BY <1>1, GroupFacts
<1>11. GroupControl'
  BY <1>1, <1>2, <1>6, <1>7, <1>9, <1>10, GroupFacts, MoveKeepsControl DEF Eases
<1>12. QED
  BY <1>1, <1>7, <1>8, <1>11, QuietStep

-----------------------------------------------------------------------------
(* What the calls do to the kernel.                                        *)

LEMMA PlaceOnUnorderedWaits ==
  ASSUME NEW s \in KType, WaitersBlocked(s), NEW o \in Object, NEW n \in Tick
  PROVE  LET r == PlaceOnUnorderedEventList(s, o, n)
         IN  /\ r \in KType /\ r.cur = s.cur /\ r.depth = s.depth
             /\ r.waiting = [s.waiting EXCEPT ![o] = s.waiting[o] \cup {s.cur}]
             /\ WaitersBlocked(r)
<1> DEFINE W == [s.waiting EXCEPT ![o] = s.waiting[o] \cup {s.cur}]
           B == s.before \cup (s.waiting[o] \X {s.cur})
           m == [s EXCEPT !.waiting = W, !.before = B]
           r == AddCurrentToDelayedList(m, n, TRUE)
<1>1. W \in [Object -> SUBSET Task] /\ B \in SUBSET (Task \X Task)
  <2>1. s.cur \in Task /\ s.waiting \in [Object -> SUBSET Task]
        /\ s.before \in SUBSET (Task \X Task)
    BY DEF KType
  <2>2. QED
    BY <2>1
<1>2. PlaceOnUnorderedEventList(s, o, n) = r
  BY DEF PlaceOnUnorderedEventList
<1>3. \A u : u \in UNION {W[q] : q \in Object} => u \in Waiters(s) \/ u = s.cur
  BY <1>1 DEF Waiters, KType
<1> HIDE DEF W, B
<1>4. /\ m \in KType /\ m.cur = s.cur /\ m.depth = s.depth /\ m.waiting = W
      /\ m.ready = s.ready
  BY <1>1 DEF KType
<1> HIDE DEF m
<1>5. /\ r \in KType /\ r.cur = s.cur /\ r.depth = s.depth /\ r.waiting = W
      /\ r.ready = [p \in Prio |-> s.ready[p] \ {s.cur}]
  <2>1. /\ r \in KType /\ r.cur = m.cur /\ r.depth = m.depth /\ r.waiting = m.waiting
        /\ r.ready = [p \in Prio |-> m.ready[p] \ {m.cur}]
    BY <1>4, AddCurrentWaits
  <2> HIDE DEF r
  <2>2. QED
    BY <1>4, <2>1
<1> HIDE DEF r
<1>6. \A u \in ReadyTasks(r) : u \in ReadyTasks(s) /\ u # s.cur
  BY <1>5, ReadyTasksElements
<1>7. WaitersBlocked(r)
  BY <1>3, <1>5, <1>6 DEF WaitersBlocked, Waiters
<1>8. QED
  BY <1>2, <1>5, <1>7 DEF W

LEMMA RemoveUnorderedWaits ==
  ASSUME NEW s \in KType, WaitersBlocked(s), NEW S \in SUBSET Task
  PROVE  LET r == RemoveFromUnorderedEventList(s, S)
         IN  /\ r \in KType /\ r.cur = s.cur /\ r.depth = s.depth
             /\ r.waiting = [o \in Object |-> s.waiting[o] \ S]
             /\ WaitersBlocked(r)
<1> DEFINE m == MakeReady(s, S)
           y == Preempts(s, S)
           r == [m EXCEPT !.yieldPending = m.yieldPending \/ y]
<1>1. RemoveFromUnorderedEventList(s, S) = r /\ y \in BOOLEAN
  BY DEF RemoveFromUnorderedEventList, Preempts
<1>2. /\ m \in KType /\ m.cur = s.cur /\ m.depth = s.depth
      /\ m.waiting = [o \in Object |-> s.waiting[o] \ S]
  BY MakeReadyFields
<1>3. WaitersBlocked(m)
  BY MakeReadyEases, EasesKeepsBlocked
<1> HIDE DEF m, y
<1>4. (m.yieldPending \/ y) \in BOOLEAN
  BY <1>1, <1>2 DEF KType
<1>5. /\ r \in KType /\ r.cur = m.cur /\ r.depth = m.depth
      /\ r.waiting = m.waiting /\ r.ready = m.ready /\ r.before = m.before
  BY <1>2, <1>4 DEF KType
<1> HIDE DEF r
<1>6. WaitersBlocked(r)
  BY <1>3, <1>5, SameWaits, EasesKeepsBlocked
<1>7. QED
  BY <1>1, <1>2, <1>5, <1>6

(* The caller goes on to resume the scheduler, and blocks if it has joined *)
(* the list.                                                               *)
LEMMA CallKeepsControl ==
  ASSUME GroupInv, Running, NEW p \in {"unlock", "block"}, pc' = [pc EXCEPT ![k.cur] = p],
         after' = after \/ after' = [after EXCEPT ![k.cur] = "woken"], arg' = arg,
         k' \in KType, k'.cur = k.cur, k'.depth = 1
  PROVE  GroupControl'
<1>1. p \in Place \cup {"woken"} /\ p \in Suspending
  BY DEF Place, BasePlace, Suspending
<1>2. after' \in [Task -> {"run", "woken"}] /\ k.cur # Idle
  BY GroupFacts DEF Running
<1>3. QED
  BY <1>1, <1>2, GroupFacts, MoveKeepsControl

LEMMA CallKeepsWaits ==
  ASSUME EventGroupAssumption, GroupInv, Running,
         NEW p \in {"unlock", "block"}, pc' = [pc EXCEPT ![k.cur] = p],
         after' = after \/ after' = [after EXCEPT ![k.cur] = "woken"],
         k' \in KType, k'.cur = k.cur, WaitersBlocked(k'),
         \A t \in k'.waiting[Group] :
           \/ t \in k.waiting[Group]
           \/ t = k.cur /\ p = "block" /\ after'[k.cur] = "woken"
  PROVE  WaitersInWait'
<1>1. pc'[k.cur] = p /\ \A t \in Task \ {k.cur} : pc'[t] = pc[t] /\ after'[t] = after[t]
  BY GroupFacts
<1>2. k.cur \notin k.waiting[Group]
  BY RunningFacts DEF Running, At
<1>3. ASSUME NEW t \in k'.waiting[Group]
      PROVE  InWait(t)'
  <2>1. t \in Task
    BY <1>3, GroupWaiters DEF KType
  <2>2. CASE t = k.cur
    BY <1>1, <1>2, <1>3, <2>2 DEF InWait
  <2>3. CASE t # k.cur
    BY <1>1, <1>3, <2>1, <2>3 DEF InWait, GroupInv, WaitersInWait
  <2>4. QED
    BY <2>2, <2>3
<1>4. QED
  BY <1>1, <1>3 DEF WaitersInWait

-----------------------------------------------------------------------------
(* What the calls do to the group.                                         *)

(* Fewer bits meet no condition that more bits do not. *)
LEMMA MetByMore ==
  ASSUME NEW b, NEW d, b \subseteq d, NEW c, Met(b, c)
  PROVE  Met(d, c)
BY DEF Met

LEMMA StateFacts ==
  ASSUME EventGroupAssumption, GroupInv
  PROVE  /\ bits \subseteq Bit /\ alive \in BOOLEAN
         /\ cond \in [Task -> Condition \cup {NoCondition}]
         /\ outcome \in [Task -> {"none", "waiting", "met", "unmet"}]
         /\ value \in [Task -> SUBSET Bit]
         /\ k.cur \in Task /\ Waits[k.cur] \subseteq Condition
         /\ Sets[k.cur] \subseteq SUBSET Bit
         /\ Syncs[k.cur] \subseteq [set : SUBSET Bit, bits : SUBSET Bit \ {{}}]
         /\ Times \subseteq Tick
BY GroupFacts DEF GroupInv, GroupState, EventGroupAssumption

(* What is left to show of a step of the group, in which the bits were at  *)
(* most X at any time.                                                     *)
LEMMA StateKeeps ==
  ASSUME EventGroupAssumption, GroupInv,
         bits' \subseteq Bit, alive' \in BOOLEAN,
         cond' \in [Task -> Condition \cup {NoCondition}],
         outcome' \in [Task -> {"none", "waiting", "met", "unmet"}],
         value' \in [Task -> SUBSET Bit],
         alive' => alive, k'.waiting[Group] # {} => alive',
         NEW X, bits' \subseteq X,
         \A t \in k'.waiting[Group] \ {k.cur} :
           /\ t \in k.waiting[Group] /\ ~Met(X, cond[t])
           /\ outcome'[t] = outcome[t] /\ cond'[t] = cond[t],
         k.cur \in k'.waiting[Group] =>
           outcome'[k.cur] = "waiting" /\ ~Met(bits', cond'[k.cur]),
         \A t \in Task \ {k.cur} :
           \/ /\ outcome'[t] = outcome[t] /\ cond'[t] = cond[t] /\ value'[t] = value[t]
           \/ alive' => Met(value'[t], cond'[t]),
         outcome'[k.cur] = "met" /\ alive' => Met(value'[k.cur], cond'[k.cur])
  PROVE  GroupState'
<1>1. NoneSleepsInVain'
  <2>1. ASSUME NEW t \in k'.waiting[Group]
        PROVE  alive' /\ outcome'[t] = "waiting" /\ ~Met(bits', cond'[t])
    <3>1. CASE t = k.cur
      BY <2>1, <3>1
    <3>2. CASE t # k.cur
      BY <2>1, <3>2, MetByMore DEF GroupInv, GroupState, NoneSleepsInVain
    <3>3. QED
      BY <3>1, <3>2
  <2>2. QED
    BY <2>1 DEF NoneSleepsInVain
<1>2. ReturnsWhatItWaitedFor'
  <2>1. ASSUME NEW t \in Task, outcome'[t] = "met", alive'
        PROVE  Met(value'[t], cond'[t])
    BY <2>1 DEF GroupInv, GroupState, ReturnsWhatItWaitedFor
  <2>2. QED
    BY <2>1 DEF ReturnsWhatItWaitedFor
<1>3. QED
  BY <1>1, <1>2 DEF GroupState

LEMMA WokenKeeps ==
  ASSUME EventGroupAssumption, GroupInv, Woken
  PROVE  GroupInv'
<1>1. /\ pc[k.cur] = "woken" /\ pc' = [pc EXCEPT ![k.cur] = "run"]
      /\ after' = [after EXCEPT ![k.cur] = "run"] /\ arg' = arg /\ k' = k
      /\ alive' = alive /\ cond' = cond
  BY DEF Woken, At, Goto, me
<1>2. k.cur # Idle /\ k.depth = 0 /\ k.cur \in Task /\ k.cur \notin k.waiting[Group]
  BY <1>1, GroupFacts DEF Suspending, Place, BasePlace, GroupInv, WaitersInWait
<1>3. /\ "run" \in Place \cup {"woken"} /\ "run" \notin Sections
      /\ "run" \notin Suspending /\ after' \in [Task -> {"run", "woken"}]
  BY <1>1, GroupFacts DEF Place, BasePlace, Sections, Suspending
<1>4. GroupControl'
  BY <1>1, <1>2, <1>3, GroupFacts, MoveKeepsControl
<1>5. WaitersInWait'
  <2>1. pc'[k.cur] = "run" /\ \A t \in Task \ {k.cur} : pc'[t] = pc[t] /\ after'[t] = after[t]
    BY <1>1, <1>2, GroupFacts
  <2>2. \A t \in k.waiting[Group] : t \in Task /\ t # k.cur
    BY <1>2, GroupFacts, GroupWaiters
  <2>3. \A t \in k'.waiting[Group] : InWait(t)'
    BY <1>1, <2>1, <2>2 DEF InWait, GroupInv, WaitersInWait
  <2>4. WaitersBlocked(k')
    BY <1>1 DEF GroupInv, WaitersInWait
  <2>5. QED
    BY <1>1, <2>1, <2>3, <2>4 DEF WaitersInWait
<1>6. /\ bits' \subseteq bits
      /\ outcome' \in [Task -> {"none", "waiting", "met", "unmet"}]
      /\ value' \in [Task -> SUBSET Bit]
      /\ \A t \in Task \ {k.cur} : outcome'[t] = outcome[t] /\ value'[t] = value[t]
      /\ outcome'[k.cur] = "met" /\ alive => Met(value'[k.cur], cond[k.cur])
  <2>1. CASE outcome[k.cur] = "met" /\ UNCHANGED <<bits, outcome, value>>
    BY <1>2, <2>1, StateFacts DEF GroupInv, GroupState, ReturnsWhatItWaitedFor
  <2>2. CASE /\ outcome[k.cur] # "met" /\ alive
             /\ bits' = IF Met(bits, cond[k.cur]) THEN Cleared(bits, cond[k.cur]) ELSE bits
             /\ Return(IF Met(bits, cond[k.cur]) THEN "met" ELSE "unmet", bits)
    BY <1>2, <2>2, StateFacts DEF Return, Cleared, me
  <2>3. CASE /\ outcome[k.cur] # "met" /\ ~alive
             /\ \E b \in SUBSET Bit : Return("unmet", b)
             /\ UNCHANGED bits
    BY <1>2, <2>3, StateFacts DEF Return, me
  <2>4. QED
    BY <2>1, <2>2, <2>3 DEF Woken, me
<1>7. \A t \in k.waiting[Group] : alive /\ ~Met(bits, cond[t]) /\ t \in Task
  BY GroupFacts, GroupWaiters DEF GroupInv, GroupState, NoneSleepsInVain
<1>8. GroupState'
  <2>1. /\ bits' \subseteq Bit /\ alive' \in BOOLEAN
        /\ cond' \in [Task -> Condition \cup {NoCondition}]
    BY <1>1, <1>6, StateFacts
  <2>2. \A t \in k'.waiting[Group] \ {k.cur} :
           /\ t \in k.waiting[Group] /\ ~Met(bits, cond[t])
           /\ outcome'[t] = outcome[t] /\ cond'[t] = cond[t]
    BY <1>1, <1>6, <1>7
  <2>3. /\ alive' => alive
        /\ k'.waiting[Group] # {} => alive'
        /\ k.cur \notin k'.waiting[Group]
    BY <1>1, <1>2, <1>7
  <2>4. /\ \A t \in Task \ {k.cur} :
             outcome'[t] = outcome[t] /\ cond'[t] = cond[t] /\ value'[t] = value[t]
        /\ outcome'[k.cur] = "met" /\ alive' => Met(value'[k.cur], cond'[k.cur])
    BY <1>1, <1>6
  <2>5. QED
    BY <1>6, <2>1, <2>2, <2>3, <2>4, StateKeeps
<1>9. QED
  BY <1>4, <1>5, <1>8 DEF GroupInv

LEMMA ClearedLess ==
  ASSUME NEW b, NEW c
  PROVE  Cleared(b, c) \subseteq b
BY DEF Cleared

(* A call with the scheduler suspended: the caller's facts *)
LEMMA CallingFacts ==
  ASSUME EventGroupAssumption, GroupInv, Calling
  PROVE  /\ Running /\ alive = TRUE /\ k.cur \in Task /\ k.cur \notin k.waiting[Group]
         /\ \A t \in k.waiting[Group] :
              t \in Task /\ outcome[t] = "waiting" /\ ~Met(bits, cond[t])
         /\ LET s == SuspendAll(k)
            IN  /\ s \in KType /\ s.depth = 1 /\ s.cur = k.cur /\ s.waiting = k.waiting
                /\ WaitersBlocked(s)
<1>1. Running /\ alive = TRUE /\ pc[k.cur] = "run"
  BY StateFacts DEF Calling, Running, At
<1>2. \A t \in k.waiting[Group] :
        t \in Task /\ outcome[t] = "waiting" /\ ~Met(bits, cond[t])
  BY GroupFacts, GroupWaiters DEF GroupInv, GroupState, NoneSleepsInVain
<1>3. QED
  BY <1>1, <1>2, RunningFacts, GroupFacts

LEMMA WaitBitsKeeps ==
  ASSUME EventGroupAssumption, GroupInv, NEW c \in Waits[k.cur], NEW n \in Times,
         WaitBits(c, n)
  PROVE  GroupInv'
<1> DEFINE s == SuspendAll(k)
           r == PlaceOnUnorderedEventList(s, Group, n)
           blocks == ~Met(bits, c) /\ n # 0
           p == IF blocks THEN "block" ELSE "unlock"
           how == IF Met(bits, c) THEN "met" ELSE IF n = 0 THEN "unmet" ELSE "waiting"
           what == IF blocks THEN {} ELSE bits
<1>1. /\ Calling /\ arg' = arg /\ alive' = alive
      /\ cond' = [cond EXCEPT ![k.cur] = c]
      /\ k' = IF blocks THEN r ELSE s
      /\ pc' = [pc EXCEPT ![k.cur] = p]
      /\ after' = IF blocks THEN [after EXCEPT ![k.cur] = "woken"] ELSE after
      /\ bits' = IF Met(bits, c) THEN Cleared(bits, c) ELSE bits
      /\ outcome' = [outcome EXCEPT ![k.cur] = how]
      /\ value' = [value EXCEPT ![k.cur] = what]
  BY DEF WaitBits, me, Goto, Return
<1>2. /\ Running /\ alive = TRUE /\ k.cur \in Task /\ k.cur \notin k.waiting[Group]
      /\ \A t \in k.waiting[Group] :
           t \in Task /\ outcome[t] = "waiting" /\ ~Met(bits, cond[t])
      /\ s \in KType /\ s.depth = 1 /\ s.cur = k.cur /\ s.waiting = k.waiting
      /\ WaitersBlocked(s)
  BY <1>1, CallingFacts
<1>3. c \in Condition /\ n \in Tick /\ Group \in Object
  BY StateFacts, GroupWaiters
<1> HIDE DEF s
<1>4. /\ r \in KType /\ r.cur = k.cur /\ r.depth = 1
      /\ r.waiting = [s.waiting EXCEPT ![Group] = s.waiting[Group] \cup {s.cur}]
      /\ WaitersBlocked(r)
  BY <1>2, <1>3, PlaceOnUnorderedWaits
<1>5. r.waiting[Group] = k.waiting[Group] \cup {k.cur}
  BY <1>2, <1>3, <1>4, GroupFacts
<1> HIDE DEF r
<1>6. /\ k' \in KType /\ k'.cur = k.cur /\ k'.depth = 1 /\ WaitersBlocked(k')
      /\ k'.waiting[Group] = IF blocks THEN k.waiting[Group] \cup {k.cur}
                                       ELSE k.waiting[Group]
  BY <1>1, <1>2, <1>4, <1>5
<1>7. p \in {"unlock", "block"}
      /\ (after' = after \/ after' = [after EXCEPT ![k.cur] = "woken"])
  BY <1>1
<1>8. GroupControl'
  BY <1>1, <1>2, <1>6, <1>7, CallKeepsControl
<1>9. \A t \in k'.waiting[Group] :
        \/ t \in k.waiting[Group]
        \/ t = k.cur /\ p = "block" /\ after'[k.cur] = "woken"
  BY <1>1, <1>2, <1>6, GroupFacts
<1> HIDE DEF p
<1>10. WaitersInWait'
  BY <1>1, <1>2, <1>6, <1>7, <1>9, CallKeepsWaits
<1>11. /\ bits' \subseteq bits /\ bits' \subseteq Bit
       /\ how \in {"none", "waiting", "met", "unmet"} /\ what \in SUBSET Bit
       /\ how = "met" => Met(what, c)
       /\ blocks => how = "waiting"
       /\ blocks => bits' = bits
  BY <1>1, StateFacts, ClearedLess
<1>12. k.cur \in k'.waiting[Group] => how = "waiting" /\ ~Met(bits', c)
  BY <1>2, <1>6, <1>11
<1>13. \A t \in k'.waiting[Group] \ {k.cur} : t \in k.waiting[Group]
  BY <1>6
<1> HIDE DEF how, what, blocks
<1>14. GroupState'
  <2>1. /\ cond' \in [Task -> Condition \cup {NoCondition}]
        /\ outcome' \in [Task -> {"none", "waiting", "met", "unmet"}]
        /\ value' \in [Task -> SUBSET Bit]
        /\ cond'[k.cur] = c /\ outcome'[k.cur] = how /\ value'[k.cur] = what
        /\ \A t \in Task \ {k.cur} :
             outcome'[t] = outcome[t] /\ cond'[t] = cond[t] /\ value'[t] = value[t]
    BY <1>1, <1>3, <1>11, StateFacts
  <2>2. alive' = TRUE /\ alive = TRUE
    BY <1>1, <1>2
  <2>3. \A t \in k'.waiting[Group] \ {k.cur} :
           /\ t \in k.waiting[Group] /\ ~Met(bits, cond[t])
           /\ outcome'[t] = outcome[t] /\ cond'[t] = cond[t]
    BY <1>2, <1>13, <2>1
  <2>4. QED
    BY <1>11, <1>12, <2>1, <2>2, <2>3, StateKeeps
<1>15. QED
  BY <1>8, <1>10, <1>14 DEF GroupInv

LEMMA ClearBitsKeeps ==
  ASSUME EventGroupAssumption, GroupInv, NEW b, ClearBits(b)
  PROVE  GroupInv'
<1>1. /\ bits' = bits \ b /\ k' = k /\ pc' = pc /\ after' = after /\ arg' = arg
      /\ alive' = alive /\ cond' = cond /\ outcome' = outcome /\ value' = value
  BY DEF ClearBits, kernelVars
<1>2. GroupControl' /\ WaitersInWait'
  BY <1>1 DEF GroupInv, GroupControl, WaitersInWait, InWait
<1>3. \A t \in k.waiting[Group] : ~Met(bits', cond[t])
  BY <1>1, MetByMore DEF GroupInv, GroupState, NoneSleepsInVain
<1>4. GroupState'
  BY <1>1, <1>3 DEF GroupInv, GroupState, NoneSleepsInVain, ReturnsWhatItWaitedFor
<1>5. QED
  BY <1>2, <1>4 DEF GroupInv

(* The walk along the list in xEventGroupSetBits: those whose condition is *)
(* met leave it, and the bits they asked to be cleared are.                *)
LEMMA SatisfiedFacts ==
  ASSUME EventGroupAssumption, GroupInv, Calling, NEW b \in SUBSET Bit
  PROVE  /\ Satisfied(b) \subseteq k.waiting[Group] /\ Satisfied(b) \in SUBSET Task
         /\ k.cur \notin Satisfied(b)
         /\ \A t \in Satisfied(b) : Met(bits \cup b, cond[t])
         /\ \A t \in k.waiting[Group] \ Satisfied(b) : ~Met(bits \cup b, cond[t])
         /\ BitsLeft(b, Satisfied(b)) \subseteq bits \cup b
         /\ bits \cup b \in SUBSET Bit
         /\ LET r == RemoveFromUnorderedEventList(SuspendAll(k), Satisfied(b))
            IN  /\ r \in KType /\ r.cur = k.cur /\ r.depth = 1
                /\ r.waiting = [o \in Object |-> k.waiting[o] \ Satisfied(b)]
                /\ r.waiting[Group] = k.waiting[Group] \ Satisfied(b)
                /\ WaitersBlocked(r)
<1> DEFINE S == Satisfied(b)
           s == SuspendAll(k)
           r == RemoveFromUnorderedEventList(s, S)
<1>1. /\ k.cur \notin k.waiting[Group] /\ \A t \in k.waiting[Group] : t \in Task
      /\ s \in KType /\ s.depth = 1 /\ s.cur = k.cur /\ s.waiting = k.waiting
      /\ WaitersBlocked(s)
  BY CallingFacts
<1>2. /\ S \subseteq k.waiting[Group]
      /\ \A t \in S : Met(bits \cup b, cond[t])
      /\ \A t \in k.waiting[Group] \ S : ~Met(bits \cup b, cond[t])
  BY DEF Satisfied
<1>3. BitsLeft(b, S) \subseteq bits \cup b /\ bits \cup b \in SUBSET Bit
  BY StateFacts DEF BitsLeft
<1> HIDE DEF S, s
<1>4. S \in SUBSET Task /\ k.cur \notin S
  BY <1>1, <1>2
<1>5. /\ r \in KType /\ r.cur = k.cur /\ r.depth = 1
      /\ r.waiting = [o \in Object |-> k.waiting[o] \ S] /\ WaitersBlocked(r)
  BY <1>1, <1>4, RemoveUnorderedWaits
<1>6. r.waiting[Group] = k.waiting[Group] \ S
  BY <1>5, GroupWaiters
<1>7. QED
  BY <1>2, <1>3, <1>4, <1>5, <1>6 DEF S, s

LEMMA SetBitsKeeps ==
  ASSUME EventGroupAssumption, GroupInv, NEW b \in Sets[k.cur], SetBits(b)
  PROVE  GroupInv'
<1> DEFINE S == Satisfied(b)
           X == bits \cup b
           r == RemoveFromUnorderedEventList(SuspendAll(k), S)
<1>1. /\ Calling /\ bits' = BitsLeft(b, S) /\ k' = r
      /\ outcome' = [t \in Task |-> IF t \in S THEN "met" ELSE outcome[t]]
      /\ value' = [t \in Task |-> IF t \in S THEN X ELSE value[t]]
      /\ pc' = [pc EXCEPT ![k.cur] = "unlock"]
      /\ after' = after /\ arg' = arg /\ alive' = alive /\ cond' = cond
  BY DEF SetBits, Unblock, Goto
<1>2. /\ Running /\ alive = TRUE /\ k.cur \in Task /\ k.cur \notin k.waiting[Group]
      /\ \A t \in k.waiting[Group] :
           t \in Task /\ outcome[t] = "waiting" /\ ~Met(bits, cond[t])
  BY <1>1, CallingFacts
<1>3. b \in SUBSET Bit
  BY StateFacts
<1>4. /\ S \subseteq k.waiting[Group] /\ S \in SUBSET Task /\ k.cur \notin S
      /\ \A t \in S : Met(X, cond[t])
      /\ \A t \in k.waiting[Group] \ S : ~Met(X, cond[t])
      /\ BitsLeft(b, S) \subseteq X /\ X \in SUBSET Bit
      /\ r \in KType /\ r.cur = k.cur /\ r.depth = 1
      /\ r.waiting[Group] = k.waiting[Group] \ S /\ WaitersBlocked(r)
  BY <1>1, <1>3, SatisfiedFacts
<1> HIDE DEF S, X, r
<1>5. GroupControl'
  BY <1>1, <1>2, <1>4, CallKeepsControl
<1>6. WaitersInWait'
  BY <1>1, <1>2, <1>4, CallKeepsWaits
<1>7. GroupState'
  <2>1. /\ bits' \subseteq Bit /\ bits' \subseteq X /\ alive' = TRUE /\ alive = TRUE
        /\ cond' \in [Task -> Condition \cup {NoCondition}]
        /\ outcome' \in [Task -> {"none", "waiting", "met", "unmet"}]
        /\ value' \in [Task -> SUBSET Bit]
    BY <1>1, <1>2, <1>4, StateFacts
  <2>2. \A t \in k'.waiting[Group] \ {k.cur} :
           /\ t \in k.waiting[Group] /\ ~Met(X, cond[t])
           /\ outcome'[t] = outcome[t] /\ cond'[t] = cond[t]
    BY <1>1, <1>2, <1>4
  <2>3. k.cur \notin k'.waiting[Group]
    BY <1>1, <1>2, <1>4
  <2>4. \A t \in Task \ {k.cur} :
          \/ /\ outcome'[t] = outcome[t] /\ cond'[t] = cond[t] /\ value'[t] = value[t]
          \/ alive' => Met(value'[t], cond'[t])
    BY <1>1, <1>4
  <2>5. outcome'[k.cur] = "met" /\ alive' => Met(value'[k.cur], cond'[k.cur])
    BY <1>1, <1>2, <1>4 DEF GroupInv, GroupState, ReturnsWhatItWaitedFor
  <2>6. QED
    BY <2>1, <2>2, <2>3, <2>4, <2>5, StateKeeps
<1>8. QED
  BY <1>5, <1>6, <1>7 DEF GroupInv

LEMMA SyncKeeps ==
  ASSUME EventGroupAssumption, GroupInv, NEW c \in Syncs[k.cur], NEW n \in Times, Sync(c, n)
  PROVE  GroupInv'
<1> DEFINE X == bits \cup c.set
           S == Satisfied(c.set)
           left == BitsLeft(c.set, S)
           own == [bits |-> c.bits, all |-> TRUE, clear |-> TRUE]
           m == RemoveFromUnorderedEventList(SuspendAll(k), S)
           r == PlaceOnUnorderedEventList(m, Group, n)
           blocks == ~Met(X, own) /\ n # 0
           p == IF blocks THEN "block" ELSE "unlock"
           how == IF Met(X, own) THEN "met" ELSE IF n = 0 THEN "unmet" ELSE "waiting"
           what == IF Met(X, own) THEN X ELSE IF n = 0 THEN left ELSE {}
<1>1. /\ Calling /\ arg' = arg /\ alive' = alive
      /\ cond' = [cond EXCEPT ![k.cur] = own]
      /\ k' = IF blocks THEN r ELSE m
      /\ pc' = [pc EXCEPT ![k.cur] = p]
      /\ after' = IF blocks THEN [after EXCEPT ![k.cur] = "woken"] ELSE after
      /\ bits' = IF Met(X, own) THEN left \ c.bits ELSE left
      /\ outcome' = [t \in Task |-> IF t = k.cur THEN how
                                     ELSE IF t \in S THEN "met" ELSE outcome[t]]
      /\ value' = [t \in Task |-> IF t = k.cur THEN what
                                   ELSE IF t \in S THEN X ELSE value[t]]
  BY DEF Sync, me, Goto
<1>2. /\ Running /\ alive = TRUE /\ k.cur \in Task /\ k.cur \notin k.waiting[Group]
      /\ \A t \in k.waiting[Group] :
           t \in Task /\ outcome[t] = "waiting" /\ ~Met(bits, cond[t])
  BY <1>1, CallingFacts
<1>3. c \in [set : SUBSET Bit, bits : SUBSET Bit \ {{}}] /\ n \in Tick /\ Group \in Object
  BY StateFacts, GroupWaiters
<1>4. c.set \in SUBSET Bit /\ own \in Condition
  BY <1>3 DEF Condition
<1>5. /\ S \subseteq k.waiting[Group] /\ S \in SUBSET Task /\ k.cur \notin S
      /\ \A t \in S : Met(X, cond[t])
      /\ \A t \in k.waiting[Group] \ S : ~Met(X, cond[t])
      /\ left \subseteq X /\ X \in SUBSET Bit
      /\ m \in KType /\ m.cur = k.cur /\ m.depth = 1
      /\ m.waiting[Group] = k.waiting[Group] \ S /\ WaitersBlocked(m)
  BY <1>1, <1>4, SatisfiedFacts
<1> HIDE DEF S, X, m, left, own
<1>6. /\ r \in KType /\ r.cur = k.cur /\ r.depth = 1
      /\ r.waiting = [m.waiting EXCEPT ![Group] = m.waiting[Group] \cup {m.cur}]
      /\ WaitersBlocked(r)
  BY <1>3, <1>5, PlaceOnUnorderedWaits
<1>7. r.waiting[Group] = m.waiting[Group] \cup {k.cur}
  <2>1. m.waiting \in [Object -> SUBSET Task]
    BY <1>5 DEF KType
  <2>2. QED
    BY <1>3, <1>5, <1>6, <2>1
<1> HIDE DEF r
<1>8. /\ k' \in KType /\ k'.cur = k.cur /\ k'.depth = 1 /\ WaitersBlocked(k')
      /\ k'.waiting[Group] = IF blocks THEN (k.waiting[Group] \ S) \cup {k.cur}
                                       ELSE k.waiting[Group] \ S
  BY <1>1, <1>5, <1>6, <1>7
<1>9. p \in {"unlock", "block"}
      /\ (after' = after \/ after' = [after EXCEPT ![k.cur] = "woken"])
  BY <1>1
<1>10. GroupControl'
  BY <1>1, <1>2, <1>8, <1>9, CallKeepsControl
<1>11. \A t \in k'.waiting[Group] :
         \/ t \in k.waiting[Group]
         \/ t = k.cur /\ p = "block" /\ after'[k.cur] = "woken"
  BY <1>1, <1>2, <1>8, GroupFacts
<1> HIDE DEF p
<1>12. WaitersInWait'
  BY <1>1, <1>2, <1>8, <1>9, <1>11, CallKeepsWaits
<1>13. /\ bits' \subseteq X /\ bits' \subseteq Bit
       /\ how \in {"none", "waiting", "met", "unmet"} /\ what \in SUBSET Bit
       /\ how = "met" => Met(what, own)
       /\ blocks => how = "waiting"
       /\ blocks => ~Met(X, own)
  BY <1>1, <1>5
<1>14. k.cur \in k'.waiting[Group] => how = "waiting" /\ ~Met(bits', own)
  <2>1. SUFFICES ASSUME k.cur \in k'.waiting[Group]
                 PROVE  how = "waiting" /\ ~Met(bits', own)
    OBVIOUS
  <2>2. blocks
    BY <1>2, <1>8, <2>1
  <2> HIDE DEF blocks, how
  <2>3. QED
    BY <1>13, <2>2, MetByMore
<1>15. \A t \in k'.waiting[Group] \ {k.cur} : t \in k.waiting[Group] \ S
  BY <1>8
<1> HIDE DEF how, what, blocks
<1>16. GroupState'
  <2>1. /\ cond' \in [Task -> Condition \cup {NoCondition}]
        /\ outcome' \in [Task -> {"none", "waiting", "met", "unmet"}]
        /\ value' \in [Task -> SUBSET Bit]
        /\ cond'[k.cur] = own /\ outcome'[k.cur] = how /\ value'[k.cur] = what
    BY <1>1, <1>2, <1>4, <1>5, <1>13, StateFacts
  <2>2. \A t \in Task \ {k.cur} :
          /\ cond'[t] = cond[t]
          /\ t \notin S => outcome'[t] = outcome[t] /\ value'[t] = value[t]
          /\ t \in S => value'[t] = X
    BY <1>1, StateFacts
  <2>3. alive' = TRUE /\ alive = TRUE
    BY <1>1, <1>2
  <2>4. \A t \in k'.waiting[Group] \ {k.cur} :
           /\ t \in k.waiting[Group] /\ ~Met(X, cond[t])
           /\ outcome'[t] = outcome[t] /\ cond'[t] = cond[t]
    BY <1>2, <1>5, <1>15, <2>2
  <2>5. \A t \in Task \ {k.cur} :
          \/ /\ outcome'[t] = outcome[t] /\ cond'[t] = cond[t] /\ value'[t] = value[t]
          \/ alive' => Met(value'[t], cond'[t])
    BY <1>5, <2>2
  <2>6. QED
    BY <1>13, <1>14, <2>1, <2>3, <2>4, <2>5, StateKeeps
<1>17. QED
  BY <1>10, <1>12, <1>16 DEF GroupInv

LEMMA DeleteGroupKeeps ==
  ASSUME EventGroupAssumption, GroupInv, DeleteGroup
  PROVE  GroupInv'
<1> DEFINE S == k.waiting[Group]
           s == SuspendAll(k)
           r == RemoveFromUnorderedEventList(s, S)
<1>1. /\ Calling /\ k' = r /\ alive' = FALSE /\ bits' = bits /\ cond' = cond
      /\ outcome' = [t \in Task |-> IF t \in S THEN "met" ELSE outcome[t]]
      /\ value' = [t \in Task |-> IF t \in S THEN {} ELSE value[t]]
      /\ pc' = [pc EXCEPT ![k.cur] = "unlock"]
      /\ after' = after /\ arg' = arg
  BY DEF DeleteGroup, Goto
<1>2. /\ Running /\ S \in SUBSET Task
      /\ s \in KType /\ s.depth = 1 /\ s.cur = k.cur /\ s.waiting = k.waiting
      /\ WaitersBlocked(s)
  BY <1>1, CallingFacts
<1> HIDE DEF s
<1>3. /\ r \in KType /\ r.cur = k.cur /\ r.depth = 1 /\ WaitersBlocked(r)
      /\ r.waiting = [o \in Object |-> k.waiting[o] \ S]
  BY <1>2, RemoveUnorderedWaits
<1>4. r.waiting[Group] = {}
  BY <1>3, GroupWaiters
<1> HIDE DEF r
<1>5. GroupControl'
  BY <1>1, <1>2, <1>3, CallKeepsControl
<1>6. WaitersInWait'
  BY <1>1, <1>2, <1>3, <1>4, CallKeepsWaits
<1>7. GroupState'
  <2>1. /\ outcome' \in [Task -> {"none", "waiting", "met", "unmet"}]
        /\ value' \in [Task -> SUBSET Bit]
    BY <1>1, StateFacts
  <2>2. NoneSleepsInVain' /\ ReturnsWhatItWaitedFor'
    BY <1>1, <1>4 DEF NoneSleepsInVain, ReturnsWhatItWaitedFor
  <2>3. QED
    BY <1>1, <2>1, <2>2, StateFacts DEF GroupState
<1>8. QED
  BY <1>5, <1>6, <1>7 DEF GroupInv

-----------------------------------------------------------------------------
(* The initial states, and every step.                                     *)

LEMMA InitGroup ==
  ASSUME EventGroupAssumption, GroupInit
  PROVE  GroupInv
<1>1. /\ k \in InitialKernel
      /\ pc = [t \in Task |-> IF t \in Boot THEN "run" ELSE "gone"]
      /\ after = [t \in Task |-> "run"] /\ arg = [t \in Task |-> t]
      /\ bits = {} /\ alive = TRUE /\ cond = [t \in Task |-> NoCondition]
      /\ outcome = [t \in Task |-> "none"] /\ value = [t \in Task |-> {}]
  BY DEF GroupInit, DispatchInit
<1>2. k \in KType /\ k.depth = 0 /\ k.waiting[Group] = {}
  BY <1>1, InitialKernelFacts, GroupWaiters
<1>3. k.cur \in Task
  BY <1>2 DEF KType
<1>4. \A t \in Task : pc[t] \in {"run", "gone"}
  BY <1>1
<1>5. GroupControl
  <2>1. \A t \in Task : pc[t] \notin Sections /\ pc[t] \notin Suspending
    BY <1>4 DEF Sections, Suspending
  <2>2. pc \in [Task -> Place \cup {"woken"}] /\ pc[Idle] = "run"
    BY <1>1, KernelAssumption DEF Place, BasePlace
  <2>3. QED
    BY <1>1, <1>2, <1>3, <2>1, <2>2 DEF GroupControl
<1>6. WaitersInWait
  <2>1. WaitersBlocked(k)
    BY <1>2, GroupWaiters DEF WaitersBlocked
  <2>2. QED
    BY <1>2, <1>3, <1>4, <2>1 DEF WaitersInWait
<1>7. GroupState
  BY <1>1, <1>2 DEF GroupState, NoneSleepsInVain, ReturnsWhatItWaitedFor
<1>8. QED
  BY <1>5, <1>6, <1>7 DEF GroupInv

LEMMA StepKeepsGroup ==
  ASSUME EventGroupAssumption, GroupInv, [GroupNext]_vars
  PROVE  GroupInv'
<1>1. CASE GroupStep
  BY <1>1, WokenKeeps, UnlockSchedulerKeeps, CatchUpKeeps, UnlockedKeeps, YieldKeeps
     DEF GroupStep
<1>2. CASE GroupCall
  <2>1. ASSUME NEW c \in Waits[k.cur], NEW n \in Times, WaitBits(c, n)
        PROVE  GroupInv'
    BY <2>1, WaitBitsKeeps
  <2>2. ASSUME NEW b \in Sets[k.cur], SetBits(b)
        PROVE  GroupInv'
    BY <2>2, SetBitsKeeps
  <2>3. ASSUME NEW b, ClearBits(b)
        PROVE  GroupInv'
    BY <2>3, ClearBitsKeeps
  <2>4. ASSUME NEW c \in Syncs[k.cur], NEW n \in Times, Sync(c, n)
        PROVE  GroupInv'
    BY <2>4, SyncKeeps
  <2>5. QED
    BY <1>2, <2>1, <2>2, <2>3, <2>4, DeleteGroupKeeps DEF GroupCall, me
<1>3. CASE Abort /\ UNCHANGED groupVars
  <2>1. ASSUME NEW t \in Abortable, AbortDelay(t)
        PROVE  GroupInv'
    BY <1>3, <2>1, AbortDelayKeeps DEF EventGroupAssumption
  <2>2. QED
    BY <1>3, <2>1, AbortBlockedKeeps, AbortReadyKeeps DEF Abort
<1>4. CASE (TickInterrupt \/ IdleYield) /\ UNCHANGED groupVars
  BY <1>4, TickInterruptKeeps, IdleYieldKeeps
<1>5. CASE UNCHANGED vars
  <2>1. /\ k' = k /\ pc' = pc /\ after' = after /\ arg' = arg
        /\ bits' = bits /\ alive' = alive /\ cond' = cond /\ outcome' = outcome
        /\ value' = value
    BY <1>5 DEF vars, kernelVars, groupVars
  <2>2. QED
    BY <2>1 DEF GroupInv, GroupControl, WaitersInWait, InWait, GroupState,
                NoneSleepsInVain, ReturnsWhatItWaitedFor
<1>6. QED
  BY <1>1, <1>2, <1>3, <1>4, <1>5 DEF GroupNext

-----------------------------------------------------------------------------
(* No bit is lost.                                                         *)

(* A bit that the walk along the list clears was asked for by a waiter,    *)
(* which gets it.                                                          *)
LEMMA WalkDelivers ==
  ASSUME EventGroupAssumption, GroupInv, Calling, NEW b \in SUBSET Bit,
         \A t \in Satisfied(b) : outcome'[t] = "met" /\ cond'[t] = cond[t],
         NEW x \in (bits \cup b) \ BitsLeft(b, Satisfied(b))
  PROVE  Delivered(x)
<1>1. PICK t \in Satisfied(b) : x \in IF cond[t].clear THEN cond[t].bits ELSE {}
  BY DEF BitsLeft
<1>2. t \in k.waiting[Group]
  BY SatisfiedFacts
<1>3. t \in Task /\ outcome[t] = "waiting"
  BY <1>2, CallingFacts
<1>4. QED
  BY <1>1, <1>3 DEF Delivered

LEMMA SetBitsDelivers ==
  ASSUME EventGroupAssumption, GroupInv, NEW b \in Sets[k.cur], SetBits(b),
         NEW x \in (bits \cup b) \ bits'
  PROVE  Delivered(x)
<1>1. /\ Calling /\ bits' = BitsLeft(b, Satisfied(b)) /\ cond' = cond
      /\ outcome' = [t \in Task |-> IF t \in Satisfied(b) THEN "met" ELSE outcome[t]]
  BY DEF SetBits, Unblock
<1>2. b \in SUBSET Bit
  BY StateFacts
<1>3. Satisfied(b) \in SUBSET Task
  BY <1>1, <1>2, SatisfiedFacts
<1>4. \A t \in Satisfied(b) : outcome'[t] = "met" /\ cond'[t] = cond[t]
  BY <1>1, <1>3
<1>5. QED
  BY <1>1, <1>2, <1>4, WalkDelivers

LEMMA WaitBitsDelivers ==
  ASSUME EventGroupAssumption, GroupInv, NEW c \in Waits[k.cur], NEW n \in Times,
         WaitBits(c, n), NEW x \in bits \ bits'
  PROVE  Delivered(x)
<1>1. /\ bits' = Cleared(bits, c) /\ cond' = [cond EXCEPT ![k.cur] = c]
      /\ outcome' = [outcome EXCEPT ![k.cur] = "met"]
  BY DEF WaitBits, Return, me
<1>2. cond'[k.cur] = c /\ outcome'[k.cur] = "met" /\ k.cur \in Task
  BY <1>1, StateFacts
<1>3. QED
  BY <1>1, <1>2 DEF Delivered, Cleared, me

LEMMA WokenDelivers ==
  ASSUME EventGroupAssumption, GroupInv, Woken, NEW x \in bits \ bits'
  PROVE  Delivered(x)
<1>1. /\ bits' = Cleared(bits, cond[k.cur]) /\ cond' = cond
      /\ outcome' = [outcome EXCEPT ![k.cur] = "met"]
  BY DEF Woken, Return, me
<1>2. outcome'[k.cur] = "met" /\ k.cur \in Task
  BY <1>1, StateFacts
<1>3. QED
  BY <1>1, <1>2 DEF Delivered, Cleared, me

LEMMA SyncDelivers ==
  ASSUME EventGroupAssumption, GroupInv, NEW c \in Syncs[k.cur], NEW n \in Times,
         Sync(c, n), NEW x \in bits \ bits'
  PROVE  Delivered(x)
<1> DEFINE X == bits \cup c.set
           S == Satisfied(c.set)
           left == BitsLeft(c.set, S)
           own == [bits |-> c.bits, all |-> TRUE, clear |-> TRUE]
           how == IF Met(X, own) THEN "met" ELSE IF n = 0 THEN "unmet" ELSE "waiting"
<1>1. /\ Calling /\ cond' = [cond EXCEPT ![k.cur] = own]
      /\ bits' = IF Met(X, own) THEN left \ c.bits ELSE left
      /\ outcome' = [t \in Task |-> IF t = k.cur THEN how
                                     ELSE IF t \in S THEN "met" ELSE outcome[t]]
  BY DEF Sync, me
<1>2. c.set \in SUBSET Bit /\ k.cur \in Task /\ cond'[k.cur] = own
  BY <1>1, StateFacts
<1>3. S \subseteq Task /\ k.cur \notin S
  BY <1>1, <1>2, SatisfiedFacts
<1>4. \A t \in S : outcome'[t] = "met" /\ cond'[t] = cond[t]
  BY <1>1, <1>3, StateFacts
<1>5. CASE x \notin left
  BY <1>1, <1>2, <1>4, <1>5, WalkDelivers
<1>6. CASE x \in left
  <2>1. Met(X, own) /\ x \in own.bits /\ own.clear
    BY <1>1, <1>6
  <2>2. outcome'[k.cur] = "met"
    BY <1>1, <1>2, <2>1
  <2>3. QED
    BY <1>2, <2>1, <2>2 DEF Delivered, me
<1>7. QED
  BY <1>5, <1>6

LEMMA StepDelivers ==
  ASSUME EventGroupAssumption, GroupInv, GroupNext
  PROVE  NoBitLostStep
<1>1. ASSUME NEW b \in Sets[k.cur], SetBits(b), NEW x \in (bits \cup b) \ bits'
      PROVE  Delivered(x)
  BY <1>1, SetBitsDelivers
<1>2. ASSUME NEW x \in bits \ bits'
      PROVE  Delivered(x) \/ \E b \in Clears[k.cur] : ClearBits(b)
  <2>1. CASE GroupStep
    BY <1>2, <2>1, WokenDelivers DEF GroupStep, groupVars
  <2>2. CASE GroupCall
    <3>1. ASSUME NEW c \in Waits[k.cur], NEW n \in Times, WaitBits(c, n)
          PROVE  Delivered(x)
      BY <1>2, <3>1, WaitBitsDelivers
    <3>2. ASSUME NEW b \in Sets[k.cur], SetBits(b)
          PROVE  Delivered(x)
      BY <1>1, <1>2, <3>2
    <3>3. ASSUME NEW c \in Syncs[k.cur], NEW n \in Times, Sync(c, n)
          PROVE  Delivered(x)
      BY <1>2, <3>3, SyncDelivers
    <3>4. ~DeleteGroup
      BY <1>2 DEF DeleteGroup
    <3>5. QED
      BY <2>2, <3>1, <3>2, <3>3, <3>4 DEF GroupCall, me
  <2>3. CASE UNCHANGED groupVars
    BY <1>2, <2>3 DEF groupVars
  <2>4. QED
    BY <2>1, <2>2, <2>3 DEF GroupNext
<1>3. QED
  BY <1>1, <1>2 DEF NoBitLostStep, me

-----------------------------------------------------------------------------
(* Tasks that meet: xEventGroupSync implements the rendezvous of           *)
(* Rendezvous, also while other bits of the group are waited for, set and  *)
(* cleared.                                                                *)

(* The condition of a task at the meeting *)
Own == [bits |-> Party, all |-> TRUE, clear |-> TRUE]

(* Each task of the party comes with a bit of its own, named like the      *)
(* task, and waits for all of these, without a time limit; nobody else     *)
(* touches these bits, and the group stays.                                *)
MeetingApart ==
  /\ \A t \in Party : Syncs[t] = {[set |-> {t}, bits |-> Party]} /\ Waits[t] = {}
  /\ \A t \in Task : /\ \A c \in Waits[t] : c.bits \cap Party = {}
                     /\ \A b \in Sets[t] \cup Clears[t] : b \cap Party = {}
  /\ Times \subseteq {MaxDelay} /\ Abortable \cap Party = {} /\ Deleters = {}

(* Those that have come and wait for the rest *)
Stopped == {t \in Party : outcome[t] = "waiting"}

Meeting == INSTANCE Rendezvous WITH stopped <- Stopped

(* Nothing is left to a time-out or to the end of a suspension. *)
NoneDelayed(s) == s.delayed = {} /\ s.overflow = {} /\ s.pending = {}

(* The bits of the party that are set are those of the tasks that have     *)
(* come, and these sleep until all of them are.                            *)
MeetingInv ==
  /\ alive = TRUE /\ NoneDelayed(k)
  /\ bits \cap Party = Stopped
  /\ Party # {} => Stopped # Party
  /\ Stopped \subseteq k.waiting[Group]
  /\ \A t \in Stopped : cond[t] = Own
  /\ \A t \in Task : (t \in Party /\ cond[t] = Own) \/ cond[t].bits \cap Party = {}
  /\ \A t \in Task : pc[t] = "abort" => arg[t] \notin Party

(* What the functions of the kernel do to lists without delayed tasks. *)
Calm(r, s) == r \in KType /\ NoneDelayed(r) /\ r.waiting = s.waiting

LEMMA SameCalm ==
  ASSUME NEW s, NoneDelayed(s), NEW r \in KType, r.waiting = s.waiting,
         r.delayed = s.delayed, r.overflow = s.overflow, r.pending = s.pending
  PROVE  Calm(r, s)
BY DEF Calm, NoneDelayed

LEMMA MakeReadyCalm ==
  ASSUME NEW s \in KType, NoneDelayed(s), NEW S \in SUBSET Task
  PROVE  LET r == MakeReady(s, S)
         IN  /\ r \in KType /\ NoneDelayed(r)
             /\ r.waiting = [o \in Object |-> s.waiting[o] \ S]
             /\ S = {} => r.waiting = s.waiting
<1> DEFINE r == MakeReady(s, S)
<1>1. /\ r \in KType /\ r.delayed = s.delayed \ S /\ r.overflow = s.overflow \ S
      /\ r.waiting = [o \in Object |-> s.waiting[o] \ S] /\ r.pending = s.pending \ S
  BY MakeReadyFields
<1> HIDE DEF r
<1>2. NoneDelayed(r)
  BY <1>1 DEF NoneDelayed
<1>3. S = {} => r.waiting = s.waiting
  <2>1. s.waiting \in [Object -> SUBSET Task]
    BY DEF KType
  <2>2. QED
    BY <1>1, <2>1
<1>4. QED
  BY <1>1, <1>2, <1>3 DEF r

LEMMA ResetNextCalm ==
  ASSUME NEW s \in KType, NoneDelayed(s)
  PROVE  Calm(ResetNextUnblockTime(s), s)
<1> DEFINE r == ResetNextUnblockTime(s)
<1>1. r \in KType /\ r = [s EXCEPT !.next = r.next]
  BY ResetNextUnblockTimeFields
<1> HIDE DEF r
<1>2. /\ r.waiting = s.waiting /\ r.delayed = s.delayed /\ r.overflow = s.overflow
      /\ r.pending = s.pending
  BY <1>1 DEF KType
<1>3. QED
  BY <1>1, <1>2, SameCalm DEF r

LEMMA IncrementTickCalm ==
  ASSUME NEW s \in KType, NoneDelayed(s)
  PROVE  Calm(IncrementTick(s), s)
<1> DEFINE m == [s EXCEPT !.tick = (s.tick + 1) % TickMod]
           d == [m EXCEPT !.delayed = m.overflow, !.overflow = m.delayed,
                          !.overflows = (m.overflows + 1) % OvfMod]
           a == AdvanceTick(s)
<1>1. (s.tick + 1) % TickMod \in Tick
  BY Constants DEF KType, Tick
<1>2. /\ m \in KType /\ m.delayed = s.delayed /\ m.overflow = s.overflow
      /\ m.pending = s.pending /\ m.waiting = s.waiting
  BY <1>1 DEF KType
<1>3. a = IF m.tick = 0 THEN ResetNextUnblockTime(d) ELSE m
  BY DEF AdvanceTick, SwitchDelayedLists
<1> HIDE DEF m
<1>4. (m.overflows + 1) % OvfMod \in 0 .. OvfMod - 1
  BY <1>2, Constants DEF KType
<1>5. /\ d \in KType /\ d.delayed = {} /\ d.overflow = {} /\ d.pending = {}
      /\ d.waiting = s.waiting
  BY <1>2, <1>4 DEF KType, NoneDelayed
<1> HIDE DEF d
<1>6. Calm(a, s)
  <2>1. Calm(ResetNextUnblockTime(d), d)
    BY <1>5, ResetNextCalm DEF NoneDelayed
  <2>2. QED
    BY <1>2, <1>3, <1>5, <2>1 DEF Calm, NoneDelayed
<1> HIDE DEF a
<1>7. DueTasks(a) = {}
  BY <1>6 DEF DueTasks, Calm, NoneDelayed
<1>8. Calm(MakeReady(a, {}), s)
  BY <1>6, MakeReadyCalm DEF Calm
<1>9. Calm(ResetNextUnblockTime(MakeReady(a, {})), s)
  BY <1>8, ResetNextCalm DEF Calm
<1>10. QED
  BY <1>6, <1>7, <1>9 DEF IncrementTick, WakeDueTasks, a

LEMMA CatchUpTickCalm ==
  ASSUME NEW s \in KType, NoneDelayed(s), s.pended > 0
  PROVE  Calm(CatchUpTick(s), s)
<1> DEFINE i == IncrementTick(s)
           y == TickWantsSwitch(s)
           z == [i EXCEPT !.pended = i.pended - 1, !.yieldPending = i.yieldPending \/ y]
<1>1. CatchUpTick(s) = z /\ Calm(i, s)
  BY IncrementTickCalm DEF CatchUpTick
<1>2. z \in KType /\ i \in KType
  BY <1>1, CatchUpTickControl DEF Calm
<1> HIDE DEF i, y
<1>3. /\ z.waiting = i.waiting /\ z.delayed = i.delayed /\ z.overflow = i.overflow
      /\ z.pending = i.pending
  BY <1>2 DEF KType
<1> HIDE DEF z
<1>4. QED
  BY <1>1, <1>2, <1>3 DEF Calm, NoneDelayed

LEMMA DrainPendingCalm ==
  ASSUME NEW s \in KType, NoneDelayed(s), s.depth > 0
  PROVE  Calm(DrainPending(s), s)
<1> DEFINE down == [s EXCEPT !.depth = s.depth - 1]
<1>1. s.depth - 1 \in Nat
  BY DEF KType
<1>2. DrainPending(s) = down
  BY DEF DrainPending, NoneDelayed
<1>3. /\ down \in KType /\ down.waiting = s.waiting /\ down.delayed = s.delayed
      /\ down.overflow = s.overflow /\ down.pending = s.pending
  BY <1>1 DEF KType
<1> HIDE DEF down
<1>4. QED
  BY <1>2, <1>3, SameCalm

LEMMA SwitchContextCalm ==
  ASSUME NEW s \in KType, NoneDelayed(s), NEW r \in SwitchContext(s)
  PROVE  Calm(r, s)
<1>1. r \in KType /\ r = [s EXCEPT !.yieldPending = r.yieldPending, !.cur = r.cur]
  BY SwitchContextControl
<1>2. /\ r.waiting = s.waiting /\ r.delayed = s.delayed /\ r.overflow = s.overflow
      /\ r.pending = s.pending
  BY <1>1 DEF KType
<1>3. QED
  BY <1>1, <1>2, SameCalm

LEMMA SuspendAllCalm ==
  ASSUME NEW s \in KType, NoneDelayed(s)
  PROVE  Calm(SuspendAll(s), s)
<1> DEFINE r == SuspendAll(s)
<1>1. r \in KType /\ r = [s EXCEPT !.depth = s.depth + 1]
  BY SuspendAllControl
<1> HIDE DEF r
<1>2. /\ r.waiting = s.waiting /\ r.delayed = s.delayed /\ r.overflow = s.overflow
      /\ r.pending = s.pending
  BY <1>1 DEF KType
<1>3. QED
  BY <1>1, <1>2, SameCalm DEF r

LEMMA RemoveUnorderedCalm ==
  ASSUME NEW s \in KType, NoneDelayed(s), NEW S \in SUBSET Task
  PROVE  NoneDelayed(RemoveFromUnorderedEventList(s, S))
<1> DEFINE m == MakeReady(s, S)
           y == Preempts(s, S)
           r == [m EXCEPT !.yieldPending = m.yieldPending \/ y]
<1>1. RemoveFromUnorderedEventList(s, S) = r
  BY DEF RemoveFromUnorderedEventList
<1>2. m \in KType /\ NoneDelayed(m)
  BY MakeReadyCalm
<1> HIDE DEF m, y
<1>3. r.delayed = m.delayed /\ r.overflow = m.overflow /\ r.pending = m.pending
  BY <1>2 DEF KType
<1> HIDE DEF r
<1>4. QED
  BY <1>1, <1>2, <1>3 DEF NoneDelayed

LEMMA PlaceOnUnorderedCalm ==
  ASSUME NEW s \in KType, NoneDelayed(s), NEW o \in Object
  PROVE  NoneDelayed(PlaceOnUnorderedEventList(s, o, MaxDelay))
<1> DEFINE W == [s.waiting EXCEPT ![o] = s.waiting[o] \cup {s.cur}]
           B == s.before \cup (s.waiting[o] \X {s.cur})
           m == [s EXCEPT !.waiting = W, !.before = B]
           f == OffStateList(m, m.cur)
           g == [f EXCEPT !.aborted = f.aborted \ {m.cur},
                          !.top = IF AloneOnList(m, m.cur) THEN f.top \ {m.prio[m.cur]}
                                                           ELSE f.top]
           r == [g EXCEPT !.suspended = g.suspended \cup {m.cur}]
<1>1. W \in [Object -> SUBSET Task] /\ B \in SUBSET (Task \X Task)
  <2>1. s.cur \in Task /\ s.waiting \in [Object -> SUBSET Task]
        /\ s.before \in SUBSET (Task \X Task)
    BY DEF KType
  <2>2. QED
    BY <2>1
<1>2. PlaceOnUnorderedEventList(s, o, MaxDelay) = r
  BY DEF PlaceOnUnorderedEventList, AddCurrentToDelayedList
<1> HIDE DEF W, B
<1>3. /\ m \in KType /\ m.delayed = {} /\ m.overflow = {} /\ m.pending = {} /\ m.cur \in Task
  BY <1>1 DEF KType, NoneDelayed
<1> HIDE DEF m
<1>4. f \in KType /\ f.delayed = {} /\ f.overflow = {} /\ f.pending = {}
  <2>1. /\ f \in KType /\ f.pending = m.pending
        /\ f.delayed = m.delayed \ {m.cur} /\ f.overflow = m.overflow \ {m.cur}
    BY <1>3, OffStateListFields
  <2> HIDE DEF f
  <2>2. QED
    BY <1>3, <2>1
<1> HIDE DEF f
<1>5. g.delayed = {} /\ g.overflow = {} /\ g.pending = {}
      /\ r.delayed = g.delayed /\ r.overflow = g.overflow /\ r.pending = g.pending
  BY <1>4 DEF KType
<1> HIDE DEF r
<1>6. QED
  BY <1>2, <1>5 DEF NoneDelayed

LEMMA OffBothCalm ==
  ASSUME NEW s \in KType, NoneDelayed(s), NEW t \in Task
  PROVE  LET r == OffEventLists(OffStateList(s, t), {t})
         IN  /\ r \in KType /\ NoneDelayed(r)
             /\ r.waiting = [o \in Object |-> s.waiting[o] \ {t}]
<1> DEFINE f == OffStateList(s, t)
           r == OffEventLists(f, {t})
<1>1. /\ f \in KType /\ f.delayed = s.delayed \ {t} /\ f.overflow = s.overflow \ {t}
      /\ f.pending = s.pending /\ f.waiting = s.waiting
  BY OffStateListFields
<1> HIDE DEF f
<1>2. /\ r \in KType /\ r.delayed = f.delayed /\ r.overflow = f.overflow
      /\ r.pending = f.pending \ {t} /\ r.waiting = [o \in Object |-> f.waiting[o] \ {t}]
  BY <1>1, OffEventListsFields
<1> HIDE DEF r
<1>3. QED
  BY <1>1, <1>2 DEF NoneDelayed, f, r

-----------------------------------------------------------------------------
(* The steps of the kernel leave the meeting alone.                        *)

LEMMA MeetingFacts ==
  ASSUME EventGroupAssumption, MeetingApart, GroupInv, MeetingInv
  PROVE  /\ k \in KType /\ NoneDelayed(k) /\ k.cur \in Task /\ Group \in Object
         /\ pc \in [Task -> Place \cup {"woken"}] /\ arg \in [Task -> Task]
         /\ Stopped \subseteq k.waiting[Group] /\ Party \subseteq Task
         /\ k.waiting[Group] \cap Party \subseteq Stopped
         /\ pc[k.cur] \in {"run", "woken"} => k.cur \notin Stopped
         /\ \A b : b \cap Party = {} => ~Met(bits \cup b, Own) \/ Party = {}
<1>1. k \in KType /\ k.cur \in Task /\ Group \in Object
      /\ pc \in [Task -> Place \cup {"woken"}] /\ arg \in [Task -> Task]
  BY GroupFacts, GroupWaiters
<1>2. NoneDelayed(k) /\ Stopped \subseteq k.waiting[Group] /\ Party \subseteq Task
  BY DEF MeetingInv, Party
<1>3. k.waiting[Group] \cap Party \subseteq Stopped
  BY DEF GroupInv, GroupState, NoneSleepsInVain, Stopped
<1>4. pc[k.cur] \in {"run", "woken"} => k.cur \notin Stopped
  BY <1>2 DEF GroupInv, WaitersInWait, InWait
<1>5. \A b : b \cap Party = {} => ~Met(bits \cup b, Own) \/ Party = {}
  BY DEF MeetingInv, Met, Own, Stopped
<1>6. QED
  BY <1>1, <1>2, <1>3, <1>4, <1>5

(* A step of the kernel keeps the tasks of the meeting on their list.      *)
LEMMA QuietMeets ==
  ASSUME MeetingInv, UNCHANGED groupVars, NoneDelayed(k'),
         Stopped \subseteq k'.waiting[Group],
         \A t \in Task : pc'[t] = "abort" => arg'[t] \notin Party
  PROVE  MeetingInv' /\ UNCHANGED Stopped
<1>1. /\ bits' = bits /\ alive' = alive /\ cond' = cond /\ outcome' = outcome
  BY DEF groupVars
<1>2. Stopped' = Stopped
  BY <1>1 DEF Stopped
<1>3. QED
  BY <1>1, <1>2 DEF MeetingInv

LEMMA CalmMeets ==
  ASSUME EventGroupAssumption, MeetingApart, GroupInv, MeetingInv, UNCHANGED groupVars,
         Calm(k', k), NEW p, p # "abort",
         \/ pc' = pc /\ arg' = arg
         \/ /\ pc' = [pc EXCEPT ![k.cur] = p]
            /\ arg' = arg \/ arg' = [arg EXCEPT ![k.cur] = k.cur]
  PROVE  MeetingInv' /\ UNCHANGED Stopped
<1>1. /\ k.cur \in Task /\ pc \in [Task -> Place \cup {"woken"}] /\ arg \in [Task -> Task]
      /\ Stopped \subseteq k.waiting[Group]
  BY MeetingFacts
<1>2. \A t \in Task : pc'[t] = "abort" => pc[t] = "abort"
  BY <1>1
<1>3. ASSUME NEW t \in Task, pc'[t] = "abort"
      PROVE  arg'[t] \notin Party
  <2>1. arg[t] \notin Party /\ pc[t] = "abort"
    BY <1>2, <1>3 DEF MeetingInv
  <2>2. CASE arg' = arg
    BY <2>1, <2>2
  <2>3. CASE pc' = [pc EXCEPT ![k.cur] = p]
    BY <1>1, <1>3, <2>1, <2>3
  <2>4. QED
    BY <2>1, <2>2, <2>3
<1>4. QED
  BY <1>1, <1>3, QuietMeets DEF Calm

LEMMA KernelMeets ==
  ASSUME EventGroupAssumption, MeetingApart, GroupInv, MeetingInv, UNCHANGED groupVars,
         UnlockScheduler \/ CatchUp \/ Unlocked \/ Yield \/ TickInterrupt \/ IdleYield
  PROVE  MeetingInv' /\ UNCHANGED Stopped
<1>1. k \in KType /\ NoneDelayed(k)
  BY MeetingFacts
<1>2. after[k.cur] # "abort"
  BY GroupFacts
<1>3. Calm(k, k)
  BY <1>1, SameCalm
<1>4. CASE UnlockScheduler
  <2>1. PICK p \in {"catchup", "catchup_block"} : pc' = [pc EXCEPT ![k.cur] = p]
    BY <1>4 DEF UnlockScheduler, Unlock, Goto
  <2>2. k' = DrainPending(k) /\ arg' = arg /\ pc[k.cur] \in {"unlock", "block"}
    BY <1>4 DEF UnlockScheduler, Unlock, At
  <2>3. k.depth = 1
    BY <2>2, GroupFacts DEF Suspending
  <2>4. Calm(k', k)
    BY <1>1, <2>2, <2>3, DrainPendingCalm
  <2>5. QED
    BY <2>1, <2>2, <2>4, CalmMeets
<1>5. CASE CatchUp
  <2>1. k' = CatchUpTick(k) /\ k.pended > 0 /\ pc' = pc /\ arg' = arg
    BY <1>5 DEF CatchUp
  <2>2. Calm(k', k)
    BY <1>1, <2>1, CatchUpTickCalm
  <2>3. QED
    BY <2>1, <2>2, CalmMeets
<1>6. CASE Unlocked
  <2> DEFINE p == IF At("catchup") \/ k.yieldPending THEN after[k.cur] ELSE "yield"
  <2>1. /\ k' \in YieldIf(k.yieldPending, k) /\ pc' = [pc EXCEPT ![k.cur] = p]
        /\ arg' = arg /\ p # "abort"
    BY <1>2, <1>6 DEF Unlocked, Goto
  <2>2. Calm(k', k)
    BY <1>1, <1>3, <2>1, SwitchContextCalm DEF YieldIf
  <2> HIDE DEF p
  <2>3. QED
    BY <2>1, <2>2, CalmMeets
<1>7. CASE Yield
  <2>1. k' \in SwitchContext(k) /\ pc' = [pc EXCEPT ![k.cur] = after[k.cur]] /\ arg' = arg
    BY <1>7 DEF Yield, Goto
  <2>2. Calm(k', k)
    BY <1>1, <2>1, SwitchContextCalm
  <2>3. QED
    BY <1>2, <2>1, <2>2, CalmMeets
<1>8. CASE TickInterrupt
  <2>1. pc' = pc /\ arg' = arg
    BY <1>8 DEF TickInterrupt
  <2>2. CASE k' = [k EXCEPT !.pended = k.pended + 1]
    <3>1. k.pended + 1 \in Nat
      BY <1>1 DEF KType
    <3>2. /\ k' \in KType /\ k'.waiting = k.waiting /\ k'.delayed = k.delayed
          /\ k'.overflow = k.overflow /\ k'.pending = k.pending
      BY <1>1, <2>2, <3>1 DEF KType
    <3>3. Calm(k', k)
      BY <1>1, <3>2, SameCalm
    <3>4. QED
      BY <2>1, <3>3, CalmMeets
  <2>3. CASE k' \in YieldIf(TickWantsSwitch(k), IncrementTick(k))
    <3>1. Calm(IncrementTick(k), k)
      BY <1>1, IncrementTickCalm
    <3>2. k' = IncrementTick(k) \/ k' \in SwitchContext(IncrementTick(k))
      BY <2>3 DEF YieldIf
    <3>3. k' \in SwitchContext(IncrementTick(k)) => Calm(k', IncrementTick(k))
      BY <3>1, SwitchContextCalm DEF Calm
    <3>4. Calm(k', k)
      BY <3>1, <3>2, <3>3 DEF Calm
    <3>5. QED
      BY <2>1, <3>4, CalmMeets
  <2>4. QED
    BY <1>8, <2>2, <2>3 DEF TickInterrupt
<1>9. CASE IdleYield
  <2>1. k' \in SwitchContext(k) /\ pc' = pc /\ arg' = arg
    BY <1>9 DEF IdleYield
  <2>2. Calm(k', k)
    BY <1>1, <2>1, SwitchContextCalm
  <2>3. QED
    BY <2>1, <2>2, CalmMeets
<1>10. QED
  BY <1>4, <1>5, <1>6, <1>7, <1>8, <1>9

(* An abort is about a task that is not of the party. *)
LEMMA AbortMeets ==
  ASSUME EventGroupAssumption, MeetingApart, GroupInv, MeetingInv, UNCHANGED groupVars, Abort
  PROVE  MeetingInv' /\ UNCHANGED Stopped
<1>1. /\ k \in KType /\ NoneDelayed(k) /\ k.cur \in Task /\ Group \in Object
      /\ pc \in [Task -> Place \cup {"woken"}] /\ arg \in [Task -> Task]
      /\ Stopped \subseteq k.waiting[Group]
  BY MeetingFacts
<1>2. ASSUME NEW t \in Abortable, AbortDelay(t)
      PROVE  MeetingInv' /\ UNCHANGED Stopped
  <2> DEFINE b == IsBlocked(t)
  <2>1. /\ k' = SuspendAll(k)
        /\ pc' = [pc EXCEPT ![k.cur] = IF b THEN "abort" ELSE "unlock"]
        /\ arg' = [arg EXCEPT ![k.cur] = IF b THEN t ELSE k.cur]
    BY <1>2 DEF AbortDelay, Goto
  <2>2. Calm(k', k) /\ t \notin Party
    BY <1>1, <2>1, SuspendAllCalm DEF MeetingApart
  <2> HIDE DEF b
  <2>3. ASSUME NEW u \in Task, pc'[u] = "abort"
        PROVE  arg'[u] \notin Party
    <3>1. CASE u = k.cur
      BY <1>1, <2>1, <2>2, <2>3, <3>1
    <3>2. CASE u # k.cur
      BY <1>1, <2>1, <2>3, <3>2 DEF MeetingInv
    <3>3. QED
      BY <3>1, <3>2
  <2>4. QED
    BY <1>1, <2>2, <2>3, QuietMeets DEF Calm
<1>3. CASE AbortBlocked
  <2> DEFINE t == arg[k.cur]
             off == OffEventLists(OffStateList(k, t), {t})
  <2>1. /\ pc[k.cur] = "abort" /\ pc' = [pc EXCEPT ![k.cur] = "aborted"] /\ arg' = arg
        /\ k' = off \/ k' = [off EXCEPT !.aborted = off.aborted \cup {t}]
    BY <1>3 DEF AbortBlocked, At, Goto
  <2>2. t \in Task /\ t \notin Party
    BY <1>1, <2>1 DEF MeetingInv
  <2>3. /\ off \in KType /\ NoneDelayed(off)
        /\ off.waiting = [o \in Object |-> k.waiting[o] \ {t}]
    BY <1>1, <2>2, OffBothCalm
  <2> HIDE DEF t, off
  <2>4. NoneDelayed(k') /\ k'.waiting = off.waiting
    BY <2>1, <2>3 DEF NoneDelayed, KType
  <2>5. Stopped \subseteq k'.waiting[Group]
    BY <1>1, <2>2, <2>3, <2>4 DEF Stopped
  <2>6. \A u \in Task : pc'[u] = "abort" => arg'[u] \notin Party
    BY <1>1, <2>1 DEF MeetingInv
  <2>7. QED
    BY <2>4, <2>5, <2>6, QuietMeets
<1>4. CASE AbortReady
  <2> DEFINE t == arg[k.cur]
             r == AddToReadyList(k, t)
             y == Preempts(k, {t})
  <2>1. /\ pc' = [pc EXCEPT ![k.cur] = "unlock"] /\ arg' = [arg EXCEPT ![k.cur] = k.cur]
        /\ k' = [r EXCEPT !.yieldPending = r.yieldPending \/ y]
    BY <1>4 DEF AbortReady, Goto
  <2>2. /\ r \in KType /\ r.waiting = k.waiting /\ r.delayed = k.delayed
        /\ r.overflow = k.overflow /\ r.pending = k.pending
    BY <1>1, AddToReadyListFields
  <2>3. y \in BOOLEAN
    BY DEF Preempts
  <2> HIDE DEF t, r, y
  <2>4. (r.yieldPending \/ y) \in BOOLEAN
    BY <2>2, <2>3 DEF KType
  <2>5. /\ k' \in KType /\ k'.waiting = r.waiting /\ k'.delayed = r.delayed
        /\ k'.overflow = r.overflow /\ k'.pending = r.pending
    BY <2>1, <2>2, <2>4 DEF KType
  <2>6. Calm(k', k)
    BY <1>1, <2>2, <2>5, SameCalm
  <2>7. QED
    BY <2>1, <2>6, CalmMeets
<1>5. QED
  BY <1>2, <1>3, <1>4 DEF Abort

-----------------------------------------------------------------------------
(* The calls with other bits, too.                                         *)

LEMMA WokenMeets ==
  ASSUME EventGroupAssumption, MeetingApart, GroupInv, MeetingInv, Woken
  PROVE  MeetingInv' /\ UNCHANGED Stopped
<1>1. /\ NoneDelayed(k) /\ k.cur \in Task /\ pc \in [Task -> Place \cup {"woken"}]
      /\ arg \in [Task -> Task] /\ Stopped \subseteq k.waiting[Group]
      /\ k' = k /\ pc' = [pc EXCEPT ![k.cur] = "run"] /\ arg' = arg
      /\ alive' = alive /\ cond' = cond /\ k.cur \notin Stopped
  BY MeetingFacts DEF Woken, At, Goto
<1>2. Stopped' = Stopped /\ bits' \cap Party = bits \cap Party
  <2>1. CASE outcome[k.cur] = "met" /\ UNCHANGED <<bits, outcome, value>>
    BY <2>1 DEF Stopped
  <2>2. CASE outcome[k.cur] # "met" /\ alive
    <3> DEFINE c == cond[k.cur]
               how == IF Met(bits, c) THEN "met" ELSE "unmet"
    <3>1. /\ bits' = IF Met(bits, c) THEN Cleared(bits, c) ELSE bits
          /\ outcome' = [outcome EXCEPT ![k.cur] = how]
      BY <2>2 DEF Woken, Return, me
    <3>2. how # "waiting"
      OBVIOUS
    <3> HIDE DEF how
    <3>3. \A t \in Party : outcome'[t] = "waiting" <=> outcome[t] = "waiting"
      BY <1>1, <3>1, <3>2, StateFacts DEF Stopped, Party
    <3>4. Met(bits, c) => c.bits \cap Party = {}
      <4>1. bits \cup {} = bits
        OBVIOUS
      <4>2. Met(bits, Own) => Party = {}
        BY <4>1, MeetingFacts
      <4>3. QED
        BY <1>1, <4>2 DEF MeetingInv
    <3>5. bits' \cap Party = bits \cap Party
      BY <3>1, <3>4 DEF Cleared
    <3>6. QED
      BY <3>3, <3>5 DEF Stopped
  <2>3. QED
    BY <2>1, <2>2 DEF Woken, me, MeetingInv
<1>3. \A t \in Task : pc'[t] = "abort" => arg'[t] \notin Party
  BY <1>1 DEF MeetingInv
<1>4. QED
  BY <1>1, <1>2, <1>3 DEF MeetingInv

(* A wait for other bits *)
LEMMA WaitBitsMeets ==
  ASSUME EventGroupAssumption, MeetingApart, GroupInv, MeetingInv,
         NEW c \in Waits[k.cur], NEW n \in Times, WaitBits(c, n)
  PROVE  MeetingInv' /\ UNCHANGED Stopped
<1> DEFINE s == SuspendAll(k)
           r == PlaceOnUnorderedEventList(s, Group, n)
<1>1. /\ k \in KType /\ NoneDelayed(k) /\ k.cur \in Task /\ Group \in Object
      /\ pc \in [Task -> Place \cup {"woken"}] /\ arg \in [Task -> Task]
      /\ Stopped \subseteq k.waiting[Group]
  BY MeetingFacts
<1>2. /\ Calling /\ arg' = arg /\ alive' = alive /\ cond' = [cond EXCEPT ![k.cur] = c]
      /\ bits' = bits \/ bits' = Cleared(bits, c)
      /\ k' = s \/ k' = r
      /\ \E p \in {"unlock", "block"} : pc' = [pc EXCEPT ![k.cur] = p]
      /\ \E how \in {"met", "unmet", "waiting"} : outcome' = [outcome EXCEPT ![k.cur] = how]
  BY DEF WaitBits, Return, Goto, me
<1>3. n = MaxDelay /\ k.cur \notin Party /\ c.bits \cap Party = {}
  BY <1>1 DEF MeetingApart
<1>4. s \in KType /\ NoneDelayed(s) /\ s.waiting = k.waiting /\ WaitersBlocked(s)
  BY <1>1, <1>2, CallingFacts, SuspendAllCalm DEF Calm
<1> HIDE DEF s
<1>5. n \in Tick
  BY StateFacts
<1>6. NoneDelayed(r) /\ r.waiting = [s.waiting EXCEPT ![Group] = s.waiting[Group] \cup {s.cur}]
  BY <1>1, <1>3, <1>4, <1>5, PlaceOnUnorderedCalm, PlaceOnUnorderedWaits
<1> HIDE DEF r
<1>7. NoneDelayed(k') /\ Stopped \subseteq k'.waiting[Group]
  <2>1. s.waiting \in [Object -> SUBSET Task]
    BY <1>4 DEF KType
  <2>2. k.waiting[Group] \subseteq r.waiting[Group]
    BY <1>1, <1>4, <1>6, <2>1
  <2>3. QED
    BY <1>1, <1>2, <1>4, <1>6, <2>2
<1>8. Stopped' = Stopped /\ bits' \cap Party = bits \cap Party
  <2>1. \A t \in Party : outcome'[t] = outcome[t]
    BY <1>2, <1>3, StateFacts DEF Party
  <2>2. QED
    BY <1>2, <1>3, <2>1 DEF Stopped, Cleared
<1>9. \A t \in Task \ {k.cur} : cond'[t] = cond[t]
  BY <1>2, StateFacts
<1>10. cond'[k.cur] = c /\ \A t \in Stopped : t \in Task \ {k.cur}
  BY <1>1, <1>2, <1>3, StateFacts DEF Stopped, Party
<1>11. /\ \A t \in Stopped : cond'[t] = Own
       /\ \A t \in Task : (t \in Party /\ cond'[t] = Own) \/ cond'[t].bits \cap Party = {}
  BY <1>3, <1>9, <1>10 DEF MeetingInv
<1>12. \A t \in Task : pc'[t] = "abort" => arg'[t] \notin Party
  BY <1>1, <1>2 DEF MeetingInv
<1>13. QED
  BY <1>2, <1>7, <1>8, <1>11, <1>12 DEF MeetingInv

(* Bits set that are not the party's wake nobody of it. *)
LEMMA OthersSatisfied ==
  ASSUME EventGroupAssumption, MeetingApart, GroupInv, MeetingInv, Calling,
         NEW b \in SUBSET Bit, ~Met(bits \cup b, Own) \/ Party = {}
  PROVE  /\ Satisfied(b) \cap Party = {}
         /\ BitsLeft(b, Satisfied(b)) \cap Party = (bits \cup b) \cap Party
<1> DEFINE S == Satisfied(b)
<1>1. S \subseteq k.waiting[Group] /\ S \subseteq Task
      /\ \A t \in S : Met(bits \cup b, cond[t])
  BY SatisfiedFacts
<1> HIDE DEF S
<1>2. S \cap Party = {}
  <2>1. SUFFICES ASSUME NEW t \in S, t \in Party PROVE FALSE
    OBVIOUS
  <2>2. t \in Stopped
    BY <1>1, <2>1, MeetingFacts
  <2>3. cond[t] = Own
    BY <2>2 DEF MeetingInv
  <2>4. QED
    BY <1>1, <2>1, <2>3
<1>3. \A t \in S : cond[t].bits \cap Party = {}
  BY <1>1, <1>2 DEF MeetingInv
<1>4. \A x \in UNION {IF cond[t].clear THEN cond[t].bits ELSE {} : t \in S} : x \notin Party
  BY <1>3
<1>5. BitsLeft(b, S) \cap Party = (bits \cup b) \cap Party
  BY <1>4 DEF BitsLeft
<1>6. QED
  BY <1>2, <1>5 DEF S

LEMMA SetBitsMeets ==
  ASSUME EventGroupAssumption, MeetingApart, GroupInv, MeetingInv,
         NEW b \in Sets[k.cur], SetBits(b)
  PROVE  MeetingInv' /\ UNCHANGED Stopped
<1> DEFINE S == Satisfied(b)
           s == SuspendAll(k)
           r == RemoveFromUnorderedEventList(s, S)
<1>1. /\ k \in KType /\ NoneDelayed(k) /\ k.cur \in Task
      /\ pc \in [Task -> Place \cup {"woken"}] /\ arg \in [Task -> Task]
      /\ Stopped \subseteq k.waiting[Group]
  BY MeetingFacts
<1>2. /\ Calling /\ bits' = BitsLeft(b, S) /\ k' = r
      /\ outcome' = [t \in Task |-> IF t \in S THEN "met" ELSE outcome[t]]
      /\ pc' = [pc EXCEPT ![k.cur] = "unlock"]
      /\ arg' = arg /\ alive' = alive /\ cond' = cond
  BY DEF SetBits, Unblock, Goto
<1>3. b \in SUBSET Bit /\ b \cap Party = {}
  BY <1>1, StateFacts DEF MeetingApart
<1>4. ~Met(bits \cup b, Own) \/ Party = {}
  BY <1>3, MeetingFacts
<1>5. /\ S \cap Party = {} /\ BitsLeft(b, S) \cap Party = (bits \cup b) \cap Party
  BY <1>2, <1>3, <1>4, OthersSatisfied
<1>6. S \in SUBSET Task /\ r.waiting[Group] = k.waiting[Group] \ S
  BY <1>2, <1>3, SatisfiedFacts
<1>7. s \in KType /\ NoneDelayed(s)
  BY <1>1, SuspendAllCalm DEF Calm
<1> HIDE DEF S, s
<1>8. NoneDelayed(r)
  BY <1>6, <1>7, RemoveUnorderedCalm
<1> HIDE DEF r
<1>9. Stopped' = Stopped
  BY <1>2, <1>5 DEF Stopped, Party
<1>10. Stopped \subseteq k'.waiting[Group]
  BY <1>1, <1>2, <1>5, <1>6 DEF Stopped
<1>11. bits' \cap Party = bits \cap Party
  BY <1>2, <1>3, <1>5
<1>12. \A t \in Task : pc'[t] = "abort" => arg'[t] \notin Party
  BY <1>1, <1>2 DEF MeetingInv
<1>13. QED
  BY <1>2, <1>8, <1>9, <1>10, <1>11, <1>12 DEF MeetingInv

LEMMA ClearBitsMeets ==
  ASSUME MeetingApart, MeetingInv, k.cur \in Task, NEW b \in Clears[k.cur], ClearBits(b)
  PROVE  MeetingInv' /\ UNCHANGED Stopped
<1>1. /\ bits' = bits \ b /\ k' = k /\ pc' = pc /\ arg' = arg
      /\ alive' = alive /\ cond' = cond /\ outcome' = outcome
  BY DEF ClearBits, kernelVars
<1>2. b \cap Party = {}
  BY DEF MeetingApart
<1>3. Stopped' = Stopped /\ bits' \cap Party = bits \cap Party
  BY <1>1, <1>2 DEF Stopped
<1>4. QED
  BY <1>1, <1>3 DEF MeetingInv

-----------------------------------------------------------------------------
(* A task comes to the meeting.                                            *)

LEMMA SyncMeets ==
  ASSUME EventGroupAssumption, MeetingApart, GroupInv, MeetingInv,
         NEW c \in Syncs[k.cur], NEW n \in Times, Sync(c, n)
  PROVE  MeetingInv' /\ Meeting!Come(k.cur) /\ k.cur \in Party
<1> DEFINE X == bits \cup {k.cur}
           S == Satisfied({k.cur})
           left == BitsLeft({k.cur}, S)
           s == SuspendAll(k)
           m == RemoveFromUnorderedEventList(s, S)
           r == PlaceOnUnorderedEventList(m, Group, n)
           full == Met(X, Own)
           p == IF full THEN "unlock" ELSE "block"
<1>1. /\ k \in KType /\ NoneDelayed(k) /\ k.cur \in Task /\ Group \in Object
      /\ pc \in [Task -> Place \cup {"woken"}] /\ arg \in [Task -> Task]
      /\ Stopped \subseteq k.waiting[Group] /\ k.waiting[Group] \cap Party \subseteq Stopped
      /\ Party \subseteq Task
  BY MeetingFacts
<1>2. /\ k.cur \in Party /\ n = MaxDelay /\ n # 0
      /\ c.set = {k.cur} /\ c.bits = Party
  <2>1. k.cur \in Party /\ n = MaxDelay
    BY <1>1 DEF Party, MeetingApart
  <2>2. c = [set |-> {k.cur}, bits |-> Party]
    BY <2>1 DEF MeetingApart
  <2>3. MaxDelay # 0
    BY Constants DEF MaxDelay
  <2>4. QED
    BY <2>1, <2>2, <2>3
<1>3. Own = [bits |-> c.bits, all |-> TRUE, clear |-> TRUE]
  BY <1>2 DEF Own
<1>4. /\ Calling /\ arg' = arg /\ alive' = alive
      /\ cond' = [cond EXCEPT ![k.cur] = Own]
      /\ k' = IF full THEN m ELSE r
      /\ pc' = [pc EXCEPT ![k.cur] = p]
      /\ bits' = IF full THEN left \ Party ELSE left
      /\ outcome' = [t \in Task |-> IF t = k.cur THEN IF full THEN "met" ELSE "waiting"
                                     ELSE IF t \in S THEN "met" ELSE outcome[t]]
  BY <1>2, <1>3 DEF Sync, me, Goto
<1>5. {k.cur} \in SUBSET Bit
  BY <1>2, StateFacts
<1>6. /\ S \in SUBSET Task /\ S \subseteq k.waiting[Group] /\ k.cur \notin S
      /\ \A t \in k.waiting[Group] \ S : ~Met(X, cond[t])
      /\ left \subseteq X
      /\ m \in KType /\ m.cur = k.cur /\ m.waiting[Group] = k.waiting[Group] \ S
      /\ WaitersBlocked(m)
  BY <1>4, <1>5, SatisfiedFacts
<1>7. ~full => S \cap Party = {} /\ left \cap Party = X \cap Party
  BY <1>4, <1>5, OthersSatisfied
<1>8. s \in KType /\ NoneDelayed(s)
  BY <1>1, SuspendAllCalm DEF Calm
<1> HIDE DEF S, s, left
<1>9. NoneDelayed(m)
  BY <1>6, <1>8, RemoveUnorderedCalm
<1> HIDE DEF m
<1>10. n \in Tick /\ m.waiting \in [Object -> SUBSET Task]
  BY <1>6, StateFacts DEF KType
<1>11. /\ NoneDelayed(r)
       /\ r.waiting[Group] = m.waiting[Group] \cup {k.cur}
  <2>1. r.waiting = [m.waiting EXCEPT ![Group] = m.waiting[Group] \cup {m.cur}]
    BY <1>1, <1>6, <1>10, PlaceOnUnorderedWaits
  <2>2. NoneDelayed(r)
    BY <1>1, <1>2, <1>6, <1>9, PlaceOnUnorderedCalm
  <2> HIDE DEF r
  <2>3. QED
    BY <1>1, <1>6, <1>10, <2>1, <2>2
<1> HIDE DEF r
<1>12. k.cur \notin Stopped
  BY <1>4, MeetingFacts DEF Calling, Running, At
<1>13. full <=> Stopped \cup {k.cur} = Party
  <2>1. full <=> Party \subseteq X
    BY DEF Met, Own
  <2>2. X \cap Party = Stopped \cup {k.cur} /\ Stopped \subseteq Party
    BY <1>2 DEF MeetingInv, Stopped
  <2>3. QED
    BY <2>1, <2>2
<1> HIDE DEF full, X
<1>14. \A t \in Task : /\ t # k.cur => cond'[t] = cond[t]
                       /\ t = k.cur => cond'[t] = Own
  BY <1>4, StateFacts
<1>15. \A t \in Task : (t \in Party /\ cond'[t] = Own) \/ cond'[t].bits \cap Party = {}
  BY <1>2, <1>14 DEF MeetingInv
<1>16. NoneDelayed(k') /\ alive' = TRUE
  BY <1>4, <1>9, <1>11 DEF MeetingInv
<1>17. p # "abort"
  OBVIOUS
<1> HIDE DEF p
<1>18. \A t \in Task : pc'[t] = "abort" => arg'[t] \notin Party
  BY <1>1, <1>4, <1>17 DEF MeetingInv
<1>19. CASE full
  <2>1. Stopped \subseteq S
    <3>1. \A t \in Stopped : t \in k.waiting[Group] /\ cond[t] = Own
      BY <1>1 DEF MeetingInv
    <3>2. Met(X, Own)
      BY <1>19 DEF full
    <3>3. QED
      BY <1>6, <3>1, <3>2
  <2>2. Stopped' = {}
    <3>1. \A t \in Party : outcome'[t] # "waiting"
      BY <1>1, <1>4, <1>19, <2>1 DEF Stopped
    <3>2. QED
      BY <3>1 DEF Stopped
  <2>3. bits' \cap Party = {}
    BY <1>4, <1>19
  <2>4. Meeting!Come(k.cur)
    BY <1>12, <1>13, <1>19, <2>2 DEF Meeting!Come
  <2>5. QED
    BY <1>2, <1>15, <1>16, <1>18, <2>2, <2>3, <2>4 DEF MeetingInv
<1>20. CASE ~full
  <2>1. Stopped' = Stopped \cup {k.cur}
    <3>1. \A t \in Party : outcome'[t] = "waiting" <=> outcome[t] = "waiting" \/ t = k.cur
      BY <1>1, <1>4, <1>7, <1>20
    <3>2. QED
      BY <1>2, <3>1 DEF Stopped
  <2>2. bits' \cap Party = Stopped'
    BY <1>2, <1>4, <1>7, <1>20, <2>1 DEF MeetingInv, X
  <2>3. Stopped' \subseteq k'.waiting[Group]
    BY <1>1, <1>4, <1>6, <1>7, <1>11, <1>20, <2>1 DEF Stopped
  <2>4. \A t \in Stopped' : cond'[t] = Own
    BY <1>1, <1>14, <2>1 DEF MeetingInv, Stopped
  <2>5. Stopped' # Party
    BY <1>13, <1>20, <2>1
  <2>6. Meeting!Come(k.cur)
    BY <1>12, <1>13, <1>20, <2>1 DEF Meeting!Come
  <2>7. QED
    BY <1>2, <1>15, <1>16, <1>18, <2>2, <2>3, <2>4, <2>5, <2>6 DEF MeetingInv
<1>21. QED
  BY <1>2, <1>19, <1>20

LEMMA InitMeets ==
  ASSUME EventGroupAssumption, MeetingApart, GroupInit
  PROVE  MeetingInv /\ Meeting!RendezvousInit
<1>1. /\ k \in InitialKernel
      /\ pc = [t \in Task |-> IF t \in Boot THEN "run" ELSE "gone"]
      /\ bits = {} /\ alive = TRUE /\ cond = [t \in Task |-> NoCondition]
      /\ outcome = [t \in Task |-> "none"]
  BY DEF GroupInit, DispatchInit
<1>2. NoneDelayed(k)
  BY <1>1 DEF InitialKernel, NoneDelayed
<1>3. Stopped = {}
  BY <1>1 DEF Stopped, Party
<1>4. \A t \in Task : cond[t].bits \cap Party = {} /\ pc[t] # "abort"
  BY <1>1 DEF NoCondition
<1>5. QED
  BY <1>1, <1>2, <1>3, <1>4 DEF MeetingInv, Meeting!RendezvousInit

LEMMA StepMeets ==
  ASSUME EventGroupAssumption, MeetingApart, GroupInv, MeetingInv, [GroupNext]_vars
  PROVE  MeetingInv' /\ [Meeting!RendezvousNext]_Stopped
<1>1. k.cur \in Task
  BY MeetingFacts
<1>2. CASE GroupStep
  BY <1>2, WokenMeets, KernelMeets DEF GroupStep
<1>3. CASE GroupCall
  <2>1. ASSUME NEW c \in Waits[k.cur], NEW n \in Times, WaitBits(c, n)
        PROVE  MeetingInv' /\ UNCHANGED Stopped
    BY <2>1, WaitBitsMeets
  <2>2. ASSUME NEW b \in Sets[k.cur], SetBits(b)
        PROVE  MeetingInv' /\ UNCHANGED Stopped
    BY <2>2, SetBitsMeets
  <2>3. ASSUME NEW b \in Clears[k.cur], ClearBits(b)
        PROVE  MeetingInv' /\ UNCHANGED Stopped
    BY <1>1, <2>3, ClearBitsMeets
  <2>4. ASSUME NEW c \in Syncs[k.cur], NEW n \in Times, Sync(c, n)
        PROVE  MeetingInv' /\ Meeting!RendezvousNext
    BY <2>4, SyncMeets DEF Meeting!RendezvousNext
  <2>5. ~DeleteGroup
    BY DEF DeleteGroup, MeetingApart
  <2>6. QED
    BY <1>3, <2>1, <2>2, <2>3, <2>4, <2>5 DEF GroupCall, me
<1>4. CASE Abort /\ UNCHANGED groupVars
  BY <1>4, AbortMeets
<1>5. CASE (TickInterrupt \/ IdleYield) /\ UNCHANGED groupVars
  BY <1>5, KernelMeets
<1>6. CASE UNCHANGED vars
  <2>1. UNCHANGED groupVars /\ k' = k /\ pc' = pc /\ arg' = arg
    BY <1>6 DEF vars, kernelVars
  <2>2. QED
    BY <2>1, QuietMeets DEF MeetingInv
<1>7. QED
  BY <1>2, <1>3, <1>4, <1>5, <1>6 DEF GroupNext

-----------------------------------------------------------------------------
(* The theorems.                                                           *)

(* The invariant of the group, of its waiters and of the places the calls  *)
(* of event_groups.c have reached holds in every reachable state.          *)
THEOREM GroupInvariant ==
  ASSUME EventGroupAssumption
  PROVE  GroupSpec => []GroupInv
<1>1. GroupInit => GroupInv
  BY InitGroup
<1>2. GroupInv /\ [GroupNext]_vars => GroupInv'
  BY StepKeepsGroup
<1>3. QED
  BY <1>1, <1>2, PTL DEF GroupSpec

(* No task sleeps at a deleted group or for bits that are set: what is set *)
(* between the test of xEventGroupWaitBits and its block cannot be missed, *)
(* and the walk of xEventGroupSetBits leaves nobody behind whose condition *)
(* the bits it leaves satisfy.                                             *)
THEOREM NoneSleepsUnserved ==
  ASSUME EventGroupAssumption
  PROVE  GroupSpec => []NoneSleepsInVain
<1>1. GroupInv => NoneSleepsInVain
  BY DEF GroupInv, GroupState
<1>2. QED
  BY <1>1, GroupInvariant, PTL

(* A wait that ends with eventUNBLOCKED_DUE_TO_BIT_SET, at once, by        *)
(* another task's call or by the last look after a time-out, returns bits  *)
(* that satisfy what it waited for.                                        *)
THEOREM CallsReturnWhatTheyWaitedFor ==
  ASSUME EventGroupAssumption
  PROVE  GroupSpec => []ReturnsWhatItWaitedFor
<1>1. GroupInv => ReturnsWhatItWaitedFor
  BY DEF GroupInv, GroupState
<1>2. QED
  BY <1>1, GroupInvariant, PTL

(* A bit that is set and gone was handed to a task that waited for it and  *)
(* asked to clear it, or cleared by xEventGroupClearBits: uxBitsToClear    *)
(* comes from none but the waiters that leave the list.                    *)
THEOREM BitsDelivered ==
  ASSUME EventGroupAssumption
  PROVE  GroupSpec => NoBitLost
<1>1. GroupInv /\ [GroupNext]_vars => [NoBitLostStep]_vars
  BY StepDelivers
<1>2. QED
  BY <1>1, GroupInvariant, PTL DEF GroupSpec, NoBitLost

(* xEventGroupSync implements the rendezvous: no task goes on before all   *)
(* have come, all those that have come go on together, and a fast task     *)
(* cannot come twice while a slow one still waits - whatever else is set,  *)
(* cleared and waited for at the group, and however the tasks, ticks and   *)
(* aborts of other waits interleave.                                       *)
THEOREM SyncMeetsAll ==
  ASSUME EventGroupAssumption, MeetingApart
  PROVE  GroupSpec => Meeting!RendezvousSpec
<1>1. GroupInit => GroupInv /\ MeetingInv /\ Meeting!RendezvousInit
  BY InitGroup, InitMeets
<1>2. GroupInv /\ MeetingInv /\ [GroupNext]_vars =>
        (GroupInv /\ MeetingInv)' /\ [Meeting!RendezvousNext]_Stopped
  BY StepKeepsGroup, StepMeets
<1>3. QED
  BY <1>1, <1>2, PTL DEF GroupSpec, Meeting!RendezvousSpec

=============================================================================
