---------------------------- MODULE MutexProofs -----------------------------
(***************************************************************************)
(* Theorems about mutexes: that none is free while the tasks that want it  *)
(* all sleep, that the count of the mutexes a task holds is right, that a  *)
(* task which holds none is back at its own priority, that priority        *)
(* inheritance bounds the wait for a mutex, and that the bit map of ready  *)
(* priorities stays exact meanwhile - for every number of tasks, mutexes   *)
(* and priorities, with nested and recursive takes, time-outs, aborts,     *)
(* delays and changes of priority in between.                              *)
(***************************************************************************)
EXTENDS Mutex, SchedulerProofs

-----------------------------------------------------------------------------
(* The inductive invariant.                                                *)

Suspending == {"unlock", "block", "abort", "aborted"}
Sections == Suspending \cup {"catchup", "catchup_block"}

(* The places of a call of xQueueSemaphoreTake of its own *)
Taking == {"try", "enter", "expired", "disinherit"}

(* Who is where, as in EventGroupProofs. *)
MutexControl ==
  /\ k \in KType
  /\ pc \in [Task -> Place \cup Taking] /\ after \in [Task -> {"run", "try", "expired"}]
  /\ arg \in [Task -> Task]
  /\ \A t \in Task \ {k.cur} : pc[t] \notin Sections
  /\ k.depth = IF pc[k.cur] \in Suspending THEN 1 ELSE 0
  /\ pc[Idle] = "run"
  /\ \A t \in Task : pc[t] \in {"run", "abort", "aborted"} => after[t] = "run"

InCall(t) == pc[t] \in Taking \/ after[t] # "run"

TimeOutType == [set : BOOLEAN, overflows : 0 .. OvfMod - 1, at : Tick]

MutexTypes ==
  /\ holder \in [Object -> Task \cup {Nobody}]
  /\ nesting \in [Object -> 0 .. MaxNesting]
  /\ held \in [Task -> Nat]
  /\ call \in [Task -> Object \cup {Nobody}]
  /\ left \in [Task -> Tick] /\ entry \in [Task -> TimeOutType]
  /\ \A t \in Task : InCall(t) <=> call[t] # Nobody

(* The part of the call in which a task may be on the list *)
InWait(t) ==
  /\ pc[t] \in {"block", "catchup_block", "yield", "try"}
  /\ pc[t] # "try" => after[t] = "try"

(* The tasks on the list of a mutex are blocked in the middle of a call    *)
(* for it: none runs on before it is off the list.                         *)
MutexWaits ==
  /\ WaitersBlocked(k) /\ EventListsOrdered(k)
  /\ \A m \in Object : \A t \in k.waiting[m] : call[t] = m /\ InWait(t)
  /\ pc[k.cur] = "try" => k.cur \notin Waiters(k)
  /\ pc[k.cur] = "aborted" => arg[k.cur] \notin Waiters(k)

(* One more than NoneWaitsForFreeMutex: the task that is on its way still  *)
(* tries.  One that only gives a priority back does not count.             *)
TakerComes ==
  \A m \in Object : holder[m] = Nobody /\ k.waiting[m] # {} =>
    \E t \in Task : call[t] = m /\ t \notin Waiters(k) /\ pc[t] # "disinherit"

MutexCounts ==
  /\ \A t \in Task : IsFiniteSet(HeldBy(t))
  /\ HoldersCounted /\ OwnPriorityAtLast

MutexInv ==
  MutexControl /\ MutexTypes /\ MutexWaits /\ TakerComes /\ MutexCounts

LEMMA MutexFacts ==
  ASSUME MutexInv
  PROVE  /\ k \in KType /\ k.cur \in Task /\ k.depth \in Nat /\ Idle \in Task
         /\ k.waiting \in [Object -> SUBSET Task]
         /\ pc \in [Task -> Place \cup Taking] /\ after \in [Task -> {"run", "try", "expired"}]
         /\ arg \in [Task -> Task]
         /\ pc[k.cur] # "run" => k.cur # Idle
         /\ pc[k.cur] \in Suspending => k.depth = 1
         /\ pc[k.cur] \notin Suspending => k.depth = 0
BY KernelAssumption DEF MutexInv, MutexControl, KType

(* The running task is on no list unless it is about to block or yield. *)
LEMMA CurrentWaits ==
  ASSUME MutexInv, k.cur \in Waiters(k)
  PROVE  pc[k.cur] \in {"block", "catchup_block", "yield"} /\ after[k.cur] = "try"
<1>1. PICK m \in Object : k.cur \in k.waiting[m]
  BY WaitersElements
<1>2. QED
  BY <1>1 DEF MutexInv, MutexWaits, InWait

-----------------------------------------------------------------------------
(* What is left to show of a step.                                         *)

(* The running task goes from its place to p. *)
LEMMA MoveKeepsControl ==
  ASSUME MutexInv, k.cur # Idle, NEW p \in Place \cup Taking,
         NEW a \in {"run", "try", "expired"},
         pc' = [pc EXCEPT ![k.cur] = p], after' = [after EXCEPT ![k.cur] = a],
         arg' \in [Task -> Task], k' \in KType,
         p \in Sections => k'.cur = k.cur,
         k'.depth = IF p \in Suspending THEN 1 ELSE 0,
         p \in {"run", "abort", "aborted"} => a = "run"
  PROVE  MutexControl'
<1>1. /\ pc' \in [Task -> Place \cup Taking] /\ pc'[Idle] = "run" /\ pc'[k.cur] = p
      /\ after' \in [Task -> {"run", "try", "expired"}] /\ after'[k.cur] = a
  BY MutexFacts DEF MutexInv, MutexControl
<1>2. \A t \in Task \ {k.cur} :
        pc'[t] = pc[t] /\ after'[t] = after[t] /\ pc[t] \notin Sections
  BY MutexFacts DEF MutexInv, MutexControl
<1>3. \A t \in Task \ {k'.cur} : pc'[t] \notin Sections
  BY <1>1, <1>2
<1>4. k'.depth = IF pc'[k'.cur] \in Suspending THEN 1 ELSE 0
  <2>1. k'.cur \in Task
    BY DEF KType
  <2>2. CASE k'.cur = k.cur
    BY <1>1, <2>2
  <2>3. CASE k'.cur # k.cur
    BY <1>1, <1>2, <2>1, <2>3 DEF Sections
  <2>4. QED
    BY <2>2, <2>3
<1>5. \A t \in Task : pc'[t] \in {"run", "abort", "aborted"} => after'[t] = "run"
  BY <1>1, <1>2 DEF MutexInv, MutexControl
<1>6. QED
  BY <1>1, <1>3, <1>4, <1>5 DEF MutexControl

(* Nobody moves. *)
LEMMA StayKeepsControl ==
  ASSUME MutexInv, pc' = pc, after' = after, arg' = arg, k' \in KType,
         k'.depth = k.depth, pc[k.cur] \in Sections => k'.cur = k.cur
  PROVE  MutexControl'
<1>1. \A t \in Task \ {k'.cur} : pc'[t] \notin Sections
  BY DEF MutexInv, MutexControl
<1>2. k'.depth = IF pc'[k'.cur] \in Suspending THEN 1 ELSE 0
  <2>1. k'.cur \in Task
    BY DEF KType
  <2>2. QED
    BY <2>1 DEF MutexInv, MutexControl, Sections
<1>3. QED
  BY <1>1, <1>2 DEF MutexInv, MutexControl

(* No task joins a list. *)
LEMMA MoveKeepsWaits ==
  ASSUME MutexInv, Eases(k', k),
         NEW p, NEW a,
         pc' = [pc EXCEPT ![k.cur] = p], after' = [after EXCEPT ![k.cur] = a],
         \A t \in Task \ {k.cur} : call'[t] = call[t],
         k.cur \in Waiters(k') =>
           p \in {"block", "catchup_block", "yield"} /\ a = "try" /\ call' = call,
         p = "aborted" => arg'[k.cur] \notin Waiters(k')
  PROVE  MutexWaits'
<1>1. k'.cur = k.cur /\ \A m \in Object : k'.waiting[m] \subseteq k.waiting[m]
  BY DEF Eases
<1>2. WaitersBlocked(k') /\ EventListsOrdered(k')
  BY EasesKeepsBlocked DEF MutexInv, MutexWaits, Eases
<1>3. /\ pc'[k.cur] = p /\ after'[k.cur] = a
      /\ \A t \in Task \ {k.cur} : pc'[t] = pc[t] /\ after'[t] = after[t]
  BY MutexFacts
<1>4. ASSUME NEW m \in Object, NEW t \in k'.waiting[m]
      PROVE  call'[t] = m /\ InWait(t)'
  <2>1. t \in k.waiting[m] /\ t \in Task /\ t \in Waiters(k')
    BY <1>1, MutexFacts, WaitersElements
  <2>2. call[t] = m /\ InWait(t)
    BY <2>1 DEF MutexInv, MutexWaits
  <2>3. CASE t = k.cur
    BY <1>3, <2>1, <2>2, <2>3 DEF InWait
  <2>4. CASE t # k.cur
    BY <1>3, <2>1, <2>2, <2>4 DEF InWait
  <2>5. QED
    BY <2>3, <2>4
<1>5. pc'[k'.cur] = "try" => k'.cur \notin Waiters(k')
  BY <1>1, <1>3
<1>6. pc'[k'.cur] = "aborted" => arg'[k'.cur] \notin Waiters(k')
  BY <1>1, <1>3
<1>7. QED
  BY <1>2, <1>4, <1>5, <1>6 DEF MutexWaits

(* Whoever was on its way to a free mutex still is. *)
LEMMA TakerStillComes ==
  ASSUME MutexInv, \A m \in Object : k'.waiting[m] \subseteq k.waiting[m],
         \A m \in Object : holder'[m] = Nobody =>
           /\ holder[m] = Nobody
           /\ \A t \in Task : call[t] = m /\ pc[t] # "disinherit"
                                => call'[t] = m /\ pc'[t] # "disinherit"
  PROVE  TakerComes'
<1>1. \A t : t \in Waiters(k') => t \in Waiters(k)
  BY WaitersElements
<1>2. ASSUME NEW m \in Object, holder'[m] = Nobody, k'.waiting[m] # {}
      PROVE  \E t \in Task : call'[t] = m /\ t \notin Waiters(k') /\ pc'[t] # "disinherit"
  <2>1. holder[m] = Nobody /\ k.waiting[m] # {}
    BY <1>2
  <2>2. PICK t \in Task : call[t] = m /\ t \notin Waiters(k) /\ pc[t] # "disinherit"
    BY <2>1 DEF MutexInv, TakerComes
  <2>3. QED
    BY <1>1, <1>2, <2>2
<1>3. QED
  BY <1>2 DEF TakerComes

(* No mutex changes hands, and no priority changes. *)
LEMMA SameCounts ==
  ASSUME MutexInv, holder' = holder, nesting' = nesting, held' = held,
         k'.prio = k.prio, k'.base = k.base
  PROVE  MutexCounts'
BY DEF MutexInv, MutexCounts, HeldBy, HoldersCounted, OwnPriorityAtLast

-----------------------------------------------------------------------------
(* Steps of the kernel, which leave the mutexes and the priorities alone.  *)

LEMMA QuietTypes ==
  ASSUME MutexInv, UNCHANGED mutexVars, after' = after,
         NEW p, pc' = [pc EXCEPT ![k.cur] = p],
         p \in Taking => InCall(k.cur), pc[k.cur] \in Taking => p \in Taking
  PROVE  MutexTypes'
<1>1. pc'[k.cur] = p /\ \A t \in Task \ {k.cur} : pc'[t] = pc[t]
  BY MutexFacts
<1>2. \A t \in Task : InCall(t)' <=> InCall(t)
  BY <1>1 DEF InCall
<1>3. QED
  BY <1>2 DEF MutexInv, MutexTypes, mutexVars

(* The running task goes on, from pc[k.cur] to p. *)
LEMMA QuietStep ==
  ASSUME MutexInv, MutexControl', UNCHANGED mutexVars,
         Eases(k', k), k'.prio = k.prio, k'.base = k.base, after' = after,
         NEW p, pc' = [pc EXCEPT ![k.cur] = p],
         p = "disinherit" => pc[k.cur] = p,
         p \in Taking => InCall(k.cur), pc[k.cur] \in Taking => p \in Taking,
         k.cur \in Waiters(k') =>
           p \in {"block", "catchup_block", "yield"} /\ after[k.cur] = "try",
         p = "aborted" => arg'[k.cur] \notin Waiters(k')
  PROVE  MutexInv'
<1>1. after' = [after EXCEPT ![k.cur] = after[k.cur]]
  BY MutexFacts
<1>2. MutexWaits'
  BY <1>1, MoveKeepsWaits DEF mutexVars
<1>3. \A t \in Task : pc[t] # "disinherit" => pc'[t] # "disinherit"
  BY MutexFacts
<1>4. \A m \in Object : k'.waiting[m] \subseteq k.waiting[m]
  BY DEF Eases
<1>5. TakerComes'
  BY <1>3, <1>4, TakerStillComes DEF mutexVars
<1>6. MutexTypes' /\ MutexCounts'
  BY QuietTypes, SameCounts DEF mutexVars
<1>7. QED
  BY <1>2, <1>5, <1>6 DEF MutexInv

(* The running task gives way, at place p, to a ready task. *)
LEMMA SwitchWaits ==
  ASSUME MutexInv, UNCHANGED call,
         NEW m, Eases(m, k), m.depth = 0, k' \in SwitchContext(m), after' = after,
         NEW p, p \notin Sections, pc' = [pc EXCEPT ![k.cur] = p],
         k.cur \in Waiters(m) => p \in {"yield", "try"} /\ after[k.cur] = "try"
  PROVE  MutexWaits' /\ \A o \in Object : k'.waiting[o] \subseteq k.waiting[o]
<1>1. m \in KType /\ \A o \in Object : m.waiting[o] \subseteq k.waiting[o]
  BY DEF Eases
<1>2. /\ k' \in KType /\ k'.cur \in ReadyTasks(m) /\ k'.waiting = m.waiting
      /\ ReadyTasks(k') = ReadyTasks(m) /\ Waiters(k') = Waiters(m)
      /\ k'.before = m.before
  BY <1>1, SwitchContextWaits
<1>3. WaitersBlocked(m) /\ EventListsOrdered(m)
  BY EasesKeepsBlocked DEF MutexInv, MutexWaits, Eases
<1>4. WaitersBlocked(k') /\ EventListsOrdered(k') /\ k'.cur \notin Waiters(k')
  BY <1>2, <1>3 DEF WaitersBlocked, EventListsOrdered
<1>5. pc'[k.cur] = p /\ \A t \in Task \ {k.cur} : pc'[t] = pc[t]
  BY MutexFacts
<1>6. \A t \in Task : pc'[t] # "aborted"
  BY <1>5 DEF MutexInv, MutexControl, Sections, Suspending
<1>7. ASSUME NEW o \in Object, NEW t \in k'.waiting[o]
      PROVE  call'[t] = o /\ InWait(t)'
  <2>1. t \in k.waiting[o] /\ t \in Task /\ t \in Waiters(m)
    BY <1>1, <1>2, MutexFacts, WaitersElements
  <2>2. call[t] = o /\ InWait(t)
    BY <2>1 DEF MutexInv, MutexWaits
  <2>3. CASE t = k.cur
    BY <1>5, <2>1, <2>2, <2>3 DEF InWait
  <2>4. CASE t # k.cur
    BY <1>5, <2>1, <2>2, <2>4 DEF InWait
  <2>5. QED
    BY <2>3, <2>4
<1>8. k'.cur \in Task
  BY <1>2 DEF KType
<1>9. MutexWaits'
  BY <1>4, <1>6, <1>7, <1>8 DEF MutexWaits
<1>10. QED
  BY <1>1, <1>2, <1>9

LEMMA SwitchStep ==
  ASSUME MutexInv, MutexControl', UNCHANGED mutexVars,
         NEW m, Eases(m, k), m.prio = k.prio, m.base = k.base,
         m.depth = 0, k' \in SwitchContext(m), after' = after,
         NEW p, p \notin Sections, pc' = [pc EXCEPT ![k.cur] = p],
         p = "disinherit" => pc[k.cur] = p,
         p \in Taking => InCall(k.cur), pc[k.cur] \in Taking => p \in Taking,
         k.cur \in Waiters(m) => p \in {"yield", "try"} /\ after[k.cur] = "try"
  PROVE  MutexInv'
<1>1. MutexWaits' /\ \A o \in Object : k'.waiting[o] \subseteq k.waiting[o]
  BY SwitchWaits DEF mutexVars
<1>2. k'.prio = k.prio /\ k'.base = k.base
  <2>1. m \in KType
    BY DEF Eases
  <2>2. k' = [m EXCEPT !.yieldPending = k'.yieldPending, !.cur = k'.cur]
    BY <2>1, SwitchContextControl
  <2>3. QED
    BY <2>1, <2>2 DEF KType
<1>3. \A t \in Task : pc[t] # "disinherit" => pc'[t] # "disinherit"
  BY MutexFacts
<1>4. TakerComes'
  BY <1>1, <1>3, TakerStillComes DEF mutexVars
<1>5. MutexTypes' /\ MutexCounts'
  BY <1>2, QuietTypes, SameCounts DEF mutexVars
<1>6. QED
  BY <1>1, <1>4, <1>5 DEF MutexInv


LEMMA Places ==
  /\ {"run", "unlock", "block", "catchup", "catchup_block", "yield", "abort", "aborted"}
       \subseteq Place
  /\ Taking \cap (Place \cup Sections \cup Suspending) = {}
BY DEF Place, BasePlace, Taking, Sections, Suspending

LEMMA UnlockSchedulerKeeps ==
  ASSUME MutexInv, UnlockScheduler, UNCHANGED mutexVars
  PROVE  MutexInv'
<1> DEFINE p == IF At("unlock") THEN "catchup" ELSE "catchup_block"
           a == after[k.cur]
<1>1. /\ pc[k.cur] = IF p = "catchup" THEN "unlock" ELSE "block"
      /\ pc' = [pc EXCEPT ![k.cur] = p] /\ after' = after /\ arg' = arg
      /\ k' = DrainPending(k)
  BY DEF UnlockScheduler, Unlock, At, Goto
<1>2. k.depth = 1 /\ k.cur # Idle
  BY <1>1, MutexFacts DEF Suspending
<1>3. Eases(k', k) /\ k'.depth = 0 /\ k'.prio = k.prio /\ k'.base = k.base
  BY <1>1, <1>2, MutexFacts, DrainPendingEases, DrainPendingControl
<1>4. /\ p \in Place /\ p \notin Suspending \cup Taking
      /\ p \notin {"run", "abort", "aborted", "disinherit"} /\ pc[k.cur] \notin Taking
  BY <1>1, Places DEF Suspending, Taking
<1>5. k.cur \in Waiters(k') => p = "catchup_block" /\ after[k.cur] = "try"
  <2>1. k.cur \in Waiters(k') => k.cur \in Waiters(k)
    BY <1>3, WaitersElements DEF Eases
  <2>2. QED
    BY <1>1, <2>1, CurrentWaits
<1>6. a \in {"run", "try", "expired"} /\ after' = [after EXCEPT ![k.cur] = a]
  BY <1>1, MutexFacts
<1> HIDE DEF p, a
<1>7. MutexControl'
  BY <1>1, <1>2, <1>3, <1>4, <1>6, MutexFacts, MoveKeepsControl DEF Eases
<1>8. QED
  BY <1>1, <1>3, <1>4, <1>5, <1>7, QuietStep

LEMMA CatchUpKeeps ==
  ASSUME MutexInv, CatchUp, UNCHANGED mutexVars
  PROVE  MutexInv'
<1>1. /\ pc[k.cur] \in {"catchup", "catchup_block"} /\ k.pended > 0
      /\ k' = CatchUpTick(k) /\ pc' = pc /\ after' = after /\ arg' = arg
  BY DEF CatchUp, Masked
<1>2. /\ Eases(k', k) /\ k'.depth = k.depth /\ k' \in KType
      /\ k'.prio = k.prio /\ k'.base = k.base
  BY <1>1, MutexFacts, CatchUpTickEases, CatchUpTickControl
<1>3. MutexControl'
  BY <1>1, <1>2, StayKeepsControl DEF Eases
<1>4. pc' = [pc EXCEPT ![k.cur] = pc[k.cur]] /\ pc[k.cur] \notin Taking
  BY <1>1, MutexFacts DEF Taking
<1>5. k.cur \in Waiters(k') => pc[k.cur] = "catchup_block" /\ after[k.cur] = "try"
  <2>1. k.cur \in Waiters(k') => k.cur \in Waiters(k)
    BY <1>2, WaitersElements DEF Eases
  <2>2. QED
    BY <1>1, <2>1, CurrentWaits
<1>6. QED
  BY <1>1, <1>2, <1>3, <1>4, <1>5, QuietStep

LEMMA UnlockedKeeps ==
  ASSUME MutexInv, Unlocked, UNCHANGED mutexVars
  PROVE  MutexInv'
<1> DEFINE p == IF At("catchup") \/ k.yieldPending THEN after[k.cur] ELSE "yield"
           a == after[k.cur]
<1>1. /\ pc[k.cur] \in {"catchup", "catchup_block"} /\ k' \in YieldIf(k.yieldPending, k)
      /\ pc' = [pc EXCEPT ![k.cur] = p] /\ after' = after /\ arg' = arg
  BY DEF Unlocked, Masked, Goto
<1>2. k.cur # Idle /\ k.depth = 0 /\ k.yieldPending \in BOOLEAN
  BY <1>1, MutexFacts DEF Suspending, KType
<1>3. /\ p \in {"run", "try", "expired", "yield"}
      /\ p = "run" => a = "run"
      /\ p \in Taking => InCall(k.cur)
      /\ pc[k.cur] \notin Taking
      /\ a \in {"run", "try", "expired"} /\ after' = [after EXCEPT ![k.cur] = a]
  BY <1>1, MutexFacts DEF InCall, Taking
<1>4. /\ p \in Place \cup Taking /\ p \notin Sections /\ p \notin Suspending
      /\ p # "disinherit" /\ p # "aborted"
      /\ p \in {"run", "abort", "aborted"} => a = "run"
  BY <1>3, Places DEF Taking, Sections, Suspending
<1>5. k.cur \in Waiters(k) =>
        /\ p \in {"yield", "try"} /\ after[k.cur] = "try"
        /\ ~k.yieldPending => p = "yield"
  BY <1>1, CurrentWaits DEF At
<1> HIDE DEF p, a
<1>6. Eases(k, k)
  BY MutexFacts, SameWaits
<1>7. CASE k.yieldPending
  <2>1. k' \in SwitchContext(k)
    BY <1>1, <1>7 DEF YieldIf
  <2>2. k' \in KType /\ k'.depth = 0
    BY <1>2, <2>1, MutexFacts, SwitchContextWaits
  <2>3. MutexControl'
    BY <1>1, <1>2, <1>3, <1>4, <2>2, MutexFacts, MoveKeepsControl
  <2>4. QED
    BY <1>1, <1>2, <1>3, <1>4, <1>5, <1>6, <2>1, <2>3, SwitchStep
<1>8. CASE ~k.yieldPending
  <2>1. k' = k
    BY <1>1, <1>8 DEF YieldIf
  <2>2. MutexControl'
    BY <1>1, <1>2, <1>3, <1>4, <2>1, MutexFacts, MoveKeepsControl
  <2>3. QED
    BY <1>1, <1>3, <1>4, <1>5, <1>6, <1>8, <2>1, <2>2, QuietStep
<1>9. QED
  BY <1>2, <1>7, <1>8

LEMMA YieldKeeps ==
  ASSUME MutexInv, Yield, UNCHANGED mutexVars
  PROVE  MutexInv'
<1> DEFINE p == after[k.cur]
<1>1. /\ pc[k.cur] = "yield" /\ k' \in SwitchContext(k)
      /\ pc' = [pc EXCEPT ![k.cur] = p] /\ after' = after /\ arg' = arg
  BY DEF Yield, At, Goto
<1>2. k.cur # Idle /\ k.depth = 0
  BY <1>1, MutexFacts DEF Suspending
<1>3. /\ p \in {"run", "try", "expired"} /\ after' = [after EXCEPT ![k.cur] = p]
      /\ p \in Taking => InCall(k.cur)
      /\ pc[k.cur] \notin Taking
  BY <1>1, MutexFacts DEF InCall, Taking
<1>4. /\ p \in Place \cup Taking /\ p \notin Sections /\ p \notin Suspending
      /\ p # "disinherit"
      /\ p \in {"run", "abort", "aborted"} => p = "run"
  BY <1>3, Places DEF Taking, Sections, Suspending
<1>5. k.cur \in Waiters(k) => p = "try" /\ after[k.cur] = "try"
  BY <1>1, CurrentWaits
<1> HIDE DEF p
<1>6. k' \in KType /\ k'.depth = 0 /\ Eases(k, k)
  BY <1>1, <1>2, MutexFacts, SwitchContextWaits, SameWaits
<1>7. MutexControl'
  BY <1>1, <1>2, <1>3, <1>4, <1>6, MutexFacts, MoveKeepsControl
<1>8. QED
  BY <1>1, <1>2, <1>3, <1>4, <1>5, <1>6, <1>7, SwitchStep

LEMMA IdleYieldKeeps ==
  ASSUME MutexInv, IdleYield, UNCHANGED mutexVars
  PROVE  MutexInv'
<1>1. /\ k.cur = Idle /\ k' \in SwitchContext(k)
      /\ pc' = pc /\ after' = after /\ arg' = arg
  BY DEF IdleYield
<1>2. pc[k.cur] = "run" /\ k.depth = 0
  BY <1>1, MutexFacts DEF Suspending, MutexInv, MutexControl
<1>3. k' \in KType /\ k'.depth = 0
  BY <1>1, <1>2, MutexFacts, SwitchContextWaits
<1>4. MutexControl'
  BY <1>1, <1>2, <1>3, StayKeepsControl DEF Sections, Suspending
<1>5. /\ Eases(k, k) /\ pc' = [pc EXCEPT ![k.cur] = "run"]
      /\ "run" \notin Sections /\ "run" \notin Taking /\ pc[k.cur] \notin Taking
  BY <1>1, <1>2, MutexFacts, SameWaits DEF Sections, Suspending, Taking
<1>6. k.cur \notin Waiters(k)
  BY <1>2, CurrentWaits
<1>7. QED
  BY <1>1, <1>2, <1>4, <1>5, <1>6, SwitchStep


LEMMA TickInterruptKeeps ==
  ASSUME MutexInv, TickInterrupt, UNCHANGED mutexVars
  PROVE  MutexInv'
<1> DEFINE p == pc[k.cur]
<1>1. /\ p \notin {"catchup", "catchup_block"} /\ pc' = pc /\ after' = after /\ arg' = arg
  BY DEF TickInterrupt, Masked
<1>2. /\ pc' = [pc EXCEPT ![k.cur] = p]
      /\ p \in Taking => InCall(k.cur)
      /\ pc[k.cur] \in Taking => p \in Taking
  BY <1>1, MutexFacts DEF InCall
<1>3. k.cur \in Waiters(k) => p \in {"block", "yield"} /\ after[k.cur] = "try"
  BY <1>1, CurrentWaits
<1>4. p = "aborted" => arg[k.cur] \notin Waiters(k)
  BY DEF MutexInv, MutexWaits
<1>5. CASE k.depth > 0 /\ k' = [k EXCEPT !.pended = k.pended + 1]
  <2>1. k.pended + 1 \in Nat
    BY MutexFacts DEF KType
  <2>2. /\ k' \in KType /\ k'.cur = k.cur /\ k'.waiting = k.waiting
        /\ k'.ready = k.ready /\ k'.depth = k.depth /\ k'.before = k.before
        /\ k'.prio = k.prio /\ k'.base = k.base
    BY <1>5, <2>1, MutexFacts DEF KType
  <2>3. Eases(k', k) /\ Waiters(k') = Waiters(k) /\ MutexControl'
    BY <1>1, <2>2, SameWaits, StayKeepsControl
  <2>4. p = "disinherit" => pc[k.cur] = p
    OBVIOUS
  <2> HIDE DEF p
  <2>5. QED
    BY <1>1, <1>2, <1>3, <1>4, <2>2, <2>3, <2>4, QuietStep
<1>6. CASE k.depth = 0 /\ k' \in YieldIf(TickWantsSwitch(k), IncrementTick(k))
  <2> DEFINE m == IncrementTick(k)
  <2>1. /\ Eases(m, k) /\ m.depth = 0 /\ m \in KType
        /\ m.prio = k.prio /\ m.base = k.base
    BY <1>6, MutexFacts, IncrementTickEases, IncrementTickControl DEF Ticked
  <2>2. p \notin Suspending /\ p \notin Sections
    BY <1>1, <1>6, MutexFacts DEF Sections
  <2>3. \A t : t \in Waiters(m) => t \in Waiters(k)
    BY <2>1, WaitersElements DEF Eases
  <2> HIDE DEF m
  <2>4. k.cur \in Waiters(m) => p = "yield" /\ after[k.cur] = "try"
    BY <1>3, <2>2, <2>3 DEF Sections, Suspending
  <2>5. p = "disinherit" => pc[k.cur] = p
    OBVIOUS
  <2>6. CASE k' \in SwitchContext(m)
    <3>1. k' \in KType /\ k'.depth = 0
      BY <2>1, <2>6, SwitchContextWaits
    <3>2. MutexControl'
      BY <1>1, <1>6, <2>2, <3>1, StayKeepsControl
    <3> HIDE DEF p
    <3>3. QED
      BY <1>1, <1>2, <2>1, <2>2, <2>4, <2>5, <2>6, <3>2, SwitchStep
  <2>7. CASE k' = m
    <3>1. MutexControl'
      BY <1>1, <1>6, <2>1, <2>7, StayKeepsControl DEF Eases
    <3> HIDE DEF p
    <3>2. QED
      BY <1>1, <1>2, <1>4, <2>1, <2>3, <2>4, <2>5, <2>7, <3>1, QuietStep
  <2>8. QED
    BY <1>6, <2>6, <2>7 DEF YieldIf, m
<1>7. QED
  BY <1>5, <1>6 DEF TickInterrupt

-----------------------------------------------------------------------------
(* xTaskAbortDelay and vTaskDelay.                                         *)

LEMMA SuspendAllFacts ==
  ASSUME MutexInv, k.depth = 0
  PROVE  LET s == SuspendAll(k)
         IN  /\ s \in KType /\ s.depth = 1 /\ s.cur = k.cur /\ s.waiting = k.waiting
             /\ s.prio = k.prio /\ s.base = k.base /\ s.tick = k.tick
             /\ Eases(s, k) /\ WaitersBlocked(s) /\ EventListsOrdered(s)
             /\ Waiters(s) = Waiters(k)
<1> DEFINE s == SuspendAll(k)
<1>1. s \in KType /\ s = [k EXCEPT !.depth = k.depth + 1]
  BY MutexFacts, SuspendAllControl
<1> HIDE DEF s
<1>2. /\ s.depth = 1 /\ s.cur = k.cur /\ s.waiting = k.waiting /\ s.ready = k.ready
      /\ s.before = k.before /\ s.prio = k.prio /\ s.base = k.base /\ s.tick = k.tick
  BY <1>1, MutexFacts DEF KType
<1>3. Eases(s, k) /\ Waiters(s) = Waiters(k)
  BY <1>1, <1>2, SameWaits
<1>4. WaitersBlocked(s) /\ EventListsOrdered(s)
  BY <1>3, EasesKeepsBlocked DEF MutexInv, MutexWaits, Eases
<1>5. QED
  BY <1>1, <1>2, <1>3, <1>4 DEF s

LEMMA RunningFacts ==
  ASSUME MutexInv, pc[k.cur] = "run"
  PROVE  /\ k.depth = 0 /\ k.cur \notin Waiters(k) /\ after[k.cur] = "run"
         /\ after' = after => after' = [after EXCEPT ![k.cur] = "run"]
BY MutexFacts, CurrentWaits DEF Suspending, MutexInv, MutexControl

LEMMA AbortDelayKeeps ==
  ASSUME MutexInv, NEW t \in Task, AbortDelay(t), UNCHANGED mutexVars
  PROVE  MutexInv'
<1> DEFINE p == IF IsBlocked(t) THEN "abort" ELSE "unlock"
<1>1. /\ pc[k.cur] = "run" /\ k.cur # Idle /\ k' = SuspendAll(k)
      /\ pc' = [pc EXCEPT ![k.cur] = p] /\ after' = after
      /\ arg' = [arg EXCEPT ![k.cur] = IF IsBlocked(t) THEN t ELSE k.cur]
  BY DEF AbortDelay, Running, At, Goto
<1>2. /\ k' \in KType /\ k'.depth = 1 /\ k'.cur = k.cur /\ Waiters(k') = Waiters(k)
      /\ k'.prio = k.prio /\ k'.base = k.base /\ Eases(k', k)
      /\ k.cur \notin Waiters(k) /\ after' = [after EXCEPT ![k.cur] = "run"]
  BY <1>1, RunningFacts, SuspendAllFacts
<1>3. /\ p \in Place \cup Taking /\ p \in Suspending /\ p # "aborted"
      /\ p \notin Taking /\ p # "disinherit" /\ pc[k.cur] \notin Taking
  BY <1>1, Places DEF Suspending, Taking
<1>4. arg' \in [Task -> Task]
  BY <1>1, MutexFacts
<1> HIDE DEF p
<1>5. MutexControl'
  BY <1>1, <1>2, <1>3, <1>4, MutexFacts, MoveKeepsControl
<1>6. QED
  BY <1>1, <1>2, <1>3, <1>5, QuietStep

LEMMA AbortBlockedKeeps ==
  ASSUME MutexInv, AbortBlocked, UNCHANGED mutexVars
  PROVE  MutexInv'
<1> DEFINE t == arg[k.cur]
           o == OffStateList(k, t)
           off == OffEventLists(o, {t})
<1>1. /\ pc[k.cur] = "abort" /\ pc' = [pc EXCEPT ![k.cur] = "aborted"]
      /\ after' = after /\ arg' = arg
      /\ \/ k' = [off EXCEPT !.aborted = off.aborted \cup {t}]
         \/ k' = off
  BY DEF AbortBlocked, At, Goto
<1>2. t \in Task /\ k.cur # Idle /\ k.depth = 1 /\ k.cur \in Task
  BY <1>1, MutexFacts DEF Suspending
<1>3. Eases(off, k) /\ off.depth = 1 /\ t \notin Waiters(off)
  BY <1>2, MutexFacts, OffBothEases
<1>4. off.prio = k.prio /\ off.base = k.base
  <2>1. o \in KType /\ o.prio = k.prio /\ o.base = k.base
    BY <1>2, MutexFacts, OffStateListFields
  <2>2. {t} \in SUBSET Task
    BY <1>2
  <2> HIDE DEF o, t
  <2>3. off.prio = o.prio /\ off.base = o.base
    BY <2>1, <2>2, OffEventListsFields
  <2>4. QED
    BY <2>1, <2>3
<1> HIDE DEF t, o, off
<1>5. /\ k' \in KType /\ k'.depth = 1 /\ k'.cur = off.cur /\ k'.waiting = off.waiting
      /\ k'.ready = off.ready /\ k'.before = off.before
      /\ k'.prio = off.prio /\ k'.base = off.base
  <2>1. off \in KType
    BY <1>3 DEF Eases
  <2>2. off.aborted \cup {t} \in SUBSET Task
    BY <1>2, <2>1 DEF KType
  <2>3. QED
    BY <1>1, <1>3, <2>1, <2>2 DEF KType
<1>6. Eases(k', k) /\ t \notin Waiters(k')
  BY <1>3, <1>5, SameWaits, EasesTransitive
<1>7. k.cur \notin Waiters(k')
  <2>1. k.cur \in Waiters(k') => k.cur \in Waiters(k)
    BY <1>6, WaitersElements DEF Eases
  <2>2. QED
    BY <1>1, <2>1, CurrentWaits
<1>8. /\ "aborted" \in Place \cup Taking /\ "aborted" \in Suspending
      /\ "aborted" \notin Taking /\ pc[k.cur] \notin Taking
  BY <1>1, Places DEF Suspending, Taking
<1>9. after' = [after EXCEPT ![k.cur] = "run"]
  BY <1>1, <1>2, MutexFacts DEF MutexInv, MutexControl
<1>10. MutexControl'
  BY <1>1, <1>2, <1>5, <1>6, <1>8, <1>9, MutexFacts, MoveKeepsControl DEF Eases
<1>11. QED
  BY <1>1, <1>4, <1>5, <1>6, <1>7, <1>8, <1>10, QuietStep DEF t

LEMMA AbortReadyKeeps ==
  ASSUME MutexInv, AbortReady, UNCHANGED mutexVars
  PROVE  MutexInv'
<1> DEFINE t == arg[k.cur]
           r == AddToReadyList(k, t)
           y == Preempts(k, {t})
<1>1. /\ pc[k.cur] = "aborted" /\ pc' = [pc EXCEPT ![k.cur] = "unlock"]
      /\ after' = after /\ arg' = [arg EXCEPT ![k.cur] = k.cur]
      /\ k' = [r EXCEPT !.yieldPending = r.yieldPending \/ y]
  BY DEF AbortReady, At, Goto
<1>2. t \in Task /\ k.cur # Idle /\ k.depth = 1 /\ y \in BOOLEAN /\ k.cur \in Task
  BY <1>1, MutexFacts DEF Suspending, Preempts
<1>3. t \notin Waiters(k)
  BY <1>1 DEF MutexInv, MutexWaits
<1>4. Eases(r, k) /\ r.depth = 1 /\ r.prio = k.prio /\ r.base = k.base
  BY <1>2, <1>3, MutexFacts, AddToReadyListEases, AddToReadyListFields
<1> HIDE DEF t, r, y
<1>5. r \in KType /\ (r.yieldPending \/ y) \in BOOLEAN
  BY <1>2, <1>4 DEF Eases, KType
<1>6. /\ k' \in KType /\ k'.depth = 1 /\ k'.cur = r.cur /\ k'.waiting = r.waiting
      /\ k'.ready = r.ready /\ k'.before = r.before
      /\ k'.prio = k.prio /\ k'.base = k.base
  BY <1>1, <1>4, <1>5 DEF KType
<1>7. Eases(k', k)
  BY <1>4, <1>6, SameWaits, EasesTransitive
<1>8. k.cur \notin Waiters(k')
  <2>1. k.cur \in Waiters(k') => k.cur \in Waiters(k)
    BY <1>7, WaitersElements DEF Eases
  <2>2. QED
    BY <1>1, <2>1, CurrentWaits
<1>9. /\ "unlock" \in Place \cup Taking /\ "unlock" \in Suspending
      /\ "unlock" \notin Taking /\ pc[k.cur] \notin Taking
  BY <1>1, Places DEF Suspending, Taking
<1>10. arg' \in [Task -> Task] /\ after' = [after EXCEPT ![k.cur] = "run"]
  BY <1>1, <1>2, MutexFacts DEF MutexInv, MutexControl
<1>11. MutexControl'
  BY <1>1, <1>2, <1>6, <1>7, <1>9, <1>10, MutexFacts, MoveKeepsControl DEF Eases
<1>12. QED
  BY <1>1, <1>6, <1>7, <1>8, <1>9, <1>11, QuietStep

LEMMA DelayKeeps ==
  ASSUME MutexInv, NEW n \in Tick, Delay(n), UNCHANGED mutexVars
  PROVE  MutexInv'
<1> DEFINE s == SuspendAll(k)
<1>1. /\ pc[k.cur] = "run" /\ k.cur # Idle /\ k' = AddCurrentToDelayedList(s, n, FALSE)
      /\ pc' = [pc EXCEPT ![k.cur] = "block"] /\ after' = after /\ arg' = arg
  BY DEF Delay, Running, At, Goto
<1>2. /\ s \in KType /\ s.depth = 1 /\ s.cur = k.cur /\ s.waiting = k.waiting
      /\ s.prio = k.prio /\ s.base = k.base /\ Eases(s, k)
      /\ k.cur \notin Waiters(k) /\ after' = [after EXCEPT ![k.cur] = "run"]
      /\ Waiters(s) = Waiters(k)
  BY <1>1, RunningFacts, SuspendAllFacts
<1> HIDE DEF s
<1>3. /\ k' \in KType /\ k'.cur = k.cur /\ k'.depth = 1
      /\ k'.waiting = s.waiting /\ k'.before = s.before
      /\ k'.prio = k.prio /\ k'.base = k.base
      /\ k'.ready = [p \in Prio |-> s.ready[p] \ {s.cur}]
  BY <1>1, <1>2, AddCurrentWaits
<1>4. \A t : t \in ReadyTasks(k') => t \in ReadyTasks(s)
  BY <1>3, ReadyTasksElements
<1>5. Eases(k', s)
  BY <1>2, <1>3, <1>4 DEF Eases, EventListsOrdered
<1>6. Eases(k', k) /\ Waiters(k') = Waiters(k)
  BY <1>2, <1>3, <1>5, EasesTransitive DEF Waiters
<1>7. /\ "block" \in Place \cup Taking /\ "block" \in Suspending
      /\ "block" \notin Taking /\ pc[k.cur] \notin Taking
  BY <1>1, Places DEF Suspending, Taking
<1>8. MutexControl'
  BY <1>1, <1>2, <1>3, <1>7, MutexFacts, MoveKeepsControl
<1>9. QED
  BY <1>1, <1>2, <1>3, <1>6, <1>7, <1>8, QuietStep


-----------------------------------------------------------------------------
(* Priorities change.                                                      *)

(* All that changes are priorities and the places of ready tasks. *)
Reorders(r, s) ==
  /\ r \in KType /\ r.cur = s.cur /\ r.depth = s.depth /\ r.tick = s.tick
  /\ r.waiting = s.waiting /\ r.before = s.before
  /\ \A t \in ReadyTasks(r) : t \in ReadyTasks(s)

LEMMA ReordersEases ==
  ASSUME NEW s, NEW r, Reorders(r, s)
  PROVE  /\ Eases(r, s) /\ Waiters(r) = Waiters(s)
         /\ WaitersBlocked(s) => WaitersBlocked(r)
<1>1. EventListsOrdered(s) => EventListsOrdered(r)
  BY DEF Reorders, EventListsOrdered
<1>2. Eases(r, s) /\ Waiters(r) = Waiters(s)
  BY <1>1 DEF Reorders, Eases, Waiters
<1>3. QED
  BY <1>2, EasesKeepsBlocked

LEMMA ReordersTransitive ==
  ASSUME NEW s, NEW r, NEW q, Reorders(r, s), Reorders(q, r)
  PROVE  Reorders(q, s)
BY DEF Reorders

(* A ready task leaves its list and joins that of its new priority. *)
LEMMA RejoinReorders ==
  ASSUME NEW s \in KType, NEW t \in Task, NEW old \in Prio, t \in s.ready[old],
         NEW m \in KType, m.cur = s.cur, m.depth = s.depth, m.tick = s.tick,
         m.waiting = s.waiting, m.before = s.before,
         m.ready = [s.ready EXCEPT ![old] = s.ready[old] \ {t}]
  PROVE  LET r == AddToReadyList(m, t)
         IN  Reorders(r, s) /\ r.prio = m.prio /\ r.base = m.base
<1> DEFINE r == AddToReadyList(m, t)
<1>1. /\ r \in KType /\ r.ready = [m.ready EXCEPT ![m.prio[t]] = m.ready[m.prio[t]] \cup {t}]
      /\ r.cur = m.cur /\ r.prio = m.prio /\ r.base = m.base
      /\ r.waiting = m.waiting /\ r.before = m.before /\ r.depth = m.depth
  BY AddToReadyListFields
<1>2. r.tick = m.tick
  BY AddToReadyListControl DEF SameControl
<1> HIDE DEF r
<1>3. \A u : u \in ReadyTasks(r) => u \in ReadyTasks(s)
  <2>1. ASSUME NEW u, NEW p \in Prio, u \in r.ready[p]
        PROVE  \E q \in Prio : u \in s.ready[q]
    <3>1. u \in m.ready[p] \/ u = t
      BY <1>1, <2>1 DEF KType
    <3>2. u \in m.ready[p] => u \in s.ready[p]
      BY DEF KType
    <3>3. QED
      BY <3>1, <3>2
  <2>2. QED
    BY <2>1, ReadyTasksElements
<1>4. QED
  BY <1>1, <1>2, <1>3 DEF Reorders, r

LEMMA MoveReadyReorders ==
  ASSUME NEW s \in KType, NEW t \in Task, NEW p \in Prio, NEW c
  PROVE  LET r == MoveReady(s, t, p, c)
         IN  /\ Reorders(r, s) /\ r.base = s.base
             /\ r.prio = [s.prio EXCEPT ![t] = p]
<1> DEFINE old == s.prio[t]
           np == [s.prio EXCEPT ![t] = p]
           nr == [s.ready EXCEPT ![old] = s.ready[old] \ {t}]
           nt == IF s.ready[old] = {t} THEN s.top \ {c} ELSE s.top
           off == [s EXCEPT !.prio = np, !.ready = nr, !.top = nt]
           stay == [s EXCEPT !.prio = np]
           r == MoveReady(s, t, p, c)
<1>1. r = IF t \in s.ready[old] THEN AddToReadyList(off, t) ELSE stay
  BY DEF MoveReady
<1>2. /\ old \in Prio /\ np \in [Task -> Prio] /\ nr \in [Prio -> SUBSET Task]
      /\ nt \in SUBSET Prio
  <2>1. old \in Prio /\ np \in [Task -> Prio] /\ nt \in SUBSET Prio
    BY DEF KType
  <2>2. nr \in [Prio -> SUBSET Task]
    BY <2>1 DEF KType
  <2>3. QED
    BY <2>1, <2>2
<1> HIDE DEF np, nr, nt
<1>3. /\ off \in KType /\ off.cur = s.cur /\ off.depth = s.depth /\ off.tick = s.tick
      /\ off.waiting = s.waiting /\ off.before = s.before /\ off.ready = nr
      /\ off.prio = np /\ off.base = s.base
  BY <1>2 DEF KType
<1>4. /\ stay \in KType /\ stay.cur = s.cur /\ stay.depth = s.depth /\ stay.tick = s.tick
      /\ stay.waiting = s.waiting /\ stay.before = s.before /\ stay.ready = s.ready
      /\ stay.prio = np /\ stay.base = s.base
  BY <1>2 DEF KType
<1> HIDE DEF off, stay, r
<1>5. Reorders(r, s) /\ r.base = s.base /\ r.prio = np
  <2>1. CASE t \in s.ready[old]
    <3>1. r = AddToReadyList(off, t)
      BY <1>1, <2>1
    <3>2. off.ready = [s.ready EXCEPT ![old] = s.ready[old] \ {t}]
      BY <1>3 DEF nr
    <3> HIDE DEF old
    <3>3. QED
      BY <1>2, <1>3, <2>1, <3>1, <3>2, RejoinReorders
  <2>2. CASE t \notin s.ready[old]
    BY <1>1, <1>4, <2>2, ReadyTasksElements DEF Reorders
  <2>3. QED
    BY <2>1, <2>2
<1>6. QED
  BY <1>5 DEF r, np

(* The same after the value of the event item has been set *)
LEMMA InheritReorders ==
  ASSUME NEW s \in KType, NEW t \in Task, NEW p \in Prio, NEW c
  PROVE  LET r == MoveReady([s EXCEPT !.key[t] = MaxPrio - p], t, p, c)
         IN  /\ Reorders(r, s) /\ r.base = s.base
             /\ r.prio = [s.prio EXCEPT ![t] = p]
<1> DEFINE nk == [s.key EXCEPT ![t] = MaxPrio - p]
           m == [s EXCEPT !.key = nk]
           r == MoveReady(m, t, p, c)
<1>1. nk \in [Task -> 1 .. MaxPrio]
  <2>1. MaxPrio - p \in 1 .. MaxPrio
    BY Constants DEF Prio
  <2>2. QED
    BY <2>1 DEF KType
<1> HIDE DEF nk
<1>2. /\ m \in KType /\ m.cur = s.cur /\ m.depth = s.depth /\ m.tick = s.tick
      /\ m.waiting = s.waiting /\ m.before = s.before /\ m.ready = s.ready
      /\ m.prio = s.prio /\ m.base = s.base
  BY <1>1 DEF KType
<1>3. Reorders(m, s)
  BY <1>2, ReadyTasksElements DEF Reorders
<1>4. m = [s EXCEPT !.key[t] = MaxPrio - p]
  BY DEF nk
<1> HIDE DEF m
<1>5. Reorders(r, m) /\ r.base = m.base /\ r.prio = [m.prio EXCEPT ![t] = p]
  BY <1>2, MoveReadyReorders
<1>6. Reorders(r, s) /\ r.base = s.base /\ r.prio = [s.prio EXCEPT ![t] = p]
  <2> HIDE DEF r
  <2>1. QED
    BY <1>2, <1>3, <1>5, ReordersTransitive
<1>7. QED
  BY <1>4, <1>6

(* vTaskPrioritySet *)
LEMMA ChangePriorityReorders ==
  ASSUME k \in KType, NEW t \in Task, NEW p \in Prio
  PROVE  LET r == ChangePriority(t, p)
         IN  /\ Reorders(r, k) /\ r.base = [k.base EXCEPT ![t] = p]
             /\ \A u \in Task \ {t} : r.prio[u] = k.prio[u]
             /\ k.base[t] = k.prio[t] => r.prio[t] = p
<1> DEFINE old == k.prio[t]
           q == IF k.base[t] = old \/ p > old THEN p ELSE old
           np == [k.prio EXCEPT ![t] = q]
           nb == [k.base EXCEPT ![t] = p]
           nk == [k.key EXCEPT ![t] = MaxPrio - p]
           nr == [k.ready EXCEPT ![old] = k.ready[old] \ {t}]
           nt == IF k.ready[old] = {t} THEN k.top \ {old} ELSE k.top
           changed == [k EXCEPT !.prio = np, !.base = nb, !.key = nk]
           moved == [changed EXCEPT !.ready = nr, !.top = nt]
           r == ChangePriority(t, p)
<1>1. /\ old \in Prio /\ np \in [Task -> Prio] /\ nb \in [Task -> Prio]
      /\ nk \in [Task -> 1 .. MaxPrio] /\ nr \in [Prio -> SUBSET Task]
      /\ nt \in SUBSET Prio
  <2>1. old \in Prio /\ MaxPrio - p \in 1 .. MaxPrio
    BY Constants DEF Prio, KType
  <2>2. QED
    BY <2>1 DEF KType
<1>2. /\ np[t] = q /\ \A u \in Task \ {t} : np[u] = k.prio[u]
  BY DEF KType
<1>3. changed = [k EXCEPT !.prio[t] = IF k.base[t] = old \/ p > old THEN p ELSE @,
                          !.base[t] = p, !.key[t] = MaxPrio - p]
  OBVIOUS
<1>4. changed.ready = k.ready /\ changed.top = k.top
  BY DEF KType
<1>5. moved = [changed EXCEPT !.ready[old] = @ \ {t},
                              !.top = IF k.ready[old] = {t} THEN @ \ {old} ELSE @]
  BY <1>4
<1>6. r = IF t \in k.ready[old] THEN AddToReadyList(moved, t) ELSE changed
  BY <1>3, <1>5 DEF ChangePriority
<1>7. k.base[t] = k.prio[t] => q = p
  OBVIOUS
<1> HIDE DEF np, nb, nk, nr, nt, q
<1>8. /\ changed \in KType /\ changed.cur = k.cur /\ changed.tick = k.tick
      /\ changed.depth = k.depth /\ changed.prio = np /\ changed.base = nb
      /\ changed.ready = k.ready /\ changed.waiting = k.waiting
      /\ changed.before = k.before
  BY <1>1 DEF KType
<1> HIDE DEF changed
<1>9. /\ moved \in KType /\ moved.cur = k.cur /\ moved.tick = k.tick
      /\ moved.depth = k.depth /\ moved.prio = np /\ moved.base = nb
      /\ moved.ready = nr /\ moved.waiting = k.waiting /\ moved.before = k.before
  BY <1>1, <1>8 DEF KType
<1> HIDE DEF moved, r
<1>10. Reorders(r, k) /\ r.base = nb /\ r.prio = np
  <2>1. CASE t \in k.ready[old]
    <3>1. r = AddToReadyList(moved, t)
      BY <1>6, <2>1
    <3>2. moved.ready = [k.ready EXCEPT ![old] = k.ready[old] \ {t}]
      BY <1>9 DEF nr
    <3> HIDE DEF old
    <3>3. QED
      BY <1>1, <1>9, <2>1, <3>1, <3>2, RejoinReorders
  <2>2. CASE t \notin k.ready[old]
    BY <1>6, <1>8, <2>2, ReadyTasksElements DEF Reorders
  <2>3. QED
    BY <2>1, <2>2
<1>11. QED
  BY <1>2, <1>7, <1>10 DEF r, nb


(* A task that runs its own code changes the kernel, and may have to yield. *)
LEMMA RunYieldsIf ==
  ASSUME MutexInv, pc[k.cur] = "run", UNCHANGED <<pc, after, arg, call>>,
         NEW m, Eases(m, k), m.depth = 0, NEW w \in BOOLEAN, k' \in YieldIf(w, m)
  PROVE  /\ MutexControl' /\ MutexWaits'
         /\ \A o \in Object : k'.waiting[o] \subseteq m.waiting[o]
         /\ \A o \in Object : m.waiting[o] \subseteq k.waiting[o]
         /\ k'.prio = m.prio /\ k'.base = m.base
<1>1. /\ m \in KType /\ m.cur = k.cur
      /\ \A o \in Object : m.waiting[o] \subseteq k.waiting[o]
  BY DEF Eases
<1>2. k.depth = 0 /\ k.cur \notin Waiters(k) /\ after' = [after EXCEPT ![k.cur] = "run"]
  BY RunningFacts
<1>3. k.cur \notin Waiters(m) /\ pc' = [pc EXCEPT ![k.cur] = "run"]
  BY <1>1, <1>2, MutexFacts, WaitersElements
<1>4. "run" \notin Sections
  BY DEF Sections, Suspending
<1>5. CASE k' \in SwitchContext(m)
  <2>1. /\ k' \in KType /\ k'.depth = 0 /\ k'.waiting = m.waiting
        /\ k' = [m EXCEPT !.yieldPending = k'.yieldPending, !.cur = k'.cur]
    BY <1>1, <1>5, SwitchContextWaits, SwitchContextControl
  <2>2. k'.prio = m.prio /\ k'.base = m.base
    BY <1>1, <2>1 DEF KType
  <2>3. MutexControl'
    BY <1>2, <1>4, <2>1, StayKeepsControl
  <2>4. MutexWaits'
    BY <1>3, <1>4, <1>5, SwitchWaits
  <2>5. QED
    BY <1>1, <2>1, <2>2, <2>3, <2>4
<1>6. CASE k' = m
  <2>1. MutexControl'
    BY <1>1, <1>2, <1>4, <1>6, StayKeepsControl
  <2>2. MutexWaits'
    BY <1>2, <1>3, <1>6, MoveKeepsWaits
  <2>3. QED
    BY <1>1, <1>6, <2>1, <2>2
<1>7. QED
  BY <1>5, <1>6 DEF YieldIf

(* No mutex changes hands, and no priority changes but that of t. *)
LEMMA OtherCounts ==
  ASSUME MutexInv, holder' = holder, nesting' = nesting, held' = held, NEW t \in Task,
         \A u \in Task \ {t} : k'.prio[u] = k.prio[u] /\ k'.base[u] = k.base[u],
         held[t] = 0 => k'.prio[t] = k'.base[t]
  PROVE  MutexCounts'
<1>1. OwnPriorityAtLast'
  BY DEF MutexInv, MutexCounts, OwnPriorityAtLast
<1>2. QED
  BY <1>1 DEF MutexInv, MutexCounts, HeldBy, HoldersCounted

LEMMA PrioritySetKeeps ==
  ASSUME MutexInv, NEW t \in Task, NEW p \in NewPrios, PrioritySet(t, p),
         UNCHANGED mutexVars
  PROVE  MutexInv'
<1> DEFINE m == ChangePriority(t, p)
           w == IF p > k.base[t] THEN t # k.cur /\ p > k.prio[k.cur] ELSE t = k.cur
<1>1. /\ pc[k.cur] = "run" /\ k.depth = 0 /\ k' \in YieldIf(w, m) /\ w \in BOOLEAN
      /\ UNCHANGED <<pc, after, arg>>
  BY DEF PrioritySet, Running, At
<1>2. /\ Reorders(m, k) /\ m.base = [k.base EXCEPT ![t] = p]
      /\ \A u \in Task \ {t} : m.prio[u] = k.prio[u]
      /\ k.base[t] = k.prio[t] => m.prio[t] = p
  BY SchedulerAssumption, MutexFacts, ChangePriorityReorders
<1> HIDE DEF m, w
<1>3. Eases(m, k) /\ m.depth = 0
  BY <1>1, <1>2, ReordersEases DEF Reorders
<1>4. /\ MutexControl' /\ MutexWaits' /\ k'.prio = m.prio /\ k'.base = m.base
      /\ \A o \in Object : k'.waiting[o] \subseteq m.waiting[o]
      /\ \A o \in Object : m.waiting[o] \subseteq k.waiting[o]
  <2>1. UNCHANGED call
    BY DEF mutexVars
  <2>2. QED
    BY <1>1, <1>3, <2>1, RunYieldsIf
<1>5. TakerComes'
  BY <1>1, <1>4, TakerStillComes DEF mutexVars
<1>6. MutexTypes'
  BY <1>1 DEF MutexInv, MutexTypes, InCall, mutexVars
<1>7. MutexCounts'
  <2>1. k.base \in [Task -> Prio]
    BY MutexFacts DEF KType
  <2>2. \A u \in Task \ {t} : k'.prio[u] = k.prio[u] /\ k'.base[u] = k.base[u]
    BY <1>2, <1>4, <2>1
  <2>3. held[t] = 0 => k'.prio[t] = k'.base[t]
    BY <1>2, <1>4, <2>1 DEF MutexInv, MutexCounts, OwnPriorityAtLast
  <2>4. QED
    BY <2>2, <2>3, OtherCounts DEF mutexVars
<1>8. QED
  BY <1>4, <1>5, <1>6, <1>7 DEF MutexInv

LEMMA HolderHolds ==
  ASSUME MutexInv, NEW m \in Object, holder[m] # Nobody
  PROVE  holder[m] \in Task /\ held[holder[m]] # 0
<1> DEFINE h == holder[m]
<1>1. h \in Task
  BY DEF MutexInv, MutexTypes
<1>2. m \in HeldBy(h) /\ IsFiniteSet(HeldBy(h)) /\ held[h] = Cardinality(HeldBy(h))
  BY <1>1 DEF MutexInv, MutexCounts, HoldersCounted, HeldBy
<1>3. QED
  BY <1>1, <1>2, FS_EmptySet

(* Inheritance changes the priority of the holder only ... *)
LEMMA PriorityInheritKeeps ==
  ASSUME NEW s \in KType, NEW h \in Task
  PROVE  LET r == PriorityInherit(s, h)
         IN  /\ Reorders(r, s) /\ r.base = s.base
             /\ \A u \in Task \ {h} : r.prio[u] = s.prio[u]
<1>1. CASE s.prio[h] < s.prio[s.cur]
  <2> DEFINE p == s.prio[s.cur]
             c == s.prio[h]
             r == MoveReady([s EXCEPT !.key[h] = MaxPrio - p], h, p, c)
  <2>1. p \in Prio /\ s.prio \in [Task -> Prio]
    BY DEF KType
  <2>2. PriorityInherit(s, h) = r
    BY <1>1 DEF PriorityInherit
  <2> HIDE DEF p, c
  <2>3. Reorders(r, s) /\ r.base = s.base /\ r.prio = [s.prio EXCEPT ![h] = p]
    BY <2>1, InheritReorders
  <2> HIDE DEF r
  <2>4. QED
    BY <2>1, <2>2, <2>3
<1>2. CASE ~(s.prio[h] < s.prio[s.cur])
  BY <1>2, ReadyTasksElements DEF PriorityInherit, Reorders
<1>3. QED
  BY <1>1, <1>2

LEMMA PriorityToUseType ==
  ASSUME NEW s \in KType, EventListsOrdered(s), NEW h \in Task, NEW m \in Object
  PROVE  PriorityToUse(s, h, m) \in Prio
<1>1. HighestWaiting(s, m) \in Prio
  <2>1. CASE s.waiting[m] = {}
    BY <2>1, Constants DEF HighestWaiting, Prio
  <2>2. CASE s.waiting[m] # {}
    <3> DEFINE head == CHOOSE t \in s.waiting[m] : t \in FirstWaiters(s, m, 1)
    <3>1. \E t \in s.waiting[m] : t \in FirstWaiters(s, m, 1)
      BY <2>2, OneFirstWaiter
    <3>2. head \in s.waiting[m]
      BY <3>1
    <3>3. HighestWaiting(s, m) = MaxPrio - s.key[head]
      BY <2>2 DEF HighestWaiting
    <3> HIDE DEF head
    <3>4. head \in Task
      BY <3>2 DEF KType
    <3>5. s.key[head] \in 1 .. MaxPrio
      BY <3>4 DEF KType
    <3>6. QED
      BY <3>3, <3>5, Constants DEF Prio
  <2>3. QED
    BY <2>1, <2>2
<1>2. s.base[h] \in Prio
  BY DEF KType
<1>3. QED
  BY <1>1, <1>2 DEF PriorityToUse

(* ... and so does taking it back. *)
LEMMA DisinheritAfterTimeoutKeeps ==
  ASSUME NEW s \in KType, EventListsOrdered(s), NEW h \in Task, NEW m \in Object
  PROVE  LET r == DisinheritAfterTimeout(s, h, m)
         IN  /\ Reorders(r, s) /\ r.base = s.base
             /\ \A u \in Task \ {h} : r.prio[u] = s.prio[u]
<1> DEFINE p == PriorityToUse(s, h, m)
           q == MoveReady([s EXCEPT !.key[h] = MaxPrio - p], h, p, p)
<1>1. p \in Prio
  BY PriorityToUseType
<1>2. DisinheritAfterTimeout(s, h, m) = IF s.prio[h] # p /\ held[h] = 1 THEN q ELSE s
  BY DEF DisinheritAfterTimeout
<1> HIDE DEF p
<1>3. Reorders(q, s) /\ q.base = s.base /\ q.prio = [s.prio EXCEPT ![h] = p]
  BY <1>1, InheritReorders
<1>4. Reorders(s, s) /\ s.prio \in [Task -> Prio]
  BY ReadyTasksElements DEF Reorders, KType
<1> HIDE DEF q
<1>5. QED
  BY <1>2, <1>3, <1>4

(* The last mutex goes with what is left of its inheritance. *)
LEMMA PriorityDisinheritKeeps ==
  ASSUME NEW s \in KType, NEW t \in Task
  PROVE  LET r == PriorityDisinherit(s, t)
         IN  /\ Reorders(r, s) /\ r.base = s.base
             /\ \A u \in Task \ {t} : r.prio[u] = s.prio[u]
             /\ held[t] = 1 => r.prio[t] = s.base[t]
<1> DEFINE p == s.base[t]
           c == s.prio[t]
           q == MoveReady([s EXCEPT !.key[t] = MaxPrio - p], t, p, c)
<1>1. p \in Prio /\ s.prio \in [Task -> Prio]
  BY DEF KType
<1>2. PriorityDisinherit(s, t) = IF c # p /\ held[t] = 1 THEN q ELSE s
  BY DEF PriorityDisinherit, Disinherits
<1>3. Reorders(s, s)
  BY ReadyTasksElements DEF Reorders
<1> HIDE DEF p
<1>4. Reorders(q, s) /\ q.base = s.base /\ q.prio = [s.prio EXCEPT ![t] = p]
  <2> HIDE DEF c
  <2>1. QED
    BY <1>1, InheritReorders
<1> HIDE DEF q
<1>5. QED
  BY <1>1, <1>2, <1>3, <1>4 DEF p


-----------------------------------------------------------------------------
(* The calls themselves.                                                   *)

LEMMA TakingFacts ==
  ASSUME MutexInv, pc[k.cur] \in Taking
  PROVE  /\ call[k.cur] \in Object /\ k.cur # Idle /\ k.depth = 0 /\ k.cur \in Task
         /\ k.cur \notin Waiters(k) /\ pc[k.cur] \notin Suspending
<1>1. k.cur \in Task /\ pc[k.cur] \notin Suspending /\ k.cur # Idle /\ k.depth = 0
  BY MutexFacts DEF Taking, Suspending, MutexInv, MutexControl
<1>2. call[k.cur] # Nobody /\ call[k.cur] \in Object \cup {Nobody}
  BY <1>1 DEF MutexInv, MutexTypes, InCall
<1>3. k.cur \notin Waiters(k)
  BY CurrentWaits DEF Taking
<1>4. QED
  BY <1>1, <1>2, <1>3

(* The caller returns. *)
LEMMA LeaveKeeps ==
  ASSUME MutexAssumption, MutexInv, pc[k.cur] \in Taking, Leave, arg' = arg,
         Reorders(k', k),
         holder' \in [Object -> Task \cup {Nobody}],
         nesting' \in [Object -> 0 .. MaxNesting], held' \in [Task -> Nat],
         \A m \in Object : holder'[m] = Nobody =>
           holder[m] = Nobody /\ (m # call[k.cur] \/ pc[k.cur] = "disinherit"),
         MutexCounts'
  PROVE  MutexInv'
<1>1. /\ call' = [call EXCEPT ![k.cur] = Nobody] /\ left' = [left EXCEPT ![k.cur] = 0]
      /\ entry' = [entry EXCEPT ![k.cur] = NotSet]
      /\ pc' = [pc EXCEPT ![k.cur] = "run"] /\ after' = [after EXCEPT ![k.cur] = "run"]
  BY DEF Leave, me
<1>2. /\ "run" \in Place \cup Taking /\ "run" \notin Sections /\ "run" \notin Suspending
      /\ "run" \notin Taking
  BY Places DEF Sections, Suspending, Taking
<1>3. Eases(k', k) /\ k'.cur = k.cur /\ k' \in KType /\ k'.depth = k.depth
      /\ Waiters(k') = Waiters(k) /\ k'.waiting = k.waiting
  BY ReordersEases DEF Reorders
<1>4. MutexControl'
  BY <1>1, <1>2, <1>3, TakingFacts, MutexFacts, MoveKeepsControl
<1>5. /\ call'[k.cur] = Nobody /\ pc'[k.cur] = "run" /\ after'[k.cur] = "run"
      /\ \A t \in Task \ {k.cur} :
           call'[t] = call[t] /\ pc'[t] = pc[t] /\ after'[t] = after[t]
  BY <1>1, MutexFacts DEF MutexInv, MutexTypes
<1>6. MutexWaits'
  BY <1>1, <1>3, <1>5, TakingFacts, MoveKeepsWaits
<1>7. MutexTypes'
  <2>1. /\ call' \in [Task -> Object \cup {Nobody}] /\ left' \in [Task -> Tick]
        /\ entry' \in [Task -> TimeOutType]
    <3>1. 0 \in Tick /\ NotSet \in TimeOutType
      BY Constants DEF NotSet, TimeOutType
    <3>2. QED
      BY <1>1, <3>1 DEF MutexInv, MutexTypes
  <2>2. \A t \in Task : InCall(t)' <=> call'[t] # Nobody
    BY <1>2, <1>5 DEF InCall, MutexInv, MutexTypes
  <2>3. QED
    BY <2>1, <2>2 DEF MutexTypes
<1>8. TakerComes'
  <2>1. ASSUME NEW m \in Object, holder'[m] = Nobody, NEW t \in Task,
               call[t] = m, pc[t] # "disinherit"
        PROVE  call'[t] = m /\ pc'[t] # "disinherit"
    BY <1>5, <2>1
  <2>2. QED
    BY <1>3, <2>1, TakerStillComes
<1>9. QED
  BY <1>4, <1>6, <1>7, <1>8 DEF MutexInv

LEMMA ObtainKeeps ==
  ASSUME MutexAssumption, MutexInv, Obtain
  PROVE  MutexInv'
<1> DEFINE m == call[k.cur]
           n == IF m \in Recursive THEN nesting[m] + 1 ELSE nesting[m]
<1>1. /\ pc[k.cur] = "try" /\ holder[m] = Nobody /\ Leave /\ k' = k /\ arg' = arg
      /\ holder' = [holder EXCEPT ![m] = k.cur]
      /\ held' = [held EXCEPT ![k.cur] = held[k.cur] + 1]
      /\ nesting' = [nesting EXCEPT ![m] = n]
  BY DEF Obtain, At, me
<1>2. pc[k.cur] \in Taking /\ m \in Object /\ k.cur \in Task /\ Nobody \notin Task
  BY <1>1, TakingFacts DEF Taking, MutexAssumption
<1>3. /\ holder \in [Object -> Task \cup {Nobody}] /\ held \in [Task -> Nat]
      /\ nesting \in [Object -> 0 .. MaxNesting] /\ MaxNesting \in Nat \ {0}
      /\ Recursive \subseteq Object
      /\ \A r \in Recursive : nesting[r] > 0 <=> holder[r] # Nobody
      /\ \A t \in Task : IsFiniteSet(HeldBy(t)) /\ held[t] = Cardinality(HeldBy(t))
      /\ \A t \in Task : held[t] = 0 => k.prio[t] = k.base[t]
  BY DEF MutexInv, MutexTypes, MutexCounts, HoldersCounted, OwnPriorityAtLast, MutexAssumption
<1>4. n \in 0 .. MaxNesting /\ (m \in Recursive => n > 0)
  BY <1>1, <1>2, <1>3
<1> HIDE DEF m, n
<1>5. /\ holder' \in [Object -> Task \cup {Nobody}] /\ held' \in [Task -> Nat]
      /\ nesting' \in [Object -> 0 .. MaxNesting]
  BY <1>1, <1>2, <1>3, <1>4
<1>6. MutexCounts'
  <2>1. HeldBy(k.cur)' = HeldBy(k.cur) \cup {m} /\ m \notin HeldBy(k.cur)
    BY <1>1, <1>2, <1>3 DEF HeldBy
  <2>2. \A t \in Task \ {k.cur} : HeldBy(t)' = HeldBy(t)
    BY <1>1, <1>2, <1>3 DEF HeldBy
  <2>3. /\ IsFiniteSet(HeldBy(k.cur)')
        /\ Cardinality(HeldBy(k.cur)') = Cardinality(HeldBy(k.cur)) + 1
    BY <1>2, <1>3, <2>1, FS_AddElement
  <2>4. \A t \in Task : IsFiniteSet(HeldBy(t)') /\ held'[t] = Cardinality(HeldBy(t)')
    BY <1>1, <1>2, <1>3, <2>2, <2>3
  <2>5. \A r \in Recursive : nesting'[r] > 0 <=> holder'[r] # Nobody
    BY <1>1, <1>2, <1>3, <1>4
  <2>6. \A t \in Task : held'[t] = 0 => k'.prio[t] = k'.base[t]
    BY <1>1, <1>2, <1>3
  <2>7. QED
    BY <2>4, <2>5, <2>6 DEF MutexCounts, HoldersCounted, OwnPriorityAtLast
<1>7. Reorders(k', k)
  BY <1>1, MutexFacts DEF Reorders
<1>8. \A o \in Object : holder'[o] = Nobody => holder[o] = Nobody /\ o # m
  BY <1>1, <1>2, <1>3
<1>9. QED
  BY <1>1, <1>2, <1>5, <1>6, <1>7, <1>8, LeaveKeeps DEF m

LEMMA GiveUpKeeps ==
  ASSUME MutexAssumption, MutexInv,
         GiveUp \/ (/\ At("expired") /\ holder[call[me]] # Nobody /\ Leave
                    /\ UNCHANGED <<k, arg, ticks, holder, nesting, held>>)
  PROVE  MutexInv'
<1>1. /\ pc[k.cur] \in Taking /\ holder[call[k.cur]] # Nobody /\ Leave
      /\ k' = k /\ arg' = arg /\ holder' = holder /\ nesting' = nesting /\ held' = held
  BY DEF GiveUp, At, me, Taking
<1>2. Reorders(k', k)
  BY <1>1, MutexFacts DEF Reorders
<1>3. MutexCounts'
  BY <1>1, SameCounts
<1>4. /\ holder' \in [Object -> Task \cup {Nobody}] /\ held' \in [Task -> Nat]
      /\ nesting' \in [Object -> 0 .. MaxNesting]
  BY <1>1 DEF MutexInv, MutexTypes
<1>5. \A o \in Object : holder'[o] = Nobody => holder[o] = Nobody /\ o # call[k.cur]
  BY <1>1
<1>6. QED
  BY <1>1, <1>2, <1>3, <1>4, <1>5, LeaveKeeps

LEMMA DisinheritKeeps ==
  ASSUME MutexAssumption, MutexInv, Disinherit
  PROVE  MutexInv'
<1> DEFINE m == call[k.cur]
           h == holder[m]
<1>1. /\ pc[k.cur] = "disinherit" /\ Leave /\ arg' = arg
      /\ holder' = holder /\ nesting' = nesting /\ held' = held
      /\ k' = IF h = Nobody THEN k ELSE DisinheritAfterTimeout(k, h, m)
  BY DEF Disinherit, At, me
<1>2. pc[k.cur] \in Taking /\ m \in Object /\ k \in KType /\ EventListsOrdered(k)
  BY <1>1, TakingFacts, MutexFacts DEF Taking, MutexInv, MutexWaits
<1>3. h # Nobody => h \in Task /\ held[h] # 0
  BY <1>2, HolderHolds
<1> HIDE DEF m, h
<1>4. Reorders(k', k) /\ MutexCounts'
  <2>1. CASE h = Nobody
    BY <1>1, <1>2, <2>1, SameCounts DEF Reorders
  <2>2. CASE h # Nobody
    <3>1. /\ Reorders(k', k) /\ k'.base = k.base
          /\ \A u \in Task \ {h} : k'.prio[u] = k.prio[u]
      BY <1>1, <1>2, <1>3, <2>2, DisinheritAfterTimeoutKeeps
    <3>2. QED
      BY <1>1, <1>3, <2>2, <3>1, OtherCounts
  <2>3. QED
    BY <2>1, <2>2
<1>5. /\ holder' \in [Object -> Task \cup {Nobody}] /\ held' \in [Task -> Nat]
      /\ nesting' \in [Object -> 0 .. MaxNesting]
  BY <1>1 DEF MutexInv, MutexTypes
<1>6. QED
  BY <1>1, <1>2, <1>4, <1>5, LeaveKeeps


(* The caller goes on, and will be on no list. *)
LEMMA CallGoesOn ==
  ASSUME MutexInv, pc[k.cur] \in Taking, UNCHANGED <<arg, holder, nesting, held, call>>,
         left' \in [Task -> Tick], entry' \in [Task -> TimeOutType],
         Eases(k', k), k'.prio = k.prio, k'.base = k.base,
         NEW p \in {"try", "enter", "disinherit", "unlock"}, NEW a \in {"run", "try", "expired"},
         pc' = [pc EXCEPT ![k.cur] = p], after' = [after EXCEPT ![k.cur] = a],
         p = "unlock" => a # "run", k'.depth = IF p = "unlock" THEN 1 ELSE 0,
         p = "disinherit" => holder[call[k.cur]] # Nobody
  PROVE  MutexInv'
<1>1. /\ p \in Place \cup Taking /\ (p \in Suspending <=> p = "unlock")
      /\ p \notin {"run", "abort", "aborted"} /\ (p \in Taking \/ p = "unlock")
  BY Places DEF Suspending, Taking
<1>2. k' \in KType /\ k'.cur = k.cur /\ \A o \in Object : k'.waiting[o] \subseteq k.waiting[o]
  BY DEF Eases
<1>3. MutexControl'
  BY <1>1, <1>2, TakingFacts, MutexFacts, MoveKeepsControl
<1>4. k.cur \notin Waiters(k')
  BY <1>2, TakingFacts, WaitersElements
<1>5. MutexWaits'
  BY <1>1, <1>4, MoveKeepsWaits
<1>6. /\ pc'[k.cur] = p /\ after'[k.cur] = a
      /\ \A t \in Task \ {k.cur} : pc'[t] = pc[t] /\ after'[t] = after[t]
  BY MutexFacts
<1>7. MutexTypes'
  <2>1. \A t \in Task : InCall(t)' <=> InCall(t)
    BY <1>1, <1>6 DEF InCall
  <2>2. QED
    BY <2>1 DEF MutexInv, MutexTypes
<1>8. TakerComes'
  <2>1. ASSUME NEW m \in Object, holder[m] = Nobody, NEW t \in Task,
               call[t] = m, pc[t] # "disinherit"
        PROVE  pc'[t] # "disinherit"
    BY <1>6, <2>1
  <2>2. QED
    BY <1>2, <2>1, TakerStillComes
<1>9. QED
  BY <1>3, <1>5, <1>7, <1>8, SameCounts DEF MutexInv

LEMMA EnterKeeps ==
  ASSUME MutexInv, Enter
  PROVE  MutexInv'
<1> DEFINE now == [set |-> TRUE, overflows |-> k.overflows, at |-> k.tick]
           a == after[k.cur]
<1>1. /\ pc[k.cur] = "try" /\ pc' = [pc EXCEPT ![k.cur] = "enter"] /\ k' = k
      /\ entry' = entry \/ entry' = [entry EXCEPT ![k.cur] = now]
      /\ UNCHANGED <<after, arg, holder, nesting, held, call, left>>
  BY DEF Enter, At, Goto, me
<1>2. /\ pc[k.cur] \in Taking /\ k.depth = 0 /\ a \in {"run", "try", "expired"}
      /\ after' = [after EXCEPT ![k.cur] = a]
  BY <1>1, TakingFacts, MutexFacts DEF Taking
<1>3. entry' \in [Task -> TimeOutType] /\ left' \in [Task -> Tick]
  <2>1. now \in TimeOutType
    BY MutexFacts DEF KType, TimeOutType
  <2> HIDE DEF now
  <2>2. QED
    BY <1>1, <2>1 DEF MutexInv, MutexTypes
<1>4. Eases(k', k)
  BY <1>1, MutexFacts, SameWaits
<1> HIDE DEF a, now
<1>5. QED
  BY <1>1, <1>2, <1>3, <1>4, CallGoesOn

LEMMA RunsOutKeeps ==
  ASSUME MutexInv, RunsOut
  PROVE  MutexInv'
<1> DEFINE s == SuspendAll(k)
           A == s.aborted \ {k.cur}
<1>1. /\ pc[k.cur] = "enter" /\ pc' = [pc EXCEPT ![k.cur] = "unlock"]
      /\ after' = [after EXCEPT ![k.cur] = "expired"]
      /\ UNCHANGED <<arg, holder, nesting, held, call, entry>>
      /\ left' = IF k.cur \in k.aborted THEN left ELSE [left EXCEPT ![k.cur] = 0]
      /\ k' = [s EXCEPT !.aborted = A]
  BY DEF RunsOut, At, Goto, me
<1>2. pc[k.cur] \in Taking /\ k.depth = 0
  BY <1>1, TakingFacts DEF Taking
<1>3. /\ s \in KType /\ s.depth = 1 /\ s.prio = k.prio /\ s.base = k.base /\ Eases(s, k)
  BY <1>2, SuspendAllFacts
<1>4. A \in SUBSET Task
  BY <1>3 DEF KType
<1> HIDE DEF s, A
<1>5. /\ k' \in KType /\ k'.depth = 1 /\ k'.prio = k.prio /\ k'.base = k.base
      /\ k'.cur = s.cur /\ k'.waiting = s.waiting /\ k'.ready = s.ready
      /\ k'.before = s.before
  BY <1>1, <1>3, <1>4 DEF KType
<1>6. Eases(k', k)
  BY <1>3, <1>5, SameWaits, EasesTransitive
<1>7. UNCHANGED <<arg, holder, nesting, held, call>>
  BY <1>1
<1>8. left' \in [Task -> Tick] /\ entry' \in [Task -> TimeOutType]
  BY <1>1, Constants DEF MutexInv, MutexTypes, Tick
<1>9. QED
  BY <1>1, <1>2, <1>5, <1>6, <1>7, <1>8, CallGoesOn

(* What is left of the block time is not negative. *)
LEMMA TicksGoneTypes ==
  ASSUME MutexInv, ~TimedOut, TicksGone
  PROVE  left' \in [Task -> Tick] /\ entry' \in [Task -> TimeOutType]
<1> DEFINE e == (k.tick + TickMod - entry[k.cur].at) % TickMod
<1>1. /\ left \in [Task -> Tick] /\ entry \in [Task -> TimeOutType] /\ k.cur \in Task
      /\ k.tick \in Tick /\ k.overflows \in 0 .. OvfMod - 1
  BY MutexFacts DEF MutexInv, MutexTypes, KType
<1>2. CASE left[k.cur] = MaxDelay
  BY <1>1, <1>2 DEF TicksGone, me
<1>3. CASE left[k.cur] # MaxDelay
  <2>1. /\ left' = [left EXCEPT ![k.cur] = left[k.cur] - e] /\ ~(e >= left[k.cur])
        /\ entry' = [entry EXCEPT ![k.cur].overflows = k.overflows, ![k.cur].at = k.tick]
    BY <1>3 DEF TicksGone, TimedOut, Elapsed, me
  <2>2. e \in Nat
    <3>1. entry[k.cur].at \in Tick
      BY <1>1 DEF TimeOutType
    <3>2. k.tick + TickMod - entry[k.cur].at \in Nat /\ TickMod \in Nat \ {0}
      BY <1>1, <3>1, Constants DEF Tick
    <3>3. QED
      BY <3>2
  <2>3. left[k.cur] - e \in Tick
    <3> HIDE DEF e
    <3>1. QED
      BY <1>1, <2>1, <2>2, Constants DEF Tick
  <2> HIDE DEF e
  <2>4. left' \in [Task -> Tick]
    BY <1>1, <2>1, <2>3
  <2>5. entry' \in [Task -> TimeOutType]
    BY <1>1, <2>1 DEF TimeOutType
  <2>6. QED
    BY <2>4, <2>5
<1>4. QED
  BY <1>2, <1>3

LEMMA TryAgainKeeps ==
  ASSUME MutexInv, TryAgain
  PROVE  MutexInv'
<1>1. /\ pc[k.cur] = "enter" /\ pc' = [pc EXCEPT ![k.cur] = "unlock"]
      /\ after' = [after EXCEPT ![k.cur] = "try"] /\ k' = SuspendAll(k)
      /\ UNCHANGED <<arg, holder, nesting, held, call>>
  BY DEF TryAgain, At, Goto, me
<1>2. pc[k.cur] \in Taking /\ k.depth = 0
  BY <1>1, TakingFacts DEF Taking
<1>3. k'.depth = 1 /\ k'.prio = k.prio /\ k'.base = k.base /\ Eases(k', k)
  BY <1>1, <1>2, SuspendAllFacts
<1>4. left' \in [Task -> Tick] /\ entry' \in [Task -> TimeOutType]
  BY TicksGoneTypes DEF TryAgain
<1>5. QED
  BY <1>1, <1>2, <1>3, <1>4, CallGoesOn

LEMMA ExpiredKeeps ==
  ASSUME MutexAssumption, MutexInv, Expired
  PROVE  MutexInv'
<1>1. CASE /\ holder[call[me]] # Nobody /\ Leave
  <2>1. QED
    BY <1>1, GiveUpKeeps DEF Expired
<1>2. CASE ~(holder[call[me]] # Nobody /\ Leave)
  <2> DEFINE p == IF holder[call[k.cur]] = Nobody THEN "try" ELSE "disinherit"
             a == after[k.cur]
  <2>1. /\ pc[k.cur] = "expired" /\ pc' = [pc EXCEPT ![k.cur] = p] /\ k' = k
        /\ UNCHANGED <<after, arg, holder, nesting, held, call, left, entry>>
    BY <1>2 DEF Expired, At, Goto, me
  <2>2. /\ pc[k.cur] \in Taking /\ k.depth = 0 /\ a \in {"run", "try", "expired"}
        /\ after' = [after EXCEPT ![k.cur] = a]
    BY <2>1, TakingFacts, MutexFacts DEF Taking
  <2>3. Eases(k', k)
    BY <2>1, MutexFacts, SameWaits
  <2>4. left' \in [Task -> Tick] /\ entry' \in [Task -> TimeOutType]
    BY <2>1 DEF MutexInv, MutexTypes
  <2>5. /\ p \in {"try", "enter", "disinherit", "unlock"} /\ p # "unlock"
        /\ p = "disinherit" => holder[call[k.cur]] # Nobody
    OBVIOUS
  <2> HIDE DEF p, a
  <2>6. QED
    BY <2>1, <2>2, <2>3, <2>4, <2>5, CallGoesOn
<1>3. QED
  BY <1>1, <1>2


(* The caller joins the list, after the holder has inherited. *)
LEMMA WaitKernel ==
  ASSUME MutexInv, Wait
  PROVE  LET m == call[k.cur]
             h == holder[m]
         IN  /\ k' \in KType /\ k'.cur = k.cur /\ k'.depth = 1 /\ k'.base = k.base
             /\ h \in Task /\ held[h] # 0
             /\ \A u \in Task \ {h} : k'.prio[u] = k.prio[u]
             /\ k'.waiting = [k.waiting EXCEPT ![m] = k.waiting[m] \cup {k.cur}]
             /\ WaitersBlocked(k') /\ EventListsOrdered(k')
<1> DEFINE m == call[k.cur]
           h == holder[m]
           s == SuspendAll(k)
           q == PriorityInherit(s, h)
           n == left'[k.cur]
<1>1. pc[k.cur] = "enter" /\ h # Nobody /\ k' = PlaceOnEventList(q, m, n)
  BY DEF Wait, At, me
<1>2. /\ pc[k.cur] \in Taking /\ m \in Object /\ k.depth = 0 /\ k.cur \in Task
      /\ k.cur \notin Waiters(k)
  BY <1>1, TakingFacts DEF Taking
<1>3. h \in Task /\ held[h] # 0
  BY <1>1, <1>2, HolderHolds
<1>4. left' \in [Task -> Tick]
  BY TicksGoneTypes DEF Wait
<1>5. n \in Tick
  BY <1>2, <1>4
<1>6. /\ s \in KType /\ s.depth = 1 /\ s.cur = k.cur /\ s.waiting = k.waiting
      /\ s.prio = k.prio /\ s.base = k.base
      /\ WaitersBlocked(s) /\ EventListsOrdered(s) /\ Waiters(s) = Waiters(k)
  BY <1>2, SuspendAllFacts
<1> HIDE DEF m, h, s, n
<1>7. Reorders(q, s) /\ q.base = s.base /\ \A u \in Task \ {h} : q.prio[u] = s.prio[u]
  BY <1>3, <1>6, PriorityInheritKeeps
<1> HIDE DEF q
<1>8. /\ q \in KType /\ q.cur = k.cur /\ q.depth = 1 /\ q.waiting = k.waiting
      /\ WaitersBlocked(q) /\ EventListsOrdered(q) /\ Waiters(q) = Waiters(k)
  BY <1>6, <1>7, ReordersEases DEF Reorders, Eases
<1>9. \A o, p \in Object : o # p => q.waiting[o] \cap q.waiting[p] = {}
  BY <1>8 DEF MutexInv, MutexWaits
<1>10. /\ k' \in KType /\ k'.cur = q.cur /\ k'.depth = q.depth
       /\ k'.prio = q.prio /\ k'.base = q.base
       /\ k'.waiting = [q.waiting EXCEPT ![m] = q.waiting[m] \cup {q.cur}]
       /\ WaitersBlocked(k') /\ EventListsOrdered(k')
  BY <1>1, <1>2, <1>5, <1>8, <1>9, PlaceOnEventListWaits
<1>11. /\ k' \in KType /\ k'.cur = k.cur /\ k'.depth = 1 /\ k'.base = k.base
       /\ \A u \in Task \ {h} : k'.prio[u] = k.prio[u]
       /\ k'.waiting = [k.waiting EXCEPT ![m] = k.waiting[m] \cup {k.cur}]
  BY <1>6, <1>7, <1>8, <1>10
<1>12. QED
  BY <1>3, <1>10, <1>11 DEF m, h

LEMMA WaitKeeps ==
  ASSUME MutexInv, Wait
  PROVE  MutexInv'
<1> DEFINE m == call[k.cur]
           h == holder[m]
<1>1. /\ pc[k.cur] = "enter" /\ pc' = [pc EXCEPT ![k.cur] = "block"] /\ h # Nobody
      /\ after' = [after EXCEPT ![k.cur] = "try"]
      /\ UNCHANGED <<arg, holder, nesting, held, call>>
  BY DEF Wait, At, Goto, me
<1>2. /\ pc[k.cur] \in Taking /\ m \in Object /\ k.cur # Idle /\ k.cur \in Task
      /\ k.cur \notin Waiters(k)
  BY <1>1, TakingFacts DEF Taking
<1>3. /\ k' \in KType /\ k'.cur = k.cur /\ k'.depth = 1 /\ k'.base = k.base
      /\ h \in Task /\ held[h] # 0
      /\ \A u \in Task \ {h} : k'.prio[u] = k.prio[u]
      /\ k'.waiting = [k.waiting EXCEPT ![m] = k.waiting[m] \cup {k.cur}]
      /\ WaitersBlocked(k') /\ EventListsOrdered(k')
  BY WaitKernel
<1> HIDE DEF h
<1>4. MutexControl'
  <2>1. "block" \in Place \cup Taking /\ "block" \in Suspending
    BY Places DEF Suspending
  <2>2. QED
    BY <1>1, <1>2, <1>3, <2>1, MutexFacts, MoveKeepsControl
<1>5. /\ pc'[k.cur] = "block" /\ after'[k.cur] = "try"
      /\ \A t \in Task \ {k.cur} : pc'[t] = pc[t] /\ after'[t] = after[t]
  BY <1>1, MutexFacts
<1>6. \A o \in Object : \A t \in k'.waiting[o] :
        t \in Task /\ (t \in k.waiting[o] \/ (t = k.cur /\ o = m))
  BY <1>2, <1>3, MutexFacts
<1>7. \A t \in Task : t \in Waiters(k') => t \in Waiters(k) \/ t = k.cur
  BY <1>6, WaitersElements
<1>8. MutexTypes'
  <2>1. left' \in [Task -> Tick] /\ entry' \in [Task -> TimeOutType]
    BY TicksGoneTypes DEF Wait
  <2>2. \A t \in Task : InCall(t)' <=> InCall(t)
    BY <1>2, <1>5 DEF InCall
  <2>3. QED
    BY <1>1, <2>1, <2>2 DEF MutexInv, MutexTypes
<1>9. MutexWaits'
  <2>1. ASSUME NEW o \in Object, NEW t \in k'.waiting[o]
        PROVE  call'[t] = o /\ InWait(t)'
    <3>1. CASE t = k.cur
      <4>1. o = m
        BY <1>2, <1>6, <2>1, <3>1, WaitersElements
      <4>2. QED
        BY <1>1, <1>5, <3>1, <4>1 DEF InWait
    <3>2. CASE t # k.cur
      <4>1. t \in k.waiting[o] /\ t \in Task
        BY <1>6, <2>1, <3>2
      <4>2. call[t] = o /\ InWait(t)
        BY <4>1 DEF MutexInv, MutexWaits
      <4>3. QED
        BY <1>1, <1>5, <3>2, <4>1, <4>2 DEF InWait
    <3>3. QED
      BY <3>1, <3>2
  <2>2. QED
    BY <1>3, <1>5, <2>1 DEF MutexWaits
<1>10. TakerComes'
  <2>1. ASSUME NEW o \in Object, holder[o] = Nobody, k'.waiting[o] # {}
        PROVE  \E t \in Task : call[t] = o /\ t \notin Waiters(k') /\ pc'[t] # "disinherit"
    <3>1. o # m
      BY <1>1, <2>1 DEF h
    <3>2. k.waiting[o] # {}
      BY <1>2, <1>3, <2>1, <3>1, MutexFacts
    <3>3. PICK t \in Task : call[t] = o /\ t \notin Waiters(k) /\ pc[t] # "disinherit"
      BY <2>1, <3>2 DEF MutexInv, TakerComes
    <3>4. t # k.cur
      BY <3>1, <3>3
    <3>5. QED
      BY <1>5, <1>7, <3>3, <3>4
  <2>2. QED
    BY <1>1, <2>1 DEF TakerComes
<1>11. MutexCounts'
  BY <1>1, <1>3, OtherCounts
<1>12. QED
  BY <1>4, <1>8, <1>9, <1>10, <1>11 DEF MutexInv

LEMMA TakeKeeps ==
  ASSUME MutexAssumption, MutexInv, NEW m \in Object, NEW n \in Tick, Take(m, n)
  PROVE  MutexInv'
<1> DEFINE a == after[k.cur]
<1>1. /\ pc[k.cur] = "run" /\ k.cur # Idle /\ pc' = [pc EXCEPT ![k.cur] = "try"]
      /\ call' = [call EXCEPT ![k.cur] = m] /\ left' = [left EXCEPT ![k.cur] = n]
      /\ UNCHANGED <<k, after, arg, holder, nesting, held, entry>>
  BY DEF Take, Calling, Running, At, Goto, me
<1>2. /\ k.depth = 0 /\ k.cur \notin Waiters(k) /\ a = "run" /\ k.cur \in Task
      /\ after' = [after EXCEPT ![k.cur] = "run"]
  BY <1>1, RunningFacts, MutexFacts
<1>3. /\ "try" \in Place \cup Taking /\ "try" \notin Sections /\ "try" \notin Suspending
      /\ "try" \in Taking /\ "run" \notin Taking
  BY Places DEF Sections, Suspending, Taking
<1>4. MutexControl'
  BY <1>1, <1>2, <1>3, MutexFacts, MoveKeepsControl
<1>5. Eases(k', k)
  BY <1>1, MutexFacts, SameWaits
<1>6. /\ call'[k.cur] = m /\ pc'[k.cur] = "try"
      /\ \A t \in Task \ {k.cur} : call'[t] = call[t] /\ pc'[t] = pc[t]
  BY <1>1, MutexFacts DEF MutexInv, MutexTypes
<1>7. MutexWaits'
  BY <1>1, <1>2, <1>5, <1>6, MoveKeepsWaits
<1>8. call[k.cur] = Nobody
  BY <1>1, <1>2, <1>3 DEF InCall, MutexInv, MutexTypes
<1>9. MutexTypes'
  <2>1. call' \in [Task -> Object \cup {Nobody}] /\ left' \in [Task -> Tick]
    BY <1>1 DEF MutexInv, MutexTypes
  <2>2. \A t \in Task : InCall(t)' <=> call'[t] # Nobody
    BY <1>1, <1>3, <1>6 DEF InCall, MutexInv, MutexTypes, MutexAssumption
  <2>3. QED
    BY <1>1, <2>1, <2>2 DEF MutexInv, MutexTypes
<1>10. TakerComes'
  <2>1. Nobody \notin Object
    BY DEF MutexAssumption
  <2>2. ASSUME NEW o \in Object, NEW t \in Task, call[t] = o, pc[t] # "disinherit"
        PROVE  call'[t] = o /\ pc'[t] # "disinherit"
    BY <1>6, <1>8, <2>1, <2>2
  <2>3. QED
    BY <1>1, <2>2, TakerStillComes
<1>11. QED
  BY <1>1, <1>4, <1>7, <1>9, <1>10, SameCounts DEF MutexInv

(* The takes and gives of a recursive mutex by its holder *)
LEMMA NestingKeeps ==
  ASSUME MutexAssumption, MutexInv, NEW m \in Object, TakeAgain(m) \/ GiveNested(m)
  PROVE  MutexInv'
<1>1. /\ holder[m] = k.cur /\ m \in Recursive
      /\ \/ nesting[m] < MaxNesting /\ nesting' = [nesting EXCEPT ![m] = nesting[m] + 1]
         \/ nesting[m] > 1 /\ nesting' = [nesting EXCEPT ![m] = nesting[m] - 1]
      /\ UNCHANGED <<k, pc, after, arg, holder, held, call, left, entry, inherited>>
  BY DEF TakeAgain, GiveNested, Calling, me, kernelVars
<1>2. /\ nesting \in [Object -> 0 .. MaxNesting] /\ MaxNesting \in Nat
      /\ Recursive \subseteq Object /\ k.cur # Nobody
  BY MutexFacts DEF MutexInv, MutexTypes, MutexAssumption
<1>3. nesting' \in [Object -> 0 .. MaxNesting] /\ nesting'[m] > 0
  BY <1>1, <1>2
<1>4. \A r \in Recursive : nesting'[r] > 0 <=> holder[r] # Nobody
  BY <1>1, <1>2, <1>3 DEF MutexInv, MutexCounts, HoldersCounted
<1>5. MutexCounts'
  <2>1. \A t \in Task : HeldBy(t)' = HeldBy(t)
    BY <1>1 DEF HeldBy
  <2>2. QED
    BY <1>1, <1>4, <2>1 DEF MutexInv, MutexCounts, HoldersCounted, OwnPriorityAtLast
<1>6. MutexTypes' /\ MutexControl' /\ MutexWaits' /\ TakerComes'
  BY <1>1, <1>3 DEF MutexInv, MutexTypes, InCall, MutexControl, MutexWaits, InWait, TakerComes
<1>7. QED
  BY <1>5, <1>6 DEF MutexInv


(* The head of the list is woken, to try again. *)
LEMMA GiveWakes ==
  ASSUME MutexInv, NEW m \in Object, k.waiting[m] # {}, NEW q, Reorders(q, k), q.depth = 0,
         NEW restored, k' \in HandOver(q, m, restored),
         pc[k.cur] = "run", UNCHANGED <<pc, after, arg, call>>
  PROVE  /\ MutexControl' /\ MutexWaits' /\ k'.prio = q.prio /\ k'.base = q.base
         /\ \A o \in Object : k'.waiting[o] \subseteq k.waiting[o]
         /\ \E u \in Task : call[u] = m /\ u \notin Waiters(k') /\ pc[u] # "disinherit"
<1>1. /\ q \in KType /\ Eases(q, k) /\ EventListsOrdered(q) /\ q.waiting = k.waiting
  BY ReordersEases DEF Reorders, Eases, MutexInv, MutexWaits
<1>2. PICK u \in q.waiting[m] : FirstWaiters(q, m, 1) = {u}
  BY <1>1, OneFirstWaiter
<1> DEFINE r == RemoveFromEventList(q, {u})
           w == Preempts(q, {u})
<1>3. k' \in YieldIf(w, r) /\ w \in BOOLEAN
  BY <1>1, <1>2 DEF HandOver, Preempts
<1>4. u \in Task /\ call[u] = m /\ pc[u] # "disinherit"
  BY <1>1, <1>2, MutexFacts DEF MutexInv, MutexWaits, InWait
<1>5. {u} \in SUBSET Task
  BY <1>4
<1>6. Eases(r, q) /\ SameControl(r, q) /\ r.waiting = [o \in Object |-> q.waiting[o] \ {u}]
  BY <1>1, <1>5, RemoveFromEventListEases
<1> HIDE DEF r, w
<1>7. r.depth = 0 /\ r.prio = q.prio /\ r.base = q.base /\ Eases(r, k)
  BY <1>1, <1>6, EasesTransitive DEF SameControl
<1>8. /\ MutexControl' /\ MutexWaits' /\ k'.prio = r.prio /\ k'.base = r.base
      /\ \A o \in Object : k'.waiting[o] \subseteq r.waiting[o]
      /\ \A o \in Object : r.waiting[o] \subseteq k.waiting[o]
  BY <1>3, <1>7, RunYieldsIf
<1>9. u \notin Waiters(k')
  BY <1>6, <1>8, WaitersElements
<1>10. QED
  BY <1>4, <1>7, <1>8, <1>9

(* Nobody waits. *)
LEMMA GiveWakesNobody ==
  ASSUME MutexInv, NEW m \in Object, k.waiting[m] = {}, NEW q, Reorders(q, k), q.depth = 0,
         NEW restored \in BOOLEAN, k' \in HandOver(q, m, restored),
         pc[k.cur] = "run", UNCHANGED <<pc, after, arg, call>>
  PROVE  /\ MutexControl' /\ MutexWaits' /\ k'.prio = q.prio /\ k'.base = q.base
         /\ \A o \in Object : k'.waiting[o] \subseteq k.waiting[o]
<1>1. Eases(q, k) /\ q.waiting = k.waiting
  BY ReordersEases DEF Reorders
<1>2. k' \in YieldIf(restored, q)
  BY <1>1 DEF HandOver
<1>3. QED
  BY <1>1, <1>2, RunYieldsIf

(* What the holder still holds is counted. *)
LEMMA GiveCounts ==
  ASSUME MutexAssumption, MutexInv, NEW m \in Object, holder[m] = k.cur,
         holder' = [holder EXCEPT ![m] = Nobody],
         held' = [held EXCEPT ![k.cur] = held[k.cur] - 1],
         nesting' = [nesting EXCEPT ![m] = 0],
         k'.base = k.base, \A u \in Task \ {k.cur} : k'.prio[u] = k.prio[u],
         held[k.cur] = 1 => k'.prio[k.cur] = k.base[k.cur]
  PROVE  MutexCounts' /\ held' \in [Task -> Nat]
<1>0. PICK t \in Task : t = k.cur
  BY MutexFacts
<1>1. /\ t \in Task /\ t # Nobody /\ Nobody \notin Task
      /\ holder \in [Object -> Task \cup {Nobody}] /\ held \in [Task -> Nat]
      /\ nesting \in [Object -> 0 .. MaxNesting] /\ Recursive \subseteq Object
      /\ \A r \in Recursive : nesting[r] > 0 <=> holder[r] # Nobody
      /\ \A u \in Task : IsFiniteSet(HeldBy(u)) /\ held[u] = Cardinality(HeldBy(u))
      /\ \A u \in Task : held[u] = 0 => k.prio[u] = k.base[u]
  BY <1>0, MutexFacts
     DEF MutexInv, MutexTypes, MutexCounts, HoldersCounted, OwnPriorityAtLast, MutexAssumption
<1>2. held[t] # 0
  BY <1>0, <1>1, HolderHolds
<1>3. HeldBy(t)' = HeldBy(t) \ {m} /\ m \in HeldBy(t)
  BY <1>0, <1>1 DEF HeldBy
<1>4. \A u \in Task \ {t} : HeldBy(u)' = HeldBy(u)
  BY <1>0, <1>1 DEF HeldBy
<1>5. IsFiniteSet(HeldBy(t)') /\ Cardinality(HeldBy(t)') = Cardinality(HeldBy(t)) - 1
  BY <1>0, <1>1, <1>3, FS_RemoveElement
<1>6. held'[t] = held[t] - 1 /\ \A u \in Task \ {t} : held'[u] = held[u]
  BY <1>0, <1>1
<1>7. held[t] - 1 \in Nat /\ (held[t] - 1 = 0 => held[t] = 1)
  BY <1>0, <1>1, <1>2
<1>8. held' \in [Task -> Nat]
  BY <1>0, <1>1, <1>7
<1>9. \A u \in Task : IsFiniteSet(HeldBy(u)') /\ held'[u] = Cardinality(HeldBy(u)')
  BY <1>0, <1>1, <1>4, <1>5, <1>6
<1>10. \A r \in Recursive : nesting'[r] > 0 <=> holder'[r] # Nobody
  BY <1>0, <1>1
<1>11. \A u \in Task : held'[u] = 0 => k'.prio[u] = k'.base[u]
  BY <1>0, <1>1, <1>6, <1>7
<1>12. QED
  BY <1>0, <1>8, <1>9, <1>10, <1>11 DEF MutexCounts, HoldersCounted, OwnPriorityAtLast

LEMMA GiveKeeps ==
  ASSUME MutexAssumption, MutexInv, NEW m \in Object, Give(m)
  PROVE  MutexInv'
<1> DEFINE q == PriorityDisinherit(k, k.cur)
           restored == Disinherits(k, k.cur)
<1>1. /\ pc[k.cur] = "run" /\ k.depth = 0 /\ holder[m] = k.cur
      /\ holder' = [holder EXCEPT ![m] = Nobody]
      /\ held' = [held EXCEPT ![k.cur] = held[k.cur] - 1]
      /\ nesting' = [nesting EXCEPT ![m] = 0]
      /\ k' \in HandOver(q, m, restored)
      /\ UNCHANGED <<pc, after, arg, call, left, entry>>
  BY DEF Give, Calling, Running, At, me
<1>2. /\ Reorders(q, k) /\ q.base = k.base
      /\ \A u \in Task \ {k.cur} : q.prio[u] = k.prio[u]
      /\ held[k.cur] = 1 => q.prio[k.cur] = k.base[k.cur]
  BY MutexFacts, PriorityDisinheritKeeps
<1>3. restored \in BOOLEAN
  BY DEF Disinherits
<1> HIDE DEF q, restored
<1>4. q.depth = 0
  BY <1>1, <1>2 DEF Reorders
<1>5. /\ MutexControl' /\ MutexWaits' /\ k'.prio = q.prio /\ k'.base = q.base
      /\ \A o \in Object : k'.waiting[o] \subseteq k.waiting[o]
      /\ k.waiting[m] # {} =>
           \E u \in Task : call[u] = m /\ u \notin Waiters(k') /\ pc[u] # "disinherit"
  <2>1. CASE k.waiting[m] = {}
    BY <1>1, <1>2, <1>3, <1>4, <2>1, GiveWakesNobody
  <2>2. CASE k.waiting[m] # {}
    BY <1>1, <1>2, <1>3, <1>4, <2>2, GiveWakes
  <2>3. QED
    BY <2>1, <2>2
<1>6. MutexCounts' /\ held' \in [Task -> Nat]
  BY <1>1, <1>2, <1>5, GiveCounts
<1>7. MutexTypes'
  <2>1. /\ holder' \in [Object -> Task \cup {Nobody}]
        /\ nesting' \in [Object -> 0 .. MaxNesting]
    BY <1>1 DEF MutexInv, MutexTypes, MutexAssumption
  <2>2. QED
    BY <1>1, <1>6, <2>1 DEF MutexInv, MutexTypes, InCall
<1>8. TakerComes'
  <2>1. \A t : t \in Waiters(k') => t \in Waiters(k)
    BY <1>5, WaitersElements
  <2>2. ASSUME NEW o \in Object, holder'[o] = Nobody, k'.waiting[o] # {}
        PROVE  \E t \in Task : call[t] = o /\ t \notin Waiters(k') /\ pc[t] # "disinherit"
    <3>1. CASE o = m
      BY <1>5, <2>2, <3>1
    <3>2. CASE o # m
      <4>1. holder[o] = Nobody /\ k.waiting[o] # {}
        BY <1>1, <1>5, <2>2, <3>2 DEF MutexInv, MutexTypes
      <4>2. QED
        BY <2>1, <2>2, <4>1 DEF MutexInv, TakerComes
    <3>3. QED
      BY <3>1, <3>2
  <2>3. QED
    BY <1>1, <2>2 DEF TakerComes
<1>9. QED
  BY <1>5, <1>6, <1>7, <1>8 DEF MutexInv

-----------------------------------------------------------------------------
(* The whole specification.                                                *)

LEMMA InitMutex ==
  ASSUME MutexAssumption, MutexInit
  PROVE  MutexInv
<1>1. /\ k \in InitialKernel
      /\ pc = [t \in Task |-> IF t \in Boot THEN "run" ELSE "gone"]
      /\ after = [t \in Task |-> "run"] /\ arg = [t \in Task |-> t]
      /\ holder = [m \in Object |-> Nobody] /\ nesting = [m \in Object |-> 0]
      /\ held = [t \in Task |-> 0] /\ call = [t \in Task |-> Nobody]
      /\ left = [t \in Task |-> 0] /\ entry = [t \in Task |-> NotSet]
  BY DEF MutexInit, DispatchInit
<1>2. /\ k \in KType /\ k.depth = 0 /\ k.prio = InitPrio /\ k.base = InitPrio
      /\ k.before = {} /\ \A m \in Object : k.waiting[m] = {}
  BY <1>1, InitialKernelFacts
<1>3. k.cur \in Task
  BY <1>2 DEF KType
<1>4. \A t \in Task : pc[t] \in {"run", "gone"} /\ after[t] = "run"
  BY <1>1
<1>5. Waiters(k) = {}
  BY <1>2, WaitersElements
<1>6. MutexControl
  <2>1. \A t \in Task : pc[t] \notin Sections /\ pc[t] \notin Suspending
    BY <1>4 DEF Sections, Suspending
  <2>2. pc \in [Task -> Place \cup Taking] /\ pc[Idle] = "run"
    BY <1>1, KernelAssumption DEF Place, BasePlace
  <2>3. QED
    BY <1>1, <1>2, <1>3, <2>1, <2>2 DEF MutexControl
<1>7. MutexTypes
  <2>1. 0 \in Tick /\ NotSet \in TimeOutType /\ 0 \in 0 .. MaxNesting
    BY KernelAssumption DEF NotSet, TimeOutType, Tick, MutexAssumption
  <2>2. \A t \in Task : ~InCall(t)
    BY <1>4 DEF InCall, Taking
  <2>3. QED
    BY <1>1, <2>1, <2>2 DEF MutexTypes
<1>8. MutexWaits
  <2>1. WaitersBlocked(k) /\ EventListsOrdered(k)
    BY <1>2, <1>5 DEF WaitersBlocked, EventListsOrdered
  <2>2. QED
    BY <1>2, <1>3, <1>4, <1>5, <2>1 DEF MutexWaits
<1>9. TakerComes
  BY <1>2 DEF TakerComes
<1>10. MutexCounts
  <2>1. \A t \in Task : HeldBy(t) = {}
    BY <1>1 DEF HeldBy, MutexAssumption
  <2>2. IsFiniteSet({}) /\ Cardinality({}) = 0
    BY FS_EmptySet
  <2>3. HoldersCounted
    BY <1>1, <2>1, <2>2 DEF HoldersCounted, MutexAssumption
  <2>4. QED
    BY <1>2, <2>1, <2>2, <2>3 DEF MutexCounts, OwnPriorityAtLast
<1>11. QED
  BY <1>6, <1>7, <1>8, <1>9, <1>10 DEF MutexInv

LEMMA StepKeepsMutex ==
  ASSUME MutexAssumption, MutexInv, [MutexNext]_vars
  PROVE  MutexInv'
<1>1. CASE MutexStep
  BY <1>1, ObtainKeeps, GiveUpKeeps, EnterKeeps, RunsOutKeeps, WaitKeeps, TryAgainKeeps,
     ExpiredKeeps, DisinheritKeeps, UnlockSchedulerKeeps, CatchUpKeeps, UnlockedKeeps,
     YieldKeeps DEF MutexStep
<1>2. CASE MutexCall
  <2>1. ASSUME NEW u \in Uses[k.cur], Take(u[1], u[2])
        PROVE  MutexInv'
    <3>1. u[1] \in Object /\ u[2] \in Tick
      BY MutexFacts DEF MutexAssumption
    <3>2. QED
      BY <2>1, <3>1, TakeKeeps
  <2>2. ASSUME NEW m \in Object, TakeAgain(m) \/ GiveNested(m) \/ Give(m)
        PROVE  MutexInv'
    BY <2>2, NestingKeeps, GiveKeeps
  <2>3. QED
    BY <1>2, <2>1, <2>2 DEF MutexCall, me
<1>3. CASE OtherCall /\ UNCHANGED mutexVars
  <2>1. ASSUME NEW t \in Abortable, AbortDelay(t)
        PROVE  MutexInv'
    BY <1>3, <2>1, AbortDelayKeeps DEF MutexAssumption
  <2>2. ASSUME NEW n \in Delays, Delay(n)
        PROVE  MutexInv'
    BY <1>3, <2>2, DelayKeeps, SchedulerAssumption
  <2>3. ASSUME NEW t \in Task, NEW p \in NewPrios, PrioritySet(t, p)
        PROVE  MutexInv'
    BY <1>3, <2>3, PrioritySetKeeps
  <2>4. QED
    BY <1>3, <2>1, <2>2, <2>3, AbortBlockedKeeps, AbortReadyKeeps, TickInterruptKeeps,
       IdleYieldKeeps DEF OtherCall
<1>4. CASE UNCHANGED vars
  <2>1. UNCHANGED <<k, pc, after, arg, holder, nesting, held, call, left, entry>>
    BY <1>4 DEF vars, kernelVars, mutexVars
  <2>2. MutexControl' /\ MutexTypes'
    BY <2>1 DEF MutexInv, MutexControl, MutexTypes, InCall
  <2>3. MutexWaits' /\ TakerComes'
    BY <2>1 DEF MutexInv, MutexWaits, InWait, TakerComes
  <2>4. MutexCounts'
    BY <2>1, SameCounts
  <2>5. QED
    BY <2>2, <2>3, <2>4 DEF MutexInv
<1>5. QED
  BY <1>1, <1>2, <1>3, <1>4 DEF MutexNext

-----------------------------------------------------------------------------
(* The theorems.                                                           *)

(* The invariant of the mutexes, of the tasks on their lists and of the    *)
(* places the calls of xQueueSemaphoreTake have reached holds in every     *)
(* reachable state.                                                        *)
THEOREM MutexInvariant ==
  ASSUME MutexAssumption
  PROVE  MutexSpec => []MutexInv
<1>1. MutexInit => MutexInv
  BY InitMutex
<1>2. MutexInv /\ [MutexNext]_vars => MutexInv'
  BY StepKeepsMutex
<1>3. QED
  BY <1>1, <1>2, PTL DEF MutexSpec

(* A give cannot be missed: no task waits for a mutex that is free unless  *)
(* another one is on its way to take it, whatever time-outs and aborts     *)
(* take the woken task off the list again and however the calls, with the  *)
(* scheduler suspended in their middle, interleave.                        *)
THEOREM NoFreeMutexAwaited ==
  ASSUME MutexAssumption
  PROVE  MutexSpec => []NoneWaitsForFreeMutex
<1>1. MutexInv => NoneWaitsForFreeMutex
  BY DEF MutexInv, TakerComes, NoneWaitsForFreeMutex
<1>2. QED
  BY <1>1, MutexInvariant, PTL

(* uxMutexesHeld, on which every disinheritance depends, is the number of  *)
(* mutexes the task holds, and a recursive mutex is held exactly while its *)
(* takes outnumber its gives.                                              *)
THEOREM HolderCountsExact ==
  ASSUME MutexAssumption
  PROVE  MutexSpec => []HoldersCounted
<1>1. MutexInv => HoldersCounted
  BY DEF MutexInv, MutexCounts
<1>2. QED
  BY <1>1, MutexInvariant, PTL

(* A task that has given back its last mutex is back at its own priority,  *)
(* whichever waiters lent it theirs, gave up or had theirs changed.        *)
THEOREM PriorityGivenBack ==
  ASSUME MutexAssumption
  PROVE  MutexSpec => []OwnPriorityAtLast
<1>1. MutexInv => OwnPriorityAtLast
  BY DEF MutexInv, MutexCounts
<1>2. QED
  BY <1>1, MutexInvariant, PTL

-----------------------------------------------------------------------------
(* Priority inheritance: a mutex's holder runs at least at the priority of *)
(* every task that waits for it, through the give and the takes of others  *)
(* before the woken task runs, time-outs, aborts, delays and ticks.        *)

-----------------------------------------------------------------------------
(* What the choice of a task needs of the ready lists.  The converse, that *)
(* the bit of a list without tasks is clear, does not hold once a waiter   *)
(* has given up: vTaskPriorityDisinheritAfterTimeout clears another one.   *)
ReadyFits(s) == \A p \in Prio : \A t \in s.ready[p] : s.prio[t] = p /\ p \in s.top

(* A step of the kernel that wakes tasks, and lets those of G alone leave  *)
(* the ready lists and the event lists.                                    *)
Wakes(r, s, G) ==
  /\ r \in KType
  /\ r.cur = s.cur /\ r.prio = s.prio /\ r.base = s.base /\ r.key = s.key
  /\ \A e \in r.before : e \in s.before
  /\ \A o \in Object : \A t \in r.waiting[o] : t \in s.waiting[o]
  /\ \A t \in ReadyTasks(s) : t \in ReadyTasks(r) \/ t \in G
  /\ \A t \in Waiters(s) : t \in Waiters(r) \/ t \in ReadyTasks(r) \/ t \in G
  /\ ReadyFits(s) => ReadyFits(r)

LEMMA WakesTransitive ==
  ASSUME NEW s, NEW r, NEW q, NEW G, Wakes(r, s, G), Wakes(q, r, G)
  PROVE  Wakes(q, s, G)
BY DEF Wakes

LEMMA SameWakes ==
  ASSUME NEW s, NEW r \in KType, NEW G,
         r.cur = s.cur, r.prio = s.prio, r.base = s.base, r.key = s.key,
         r.waiting = s.waiting, r.before = s.before, r.ready = s.ready, r.top = s.top
  PROVE  Wakes(r, s, G)
<1>1. ReadyTasks(r) = ReadyTasks(s) /\ Waiters(r) = Waiters(s)
  BY DEF ReadyTasks, Waiters
<1>2. ReadyFits(s) => ReadyFits(r)
  BY DEF ReadyFits
<1>3. QED
  BY <1>1, <1>2 DEF Wakes

LEMMA MoreMayLeave ==
  ASSUME NEW s, NEW r, NEW G, Wakes(r, s, {})
  PROVE  Wakes(r, s, G)
BY DEF Wakes

LEMMA MakeReadyWakes ==
  ASSUME NEW s \in KType, NEW S \in SUBSET Task
  PROVE  Wakes(MakeReady(s, S), s, {})
<1> DEFINE r == MakeReady(s, S)
<1>1. /\ r \in KType /\ r.cur = s.cur /\ r.prio = s.prio /\ r.base = s.base /\ r.key = s.key
      /\ r.ready = [p \in Prio |-> (s.ready[p] \ S) \cup {t \in S : s.prio[t] = p}]
      /\ r.top = s.top \cup {s.prio[t] : t \in S}
      /\ r.waiting = [o \in Object |-> s.waiting[o] \ S]
  BY MakeReadyFields
<1>2. \A e \in r.before : e \in s.before
  BY DEF MakeReady, OffEventLists, KType
<1> HIDE DEF r
<1>3. \A t \in S : t \in ReadyTasks(r)
  <2>1. \A t \in S : s.prio[t] \in Prio
    BY DEF KType
  <2>2. QED
    BY <1>1, <2>1, ReadyTasksElements
<1>4. \A t \in ReadyTasks(s) : t \in ReadyTasks(r)
  BY <1>1, <1>3, ReadyTasksElements
<1>5. \A t \in Waiters(s) : t \in Waiters(r) \/ t \in ReadyTasks(r)
  BY <1>1, <1>3, WaitersElements
<1>6. ReadyFits(s) => ReadyFits(r)
  BY <1>1 DEF ReadyFits
<1>7. QED
  BY <1>1, <1>2, <1>4, <1>5, <1>6 DEF Wakes, r

LEMMA ResetNextWakes ==
  ASSUME NEW s \in KType
  PROVE  Wakes(ResetNextUnblockTime(s), s, {})
<1> DEFINE r == ResetNextUnblockTime(s)
<1>1. r \in KType /\ r = [s EXCEPT !.next = r.next]
  BY ResetNextUnblockTimeFields
<1> HIDE DEF r
<1>2. /\ r.cur = s.cur /\ r.prio = s.prio /\ r.base = s.base /\ r.key = s.key
      /\ r.waiting = s.waiting /\ r.before = s.before /\ r.ready = s.ready
      /\ r.top = s.top
  BY <1>1 DEF KType
<1>3. QED
  BY <1>1, <1>2, SameWakes DEF r

LEMMA AdvanceTickWakes ==
  ASSUME NEW s \in KType
  PROVE  Wakes(AdvanceTick(s), s, {})
<1> DEFINE m == [s EXCEPT !.tick = (s.tick + 1) % TickMod]
           d == [m EXCEPT !.delayed = m.overflow, !.overflow = m.delayed,
                          !.overflows = (m.overflows + 1) % OvfMod]
           Same(r, q) == /\ r \in KType /\ r.cur = q.cur /\ r.prio = q.prio
                         /\ r.base = q.base /\ r.key = q.key /\ r.top = q.top
                         /\ r.waiting = q.waiting /\ r.ready = q.ready
                         /\ r.before = q.before
<1>1. (s.tick + 1) % TickMod \in Tick
  BY Constants DEF KType, Tick
<1>2. Same(m, s)
  BY <1>1 DEF KType
<1>3. AdvanceTick(s) = IF m.tick = 0 THEN ResetNextUnblockTime(d) ELSE m
  BY DEF AdvanceTick, SwitchDelayedLists
<1> HIDE DEF m
<1>4. (m.overflows + 1) % OvfMod \in 0 .. OvfMod - 1
  BY <1>2, Constants DEF KType
<1>5. Same(d, m)
  BY <1>2, <1>4 DEF KType
<1> HIDE DEF d
<1>6. /\ Wakes(ResetNextUnblockTime(d), d, {}) /\ Wakes(d, m, {}) /\ Wakes(m, s, {})
  BY <1>2, <1>5, SameWakes, ResetNextWakes
<1>7. Wakes(ResetNextUnblockTime(d), s, {})
  BY <1>6, WakesTransitive
<1>8. QED
  BY <1>3, <1>6, <1>7

LEMMA IncrementTickWakes ==
  ASSUME NEW s \in KType
  PROVE  Wakes(IncrementTick(s), s, {})
<1> DEFINE m == AdvanceTick(s)
           d == DueTasks(m)
           w == MakeReady(m, d)
           n == ResetNextUnblockTime(w)
<1>1. Wakes(m, s, {})
  BY AdvanceTickWakes
<1>2. IncrementTick(s) = IF m.tick >= m.next THEN n ELSE m
  BY DEF IncrementTick, WakeDueTasks
<1>3. m \in KType /\ d \in SUBSET Task
  BY <1>1 DEF DueTasks, Wakes, KType
<1> HIDE DEF m, d
<1>4. Wakes(w, m, {})
  BY <1>3, MakeReadyWakes
<1> HIDE DEF w
<1>5. Wakes(n, w, {})
  BY <1>4, ResetNextWakes DEF Wakes
<1> HIDE DEF n
<1>6. Wakes(w, s, {})
  BY <1>1, <1>4, WakesTransitive
<1>7. Wakes(n, s, {})
  BY <1>5, <1>6, WakesTransitive
<1>8. QED
  BY <1>1, <1>2, <1>7

LEMMA DrainPendingWakes ==
  ASSUME NEW s \in KType, s.depth > 0
  PROVE  Wakes(DrainPending(s), s, {})
<1> DEFINE down == [s EXCEPT !.depth = s.depth - 1]
           m == MakeReady(down, s.pending)
           n == ResetNextUnblockTime(m)
           y == Preempts(s, s.pending)
           z == [n EXCEPT !.yieldPending = n.yieldPending \/ y]
           Same(r, q) == /\ r \in KType /\ r.cur = q.cur /\ r.prio = q.prio
                         /\ r.base = q.base /\ r.key = q.key /\ r.top = q.top
                         /\ r.waiting = q.waiting /\ r.ready = q.ready
                         /\ r.before = q.before
<1>1. s.depth - 1 \in Nat
  BY DEF KType
<1>2. Same(down, s)
  BY <1>1 DEF KType
<1>3. DrainPending(s) = IF down.depth = 0 /\ s.pending # {} THEN z ELSE down
  BY DEF DrainPending
<1>4. s.pending \in SUBSET Task /\ y \in BOOLEAN
  BY DEF KType, Preempts
<1> HIDE DEF down, y
<1>5. Wakes(down, s, {})
  BY <1>2, SameWakes
<1>6. Wakes(m, down, {})
  BY <1>2, <1>4, MakeReadyWakes
<1> HIDE DEF m
<1>7. Wakes(n, m, {})
  BY <1>6, ResetNextWakes DEF Wakes
<1> HIDE DEF n
<1>8. n \in KType
  BY <1>7 DEF Wakes
<1>9. (n.yieldPending \/ y) \in BOOLEAN
  BY <1>8, <1>4 DEF KType
<1>10. Same(z, n)
  BY <1>8, <1>9 DEF KType
<1> HIDE DEF z
<1>11. Wakes(z, n, {})
  BY <1>10, SameWakes
<1>12. Wakes(m, s, {})
  BY <1>5, <1>6, WakesTransitive
<1>13. Wakes(n, s, {})
  BY <1>7, <1>12, WakesTransitive
<1>14. Wakes(z, s, {})
  BY <1>11, <1>13, WakesTransitive
<1>15. QED
  BY <1>3, <1>5, <1>14

LEMMA CatchUpTickWakes ==
  ASSUME NEW s \in KType, s.pended > 0
  PROVE  Wakes(CatchUpTick(s), s, {})
<1> DEFINE i == IncrementTick(s)
           y == TickWantsSwitch(s)
           z == [i EXCEPT !.pended = i.pended - 1, !.yieldPending = i.yieldPending \/ y]
<1>1. CatchUpTick(s) = z /\ y \in BOOLEAN
  BY DEF CatchUpTick, TickWantsSwitch, Preempts
<1>2. Wakes(i, s, {}) /\ z \in KType
  BY <1>1, IncrementTickWakes, CatchUpTickControl
<1>3. i \in KType
  BY <1>2 DEF Wakes
<1> HIDE DEF i, y
<1>4. /\ z.cur = i.cur /\ z.prio = i.prio /\ z.base = i.base /\ z.key = i.key
      /\ z.waiting = i.waiting /\ z.before = i.before /\ z.ready = i.ready
      /\ z.top = i.top
  BY <1>3 DEF KType
<1> HIDE DEF z
<1>5. Wakes(z, i, {})
  BY <1>2, <1>4, SameWakes
<1>6. QED
  BY <1>1, <1>2, <1>5, WakesTransitive

LEMMA RemoveFromEventListWakes ==
  ASSUME NEW s \in KType, s.depth = 0, NEW S \in SUBSET Task
  PROVE  /\ Wakes(RemoveFromEventList(s, S), s, {})
         /\ \A t \in S : t \in ReadyTasks(RemoveFromEventList(s, S))
<1> DEFINE y == Preempts(s, S)
           m == MakeReady(s, S)
           r == [m EXCEPT !.yieldPending = m.yieldPending \/ y]
<1>1. RemoveFromEventList(s, S) = r /\ y \in BOOLEAN
  BY DEF RemoveFromEventList, Preempts
<1>2. m.ready = [p \in Prio |-> (s.ready[p] \ S) \cup {t \in S : s.prio[t] = p}]
  BY MakeReadyFields
<1>3. Wakes(m, s, {})
  BY MakeReadyWakes
<1> HIDE DEF m, y
<1>4. m \in KType
  BY <1>3 DEF Wakes
<1>5. (m.yieldPending \/ y) \in BOOLEAN
  BY <1>1, <1>4 DEF KType
<1>6. /\ r \in KType /\ r.cur = m.cur /\ r.prio = m.prio /\ r.base = m.base
      /\ r.key = m.key /\ r.waiting = m.waiting /\ r.before = m.before
      /\ r.ready = m.ready /\ r.top = m.top
  <2>1. r \in KType
    BY <1>4, <1>5 DEF KType
  <2>2. QED
    BY <1>4, <2>1 DEF KType
<1> HIDE DEF r
<1>7. Wakes(r, m, {}) /\ Wakes(r, s, {})
  <2>1. Wakes(r, m, {})
    BY <1>6, SameWakes
  <2>2. QED
    BY <1>3, <2>1, WakesTransitive
<1>8. \A t \in S : t \in ReadyTasks(r)
  <2>1. \A t \in S : s.prio[t] \in Prio
    BY DEF KType
  <2>2. QED
    BY <1>2, <1>6, <2>1, ReadyTasksElements
<1>9. QED
  BY <1>1, <1>7, <1>8

LEMMA AddToReadyListWakes ==
  ASSUME NEW s \in KType, NEW t \in Task
  PROVE  Wakes(AddToReadyList(s, t), s, {}) /\ t \in ReadyTasks(AddToReadyList(s, t))
<1> DEFINE r == AddToReadyList(s, t)
<1>1. /\ r \in KType /\ r.ready = [s.ready EXCEPT ![s.prio[t]] = @ \cup {t}]
      /\ r.top = s.top \cup {s.prio[t]} /\ r.cur = s.cur /\ r.prio = s.prio
      /\ r.base = s.base /\ r.key = s.key /\ r.waiting = s.waiting
      /\ r.before = s.before
  BY AddToReadyListFields
<1>2. s.prio[t] \in Prio /\ s.ready \in [Prio -> SUBSET Task]
  BY DEF KType
<1> HIDE DEF r
<1>3. t \in ReadyTasks(r) /\ \A u \in ReadyTasks(s) : u \in ReadyTasks(r)
  BY <1>1, <1>2, ReadyTasksElements
<1>4. ReadyFits(s) => ReadyFits(r)
  BY <1>1, <1>2 DEF ReadyFits
<1>5. Waiters(r) = Waiters(s)
  BY <1>1 DEF Waiters
<1>6. QED
  BY <1>1, <1>3, <1>4, <1>5 DEF Wakes, r

(* xTaskAbortDelay takes the item of one task off every list. *)
LEMMA OffBothWakes ==
  ASSUME NEW s \in KType, NEW t \in Task
  PROVE  Wakes(OffEventLists(OffStateList(s, t), {t}), s, {t})
<1> DEFINE o == OffStateList(s, t)
           r == OffEventLists(o, {t})
<1>1. /\ o \in KType /\ o.cur = s.cur /\ o.prio = s.prio /\ o.base = s.base
      /\ o.key = s.key /\ o.waiting = s.waiting /\ o.before = s.before
      /\ o.ready = [p \in Prio |-> s.ready[p] \ {t}] /\ o.top = s.top
  BY OffStateListFields
<1> HIDE DEF o
<1>2. /\ r \in KType /\ r.cur = o.cur /\ r.prio = o.prio /\ r.base = o.base
      /\ r.key = o.key /\ r.ready = o.ready /\ r.top = o.top
      /\ r.waiting = [q \in Object |-> o.waiting[q] \ {t}]
  BY <1>1, OffEventListsFields
<1>3. \A e \in r.before : e \in o.before
  BY <1>1 DEF OffEventLists, KType
<1> HIDE DEF r
<1>4. \A u \in ReadyTasks(s) : u \in ReadyTasks(r) \/ u \in {t}
  BY <1>1, <1>2, ReadyTasksElements
<1>5. \A u \in Waiters(s) : u \in Waiters(r) \/ u \in {t}
  BY <1>1, <1>2, WaitersElements
<1>6. ReadyFits(s) => ReadyFits(r)
  BY <1>1, <1>2 DEF ReadyFits
<1>7. \A q \in Object : \A u \in r.waiting[q] : u \in s.waiting[q]
  BY <1>1, <1>2
<1>8. QED
  BY <1>1, <1>2, <1>3, <1>4, <1>5, <1>6, <1>7 DEF Wakes, r, o

(* The running task leaves its ready list. *)
LEMMA AddCurrentWakes ==
  ASSUME NEW s \in KType, s.cur \in ReadyTasks(s), NEW n \in Tick, NEW i \in BOOLEAN
  PROVE  Wakes(AddCurrentToDelayedList(s, n, i), s, {s.cur})
<1> DEFINE r == AddCurrentToDelayedList(s, n, i)
           t == s.cur
<1>1. /\ r \in KType /\ r.cur = t /\ r.waiting = s.waiting /\ r.before = s.before
      /\ r.prio = s.prio /\ r.base = s.base /\ r.key = s.key
      /\ r.ready = [p \in Prio |-> s.ready[p] \ {t}]
      /\ r.top = IF AloneOnList(s, t) THEN s.top \ {s.prio[t]} ELSE s.top
  BY AddCurrentWaits
<1>2. t \in ReadyTasks(s)
  OBVIOUS
<1> HIDE DEF r, t
<1>3. \A u \in ReadyTasks(s) : u \in ReadyTasks(r) \/ u \in {t}
  BY <1>1, ReadyTasksElements
<1>4. Waiters(r) = Waiters(s)
  BY <1>1 DEF Waiters
<1>5. ASSUME ReadyFits(s)
      PROVE  ReadyFits(r)
  <2>1. PICK q \in Prio : t \in s.ready[q]
    BY <1>2, ReadyTasksElements
  <2>2. s.prio[t] = q
    BY <1>5, <2>1 DEF ReadyFits
  <2>3. AloneOnList(s, t) => s.ready[q] = {t}
    BY <2>1 DEF AloneOnList, StateLists
  <2>4. ASSUME NEW p \in Prio, NEW u \in r.ready[p]
        PROVE  r.prio[u] = p /\ p \in r.top
    <3>1. u \in s.ready[p] /\ u # t
      BY <1>1, <2>4
    <3>2. s.prio[u] = p /\ p \in s.top
      BY <1>5, <3>1 DEF ReadyFits
    <3>3. AloneOnList(s, t) => p # s.prio[t]
      BY <2>2, <2>3, <3>1
    <3>4. QED
      BY <1>1, <3>2, <3>3
  <2>5. QED
    BY <2>4 DEF ReadyFits
<1>6. QED
  BY <1>1, <1>3, <1>4, <1>5 DEF Wakes, r, t

(* The task that is chosen is ready, and no ready task has a higher        *)
(* priority.                                                               *)
LEMMA SwitchChooses ==
  ASSUME NEW s \in KType, s.depth = 0, ReadyFits(s), NEW r \in SwitchContext(s)
  PROVE  /\ r \in KType /\ r.prio = s.prio /\ r.base = s.base /\ r.key = s.key
         /\ r.ready = s.ready /\ r.top = s.top
         /\ r.waiting = s.waiting /\ r.before = s.before
         /\ ReadyFits(r) /\ r.cur \in ReadyTasks(r)
         /\ \A t \in ReadyTasks(r) : r.prio[t] <= r.prio[r.cur]
<1>1. /\ r \in KType
      /\ r = [s EXCEPT !.yieldPending = r.yieldPending, !.cur = r.cur]
      /\ r.cur \in HighestReady(s)
  BY SwitchContextControl
<1>2. /\ r.prio = s.prio /\ r.base = s.base /\ r.key = s.key
      /\ r.ready = s.ready /\ r.top = s.top
      /\ r.waiting = s.waiting /\ r.before = s.before
  BY <1>1 DEF KType
<1>3. PICK p \in s.top : r.cur \in s.ready[p] /\ \A q \in s.top : q <= p
  BY <1>1 DEF HighestReady
<1>4. p \in Prio /\ s.prio[r.cur] = p
  BY <1>3 DEF ReadyFits, KType
<1>5. r.cur \in ReadyTasks(r)
  BY <1>2, <1>3, <1>4, ReadyTasksElements
<1>6. ReadyFits(r)
  BY <1>2 DEF ReadyFits
<1>7. ASSUME NEW t \in ReadyTasks(r)
      PROVE  r.prio[t] <= r.prio[r.cur]
  <2>1. PICK q \in Prio : t \in s.ready[q]
    BY <1>2, <1>7, ReadyTasksElements
  <2>2. s.prio[t] = q /\ q \in s.top
    BY <2>1 DEF ReadyFits
  <2>3. QED
    BY <1>2, <1>3, <1>4, <2>2
<1>8. QED
  BY <1>1, <1>2, <1>5, <1>6, <1>7

(* A change of priority that is inherited or given back keeps the lists in *)
(* order, whichever of the two bits is cleared.                            *)
LEMMA MoveReadyFits ==
  ASSUME NEW s \in KType, NEW t \in Task, NEW p \in Prio, NEW c \in {s.prio[t], p},
         ReadyFits(s)
  PROVE  LET r == MoveReady(s, t, p, c)
         IN  /\ ReadyFits(r) /\ r.key = s.key
             /\ \A u : u \in ReadyTasks(r) <=> u \in ReadyTasks(s)
<1> DEFINE old == s.prio[t]
           np == [s.prio EXCEPT ![t] = p]
           nr == [s.ready EXCEPT ![old] = s.ready[old] \ {t}]
           nt == IF s.ready[old] = {t} THEN s.top \ {c} ELSE s.top
           off == [s EXCEPT !.prio = np, !.ready = nr, !.top = nt]
           stay == [s EXCEPT !.prio = np]
           r == MoveReady(s, t, p, c)
<1>1. r = IF t \in s.ready[old] THEN AddToReadyList(off, t) ELSE stay
  BY DEF MoveReady
<1>2. /\ old \in Prio /\ np \in [Task -> Prio] /\ nr \in [Prio -> SUBSET Task]
      /\ nt \in SUBSET Prio
  <2>1. old \in Prio /\ np \in [Task -> Prio] /\ nt \in SUBSET Prio
    BY DEF KType
  <2>2. nr \in [Prio -> SUBSET Task]
    BY <2>1 DEF KType
  <2>3. QED
    BY <2>1, <2>2
<1>3. np[t] = p /\ \A u \in Task \ {t} : np[u] = s.prio[u]
  BY DEF KType
<1>4. \A q \in Prio : nr[q] = IF q = old THEN s.ready[q] \ {t} ELSE s.ready[q]
  BY <1>2 DEF KType
<1>5. nt = IF s.ready[old] = {t} THEN s.top \ {c} ELSE s.top
  OBVIOUS
<1>6. /\ s.ready \in [Prio -> SUBSET Task] /\ s.prio \in [Task -> Prio]
      /\ \A q \in Prio : \A u \in s.ready[q] : s.prio[u] = q /\ q \in s.top
      /\ c = old \/ c = p
  BY DEF KType, ReadyFits
<1> HIDE DEF np, nr, nt
<1>7. /\ off \in KType /\ off.prio = np /\ off.ready = nr /\ off.top = nt
      /\ off.key = s.key
  BY <1>2 DEF KType
<1>8. /\ stay \in KType /\ stay.prio = np /\ stay.ready = s.ready /\ stay.top = s.top
      /\ stay.key = s.key
  BY <1>2 DEF KType
<1> HIDE DEF off, stay, r, old
<1>9. CASE t \in s.ready[old]
  <2>1. r = AddToReadyList(off, t)
    BY <1>1, <1>9
  <2>2. /\ r.ready = [nr EXCEPT ![p] = nr[p] \cup {t}] /\ r.top = nt \cup {p}
        /\ r.prio = np /\ r.key = s.key
    BY <1>3, <1>7, <2>1, AddToReadyListFields
  <2>3. \A q \in Prio : r.ready[q] = IF q = p THEN nr[q] \cup {t} ELSE nr[q]
    BY <1>2, <2>2
  <2>4. ASSUME NEW q \in Prio, NEW u \in r.ready[q]
        PROVE  r.prio[u] = q /\ q \in r.top
    <3>1. CASE u = t
      <4>1. ASSUME q # p
            PROVE  FALSE
        <5>1. t \in nr[q]
          BY <2>3, <2>4, <3>1, <4>1
        <5>2. q # old /\ t \in s.ready[q]
          BY <1>4, <5>1
        <5>3. QED
          BY <1>6, <5>2 DEF old
      <4>2. QED
        BY <1>3, <2>2, <3>1, <4>1
    <3>2. CASE u # t
      <4>1. u \in s.ready[q] /\ u \in Task
        <5>1. u \in nr[q]
          BY <2>3, <2>4, <3>2
        <5>2. QED
          BY <1>4, <1>6, <5>1
      <4>2. s.prio[u] = q /\ q \in s.top
        BY <1>6, <4>1
      <4>3. q \in nt \/ q = p
        BY <1>5, <1>6, <3>2, <4>1, <4>2
      <4>4. QED
        BY <1>3, <2>2, <3>2, <4>1, <4>2, <4>3
    <3>3. QED
      BY <3>1, <3>2
  <2>5. ReadyFits(r)
    BY <2>4 DEF ReadyFits
  <2>6. \A u : u \in ReadyTasks(r) => u \in ReadyTasks(s)
    BY <1>2, <1>4, <1>9, <2>3, ReadyTasksElements
  <2>7. \A u : u \in ReadyTasks(s) => u \in ReadyTasks(r)
    <3>1. t \in ReadyTasks(r)
      BY <2>3, ReadyTasksElements
    <3>2. ASSUME NEW u, u # t, u \in ReadyTasks(s)
          PROVE  u \in ReadyTasks(r)
      <4>1. PICK q \in Prio : u \in s.ready[q]
        BY <3>2, ReadyTasksElements
      <4>2. u \in r.ready[q]
        BY <1>4, <2>3, <3>2, <4>1
      <4>3. QED
        BY <4>2, ReadyTasksElements
    <3>3. QED
      BY <3>1, <3>2
  <2>8. QED
    BY <2>2, <2>5, <2>6, <2>7 DEF r
<1>10. CASE t \notin s.ready[old]
  <2>1. r = stay
    BY <1>1, <1>10
  <2>2. \A q \in Prio : t \notin s.ready[q]
    BY <1>6, <1>10 DEF old
  <2>3. ReadyFits(r)
    BY <1>3, <1>6, <1>8, <2>1, <2>2 DEF ReadyFits
  <2>4. QED
    BY <1>8, <2>1, <2>3, ReadyTasksElements DEF r
<1>11. QED
  BY <1>9, <1>10

(* The key of the event item goes with the priority. *)
KeysFit(s) == \A t \in Task : s.key[t] = MaxPrio - s.prio[t]

LEMMA InheritFits ==
  ASSUME NEW s \in KType, NEW t \in Task, NEW p \in Prio, NEW c \in {s.prio[t], p},
         ReadyFits(s), KeysFit(s)
  PROVE  LET r == MoveReady([s EXCEPT !.key[t] = MaxPrio - p], t, p, c)
         IN  /\ ReadyFits(r) /\ KeysFit(r)
             /\ \A u : u \in ReadyTasks(r) <=> u \in ReadyTasks(s)
<1> DEFINE nk == [s.key EXCEPT ![t] = MaxPrio - p]
           m == [s EXCEPT !.key = nk]
           r == MoveReady(m, t, p, c)
<1>1. nk \in [Task -> 1 .. MaxPrio]
  <2>1. MaxPrio - p \in 1 .. MaxPrio
    BY Constants DEF Prio
  <2>2. QED
    BY <2>1 DEF KType
<1>2. nk[t] = MaxPrio - p /\ \A u \in Task \ {t} : nk[u] = s.key[u]
  BY DEF KType
<1> HIDE DEF nk
<1>3. /\ m \in KType /\ m.ready = s.ready /\ m.prio = s.prio /\ m.top = s.top
      /\ m.key = nk
  BY <1>1 DEF KType
<1>4. m = [s EXCEPT !.key[t] = MaxPrio - p]
  BY DEF nk
<1> HIDE DEF m
<1>5. ReadyFits(m) /\ ReadyTasks(m) = ReadyTasks(s)
  BY <1>3 DEF ReadyFits, ReadyTasks
<1>6. /\ ReadyFits(r) /\ r.key = m.key
      /\ \A u : u \in ReadyTasks(r) <=> u \in ReadyTasks(m)
  BY <1>3, <1>5, MoveReadyFits
<1>7. r.prio = [m.prio EXCEPT ![t] = p]
  BY <1>3, MoveReadyReorders
<1> HIDE DEF r
<1>8. s.prio \in [Task -> Prio]
  BY DEF KType
<1>9. KeysFit(r)
  BY <1>2, <1>3, <1>6, <1>7, <1>8 DEF KeysFit
<1>10. QED
  BY <1>4, <1>5, <1>6, <1>9 DEF r


-----------------------------------------------------------------------------
(* The invariant.                                                          *)

UsesIt(t, m)   == \E u \in Uses[t] : u[1] = m
WaitsFor(t, m) == \E u \in Uses[t] : u[1] = m /\ u[2] # 0

(* A task in a call is on the list of its mutex or ready, or an abort is   *)
(* between taking it off its lists and making it ready.                    *)
ReadyInv ==
  /\ ReadyFits(k) /\ KeysFit(k)
  /\ \A t \in Task : call[t] # Nobody =>
       \/ t \in Waiters(k) \/ t \in ReadyTasks(k)
       \/ pc[k.cur] = "aborted" /\ arg[k.cur] = t
  /\ pc[k.cur] \in {"block", "catchup_block", "yield"} \/ k.cur \in ReadyTasks(k)
  /\ pc[k.cur] \in {"abort", "aborted"} => arg[k.cur] # k.cur

(* Tasks hold, take and wait for the mutexes they use.                     *)
UseInv == \A t \in Task, m \in Object :
  /\ call[t] = m => /\ holder[m] # t
                    /\ \E u \in Uses[t] : u[1] = m /\ (left[t] # 0 => u[2] # 0)
  /\ holder[m] = t => UsesIt(t, m)
  /\ t \in k.waiting[m] => WaitsFor(t, m)

Bounded(s, m, p) == \A w \in s.waiting[m] : s.base[w] <= p

SortedByBase(s, m) ==
  \A t, w \in s.waiting[m] : <<t, w>> \in s.before => s.base[w] <= s.base[t]

OnItsWay(t, m) ==
  call[t] = m /\ WaitsFor(t, m) /\ t \notin Waiters(k) /\ pc[t] # "disinherit"

(* The priorities of the tasks that wait for m bound from below that of    *)
(* its holder; while it is free, that of a task on its way to take it; and *)
(* that of the running task, which may take it first.                      *)
InheritedFor(m) ==
  /\ holder[m] # Nobody => Bounded(k, m, k.prio[holder[m]])
  /\ holder[m] = Nobody /\ k.waiting[m] # {} =>
       \E t \in Task : OnItsWay(t, m) /\ Bounded(k, m, k.base[t])
  /\ holder[m] = Nobody /\ UsesIt(k.cur, m) => Bounded(k, m, k.prio[k.cur])
  /\ SortedByBase(k, m)

AloneInv == \A m \in Object : TakenAlone(m) => InheritedFor(m)

InheritInv == ReadyInv /\ UseInv /\ AloneInv

(* A task that may wait for m holds no other mutex, so that nothing was    *)
(* lent to it.                                                             *)
OwnPriority ==
  \A m \in Object, t \in Task :
    TakenAlone(m) /\ WaitsFor(t, m) /\ holder[m] # t => k.prio[t] = k.base[t]

LEMMA WaitersOwnPriority == MutexInv /\ UseInv => OwnPriority
<1> SUFFICES ASSUME MutexInv, UseInv, NEW m \in Object, NEW t \in Task,
                    TakenAlone(m), WaitsFor(t, m), holder[m] # t
             PROVE  k.prio[t] = k.base[t]
  BY DEF OwnPriority
<1>1. ASSUME NEW o \in Object, holder[o] = t
      PROVE  FALSE
  <2>1. o # m /\ UsesIt(t, o)
    BY <1>1 DEF UseInv
  <2>2. PICK v \in Uses[t] : v[1] = o
    BY <2>1 DEF UsesIt
  <2>3. PICK u \in Uses[t] : u[1] = m /\ u[2] # 0
    BY DEF WaitsFor
  <2>4. QED
    BY <2>1, <2>2, <2>3 DEF TakenAlone
<1>2. HeldBy(t) = {}
  BY <1>1 DEF HeldBy
<1>3. held[t] = 0
  BY <1>2, FS_EmptySet DEF MutexInv, MutexCounts, HoldersCounted
<1>4. QED
  BY <1>3 DEF MutexInv, MutexCounts, OwnPriorityAtLast

LEMMA WaitersOwnPriorityNext ==
  ASSUME MutexInv', UseInv'
  PROVE  OwnPriority'
<1>1. (MutexInv /\ UseInv => OwnPriority)'
  BY WaitersOwnPriority, PTL
<1>2. QED
  BY <1>1

-----------------------------------------------------------------------------
(* What is left to show of a step.                                         *)

LEMMA UseKept ==
  ASSUME UseInv,
         \A m \in Object : \A t \in k'.waiting[m] : t \in k.waiting[m],
         \A t \in Task, m \in Object : call'[t] = m =>
           call[t] = m /\ (left'[t] # 0 => left[t] # 0),
         \A t \in Task, m \in Object : holder'[m] = t => holder[m] = t
  PROVE  UseInv'
<1> SUFFICES ASSUME NEW t \in Task, NEW m \in Object
             PROVE  /\ call'[t] = m =>
                         /\ holder'[m] # t
                         /\ \E u \in Uses[t] : u[1] = m /\ (left'[t] # 0 => u[2] # 0)
                    /\ holder'[m] = t => UsesIt(t, m)
                    /\ t \in k'.waiting[m] => WaitsFor(t, m)
  BY DEF UseInv, UsesIt, WaitsFor
<1>1. ASSUME call'[t] = m
      PROVE  /\ holder'[m] # t
             /\ \E u \in Uses[t] : u[1] = m /\ (left'[t] # 0 => u[2] # 0)
  BY <1>1 DEF UseInv
<1>2. QED
  BY <1>1 DEF UseInv

(* The running task goes from its place to p. *)
LEMMA ReadyKept ==
  ASSUME MutexInv, ReadyInv, NEW G, Wakes(k', k, G),
         NEW p, pc' = [pc EXCEPT ![k.cur] = p],
         \A t \in G : call[t] # Nobody =>
           t \in Waiters(k') \/ t \in ReadyTasks(k') \/ (p = "aborted" /\ arg'[k.cur] = t),
         \A t \in Task : call'[t] # Nobody => call[t] # Nobody \/ t \in ReadyTasks(k'),
         pc[k.cur] = "aborted" =>
           (p = "aborted" /\ arg' = arg) \/ arg[k.cur] \in ReadyTasks(k'),
         p \in {"block", "catchup_block", "yield"} \/ k.cur \in ReadyTasks(k'),
         p \in {"abort", "aborted"} => arg'[k.cur] # k.cur
  PROVE  ReadyInv'
<1>1. k'.cur = k.cur /\ pc'[k.cur] = p /\ k'.key = k.key /\ k'.prio = k.prio
  BY MutexFacts DEF Wakes
<1>2. ReadyFits(k') /\ KeysFit(k')
  BY <1>1 DEF ReadyInv, Wakes, KeysFit
<1>3. ASSUME NEW t \in Task, call'[t] # Nobody
      PROVE  \/ t \in Waiters(k') \/ t \in ReadyTasks(k')
             \/ p = "aborted" /\ arg'[k.cur] = t
  <2>1. CASE call[t] # Nobody
    <3>1. \/ t \in Waiters(k) \/ t \in ReadyTasks(k)
          \/ pc[k.cur] = "aborted" /\ arg[k.cur] = t
      BY <2>1 DEF ReadyInv
    <3>2. t \in G \/ t \in Waiters(k') \/ t \in ReadyTasks(k')
          \/ (pc[k.cur] = "aborted" /\ arg[k.cur] = t)
      BY <3>1 DEF Wakes
    <3>3. QED
      BY <2>1, <3>2
  <2>2. QED
    BY <1>3, <2>1
<1>4. QED
  BY <1>1, <1>2, <1>3 DEF ReadyInv

(* The running task gives way, at place p, to the task that is chosen. *)
LEMMA SwitchReady ==
  ASSUME MutexInv, NEW m \in KType, m.depth = 0, m.cur = k.cur, k' \in SwitchContext(m),
         ReadyFits(m), KeysFit(m),
         NEW p, p \notin Sections, pc' = [pc EXCEPT ![k.cur] = p],
         \A t \in Task : call'[t] # Nobody => t \in Waiters(m) \/ t \in ReadyTasks(m)
  PROVE  /\ ReadyInv' /\ k'.prio = m.prio /\ k'.base = m.base
         /\ k'.waiting = m.waiting /\ k'.before = m.before
         /\ \A t \in ReadyTasks(k') : k'.prio[t] <= k'.prio[k'.cur]
<1>1. /\ k' \in KType /\ k'.prio = m.prio /\ k'.base = m.base /\ k'.key = m.key
      /\ k'.ready = m.ready /\ k'.waiting = m.waiting /\ k'.before = m.before
      /\ ReadyFits(k') /\ k'.cur \in ReadyTasks(k')
      /\ \A t \in ReadyTasks(k') : k'.prio[t] <= k'.prio[k'.cur]
  BY SwitchChooses
<1>2. KeysFit(k') /\ ReadyTasks(k') = ReadyTasks(m) /\ Waiters(k') = Waiters(m)
  BY <1>1 DEF KeysFit, ReadyTasks, Waiters
<1>3. k'.cur \in Task /\ k.cur \in Task
  BY <1>1, MutexFacts DEF KType
<1>4. pc'[k'.cur] \notin {"abort", "aborted"}
  BY <1>3, MutexFacts DEF MutexInv, MutexControl, Sections, Suspending
<1>5. QED
  BY <1>1, <1>2, <1>4 DEF ReadyInv


(* The task that is chosen runs at least at the priority of one that is on *)
(* its way, and so at that of every task that waits.                       *)
LEMMA ChosenBounds ==
  ASSUME MutexAssumption, MutexInv', UseInv', ReadyInv', k'.depth = 0,
         \A t \in ReadyTasks(k') : k'.prio[t] <= k'.prio[k'.cur],
         NEW m \in Object, TakenAlone(m), holder'[m] = Nobody,
         NEW t \in Task, OnItsWay(t, m)', Bounded(k', m, k'.base[t])
  PROVE  Bounded(k', m, k'.prio[k'.cur])
<1>1. /\ call'[t] = m /\ WaitsFor(t, m) /\ t \notin Waiters(k')
      /\ m # Nobody /\ t # Nobody
  BY DEF OnItsWay, WaitsFor, MutexAssumption
<1>2. k' \in KType /\ pc'[k'.cur] # "aborted"
  BY DEF MutexInv, MutexControl, Suspending
<1>3. t \in ReadyTasks(k')
  BY <1>1, <1>2 DEF ReadyInv
<1>4. k'.prio[t] = k'.base[t]
  BY <1>1, WaitersOwnPriorityNext DEF OwnPriority, TakenAlone, WaitsFor, Contended
<1>5. /\ k'.prio \in [Task -> Prio] /\ k'.base \in [Task -> Prio] /\ k'.cur \in Task
      /\ k'.waiting[m] \subseteq Task
  BY <1>2 DEF KType
<1>6. k'.base[t] <= k'.prio[k'.cur]
  BY <1>3, <1>4
<1>7. \A w \in k'.waiting[m] : k'.base[w] <= k'.base[t]
  BY DEF Bounded
<1>8. \A w \in k'.waiting[m] : k'.base[w] <= k'.prio[k'.cur]
  <2>1. \A a, b, c \in Prio : a <= b /\ b <= c => a <= c
    BY KernelAssumption DEF Prio
  <2>2. QED
    BY <1>5, <1>6, <1>7, <2>1
<1>9. QED
  BY <1>8 DEF Bounded

(* A step in which no task joins a list and no priority changes. *)
LEMMA AloneKept ==
  ASSUME MutexAssumption, MutexInv, AloneInv, MutexInv', UseInv', ReadyInv',
         k'.base = k.base, k'.prio = k.prio, holder' = holder,
         \A m \in Object : \A t \in k'.waiting[m] : t \in k.waiting[m],
         \A e \in k'.before : e \in k.before,
         \A t \in Task, m \in Object :
           holder[m] = Nobody /\ call[t] = m /\ pc[t] # "disinherit" =>
             call'[t] = m /\ pc'[t] # "disinherit",
         \/ k'.cur = k.cur
         \/ /\ k'.depth = 0
            /\ \A t \in ReadyTasks(k') : k'.prio[t] <= k'.prio[k'.cur]
  PROVE  AloneInv'
<1> SUFFICES ASSUME NEW m \in Object, TakenAlone(m)
             PROVE  InheritedFor(m)'
  BY DEF AloneInv, TakenAlone, Contended
<1>1. InheritedFor(m)
  BY DEF AloneInv
<1>2. \A p : Bounded(k, m, p) => Bounded(k', m, p)
  BY DEF Bounded
<1>3. holder'[m] # Nobody => Bounded(k', m, k'.prio[holder'[m]])
  BY <1>1, <1>2 DEF InheritedFor
<1>4. \A t : t \in Waiters(k') => t \in Waiters(k)
  BY WaitersElements
<1>5. ASSUME holder'[m] = Nobody, k'.waiting[m] # {}
      PROVE  \E t \in Task : OnItsWay(t, m)' /\ Bounded(k', m, k'.base[t])
  <2>1. PICK t \in Task : OnItsWay(t, m) /\ Bounded(k, m, k.base[t])
    BY <1>1, <1>5 DEF InheritedFor
  <2>2. call'[t] = m /\ pc'[t] # "disinherit" /\ WaitsFor(t, m) /\ t \notin Waiters(k')
    BY <1>4, <1>5, <2>1 DEF OnItsWay
  <2>3. OnItsWay(t, m)'
    BY <2>2 DEF OnItsWay, WaitsFor
  <2>4. QED
    BY <1>2, <2>1, <2>3
<1>6. ASSUME holder'[m] = Nobody, UsesIt(k'.cur, m)
      PROVE  Bounded(k', m, k'.prio[k'.cur])
  <2>1. CASE k'.cur = k.cur
    BY <1>1, <1>2, <1>6, <2>1 DEF InheritedFor
  <2>2. CASE k'.cur # k.cur
    <3>1. CASE k'.waiting[m] = {}
      BY <3>1 DEF Bounded
    <3>2. CASE k'.waiting[m] # {}
      BY <1>5, <1>6, <2>2, <3>2, ChosenBounds
    <3>3. QED
      BY <3>1, <3>2
  <2>3. QED
    BY <2>1, <2>2
<1>7. SortedByBase(k', m)
  BY <1>1 DEF InheritedFor, SortedByBase
<1>8. QED
  BY <1>3, <1>5, <1>6, <1>7 DEF InheritedFor, UsesIt

(* A step of the kernel: the running task goes on, ... *)
LEMMA QuietInherits ==
  ASSUME MutexAssumption, MutexInv, InheritInv, MutexInv', UNCHANGED mutexVars,
         NEW G, Wakes(k', k, G), NEW p, pc' = [pc EXCEPT ![k.cur] = p],
         p = "disinherit" => pc[k.cur] = p,
         \A t \in G : call[t] # Nobody =>
           t \in Waiters(k') \/ t \in ReadyTasks(k') \/ (p = "aborted" /\ arg'[k.cur] = t),
         pc[k.cur] = "aborted" =>
           (p = "aborted" /\ arg' = arg) \/ arg[k.cur] \in ReadyTasks(k'),
         p \in {"block", "catchup_block", "yield"} \/ k.cur \in ReadyTasks(k'),
         p \in {"abort", "aborted"} => arg'[k.cur] # k.cur
  PROVE  InheritInv'
<1>1. ReadyInv'
  BY ReadyKept DEF InheritInv, mutexVars
<1>2. UseInv'
  BY UseKept DEF InheritInv, mutexVars, Wakes
<1>3. \A t \in Task : pc[t] # "disinherit" => pc'[t] # "disinherit"
  BY MutexFacts
<1>4. AloneInv'
  <2>1. /\ k'.cur = k.cur /\ k'.base = k.base /\ k'.prio = k.prio /\ holder' = holder
        /\ call' = call
        /\ \A m \in Object : \A t \in k'.waiting[m] : t \in k.waiting[m]
        /\ \A e \in k'.before : e \in k.before
    BY DEF Wakes, mutexVars
  <2>2. QED
    BY <1>1, <1>2, <1>3, <2>1, AloneKept DEF InheritInv
<1>5. QED
  BY <1>1, <1>2, <1>4 DEF InheritInv

(* ... without leaving a list, ... *)
LEMMA QuietWakes ==
  ASSUME MutexAssumption, MutexInv, InheritInv, MutexInv', UNCHANGED mutexVars,
         Wakes(k', k, {}), NEW p, pc' = [pc EXCEPT ![k.cur] = p],
         p = "disinherit" => pc[k.cur] = p,
         pc[k.cur] = "aborted" =>
           (p = "aborted" /\ arg' = arg) \/ arg[k.cur] \in ReadyTasks(k'),
         p \in {"block", "catchup_block", "yield"} \/ k.cur \in ReadyTasks(k'),
         p \in {"abort", "aborted"} => arg'[k.cur] # k.cur
  PROVE  InheritInv'
<1> DEFINE G == {}
<1>1. Wakes(k', k, G) /\ \A t \in G : FALSE
  OBVIOUS
<1> HIDE DEF G
<1>2. QED
  BY <1>1, QuietInherits

(* ... or gives way at place p. *)
LEMMA SwitchInherits ==
  ASSUME MutexAssumption, MutexInv, InheritInv, MutexInv', UNCHANGED mutexVars,
         NEW m, Wakes(m, k, {}), m.depth = 0, k' \in SwitchContext(m),
         NEW p, p \notin Sections, p # "disinherit" \/ pc[k.cur] = p,
         pc[k.cur] # "aborted", pc' = [pc EXCEPT ![k.cur] = p]
  PROVE  InheritInv'
<1>1. /\ m \in KType /\ m.cur = k.cur /\ m.prio = k.prio /\ m.base = k.base
      /\ m.key = k.key /\ ReadyFits(m)
      /\ \A o \in Object : \A t \in m.waiting[o] : t \in k.waiting[o]
      /\ \A e \in m.before : e \in k.before
  BY DEF Wakes, InheritInv, ReadyInv
<1>2. KeysFit(m)
  BY <1>1 DEF KeysFit, InheritInv, ReadyInv
<1>3. call' = call /\ holder' = holder /\ left' = left
  BY DEF mutexVars
<1>4. \A t \in Task : call'[t] # Nobody => t \in Waiters(m) \/ t \in ReadyTasks(m)
  BY <1>3 DEF Wakes, InheritInv, ReadyInv
<1>5. /\ ReadyInv' /\ k'.prio = m.prio /\ k'.base = m.base
      /\ k'.waiting = m.waiting /\ k'.before = m.before
      /\ \A t \in ReadyTasks(k') : k'.prio[t] <= k'.prio[k'.cur]
  BY <1>1, <1>2, <1>4, SwitchReady
<1>6. UseInv'
  BY <1>1, <1>3, <1>5, UseKept DEF InheritInv
<1>7. \A t \in Task : pc[t] # "disinherit" => pc'[t] # "disinherit"
  BY MutexFacts
<1>8. k'.depth = 0
  BY <1>1, SwitchContextWaits
<1>9. AloneInv'
  BY <1>1, <1>3, <1>5, <1>6, <1>7, <1>8, AloneKept DEF InheritInv
<1>10. QED
  BY <1>5, <1>6, <1>9 DEF InheritInv


-----------------------------------------------------------------------------
(* Steps of the kernel, which leave the mutexes alone.                     *)

LEMMA SuspendAllWakes ==
  ASSUME NEW s \in KType
  PROVE  LET r == SuspendAll(s)
         IN  Wakes(r, s, {}) /\ r.tick = s.tick /\ r.ready = s.ready
<1> DEFINE r == SuspendAll(s)
<1>1. r = [s EXCEPT !.depth = s.depth + 1] /\ s.depth + 1 \in Nat
  BY DEF SuspendAll, KType
<1> HIDE DEF r
<1>2. /\ r \in KType /\ r.cur = s.cur /\ r.prio = s.prio /\ r.base = s.base
      /\ r.key = s.key /\ r.waiting = s.waiting /\ r.before = s.before
      /\ r.ready = s.ready /\ r.top = s.top /\ r.tick = s.tick
  BY <1>1 DEF KType
<1>3. QED
  BY <1>2, SameWakes DEF r

LEMMA UnlockSchedulerInherits ==
  ASSUME MutexAssumption, MutexInv, InheritInv, MutexInv', UnlockScheduler,
         UNCHANGED mutexVars
  PROVE  InheritInv'
<1> DEFINE p == IF At("unlock") THEN "catchup" ELSE "catchup_block"
<1>1. /\ pc[k.cur] = IF p = "catchup" THEN "unlock" ELSE "block"
      /\ pc' = [pc EXCEPT ![k.cur] = p] /\ k' = DrainPending(k)
      /\ p \in {"catchup", "catchup_block"}
  BY DEF UnlockScheduler, Unlock, At, Goto
<1>2. k.depth = 1 /\ k \in KType
  BY <1>1, MutexFacts DEF Suspending
<1>3. Wakes(k', k, {})
  BY <1>1, <1>2, DrainPendingWakes
<1> HIDE DEF p
<1>4. p = "catchup" => k.cur \in ReadyTasks(k')
  BY <1>1, <1>3 DEF InheritInv, ReadyInv, Wakes
<1>5. p # "disinherit" /\ p \notin {"abort", "aborted"} /\ pc[k.cur] # "aborted"
  BY <1>1
<1>6. p \in {"block", "catchup_block", "yield"} \/ k.cur \in ReadyTasks(k')
  BY <1>1, <1>4
<1>7. QED
  BY <1>1, <1>3, <1>5, <1>6, QuietWakes

LEMMA CatchUpInherits ==
  ASSUME MutexAssumption, MutexInv, InheritInv, MutexInv', CatchUp, UNCHANGED mutexVars
  PROVE  InheritInv'
<1>1. /\ pc[k.cur] \in {"catchup", "catchup_block"} /\ k.pended > 0
      /\ k' = CatchUpTick(k) /\ pc' = pc
  BY DEF CatchUp, Masked
<1>2. Wakes(k', k, {}) /\ pc' = [pc EXCEPT ![k.cur] = pc[k.cur]]
  BY <1>1, MutexFacts, CatchUpTickWakes
<1>3. pc[k.cur] \in {"block", "catchup_block", "yield"} \/ k.cur \in ReadyTasks(k')
  BY <1>1, <1>2 DEF InheritInv, ReadyInv, Wakes
<1>4. QED
  BY <1>1, <1>2, <1>3, QuietWakes

LEMMA UnlockedInherits ==
  ASSUME MutexAssumption, MutexInv, InheritInv, MutexInv', Unlocked, UNCHANGED mutexVars
  PROVE  InheritInv'
<1> DEFINE p == IF At("catchup") \/ k.yieldPending THEN after[k.cur] ELSE "yield"
<1>1. /\ pc[k.cur] \in {"catchup", "catchup_block"} /\ k' \in YieldIf(k.yieldPending, k)
      /\ pc' = [pc EXCEPT ![k.cur] = p]
      /\ ~k.yieldPending => p = "yield" \/ pc[k.cur] = "catchup"
  BY DEF Unlocked, Masked, Goto, At
<1>2. k.depth = 0 /\ p \in {"run", "try", "expired", "yield"}
  BY <1>1, MutexFacts DEF Suspending
<1>3. Wakes(k, k, {})
  BY MutexFacts, SameWakes
<1>4. p \notin Sections /\ p # "disinherit" /\ p \notin {"abort", "aborted"}
  BY <1>2 DEF Sections, Suspending
<1> HIDE DEF p
<1>5. CASE k.yieldPending
  <2>1. k' \in SwitchContext(k)
    BY <1>1, <1>5 DEF YieldIf
  <2>2. QED
    BY <1>1, <1>2, <1>3, <1>4, <2>1, SwitchInherits
<1>6. CASE ~k.yieldPending
  <2>1. k' = k
    BY <1>1, <1>6 DEF YieldIf
  <2>2. p = "yield" \/ k.cur \in ReadyTasks(k')
    BY <1>1, <1>6, <2>1 DEF InheritInv, ReadyInv
  <2>3. QED
    BY <1>1, <1>3, <1>4, <2>1, <2>2, QuietWakes
<1>7. QED
  BY <1>5, <1>6

LEMMA YieldInherits ==
  ASSUME MutexAssumption, MutexInv, InheritInv, MutexInv', Yield \/ IdleYield,
         UNCHANGED mutexVars
  PROVE  InheritInv'
<1> DEFINE p == IF At("yield") THEN after[k.cur] ELSE "run"
<1>1. /\ pc[k.cur] \in {"yield", "run"} /\ k' \in SwitchContext(k)
      /\ pc' = [pc EXCEPT ![k.cur] = p]
  BY MutexFacts DEF Yield, IdleYield, At, Goto
<1>2. k.depth = 0 /\ p \in {"run", "try", "expired"} /\ Wakes(k, k, {})
  BY <1>1, MutexFacts, SameWakes DEF Suspending
<1>3. p \notin Sections /\ p # "disinherit"
  BY <1>2 DEF Sections, Suspending
<1> HIDE DEF p
<1>4. QED
  BY <1>1, <1>2, <1>3, SwitchInherits

LEMMA TickInterruptInherits ==
  ASSUME MutexAssumption, MutexInv, InheritInv, MutexInv', TickInterrupt,
         UNCHANGED mutexVars
  PROVE  InheritInv'
<1> DEFINE p == pc[k.cur]
<1>1. /\ p \notin {"catchup", "catchup_block"} /\ pc' = pc /\ arg' = arg
      /\ pc' = [pc EXCEPT ![k.cur] = p]
  BY MutexFacts DEF TickInterrupt, Masked
<1>2. ASSUME Wakes(k', k, {})
      PROVE  InheritInv'
  <2>1. p \in {"block", "catchup_block", "yield"} \/ k.cur \in ReadyTasks(k')
    BY <1>2 DEF InheritInv, ReadyInv, Wakes
  <2>2. p \in {"abort", "aborted"} => arg[k.cur] # k.cur
    BY DEF InheritInv, ReadyInv
  <2>3. p = "disinherit" => pc[k.cur] = p
    OBVIOUS
  <2>4. pc[k.cur] = "aborted" => p = "aborted"
    OBVIOUS
  <2> HIDE DEF p
  <2>5. QED
    BY <1>1, <1>2, <2>1, <2>2, <2>3, <2>4, QuietWakes
<1>3. CASE k.depth > 0 /\ k' = [k EXCEPT !.pended = k.pended + 1]
  <2>1. k.pended + 1 \in Nat
    BY MutexFacts DEF KType
  <2>2. /\ k' \in KType /\ k'.cur = k.cur /\ k'.waiting = k.waiting
        /\ k'.ready = k.ready /\ k'.before = k.before /\ k'.top = k.top
        /\ k'.prio = k.prio /\ k'.base = k.base /\ k'.key = k.key
    BY <1>3, <2>1, MutexFacts DEF KType
  <2>3. QED
    BY <1>2, <2>2, SameWakes
<1>4. CASE k.depth = 0 /\ k' \in YieldIf(TickWantsSwitch(k), IncrementTick(k))
  <2> DEFINE m == IncrementTick(k)
  <2>1. Wakes(m, k, {}) /\ m.depth = 0
    BY <1>4, MutexFacts, IncrementTickWakes, IncrementTickControl DEF Ticked
  <2>2. p \notin Sections /\ p # "aborted"
    BY <1>1, <1>4, MutexFacts DEF Sections, Suspending
  <2>3. p # "disinherit" \/ pc[k.cur] = p
    OBVIOUS
  <2> HIDE DEF m
  <2>4. CASE k' \in SwitchContext(m)
    <3>1. pc[k.cur] # "aborted"
      BY <2>2
    <3> HIDE DEF p
    <3>2. QED
      BY <1>1, <2>1, <2>2, <2>3, <2>4, <3>1, SwitchInherits
  <2>5. CASE k' = m
    BY <1>2, <2>1, <2>5
  <2>6. QED
    BY <1>4, <2>4, <2>5 DEF YieldIf, m
<1>5. QED
  BY <1>3, <1>4 DEF TickInterrupt

LEMMA AbortDelayInherits ==
  ASSUME MutexAssumption, MutexInv, InheritInv, MutexInv', NEW t \in Task, AbortDelay(t),
         UNCHANGED mutexVars
  PROVE  InheritInv'
<1> DEFINE p == IF IsBlocked(t) THEN "abort" ELSE "unlock"
<1>1. /\ pc[k.cur] = "run" /\ k' = SuspendAll(k) /\ pc' = [pc EXCEPT ![k.cur] = p]
      /\ arg' = [arg EXCEPT ![k.cur] = IF IsBlocked(t) THEN t ELSE k.cur]
  BY DEF AbortDelay, Running, At, Goto
<1>2. p = "abort" => arg'[k.cur] # k.cur
  BY <1>1, MutexFacts DEF IsBlocked
<1>3. p \in {"abort", "unlock"}
  OBVIOUS
<1> HIDE DEF p
<1>4. Wakes(k', k, {})
  BY <1>1, MutexFacts, SuspendAllWakes
<1>5. k.cur \in ReadyTasks(k')
  BY <1>1, <1>4 DEF InheritInv, ReadyInv, Wakes
<1>6. QED
  BY <1>1, <1>2, <1>3, <1>4, <1>5, QuietWakes

LEMMA AbortBlockedInherits ==
  ASSUME MutexAssumption, MutexInv, InheritInv, MutexInv', AbortBlocked,
         UNCHANGED mutexVars
  PROVE  InheritInv'
<1> DEFINE t == arg[k.cur]
           off == OffEventLists(OffStateList(k, t), {t})
<1>1. /\ pc[k.cur] = "abort" /\ pc' = [pc EXCEPT ![k.cur] = "aborted"] /\ arg' = arg
      /\ \/ k' = [off EXCEPT !.aborted = off.aborted \cup {t}]
         \/ k' = off
  BY DEF AbortBlocked, At, Goto
<1>2. t \in Task /\ t # k.cur /\ k.cur \in Task
  BY <1>1, MutexFacts DEF InheritInv, ReadyInv
<1>3. Wakes(off, k, {t})
  BY <1>2, MutexFacts, OffBothWakes
<1> HIDE DEF off
<1>4. off \in KType /\ off.aborted \cup {t} \in SUBSET Task
  BY <1>2, <1>3 DEF Wakes, KType
<1> HIDE DEF t
<1>5. /\ k' \in KType /\ k'.cur = off.cur /\ k'.waiting = off.waiting
      /\ k'.ready = off.ready /\ k'.before = off.before /\ k'.top = off.top
      /\ k'.prio = off.prio /\ k'.base = off.base /\ k'.key = off.key
  BY <1>1, <1>4 DEF KType
<1>6. Wakes(k', off, {t})
  BY <1>5, SameWakes
<1>7. Wakes(k', k, {t})
  BY <1>3, <1>6, WakesTransitive
<1>8. k.cur \in ReadyTasks(k')
  BY <1>1, <1>2, <1>7 DEF InheritInv, ReadyInv, Wakes
<1>9. arg'[k.cur] = t
  BY <1>1 DEF t
<1>10. QED
  BY <1>1, <1>2, <1>7, <1>8, <1>9, QuietInherits

LEMMA AbortReadyInherits ==
  ASSUME MutexAssumption, MutexInv, InheritInv, MutexInv', AbortReady,
         UNCHANGED mutexVars
  PROVE  InheritInv'
<1> DEFINE t == arg[k.cur]
           r == AddToReadyList(k, t)
           y == Preempts(k, {t})
<1>1. /\ pc[k.cur] = "aborted" /\ pc' = [pc EXCEPT ![k.cur] = "unlock"]
      /\ k' = [r EXCEPT !.yieldPending = r.yieldPending \/ y]
  BY DEF AbortReady, At, Goto
<1>2. t \in Task /\ y \in BOOLEAN
  BY MutexFacts DEF Preempts
<1>3. Wakes(r, k, {}) /\ t \in ReadyTasks(r)
  BY <1>2, MutexFacts, AddToReadyListWakes
<1> HIDE DEF r, y
<1>4. r \in KType /\ (r.yieldPending \/ y) \in BOOLEAN
  BY <1>2, <1>3 DEF Wakes, KType
<1> HIDE DEF t
<1>5. /\ k' \in KType /\ k'.cur = r.cur /\ k'.waiting = r.waiting
      /\ k'.ready = r.ready /\ k'.before = r.before /\ k'.top = r.top
      /\ k'.prio = r.prio /\ k'.base = r.base /\ k'.key = r.key
  BY <1>1, <1>4 DEF KType
<1>6. Wakes(k', r, {}) /\ ReadyTasks(k') = ReadyTasks(r)
  BY <1>5, SameWakes DEF ReadyTasks
<1>7. Wakes(k', k, {})
  BY <1>3, <1>6, WakesTransitive
<1>8. k.cur \in ReadyTasks(k') /\ arg[k.cur] \in ReadyTasks(k')
  BY <1>1, <1>3, <1>6, <1>7 DEF InheritInv, ReadyInv, Wakes, t
<1>9. QED
  BY <1>1, <1>7, <1>8, QuietWakes

LEMMA DelayInherits ==
  ASSUME MutexAssumption, MutexInv, InheritInv, MutexInv', NEW n \in Tick, Delay(n),
         UNCHANGED mutexVars
  PROVE  InheritInv'
<1> DEFINE s == SuspendAll(k)
<1>1. /\ pc[k.cur] = "run" /\ k' = AddCurrentToDelayedList(s, n, FALSE)
      /\ pc' = [pc EXCEPT ![k.cur] = "block"]
  BY DEF Delay, Running, At, Goto
<1>2. Wakes(s, k, {}) /\ s.ready = k.ready
  BY MutexFacts, SuspendAllWakes
<1> HIDE DEF s
<1>3. s \in KType /\ s.cur = k.cur /\ k.cur \in ReadyTasks(s)
  BY <1>1, <1>2 DEF Wakes, InheritInv, ReadyInv
<1>4. Wakes(k', s, {k.cur})
  BY <1>1, <1>3, AddCurrentWakes
<1>5. Wakes(s, k, {k.cur})
  BY <1>2, MoreMayLeave
<1>6. Wakes(k', k, {k.cur})
  BY <1>4, <1>5, WakesTransitive
<1>7. call[k.cur] = Nobody
  BY <1>1, RunningFacts, MutexFacts DEF MutexInv, MutexTypes, InCall, Taking
<1>8. QED
  BY <1>1, <1>6, <1>7, QuietInherits


-----------------------------------------------------------------------------
(* The steps of a call that neither place a task on a list nor change a    *)
(* priority or a holder.                                                   *)

LEMMA CallInherits ==
  ASSUME MutexAssumption, MutexInv, InheritInv, MutexInv', UseInv',
         Wakes(k', k, {}), holder' = holder,
         pc[k.cur] \in Taking \cup {"run"},
         NEW p \in {"run", "try", "enter", "disinherit", "unlock"},
         pc' = [pc EXCEPT ![k.cur] = p],
         \A t \in Task \ {k.cur} : call'[t] = call[t],
         call[k.cur] \in Object /\ holder[call[k.cur]] = Nobody =>
           \/ pc[k.cur] = "disinherit"
           \/ p # "disinherit" /\ call'[k.cur] = call[k.cur]
  PROVE  InheritInv'
<1> DEFINE G == {}
<1>1. /\ k'.cur = k.cur /\ k'.base = k.base /\ k'.prio = k.prio
      /\ \A m \in Object : \A t \in k'.waiting[m] : t \in k.waiting[m]
      /\ \A e \in k'.before : e \in k.before
  BY DEF Wakes
<1>2. k.cur \in ReadyTasks(k')
  <2>1. pc[k.cur] \notin {"block", "catchup_block", "yield"}
    BY DEF Taking
  <2>2. QED
    BY <2>1 DEF InheritInv, ReadyInv, Wakes
<1>3. pc[k.cur] # "aborted" /\ p \notin {"abort", "aborted"}
  BY DEF Taking
<1>4. \A t \in Task : call'[t] # Nobody => call[t] # Nobody \/ t \in ReadyTasks(k')
  BY <1>2
<1>5. Wakes(k', k, G) /\ \A t \in G : FALSE
  OBVIOUS
<1> HIDE DEF G
<1>6. ReadyInv'
  BY <1>2, <1>3, <1>4, <1>5, ReadyKept DEF InheritInv
<1>7. ASSUME NEW t \in Task, NEW m \in Object,
             holder[m] = Nobody, call[t] = m, pc[t] # "disinherit"
      PROVE  call'[t] = m /\ pc'[t] # "disinherit"
  BY <1>7, MutexFacts
<1>8. AloneInv'
  BY <1>1, <1>6, <1>7, AloneKept DEF InheritInv
<1>9. QED
  BY <1>6, <1>8 DEF InheritInv

LEMMA TakeInherits ==
  ASSUME MutexAssumption, MutexInv, InheritInv, MutexInv',
         NEW u \in Uses[k.cur], Take(u[1], u[2])
  PROVE  InheritInv'
<1>1. /\ pc[k.cur] = "run" /\ pc' = [pc EXCEPT ![k.cur] = "try"]
      /\ call' = [call EXCEPT ![k.cur] = u[1]] /\ left' = [left EXCEPT ![k.cur] = u[2]]
      /\ holder[u[1]] # k.cur /\ k' = k /\ holder' = holder
  BY DEF Take, Calling, Running, At, Goto, me
<1>2. /\ call \in [Task -> Object \cup {Nobody}] /\ left \in [Task -> Tick]
      /\ k.cur \in Task /\ call[k.cur] = Nobody /\ Nobody \notin Object
  BY <1>1, RunningFacts, MutexFacts
     DEF MutexInv, MutexTypes, InCall, Taking, MutexAssumption
<1>3. Wakes(k', k, {})
  BY <1>1, MutexFacts, SameWakes
<1>4. /\ call'[k.cur] = u[1] /\ left'[k.cur] = u[2]
      /\ \A t \in Task \ {k.cur} : call'[t] = call[t] /\ left'[t] = left[t]
  BY <1>1, <1>2
<1>5. UseInv'
  <2>1. ASSUME NEW t \in Task, NEW m \in Object, call'[t] = m
        PROVE  /\ holder'[m] # t
               /\ \E v \in Uses[t] : v[1] = m /\ (left'[t] # 0 => v[2] # 0)
    <3>1. CASE t = k.cur
      BY <1>1, <1>4, <2>1, <3>1
    <3>2. CASE t # k.cur
      BY <1>1, <1>4, <2>1, <3>2 DEF InheritInv, UseInv
    <3>3. QED
      BY <3>1, <3>2
  <2>2. \A t \in Task, m \in Object :
          /\ holder'[m] = t => UsesIt(t, m)
          /\ t \in k'.waiting[m] => WaitsFor(t, m)
    BY <1>1 DEF InheritInv, UseInv
  <2>3. QED
    BY <2>1, <2>2 DEF UseInv, UsesIt, WaitsFor
<1>6. QED
  BY <1>1, <1>2, <1>3, <1>4, <1>5, CallInherits

(* The caller returns, and is not the one that was to take the mutex. *)
LEMMA LeaveInherits ==
  ASSUME MutexAssumption, MutexInv, InheritInv, MutexInv', pc[k.cur] \in Taking, Leave,
         k' = k, holder' = holder,
         holder[call[k.cur]] # Nobody \/ pc[k.cur] = "disinherit"
  PROVE  InheritInv'
<1>1. /\ call' = [call EXCEPT ![k.cur] = Nobody] /\ left' = [left EXCEPT ![k.cur] = 0]
      /\ pc' = [pc EXCEPT ![k.cur] = "run"]
  BY DEF Leave, me
<1>2. /\ call \in [Task -> Object \cup {Nobody}] /\ left \in [Task -> Tick]
      /\ k.cur \in Task /\ Nobody \notin Object
  BY MutexFacts DEF MutexInv, MutexTypes, MutexAssumption
<1>3. /\ call'[k.cur] = Nobody
      /\ \A t \in Task \ {k.cur} : call'[t] = call[t] /\ left'[t] = left[t]
  BY <1>1, <1>2
<1>4. UseInv'
  <2>1. \A t \in Task, m \in Object : call'[t] = m =>
          call[t] = m /\ (left'[t] # 0 => left[t] # 0)
    BY <1>2, <1>3
  <2>2. QED
    BY <2>1, UseKept DEF InheritInv
<1>5. Wakes(k', k, {})
  BY MutexFacts, SameWakes
<1>6. QED
  BY <1>1, <1>3, <1>4, <1>5, CallInherits

(* The call goes on. *)
LEMMA TryingInherits ==
  ASSUME MutexAssumption, MutexInv, InheritInv, MutexInv', pc[k.cur] \in Taking,
         Wakes(k', k, {}), holder' = holder, call' = call,
         NEW p \in {"try", "enter", "disinherit", "unlock"},
         pc' = [pc EXCEPT ![k.cur] = p],
         p = "disinherit" => holder[call[k.cur]] # Nobody,
         \A t \in Task : left'[t] # 0 => left[t] # 0
  PROVE  InheritInv'
<1>1. UseInv'
  BY UseKept DEF InheritInv, Wakes
<1>2. QED
  BY <1>1, CallInherits

LEMMA EnterInherits ==
  ASSUME MutexAssumption, MutexInv, InheritInv, MutexInv', Enter
  PROVE  InheritInv'
<1>1. /\ pc[k.cur] = "try" /\ pc' = [pc EXCEPT ![k.cur] = "enter"]
      /\ UNCHANGED <<k, holder, call, left>>
  BY DEF Enter, At, Goto
<1>2. Wakes(k', k, {}) /\ pc[k.cur] \in Taking
  BY <1>1, MutexFacts, SameWakes DEF Taking
<1>3. QED
  BY <1>1, <1>2, TryingInherits

LEMMA RunsOutInherits ==
  ASSUME MutexAssumption, MutexInv, InheritInv, MutexInv', RunsOut
  PROVE  InheritInv'
<1> DEFINE s == SuspendAll(k)
           A == s.aborted \ {k.cur}
<1>1. /\ pc[k.cur] = "enter" /\ pc' = [pc EXCEPT ![k.cur] = "unlock"]
      /\ left' = IF k.cur \in k.aborted THEN left ELSE [left EXCEPT ![k.cur] = 0]
      /\ UNCHANGED <<holder, call>> /\ k' = [s EXCEPT !.aborted = A]
  BY DEF RunsOut, At, Goto, me
<1>2. Wakes(s, k, {}) /\ pc[k.cur] \in Taking
  BY <1>1, MutexFacts, SuspendAllWakes DEF Taking
<1> HIDE DEF s
<1>3. s \in KType /\ A \in SUBSET Task
  BY <1>2 DEF Wakes, KType
<1> HIDE DEF A
<1>4. /\ k' \in KType /\ k'.cur = s.cur /\ k'.waiting = s.waiting
      /\ k'.ready = s.ready /\ k'.before = s.before /\ k'.top = s.top
      /\ k'.prio = s.prio /\ k'.base = s.base /\ k'.key = s.key
  BY <1>1, <1>3 DEF KType
<1>5. Wakes(k', s, {})
  BY <1>4, SameWakes
<1>6. Wakes(k', k, {})
  BY <1>2, <1>5, WakesTransitive
<1>7. \A t \in Task : left'[t] # 0 => left[t] # 0
  BY <1>1 DEF MutexInv, MutexTypes
<1>8. QED
  BY <1>1, <1>2, <1>6, <1>7, TryingInherits

(* A call that has not timed out has time left. *)
LEMMA TimeLeft ==
  ASSUME MutexInv, ~TimedOut
  PROVE  left[k.cur] # 0
<1>1. /\ left[k.cur] \in Tick /\ entry[k.cur].at \in Tick /\ k.tick \in Tick
  BY MutexFacts DEF MutexInv, MutexTypes, TimeOutType, KType
<1>2. (k.tick + TickMod - entry[k.cur].at) % TickMod \in Nat
  BY <1>1, KernelAssumption DEF Tick
<1>3. MaxDelay # 0
  BY KernelAssumption DEF MaxDelay
<1>4. QED
  BY <1>2, <1>3 DEF TimedOut, Elapsed, me

LEMMA TicksGoneLeft ==
  ASSUME MutexInv, ~TimedOut, TicksGone
  PROVE  \A t \in Task : left'[t] # 0 => left[t] # 0
<1>1. left \in [Task -> Tick] /\ left[k.cur] # 0
  BY TimeLeft DEF MutexInv, MutexTypes
<1>2. \A t \in Task \ {k.cur} : left'[t] = left[t]
  BY <1>1 DEF TicksGone, me
<1>3. QED
  BY <1>1, <1>2

LEMMA TryAgainInherits ==
  ASSUME MutexAssumption, MutexInv, InheritInv, MutexInv', TryAgain
  PROVE  InheritInv'
<1>1. /\ pc[k.cur] = "enter" /\ pc' = [pc EXCEPT ![k.cur] = "unlock"]
      /\ UNCHANGED <<holder, call>> /\ k' = SuspendAll(k)
  BY DEF TryAgain, At, Goto, me
<1>2. Wakes(k', k, {}) /\ pc[k.cur] \in Taking
  BY <1>1, MutexFacts, SuspendAllWakes DEF Taking
<1>3. \A t \in Task : left'[t] # 0 => left[t] # 0
  BY TicksGoneLeft DEF TryAgain
<1>4. QED
  BY <1>1, <1>2, <1>3, TryingInherits

LEMMA ExpiredInherits ==
  ASSUME MutexAssumption, MutexInv, InheritInv, MutexInv', Expired
  PROVE  InheritInv'
<1>1. pc[k.cur] = "expired" /\ k' = k /\ holder' = holder
  BY DEF Expired, At
<1>2. pc[k.cur] \in Taking /\ Wakes(k', k, {})
  BY <1>1, MutexFacts, SameWakes DEF Taking
<1>3. CASE holder[call[k.cur]] # Nobody /\ Leave
  BY <1>1, <1>2, <1>3, LeaveInherits
<1>4. CASE ~(holder[call[k.cur]] # Nobody /\ Leave)
  <2> DEFINE p == IF holder[call[k.cur]] = Nobody THEN "try" ELSE "disinherit"
  <2>1. pc' = [pc EXCEPT ![k.cur] = p] /\ call' = call /\ left' = left
    BY <1>4 DEF Expired, Goto, me
  <2>2. /\ p \in {"try", "enter", "disinherit", "unlock"}
        /\ p = "disinherit" => holder[call[k.cur]] # Nobody
    OBVIOUS
  <2> HIDE DEF p
  <2>3. QED
    BY <1>1, <1>2, <2>1, <2>2, TryingInherits
<1>5. QED
  BY <1>3, <1>4

LEMMA GiveUpInherits ==
  ASSUME MutexAssumption, MutexInv, InheritInv, MutexInv', GiveUp
  PROVE  InheritInv'
<1>1. /\ pc[k.cur] = "try" /\ k' = k /\ holder' = holder /\ Leave
      /\ holder[call[k.cur]] # Nobody
  BY DEF GiveUp, At, me
<1>2. pc[k.cur] \in Taking
  BY <1>1 DEF Taking
<1>3. QED
  BY <1>1, <1>2, LeaveInherits

LEMMA NestingInherits ==
  ASSUME MutexAssumption, MutexInv, InheritInv, NEW m \in Object,
         TakeAgain(m) \/ GiveNested(m)
  PROVE  InheritInv'
<1>1. UNCHANGED <<k, pc, arg, holder, call, left>>
  BY DEF TakeAgain, GiveNested, kernelVars
<1>2. QED
  BY <1>1 DEF InheritInv, ReadyInv, UseInv, UsesIt, WaitsFor, AloneInv, InheritedFor,
              OnItsWay


-----------------------------------------------------------------------------
(* The mutex is taken.                                                     *)

LEMMA ObtainInherits ==
  ASSUME MutexAssumption, MutexInv, InheritInv, MutexInv', Obtain
  PROVE  InheritInv'
<1> DEFINE m == call[k.cur]
<1>1. /\ pc[k.cur] = "try" /\ k' = k /\ holder[m] = Nobody
      /\ holder' = [holder EXCEPT ![m] = k.cur]
      /\ call' = [call EXCEPT ![k.cur] = Nobody] /\ left' = [left EXCEPT ![k.cur] = 0]
      /\ pc' = [pc EXCEPT ![k.cur] = "run"]
  BY DEF Obtain, Leave, At, me
<1>2. pc[k.cur] \in Taking
  BY <1>1 DEF Taking
<1>3. /\ call \in [Task -> Object \cup {Nobody}] /\ left \in [Task -> Tick]
      /\ holder \in [Object -> Task \cup {Nobody}]
      /\ k.cur \in Task /\ m \in Object /\ Nobody \notin Object /\ Nobody \notin Task
  BY <1>2, TakingFacts, MutexFacts DEF MutexInv, MutexTypes, MutexAssumption
<1>4. /\ call'[k.cur] = Nobody
      /\ \A t \in Task \ {k.cur} : call'[t] = call[t] /\ left'[t] = left[t]
      /\ holder'[m] = k.cur /\ \A o \in Object \ {m} : holder'[o] = holder[o]
  BY <1>1, <1>3
<1>5. Wakes(k', k, {}) /\ k.cur \in ReadyTasks(k')
  BY <1>1, MutexFacts, SameWakes DEF InheritInv, ReadyInv
<1>6. ReadyInv'
  <2> DEFINE G == {}
  <2>1. Wakes(k', k, G) /\ \A t \in G : FALSE
    BY <1>5
  <2> HIDE DEF G
  <2>2. \A t \in Task : call'[t] # Nobody => call[t] # Nobody
    BY <1>4
  <2>3. QED
    BY <1>1, <1>5, <2>1, <2>2, ReadyKept DEF InheritInv
<1> HIDE DEF m
<1>7. UsesIt(k.cur, m)
  BY <1>3 DEF InheritInv, UseInv, UsesIt, m
<1>8. UseInv'
  <2>1. ASSUME NEW t \in Task, NEW o \in Object, call'[t] = o
        PROVE  /\ holder'[o] # t
               /\ \E v \in Uses[t] : v[1] = o /\ (left'[t] # 0 => v[2] # 0)
    <3>1. t # k.cur /\ call[t] = o /\ left'[t] = left[t]
      BY <1>3, <1>4, <2>1
    <3>2. QED
      BY <1>4, <3>1 DEF InheritInv, UseInv
  <2>2. \A t \in Task, o \in Object : holder'[o] = t => UsesIt(t, o)
    BY <1>4, <1>7 DEF InheritInv, UseInv
  <2>3. \A t \in Task, o \in Object : t \in k'.waiting[o] => WaitsFor(t, o)
    BY <1>1 DEF InheritInv, UseInv
  <2>4. QED
    BY <2>1, <2>2, <2>3 DEF UseInv, UsesIt, WaitsFor
<1>9. ASSUME NEW o \in Object, TakenAlone(o)
      PROVE  InheritedFor(o)'
  <2>1. InheritedFor(o)
    BY <1>9 DEF InheritInv, AloneInv
  <2>2. CASE o = m
    <3>1. Bounded(k', m, k'.prio[k.cur])
      BY <1>1, <1>7, <2>1, <2>2 DEF InheritedFor, m
    <3>2. SortedByBase(k', m)
      BY <1>1, <2>1, <2>2 DEF InheritedFor
    <3>3. QED
      BY <1>3, <1>4, <2>2, <3>1, <3>2 DEF InheritedFor
  <2>3. CASE o # m
    <3>1. holder'[o] = holder[o]
      BY <1>4, <2>3
    <3>2. ASSUME NEW t \in Task, OnItsWay(t, o)
          PROVE  OnItsWay(t, o)'
      <4>1. t # k.cur
        BY <2>3, <3>2 DEF OnItsWay, m
      <4>2. QED
        BY <1>1, <1>4, <3>2, <4>1 DEF OnItsWay, WaitsFor
    <3>3. holder'[o] = Nobody /\ k'.waiting[o] # {} =>
            \E t \in Task : OnItsWay(t, o)' /\ Bounded(k', o, k'.base[t])
      BY <1>1, <2>1, <3>1, <3>2 DEF InheritedFor
    <3>4. QED
      BY <1>1, <2>1, <3>1, <3>3 DEF InheritedFor, UsesIt
  <2>4. QED
    BY <2>2, <2>3
<1>10. AloneInv'
  BY <1>9 DEF AloneInv, TakenAlone, Contended
<1>11. QED
  BY <1>6, <1>8, <1>10 DEF InheritInv

-----------------------------------------------------------------------------
(* The head of the list has the highest priority.                          *)

LEMMA FirstBounds ==
  ASSUME NEW s \in KType, EventListsOrdered(s), NEW o \in Object,
         NEW t \in FirstWaiters(s, o, 1), SortedByBase(s, o)
  PROVE  t \in s.waiting[o] /\ Bounded(s, o, s.base[t])
<1> DEFINE B == {u \in s.waiting[o] : <<u, t>> \in s.before}
<1>1. t \in s.waiting[o] /\ Cardinality(B) < 1
  BY DEF FirstWaiters
<1>2. s.waiting[o] \subseteq Task /\ IsFiniteSet(Task) /\ s.base \in [Task -> Prio]
  BY KernelAssumption DEF KType
<1>3. IsFiniteSet(B)
  BY <1>2, FS_Subset
<1>4. B = {}
  <2> HIDE DEF B
  <2>1. Cardinality(B) \in Nat /\ (Cardinality(B) = 0 <=> B = {})
    BY <1>3, FS_CardinalityType, FS_EmptySet
  <2>2. QED
    BY <1>1, <2>1
<1>5. \A u \in s.waiting[o] : <<u, t>> \notin s.before
  BY <1>4
<1>6. \A u \in s.waiting[o] : u # t => <<t, u>> \in s.before
  BY <1>1, <1>5 DEF EventListsOrdered
<1>7. s.base[t] \in Nat
  BY <1>1, <1>2 DEF Prio
<1>8. \A u \in s.waiting[o] : s.base[u] <= s.base[t]
  <2>1. ASSUME NEW u \in s.waiting[o]
        PROVE  s.base[u] <= s.base[t]
    <3>1. CASE u = t
      BY <1>7, <3>1
    <3>2. CASE u # t
      BY <1>1, <1>6, <3>2 DEF SortedByBase
    <3>3. QED
      BY <3>1, <3>2
  <2>2. QED
    BY <2>1
<1>9. QED
  BY <1>1, <1>8 DEF Bounded

(* The key of a waiter is that of its own priority. *)
LEMMA WaiterKeys ==
  ASSUME MutexInv, InheritInv, NEW m \in Object, TakenAlone(m), NEW w \in k.waiting[m]
  PROVE  /\ w \in Task /\ holder[m] # w /\ k.key[w] = MaxPrio - k.base[w]
         /\ k.base[w] \in Prio
<1>1. w \in Task /\ call[w] = m
  BY MutexFacts DEF MutexInv, MutexWaits
<1>2. holder[m] # w /\ WaitsFor(w, m)
  BY <1>1 DEF InheritInv, UseInv
<1>3. k.prio[w] = k.base[w]
  BY <1>1, <1>2, WaitersOwnPriority DEF InheritInv, OwnPriority
<1>4. k.base[w] \in Prio
  BY <1>1, MutexFacts DEF KType
<1>5. QED
  BY <1>1, <1>2, <1>3, <1>4 DEF InheritInv, ReadyInv, KeysFit

LEMMA HighestWaitingType ==
  ASSUME NEW s \in KType, EventListsOrdered(s), NEW m \in Object
  PROVE  HighestWaiting(s, m) \in Nat
<1>1. CASE s.waiting[m] = {}
  BY <1>1 DEF HighestWaiting
<1>2. CASE s.waiting[m] # {}
  <2> DEFINE head == CHOOSE t \in s.waiting[m] : t \in FirstWaiters(s, m, 1)
  <2>1. \E t \in s.waiting[m] : t \in FirstWaiters(s, m, 1)
    BY <1>2, OneFirstWaiter
  <2>2. head \in s.waiting[m]
    BY <2>1
  <2>3. HighestWaiting(s, m) = MaxPrio - s.key[head]
    BY <1>2 DEF HighestWaiting
  <2> HIDE DEF head
  <2>4. s.key[head] \in 1 .. MaxPrio
    BY <2>2 DEF KType
  <2>5. QED
    BY <2>3, <2>4, KernelAssumption
<1>3. QED
  BY <1>1, <1>2

LEMMA HighestWaitingBounds ==
  ASSUME MutexInv, InheritInv, NEW m \in Object, TakenAlone(m)
  PROVE  Bounded(k, m, HighestWaiting(k, m))
<1>1. CASE k.waiting[m] = {}
  BY <1>1 DEF Bounded
<1>2. CASE k.waiting[m] # {}
  <2> DEFINE head == CHOOSE t \in k.waiting[m] : t \in FirstWaiters(k, m, 1)
  <2>1. k \in KType /\ EventListsOrdered(k) /\ SortedByBase(k, m)
    BY MutexFacts DEF MutexInv, MutexWaits, InheritInv, AloneInv, InheritedFor
  <2>2. \E t \in k.waiting[m] : t \in FirstWaiters(k, m, 1)
    BY <1>2, <2>1, OneFirstWaiter
  <2>3. head \in FirstWaiters(k, m, 1)
    BY <2>2
  <2>4. HighestWaiting(k, m) = MaxPrio - k.key[head]
    BY <1>2 DEF HighestWaiting
  <2> HIDE DEF head
  <2>5. head \in k.waiting[m] /\ Bounded(k, m, k.base[head])
    BY <2>1, <2>3, FirstBounds
  <2>6. k.key[head] = MaxPrio - k.base[head] /\ k.base[head] \in Prio
    BY <2>5, WaiterKeys
  <2>7. HighestWaiting(k, m) = k.base[head]
    BY <2>4, <2>6, KernelAssumption DEF Prio
  <2>8. QED
    BY <2>5, <2>7
<1>3. QED
  BY <1>1, <1>2

(* A task with one mutex to its count holds no second one. *)
LEMMA HoldsOne ==
  ASSUME MutexInv, NEW h \in Task, held[h] = 1, NEW m \in Object, holder[m] = h,
         NEW o \in Object, holder[o] = h
  PROVE  o = m
<1>1. IsFiniteSet(HeldBy(h)) /\ Cardinality(HeldBy(h)) = 1
  BY DEF MutexInv, MutexCounts, HoldersCounted
<1>2. m \in HeldBy(h) /\ o \in HeldBy(h)
  BY DEF HeldBy
<1>3. QED
  BY <1>1, <1>2, FS_Singleton


-----------------------------------------------------------------------------
(* The caller takes back what the holder had from it.                      *)

LEMMA DisinheritAfterTimeoutFits ==
  ASSUME NEW s \in KType, EventListsOrdered(s), NEW h \in Task, NEW m \in Object,
         ReadyFits(s), KeysFit(s)
  PROVE  LET r == DisinheritAfterTimeout(s, h, m)
             p == PriorityToUse(s, h, m)
         IN  /\ ReadyFits(r) /\ KeysFit(r)
             /\ \A u : u \in ReadyTasks(r) <=> u \in ReadyTasks(s)
             /\ r.prio[h] = IF s.prio[h] # p /\ held[h] = 1 THEN p ELSE s.prio[h]
<1> DEFINE p == PriorityToUse(s, h, m)
           q == MoveReady([s EXCEPT !.key[h] = MaxPrio - p], h, p, p)
<1>1. p \in Prio
  BY PriorityToUseType
<1>2. DisinheritAfterTimeout(s, h, m) = IF s.prio[h] # p /\ held[h] = 1 THEN q ELSE s
  BY DEF DisinheritAfterTimeout
<1> HIDE DEF p
<1>3. q.prio = [s.prio EXCEPT ![h] = p]
  BY <1>1, InheritReorders
<1>4. /\ ReadyFits(q) /\ KeysFit(q)
      /\ \A u : u \in ReadyTasks(q) <=> u \in ReadyTasks(s)
  BY <1>1, InheritFits
<1>5. s.prio \in [Task -> Prio]
  BY DEF KType
<1> HIDE DEF q
<1>6. q.prio[h] = p
  BY <1>3, <1>5
<1>7. QED
  BY <1>2, <1>4, <1>6 DEF p

LEMMA DisinheritInherits ==
  ASSUME MutexAssumption, MutexInv, InheritInv, MutexInv', Disinherit
  PROVE  InheritInv'
<1> DEFINE m == call[k.cur]
           h == holder[m]
           p == PriorityToUse(k, h, m)
<1>1. /\ pc[k.cur] = "disinherit" /\ Leave /\ holder' = holder
      /\ k' = IF h = Nobody THEN k ELSE DisinheritAfterTimeout(k, h, m)
  BY DEF Disinherit, At, me
<1>2. /\ pc[k.cur] \in Taking /\ m \in Object /\ k \in KType /\ k.cur \in Task
      /\ EventListsOrdered(k) /\ ReadyFits(k) /\ KeysFit(k)
      /\ k.prio \in [Task -> Prio] /\ k.base \in [Task -> Prio]
  BY <1>1, TakingFacts, MutexFacts
     DEF MutexInv, MutexWaits, Taking, InheritInv, ReadyInv, KType
<1>3. CASE h = Nobody
  BY <1>1, <1>2, <1>3, LeaveInherits
<1>4. CASE h # Nobody
  <2>1. h \in Task /\ h # k.cur
    BY <1>2, <1>4, HolderHolds DEF InheritInv, UseInv
  <2>2. /\ ReadyFits(k') /\ KeysFit(k')
        /\ \A u : u \in ReadyTasks(k') <=> u \in ReadyTasks(k)
        /\ k'.prio[h] = IF k.prio[h] # p /\ held[h] = 1 THEN p ELSE k.prio[h]
    BY <1>1, <1>2, <1>4, <2>1, DisinheritAfterTimeoutFits
  <2>3. /\ Reorders(k', k) /\ k'.base = k.base
        /\ \A u \in Task \ {h} : k'.prio[u] = k.prio[u]
    BY <1>1, <1>2, <1>4, <2>1, DisinheritAfterTimeoutKeeps
  <2>4. p = IF k.base[h] < HighestWaiting(k, m) THEN HighestWaiting(k, m) ELSE k.base[h]
    BY DEF PriorityToUse
  <2>5. /\ k'.cur = k.cur /\ k'.waiting = k.waiting /\ k'.before = k.before
        /\ Waiters(k') = Waiters(k)
    BY <2>3 DEF Reorders, Waiters
  <2> HIDE DEF m, h, p
  <2>6. /\ call' = [call EXCEPT ![k.cur] = Nobody] /\ left' = [left EXCEPT ![k.cur] = 0]
        /\ pc' = [pc EXCEPT ![k.cur] = "run"]
    BY <1>1 DEF Leave, me
  <2>7. /\ call'[k.cur] = Nobody /\ pc'[k.cur] = "run" /\ Nobody \notin Object
        /\ \A t \in Task \ {k.cur} :
             call'[t] = call[t] /\ left'[t] = left[t] /\ pc'[t] = pc[t]
    BY <1>2, <2>6, MutexFacts DEF MutexInv, MutexTypes, MutexAssumption
  <2>8. ReadyInv'
    <3>1. k.cur \in ReadyTasks(k)
      BY <1>1 DEF InheritInv, ReadyInv
    <3>2. ASSUME NEW t \in Task, call'[t] # Nobody
          PROVE  t \in Waiters(k') \/ t \in ReadyTasks(k')
      BY <1>1, <2>2, <2>5, <2>7, <3>2 DEF InheritInv, ReadyInv
    <3>3. QED
      BY <2>2, <2>5, <2>7, <3>1, <3>2 DEF ReadyInv
  <2>9. UseInv'
    <3>1. \A t \in Task, o \in Object : call'[t] = o =>
            call[t] = o /\ (left'[t] # 0 => left[t] # 0)
      BY <2>7
    <3>2. QED
      BY <1>1, <2>5, <3>1, UseKept DEF InheritInv
  <2>10. ASSUME NEW o \in Object, TakenAlone(o)
         PROVE  InheritedFor(o)'
    <3>1. InheritedFor(o)
      BY <2>10 DEF InheritInv, AloneInv
    <3>2. \A x : Bounded(k, o, x) <=> Bounded(k', o, x)
      BY <2>3, <2>5 DEF Bounded
    <3>3. ASSUME holder[o] # Nobody
          PROVE  Bounded(k', o, k'.prio[holder[o]])
      <4>1. Bounded(k, o, k.prio[holder[o]]) /\ holder[o] \in Task
        BY <3>1, <3>3, HolderHolds DEF InheritedFor
      <4>2. CASE k'.prio[holder[o]] = k.prio[holder[o]]
        BY <3>2, <4>1, <4>2
      <4>3. CASE k'.prio[holder[o]] # k.prio[holder[o]]
        <5>1. holder[o] = h /\ held[h] = 1 /\ k'.prio[h] = p
          BY <2>2, <2>3, <4>1, <4>3
        <5>2. o = m
          BY <1>2, <2>1, <5>1, HoldsOne DEF h
        <5>3. Bounded(k, m, HighestWaiting(k, m))
          BY <2>10, <5>2, HighestWaitingBounds
        <5>4. \A w \in k.waiting[m] : k.base[w] <= p
          <6> SUFFICES ASSUME NEW w \in k.waiting[m]
                       PROVE  k.base[w] <= p
            OBVIOUS
          <6>1. k.base[w] \in Nat /\ k.base[h] \in Nat
            <7>1. w \in Task
              BY <1>2, MutexFacts DEF m
            <7>2. QED
              BY <1>2, <2>1, <7>1 DEF Prio
          <6>2. HighestWaiting(k, m) \in Nat
            BY <1>2, HighestWaitingType
          <6>3. k.base[w] <= HighestWaiting(k, m)
            BY <5>3 DEF Bounded
          <6>4. QED
            BY <2>4, <6>1, <6>2, <6>3
        <5>5. QED
          BY <3>2, <5>1, <5>2, <5>4 DEF Bounded
      <4>4. QED
        BY <4>2, <4>3
    <3>4. ASSUME NEW t \in Task, OnItsWay(t, o)
          PROVE  OnItsWay(t, o)'
      <4>1. t # k.cur
        BY <1>1, <3>4 DEF OnItsWay
      <4>2. QED
        BY <2>5, <2>7, <3>4, <4>1 DEF OnItsWay, WaitsFor
    <3>5. k'.prio[k'.cur] = k.prio[k.cur]
      BY <1>2, <2>1, <2>3, <2>5
    <3>6. SortedByBase(k', o)
      BY <2>3, <2>5, <3>1 DEF InheritedFor, SortedByBase
    <3>7. holder[o] = Nobody /\ k'.waiting[o] # {} =>
            \E t \in Task : OnItsWay(t, o)' /\ Bounded(k', o, k'.base[t])
      BY <2>3, <2>5, <3>1, <3>2, <3>4 DEF InheritedFor
    <3>8. holder[o] = Nobody /\ UsesIt(k.cur, o) => Bounded(k', o, k'.prio[k'.cur])
      BY <3>1, <3>2, <3>5 DEF InheritedFor
    <3>9. QED
      BY <1>1, <2>5, <3>3, <3>6, <3>7, <3>8 DEF InheritedFor, UsesIt
  <2>11. AloneInv'
    BY <2>10 DEF AloneInv, TakenAlone, Contended
  <2>12. QED
    BY <2>8, <2>9, <2>11 DEF InheritInv
<1>5. QED
  BY <1>3, <1>4


-----------------------------------------------------------------------------
(* The caller waits.                                                       *)

LEMMA PriorityInheritFits ==
  ASSUME NEW s \in KType, NEW h \in Task, ReadyFits(s), KeysFit(s)
  PROVE  LET r == PriorityInherit(s, h)
         IN  /\ ReadyFits(r) /\ KeysFit(r)
             /\ \A u : u \in ReadyTasks(r) <=> u \in ReadyTasks(s)
             /\ r.prio[h] = IF s.prio[h] < s.prio[s.cur] THEN s.prio[s.cur] ELSE s.prio[h]
<1> DEFINE p == s.prio[s.cur]
           c == s.prio[h]
           q == MoveReady([s EXCEPT !.key[h] = MaxPrio - p], h, p, c)
<1>1. p \in Prio /\ s.prio \in [Task -> Prio]
  BY DEF KType
<1>2. PriorityInherit(s, h) = IF c < p THEN q ELSE s
  BY DEF PriorityInherit
<1> HIDE DEF p
<1>3. q.prio = [s.prio EXCEPT ![h] = p]
  BY <1>1, InheritReorders
<1>4. /\ ReadyFits(q) /\ KeysFit(q)
      /\ \A u : u \in ReadyTasks(q) <=> u \in ReadyTasks(s)
  BY <1>1, InheritFits
<1> HIDE DEF q
<1>5. q.prio[h] = p
  BY <1>1, <1>3
<1>6. QED
  BY <1>2, <1>4, <1>5 DEF p

LEMMA PlaceFits ==
  ASSUME NEW s \in KType, s.cur \in ReadyTasks(s), ReadyFits(s),
         NEW o \in Object, NEW n \in Tick
  PROVE  LET r == PlaceOnEventList(s, o, n)
         IN  /\ ReadyFits(r)
             /\ \A t \in ReadyTasks(s) : t \in ReadyTasks(r) \/ t = s.cur
<1> DEFINE passed == PassedOnInsert(s, o, s.cur)
           W == [s.waiting EXCEPT ![o] = s.waiting[o] \cup {s.cur}]
           B == s.before \cup (passed \X {s.cur})
                         \cup ({s.cur} \X (s.waiting[o] \ passed))
           x == [s EXCEPT !.waiting = W, !.before = B]
           r == AddCurrentToDelayedList(x, n, TRUE)
<1>1. PlaceOnEventList(s, o, n) = r
  BY DEF PlaceOnEventList
<1>2. s.cur \in Task /\ s.waiting \in [Object -> SUBSET Task] /\ s.before \subseteq Task \X Task
  BY DEF KType
<1>3. passed \subseteq Task /\ s.waiting[o] \subseteq Task
  BY <1>2 DEF PassedOnInsert
<1> HIDE DEF passed
<1>4. W \in [Object -> SUBSET Task]
  BY <1>2, <1>3
<1>5. B \in SUBSET (Task \X Task)
  BY <1>2, <1>3
<1> HIDE DEF W, B
<1>6. /\ x \in KType /\ x.cur = s.cur /\ x.ready = s.ready /\ x.prio = s.prio
      /\ x.top = s.top
  BY <1>4, <1>5 DEF KType
<1> HIDE DEF x
<1>7. ReadyTasks(x) = ReadyTasks(s) /\ ReadyFits(x)
  BY <1>6 DEF ReadyTasks, ReadyFits
<1>8. Wakes(r, x, {x.cur})
  BY <1>6, <1>7, AddCurrentWakes
<1> HIDE DEF r
<1>9. ReadyFits(r) /\ \A t \in ReadyTasks(s) : t \in ReadyTasks(r) \/ t = s.cur
  BY <1>6, <1>7, <1>8 DEF Wakes
<1>10. QED
  BY <1>1, <1>9

(* The list stays sorted: the walk stops at the first task of a lower      *)
(* priority.                                                               *)
LEMMA InsertSorted ==
  ASSUME NEW s \in KType, NEW r, NEW o \in Object, SortedByBase(s, o),
         \A w \in s.waiting[o] \cup {s.cur} :
           s.base[w] \in Prio /\ s.key[w] = MaxPrio - s.base[w],
         \A e \in s.before : e[1] # s.cur /\ e[2] # s.cur,
         r.base = s.base, r.waiting[o] = s.waiting[o] \cup {s.cur},
         r.before = s.before \cup (PassedOnInsert(s, o, s.cur) \X {s.cur})
                      \cup ({s.cur} \X (s.waiting[o] \ PassedOnInsert(s, o, s.cur)))
  PROVE  SortedByBase(r, o)
<1> DEFINE passed == PassedOnInsert(s, o, s.cur)
           c == s.cur
<1>1. \A u \in passed : u \in s.waiting[o] /\ s.base[c] <= s.base[u]
  <2>1. ASSUME NEW u \in passed
        PROVE  u \in s.waiting[o] /\ s.key[u] <= s.key[c]
    BY DEF PassedOnInsert
  <2>2. QED
    BY <2>1, KernelAssumption DEF Prio
<1>2. ASSUME NEW u \in s.waiting[o] \ passed
      PROVE  s.base[u] <= s.base[c]
  <2>1. PICK w \in s.waiting[o] : /\ w = u \/ <<w, u>> \in s.before
                                  /\ ~(s.key[w] <= s.key[c])
    BY DEF PassedOnInsert
  <2>2. /\ s.base[u] \in Nat /\ s.base[w] \in Nat /\ s.base[c] \in Nat
        /\ s.base[w] < s.base[c]
    BY <2>1, KernelAssumption DEF Prio
  <2>3. s.base[u] <= s.base[w]
    BY <2>1, <2>2 DEF SortedByBase
  <2>4. QED
    BY <2>2, <2>3
<1>3. s.base[c] \in Nat
  BY DEF Prio
<1> HIDE DEF passed
<1>4. ASSUME NEW t \in r.waiting[o], NEW w \in r.waiting[o], <<t, w>> \in r.before
      PROVE  r.base[w] <= r.base[t]
  <2>1. CASE <<t, w>> \in s.before
    <3>1. t # c /\ w # c
      BY <2>1
    <3>2. QED
      BY <2>1, <3>1 DEF SortedByBase
  <2>2. CASE t \in passed /\ w = c
    BY <1>1, <2>2
  <2>3. CASE t = c /\ w \in s.waiting[o] \ passed
    BY <1>2, <2>3
  <2>4. QED
    BY <1>4, <2>1, <2>2, <2>3 DEF passed
<1>5. QED
  BY <1>4 DEF SortedByBase


(* What the kernel's record is after the step. *)
LEMMA WaitFits ==
  ASSUME MutexInv, InheritInv, Wait
  PROVE  LET m == call[k.cur]
             h == holder[m]
             q == PriorityInherit(SuspendAll(k), h)
         IN  /\ q \in KType /\ q.cur = k.cur /\ q.base = k.base /\ q.waiting = k.waiting
             /\ q.before = k.before /\ KeysFit(q)
             /\ \A u \in Task \ {h} : q.prio[u] = k.prio[u]
             /\ q.prio[h] = IF k.prio[h] < k.prio[k.cur] THEN k.prio[k.cur] ELSE k.prio[h]
             /\ k'.base = q.base /\ k'.prio = q.prio /\ k'.key = q.key
             /\ k'.before = q.before \cup (PassedOnInsert(q, m, k.cur) \X {k.cur})
                  \cup ({k.cur} \X (k.waiting[m] \ PassedOnInsert(q, m, k.cur)))
             /\ ReadyFits(k')
             /\ \A t \in ReadyTasks(k) : t \in ReadyTasks(k') \/ t = k.cur
<1> DEFINE m == call[k.cur]
           h == holder[m]
           s == SuspendAll(k)
           q == PriorityInherit(s, h)
           n == left'[k.cur]
<1>1. pc[k.cur] = "enter" /\ h # Nobody /\ k' = PlaceOnEventList(q, m, n)
  BY DEF Wait, At, me
<1>2. /\ m \in Object /\ k.depth = 0 /\ k.cur \in Task /\ k.cur \notin Waiters(k)
      /\ k.cur \in ReadyTasks(k)
  BY <1>1, TakingFacts DEF Taking, InheritInv, ReadyInv
<1>3. h \in Task /\ n \in Tick
  BY <1>1, <1>2, HolderHolds, TicksGoneTypes DEF Wait
<1>4. /\ s \in KType /\ s.cur = k.cur /\ s.waiting = k.waiting /\ Waiters(s) = Waiters(k)
      /\ s.prio = k.prio /\ s.base = k.base /\ WaitersBlocked(s) /\ EventListsOrdered(s)
  BY <1>2, SuspendAllFacts
<1>5. s.before = k.before /\ s.ready = k.ready /\ s.key = k.key /\ s.top = k.top
  BY MutexFacts DEF SuspendAll, KType
<1> HIDE DEF m, h, s, n
<1>6. ReadyFits(s) /\ KeysFit(s) /\ ReadyTasks(s) = ReadyTasks(k)
  BY <1>4, <1>5 DEF InheritInv, ReadyInv, ReadyFits, KeysFit, ReadyTasks
<1>7. /\ ReadyFits(q) /\ KeysFit(q)
      /\ \A u : u \in ReadyTasks(q) <=> u \in ReadyTasks(s)
      /\ q.prio[h] = IF s.prio[h] < s.prio[s.cur] THEN s.prio[s.cur] ELSE s.prio[h]
  BY <1>3, <1>4, <1>6, PriorityInheritFits
<1>8. Reorders(q, s) /\ q.base = s.base /\ \A u \in Task \ {h} : q.prio[u] = s.prio[u]
  BY <1>3, <1>4, PriorityInheritKeeps
<1> HIDE DEF q
<1>9. /\ q \in KType /\ q.cur = k.cur /\ q.waiting = k.waiting /\ q.before = k.before
      /\ WaitersBlocked(q) /\ EventListsOrdered(q) /\ Waiters(q) = Waiters(k)
  BY <1>4, <1>5, <1>8, ReordersEases DEF Reorders, Eases
<1>10. k.cur \in ReadyTasks(q)
  BY <1>2, <1>6, <1>7
<1>11. \A o, p \in Object : o # p => q.waiting[o] \cap q.waiting[p] = {}
  BY <1>9 DEF MutexInv, MutexWaits
<1>12. /\ k'.prio = q.prio /\ k'.base = q.base /\ k'.key = q.key
       /\ k'.before = LET passed == PassedOnInsert(q, m, q.cur)
                      IN  q.before \cup (passed \X {q.cur})
                                   \cup ({q.cur} \X (q.waiting[m] \ passed))
  <2>1. q \in KType /\ WaitersBlocked(q) /\ EventListsOrdered(q) /\ q.cur \notin Waiters(q)
    BY <1>2, <1>9
  <2>2. m \in Object /\ n \in Tick /\ k' = PlaceOnEventList(q, m, n)
    BY <1>1, <1>2, <1>3
  <2> DEFINE r == PlaceOnEventList(q, m, n)
             passed == PassedOnInsert(q, m, q.cur)
  <2>3. r.prio = q.prio /\ r.base = q.base
    BY <1>11, <2>1, <2>2, PlaceOnEventListWaits
  <2>4. /\ r.key = q.key
        /\ r.before = q.before \cup (passed \X {q.cur})
                        \cup ({q.cur} \X (q.waiting[m] \ passed))
    BY <2>1, <2>2, PlaceOnEventListFields
  <2> HIDE DEF r
  <2>5. k' = r
    BY <2>2 DEF r
  <2>6. QED
    BY <2>3, <2>4, <2>5
<1>13. /\ ReadyFits(k')
       /\ \A t \in ReadyTasks(q) : t \in ReadyTasks(k') \/ t = q.cur
  BY <1>1, <1>2, <1>3, <1>7, <1>9, <1>10, PlaceFits
<1>14. k'.before = q.before \cup (PassedOnInsert(q, m, k.cur) \X {k.cur})
                     \cup ({k.cur} \X (k.waiting[m] \ PassedOnInsert(q, m, k.cur)))
  BY <1>9, <1>12
<1>15. /\ q.base = k.base /\ \A u \in Task \ {h} : q.prio[u] = k.prio[u]
       /\ q.prio[h] = IF k.prio[h] < k.prio[k.cur] THEN k.prio[k.cur] ELSE k.prio[h]
       /\ \A t \in ReadyTasks(k) : t \in ReadyTasks(k') \/ t = k.cur
  BY <1>4, <1>6, <1>7, <1>8, <1>9, <1>13
<1>16. QED
  BY <1>7, <1>9, <1>12, <1>13, <1>14, <1>15 DEF q, s, h, m

LEMMA WaitInherits ==
  ASSUME MutexAssumption, MutexInv, InheritInv, MutexInv', Wait
  PROVE  InheritInv'
<1> DEFINE m == call[k.cur]
           h == holder[m]
           q == PriorityInherit(SuspendAll(k), h)
<1>1. /\ pc[k.cur] = "enter" /\ pc' = [pc EXCEPT ![k.cur] = "block"]
      /\ holder' = holder /\ call' = call /\ h # Nobody
  BY DEF Wait, At, Goto, me
<1>2. /\ m \in Object /\ k.cur \in Task /\ k.cur \notin Waiters(k)
      /\ k.cur \in ReadyTasks(k) /\ k \in KType
      /\ k.prio \in [Task -> Prio] /\ k.base \in [Task -> Prio]
  BY <1>1, TakingFacts, MutexFacts DEF Taking, InheritInv, ReadyInv, KType
<1>3. /\ h \in Task /\ k'.cur = k.cur
      /\ k'.waiting = [k.waiting EXCEPT ![m] = k.waiting[m] \cup {k.cur}]
  BY WaitKernel
<1>4. /\ q \in KType /\ q.cur = k.cur /\ q.base = k.base /\ q.waiting = k.waiting
      /\ q.before = k.before /\ KeysFit(q)
      /\ \A u \in Task \ {h} : q.prio[u] = k.prio[u]
      /\ q.prio[h] = IF k.prio[h] < k.prio[k.cur] THEN k.prio[k.cur] ELSE k.prio[h]
      /\ k'.base = q.base /\ k'.prio = q.prio /\ k'.key = q.key
      /\ k'.before = q.before \cup (PassedOnInsert(q, m, k.cur) \X {k.cur})
           \cup ({k.cur} \X (k.waiting[m] \ PassedOnInsert(q, m, k.cur)))
      /\ ReadyFits(k')
      /\ \A t \in ReadyTasks(k) : t \in ReadyTasks(k') \/ t = k.cur
  BY WaitFits
<1> HIDE DEF q
<1>5. /\ h # k.cur
      /\ \E u \in Uses[k.cur] : u[1] = m /\ (left[k.cur] # 0 => u[2] # 0)
  BY <1>2 DEF InheritInv, UseInv
<1>6. WaitsFor(k.cur, m)
  <2>1. left[k.cur] # 0
    BY TimeLeft DEF Wait
  <2>2. QED
    BY <1>5, <2>1 DEF WaitsFor
<1> HIDE DEF h, m
<1>7. /\ k.waiting \in [Object -> SUBSET Task]
      /\ k'.waiting[m] = k.waiting[m] \cup {k.cur}
      /\ \A o \in Object \ {m} : k'.waiting[o] = k.waiting[o]
      /\ \A o \in Object : k.cur \notin k.waiting[o]
  BY <1>2, <1>3, MutexFacts, WaitersElements
<1>8. \A t : t \in Waiters(k') <=> t \in Waiters(k) \/ t = k.cur
  BY <1>2, <1>7, WaitersElements
<1>9. ReadyInv'
  <2>1. KeysFit(k')
    BY <1>4 DEF KeysFit
  <2>2. ASSUME NEW t \in Task, call'[t] # Nobody
        PROVE  t \in Waiters(k') \/ t \in ReadyTasks(k')
    BY <1>1, <1>4, <1>8, <2>2 DEF InheritInv, ReadyInv
  <2>3. pc'[k'.cur] = "block"
    BY <1>1, <1>2, <1>3, MutexFacts
  <2>4. QED
    BY <1>4, <2>1, <2>2, <2>3 DEF ReadyInv
<1>10. UseInv'
  <2>1. \A t \in Task : left'[t] # 0 => left[t] # 0
    BY TicksGoneLeft DEF Wait
  <2>2. ASSUME NEW t \in Task, NEW o \in Object, call'[t] = o
        PROVE  /\ holder'[o] # t
               /\ \E v \in Uses[t] : v[1] = o /\ (left'[t] # 0 => v[2] # 0)
    BY <1>1, <2>1, <2>2 DEF InheritInv, UseInv
  <2>3. \A t \in Task, o \in Object : holder'[o] = t => UsesIt(t, o)
    BY <1>1 DEF InheritInv, UseInv
  <2>4. ASSUME NEW t \in Task, NEW o \in Object, t \in k'.waiting[o]
        PROVE  WaitsFor(t, o)
    <3>1. CASE t \in k.waiting[o]
      BY <3>1 DEF InheritInv, UseInv
    <3>2. CASE t \notin k.waiting[o]
      BY <1>6, <1>7, <2>4, <3>2
    <3>3. QED
      BY <3>1, <3>2
  <2>5. QED
    BY <2>2, <2>3, <2>4 DEF UseInv, UsesIt, WaitsFor
<1>11. ASSUME NEW o \in Object, TakenAlone(o)
       PROVE  InheritedFor(o)'
  <2>1. InheritedFor(o)
    BY <1>11 DEF InheritInv, AloneInv
  <2>2. \A a, b, c \in Prio : a <= b /\ b <= c => a <= c
    BY KernelAssumption DEF Prio
  <2>3. \A u \in Task : k.prio[u] <= k'.prio[u] /\ k'.prio[u] \in Prio
    <3>1. \A x \in Prio : x <= x
      BY DEF Prio
    <3>2. k.prio[h] <= q.prio[h]
      <4>1. k.prio[h] \in Nat /\ k.prio[k.cur] \in Nat
        BY <1>2, <1>3 DEF Prio
      <4>2. QED
        BY <1>4, <4>1
    <3>3. q.prio \in [Task -> Prio]
      BY <1>4 DEF KType
    <3>4. QED
      BY <1>2, <1>4, <3>1, <3>2, <3>3
  <2>4. CASE o = m
    <3>1. /\ k.base[k.cur] = k.prio[k.cur]
      BY <1>2, <1>5, <1>6, <1>11, <2>4, WaitersOwnPriority
         DEF InheritInv, OwnPriority, h, TakenAlone, Contended
    <3>2. k.prio[k.cur] <= k'.prio[h]
      <4>1. k.prio[h] \in Nat /\ k.prio[k.cur] \in Nat
        BY <1>2, <1>3 DEF Prio
      <4>2. QED
        BY <1>4, <4>1
    <3>3. Bounded(k', o, k'.prio[holder[o]])
      <4>1. Bounded(k, o, k.prio[h]) /\ h = holder[o]
        BY <1>1, <2>1, <2>4 DEF InheritedFor, h
      <4>2. ASSUME NEW w \in k'.waiting[m]
            PROVE  k'.base[w] <= k'.prio[h]
        <5>1. CASE w = k.cur
          BY <1>4, <3>1, <3>2, <5>1
        <5>2. CASE w # k.cur
          <6>1. w \in k.waiting[m] /\ w \in Task /\ k.base[w] <= k.prio[h]
            BY <1>2, <1>7, <2>4, <4>1, <4>2, <5>2 DEF Bounded
          <6>2. QED
            BY <1>2, <1>3, <1>4, <2>2, <2>3, <6>1
        <5>3. QED
          BY <5>1, <5>2
      <4>3. QED
        BY <2>4, <4>1, <4>2 DEF Bounded
    <3>4. SortedByBase(k', o)
      <4>1. \A w \in k.waiting[m] \cup {k.cur} :
              q.base[w] \in Prio /\ q.key[w] = MaxPrio - q.base[w]
        <5>1. ASSUME NEW w \in k.waiting[m]
              PROVE  w \in Task /\ w # h /\ k.prio[w] = k.base[w]
          <6>1. w \in Task /\ call[w] = m
            BY <1>2, <1>7 DEF MutexInv, MutexWaits
          <6>2. holder[m] # w /\ WaitsFor(w, m)
            BY <1>2, <6>1 DEF InheritInv, UseInv
          <6>3. QED
            BY <1>2, <1>11, <2>4, <6>1, <6>2, WaitersOwnPriority
               DEF InheritInv, OwnPriority, h
        <5>2. \A w \in k.waiting[m] \cup {k.cur} :
                w \in Task /\ w # h /\ k.prio[w] = k.base[w]
          BY <1>2, <1>5, <3>1, <5>1
        <5>3. QED
          BY <1>2, <1>4, <5>2 DEF KeysFit
      <4>2. \A e \in q.before : e[1] # k.cur /\ e[2] # k.cur
        BY <1>4, <1>7 DEF MutexInv, MutexWaits, EventListsOrdered
      <4>3. SortedByBase(q, m)
        BY <1>4, <2>1, <2>4 DEF InheritedFor, SortedByBase
      <4>4. k'.waiting[m] = q.waiting[m] \cup {k.cur}
        BY <1>4, <1>7
      <4>5. SortedByBase(k', m)
        BY <1>2, <1>4, <4>1, <4>2, <4>3, <4>4, InsertSorted
      <4>6. QED
        BY <2>4, <4>5
    <3>5. QED
      BY <1>1, <2>4, <3>3, <3>4 DEF InheritedFor, h
  <2>5. CASE o # m
    <3>1. k'.waiting[o] = k.waiting[o] /\ k'.base = k.base
      BY <1>4, <1>7, <2>5
    <3>2. \A p : Bounded(k, o, p) <=> Bounded(k', o, p)
      BY <3>1 DEF Bounded
    <3>3. ASSUME holder[o] # Nobody
          PROVE  Bounded(k', o, k'.prio[holder[o]])
      <4>1. Bounded(k, o, k.prio[holder[o]]) /\ holder[o] \in Task
        BY <2>1, <3>3, HolderHolds DEF InheritedFor
      <4>2. \A w \in k.waiting[o] : k.base[w] <= k'.prio[holder[o]]
        <5>1. ASSUME NEW w \in k.waiting[o]
              PROVE  k.base[w] <= k'.prio[holder[o]]
          <6>1. k.base[w] <= k.prio[holder[o]] /\ w \in Task
            BY <1>7, <4>1 DEF Bounded
          <6>2. QED
            BY <1>2, <2>2, <2>3, <4>1, <6>1
        <5>2. QED
          BY <5>1
      <4>3. QED
        BY <3>1, <4>2 DEF Bounded
    <3>4. ASSUME NEW t \in Task, OnItsWay(t, o)
          PROVE  OnItsWay(t, o)'
      <4>1. t # k.cur
        BY <2>5, <3>4 DEF OnItsWay, m
      <4>2. pc'[t] = pc[t]
        BY <1>1, <4>1, MutexFacts
      <4>3. QED
        BY <1>1, <1>8, <3>4, <4>1, <4>2 DEF OnItsWay, WaitsFor
    <3>5. holder[o] = Nobody /\ k'.waiting[o] # {} =>
            \E t \in Task : OnItsWay(t, o)' /\ Bounded(k', o, k'.base[t])
      BY <2>1, <3>1, <3>2, <3>4 DEF InheritedFor
    <3>6. k'.prio[k'.cur] = k.prio[k.cur]
      BY <1>2, <1>3, <1>4, <1>5
    <3>7. holder[o] = Nobody /\ UsesIt(k.cur, o) => Bounded(k', o, k'.prio[k'.cur])
      BY <2>1, <3>2, <3>6 DEF InheritedFor
    <3>8. SortedByBase(k', o)
      <4>1. ASSUME NEW t \in k.waiting[o], NEW w \in k.waiting[o], <<t, w>> \in k'.before
            PROVE  k.base[w] <= k.base[t]
        <5>1. t # k.cur /\ w # k.cur
          BY <1>7
        <5>2. <<t, w>> \in k.before
          BY <1>4, <4>1, <5>1
        <5>3. QED
          BY <2>1, <5>2 DEF InheritedFor, SortedByBase
      <4>2. QED
        BY <3>1, <4>1 DEF SortedByBase
    <3>9. QED
      BY <1>1, <1>3, <3>3, <3>5, <3>7, <3>8 DEF InheritedFor, UsesIt
  <2>6. QED
    BY <2>4, <2>5
<1>12. AloneInv'
  BY <1>11 DEF AloneInv, TakenAlone, Contended
<1>13. QED
  BY <1>9, <1>10, <1>12 DEF InheritInv

-----------------------------------------------------------------------------
(* The holder gives the mutex back.                                        *)

LEMMA PriorityDisinheritFits ==
  ASSUME NEW s \in KType, NEW t \in Task, ReadyFits(s), KeysFit(s)
  PROVE  LET r == PriorityDisinherit(s, t)
         IN  /\ ReadyFits(r) /\ KeysFit(r)
             /\ \A u : u \in ReadyTasks(r) <=> u \in ReadyTasks(s)
             /\ ~Disinherits(s, t) => r = s
<1> DEFINE p == s.base[t]
           c == s.prio[t]
           q == MoveReady([s EXCEPT !.key[t] = MaxPrio - p], t, p, c)
<1>1. p \in Prio
  BY DEF KType
<1>2. PriorityDisinherit(s, t) = IF Disinherits(s, t) THEN q ELSE s
  BY DEF PriorityDisinherit
<1> HIDE DEF p
<1>3. c \in {s.prio[t], p}
  OBVIOUS
<1>4. /\ ReadyFits(q) /\ KeysFit(q)
      /\ \A u : u \in ReadyTasks(q) <=> u \in ReadyTasks(s)
  <2> HIDE DEF c
  <2>1. QED
    BY <1>1, <1>3, InheritFits
<1> HIDE DEF q
<1>5. QED
  BY <1>2, <1>4

(* What the kernel does at the end: it switches if w says so. *)
LEMMA GiveYields ==
  ASSUME MutexInv, pc[k.cur] = "run", pc' = pc, call' = call,
         NEW r \in KType, r.depth = 0, r.cur = k.cur, ReadyFits(r), KeysFit(r),
         k.cur \in ReadyTasks(r),
         \A t \in Task : call[t] # Nobody => t \in Waiters(r) \/ t \in ReadyTasks(r),
         NEW w \in BOOLEAN, k' \in YieldIf(w, r)
  PROVE  /\ ReadyInv' /\ k'.prio = r.prio /\ k'.base = r.base
         /\ k'.waiting = r.waiting /\ k'.before = r.before
         /\ ~w => k' = r
         /\ w => /\ k'.depth = 0
                 /\ \A t \in ReadyTasks(k') : k'.prio[t] <= k'.prio[k'.cur]
<1>1. CASE w
  <2> DEFINE p == "run"
  <2>1. p \notin Sections /\ pc' = [pc EXCEPT ![k.cur] = p]
    BY MutexFacts DEF Sections, Suspending
  <2>2. k' \in SwitchContext(r)
    BY <1>1 DEF YieldIf
  <2> HIDE DEF p
  <2>3. /\ ReadyInv' /\ k'.prio = r.prio /\ k'.base = r.base
        /\ k'.waiting = r.waiting /\ k'.before = r.before
        /\ \A t \in ReadyTasks(k') : k'.prio[t] <= k'.prio[k'.cur]
    BY <2>1, <2>2, SwitchReady
  <2>4. k'.depth = 0
    BY <2>2, SwitchContextWaits
  <2>5. QED
    BY <1>1, <2>3, <2>4
<1>2. CASE ~w
  <2>1. k' = r
    BY <1>2 DEF YieldIf
  <2>2. ReadyInv'
    BY <2>1 DEF ReadyInv
  <2>3. QED
    BY <1>2, <2>1, <2>2
<1>3. QED
  BY <1>1, <1>2

LEMMA GiveAlone ==
  ASSUME MutexAssumption, MutexInv, InheritInv, MutexInv', UseInv', ReadyInv',
         pc' = pc, call' = call, NEW m \in Object, holder[m] = k.cur,
         holder' = [holder EXCEPT ![m] = Nobody],
         k'.base = k.base, \A u \in Task \ {k.cur} : k'.prio[u] = k.prio[u],
         k'.prio[k.cur] # k.prio[k.cur] => held[k.cur] = 1,
         \A o \in Object : \A t \in k'.waiting[o] : t \in k.waiting[o],
         \A e \in k'.before : e \in k.before,
         TakenAlone(m) /\ k'.waiting[m] # {} =>
           \E t \in Task : OnItsWay(t, m)' /\ Bounded(k', m, k'.base[t]),
         \/ /\ k'.cur = k.cur
            /\ TakenAlone(m) => Bounded(k', m, k'.prio[k.cur])
            /\ \A o \in Object \ {m} : TakenAlone(o) /\ UsesIt(k.cur, o) =>
                 k'.prio[k.cur] = k.prio[k.cur]
         \/ /\ k'.depth = 0
            /\ \A t \in ReadyTasks(k') : k'.prio[t] <= k'.prio[k'.cur]
  PROVE  AloneInv'
<1> SUFFICES ASSUME NEW o \in Object, TakenAlone(o)
             PROVE  InheritedFor(o)'
  BY DEF AloneInv, TakenAlone, Contended
<1>1. InheritedFor(o) /\ holder \in [Object -> Task \cup {Nobody}]
  BY DEF InheritInv, AloneInv, MutexInv, MutexTypes
<1>2. \A p : Bounded(k, o, p) => Bounded(k', o, p)
  BY DEF Bounded
<1>3. \A t : t \in Waiters(k') => t \in Waiters(k)
  BY WaitersElements
<1>4. holder'[m] = Nobody /\ (o # m => holder'[o] = holder[o])
  BY <1>1
<1>5. ASSUME holder'[o] # Nobody
      PROVE  Bounded(k', o, k'.prio[holder'[o]])
  <2>1. o # m /\ holder'[o] = holder[o] /\ holder[o] \in Task
    BY <1>1, <1>4, <1>5
  <2>2. Bounded(k', o, k.prio[holder[o]])
    BY <1>1, <1>2, <1>5, <2>1 DEF InheritedFor
  <2>3. k'.prio[holder[o]] = k.prio[holder[o]]
    BY <2>1, HoldsOne
  <2>4. QED
    BY <2>1, <2>2, <2>3
<1>6. ASSUME holder'[o] = Nobody, k'.waiting[o] # {}
      PROVE  \E t \in Task : OnItsWay(t, o)' /\ Bounded(k', o, k'.base[t])
  <2>1. CASE o = m
    BY <1>6, <2>1
  <2>2. CASE o # m
    <3>1. PICK t \in Task : OnItsWay(t, o) /\ Bounded(k, o, k.base[t])
      BY <1>1, <1>4, <1>6, <2>2 DEF InheritedFor
    <3>2. OnItsWay(t, o)'
      BY <1>3, <3>1 DEF OnItsWay, WaitsFor
    <3>3. QED
      BY <1>2, <3>1, <3>2
  <2>3. QED
    BY <2>1, <2>2
<1>7. ASSUME holder'[o] = Nobody, UsesIt(k'.cur, o)
      PROVE  Bounded(k', o, k'.prio[k'.cur])
  <2>1. CASE k'.waiting[o] = {}
    BY <2>1 DEF Bounded
  <2>2. CASE k'.waiting[o] # {} /\ k'.depth = 0
             /\ \A t \in ReadyTasks(k') : k'.prio[t] <= k'.prio[k'.cur]
    <3>1. PICK t \in Task : OnItsWay(t, o)' /\ Bounded(k', o, k'.base[t])
      BY <1>6, <1>7, <2>2
    <3>2. QED
      BY <1>7, <2>2, <3>1, ChosenBounds
  <2>3. CASE /\ k'.cur = k.cur
             /\ TakenAlone(m) => Bounded(k', m, k'.prio[k.cur])
             /\ \A q \in Object \ {m} : TakenAlone(q) /\ UsesIt(k.cur, q) =>
                  k'.prio[k.cur] = k.prio[k.cur]
    <3>1. CASE o = m
      BY <2>3, <3>1
    <3>2. CASE o # m
      BY <1>1, <1>2, <1>4, <1>7, <2>3, <3>2 DEF InheritedFor
    <3>3. QED
      BY <3>1, <3>2
  <2>4. QED
    BY <2>1, <2>2, <2>3
<1>8. SortedByBase(k', o)
  BY <1>1 DEF InheritedFor, SortedByBase
<1>9. QED
  BY <1>5, <1>6, <1>7, <1>8 DEF InheritedFor, UsesIt

LEMMA GiveInherits ==
  ASSUME MutexAssumption, MutexInv, InheritInv, NEW m \in Object, Give(m), MutexInv'
  PROVE  InheritInv'
<1> DEFINE q == PriorityDisinherit(k, k.cur)
           restored == Disinherits(k, k.cur)
<1>1. /\ pc[k.cur] = "run" /\ k.depth = 0 /\ holder[m] = k.cur
      /\ holder' = [holder EXCEPT ![m] = Nobody]
      /\ k' \in HandOver(q, m, restored) /\ UNCHANGED <<pc, call, left>>
  BY DEF Give, Calling, Running, At, me
<1>2. k \in KType /\ k.cur \in Task /\ ReadyFits(k) /\ KeysFit(k) /\ EventListsOrdered(k)
  BY MutexFacts DEF InheritInv, ReadyInv, MutexInv, MutexWaits
<1>3. /\ Reorders(q, k) /\ q.base = k.base
      /\ \A u \in Task \ {k.cur} : q.prio[u] = k.prio[u]
  BY <1>2, PriorityDisinheritKeeps
<1>4. /\ ReadyFits(q) /\ KeysFit(q)
      /\ \A u : u \in ReadyTasks(q) <=> u \in ReadyTasks(k)
      /\ ~restored => q = k
  BY <1>2, PriorityDisinheritFits
<1>5. restored \in BOOLEAN /\ (restored => held[k.cur] = 1)
  BY DEF Disinherits
<1> HIDE DEF q, restored
<1>6. /\ q \in KType /\ q.depth = 0 /\ q.cur = k.cur /\ q.waiting = k.waiting
      /\ q.before = k.before /\ Waiters(q) = Waiters(k) /\ EventListsOrdered(q)
  BY <1>1, <1>2, <1>3, ReordersEases DEF Reorders, Eases
<1>7. /\ k.cur \in ReadyTasks(q)
      /\ \A t \in Task : call[t] # Nobody => t \in Waiters(q) \/ t \in ReadyTasks(q)
  BY <1>1, <1>4, <1>6 DEF InheritInv, ReadyInv
<1>8. CASE k.waiting[m] = {}
  <2>1. k' \in YieldIf(restored, q)
    BY <1>1, <1>6, <1>8 DEF HandOver
  <2>2. /\ ReadyInv' /\ k'.prio = q.prio /\ k'.base = q.base
        /\ k'.waiting = q.waiting /\ k'.before = q.before
        /\ ~restored => k' = q
        /\ restored => /\ k'.depth = 0
                       /\ \A t \in ReadyTasks(k') : k'.prio[t] <= k'.prio[k'.cur]
    BY <1>1, <1>4, <1>5, <1>6, <1>7, <2>1, GiveYields
  <2>3. UseInv'
    <3>1. /\ \A t \in Task, o \in Object : holder'[o] = t => holder[o] = t
      BY <1>1 DEF MutexAssumption
    <3>2. QED
      BY <1>1, <1>6, <2>2, <3>1, UseKept DEF InheritInv
  <2>4. k'.waiting[m] = {}
    BY <1>6, <1>8, <2>2
  <2>5. ~restored => k'.cur = k.cur /\ k'.prio[k.cur] = k.prio[k.cur]
    BY <1>4, <2>2
  <2>6. TakenAlone(m) => Bounded(k', m, k'.prio[k.cur])
    BY <2>4 DEF Bounded
  <2>7. AloneInv'
    BY <1>1, <1>3, <1>5, <1>6, <2>2, <2>3, <2>4, <2>5, <2>6, GiveAlone
  <2>8. QED
    BY <2>2, <2>3, <2>7 DEF InheritInv
<1>9. CASE k.waiting[m] # {}
  <2>1. PICK u \in q.waiting[m] : FirstWaiters(q, m, 1) = {u}
    BY <1>6, <1>9, OneFirstWaiter
  <2> DEFINE r == RemoveFromEventList(q, {u})
             w == Preempts(q, {u})
  <2>2. k' \in YieldIf(w, r) /\ w \in BOOLEAN
    BY <1>1, <1>6, <1>9, <2>1 DEF HandOver, Preempts
  <2>3. u \in Task /\ call[u] = m /\ pc[u] # "disinherit" /\ WaitsFor(u, m)
    BY <1>6, <2>1, MutexFacts DEF MutexInv, MutexWaits, InWait, InheritInv, UseInv
  <2>4. {u} \in SUBSET Task
    BY <2>3
  <2>5. Wakes(r, q, {}) /\ u \in ReadyTasks(r)
    BY <1>6, <2>4, RemoveFromEventListWakes
  <2>6. SameControl(r, q) /\ r.waiting = [o \in Object |-> q.waiting[o] \ {u}]
    BY <1>6, <2>4, RemoveFromEventListEases
  <2>7. ~w => q.prio[u] <= q.prio[k.cur]
    <3>1. q.prio[u] \in Nat /\ q.prio[k.cur] \in Nat
      BY <1>2, <1>6, <2>3 DEF KType, Prio
    <3>2. QED
      BY <1>6, <3>1 DEF Preempts
  <2> HIDE DEF r, w
  <2>8. /\ r \in KType /\ r.depth = 0 /\ r.cur = k.cur /\ ReadyFits(r)
        /\ r.prio = q.prio /\ r.base = q.base /\ r.key = q.key
        /\ \A e \in r.before : e \in k.before
        /\ \A o \in Object : \A t \in r.waiting[o] : t \in k.waiting[o]
    BY <1>4, <1>6, <2>5, <2>6 DEF Wakes, SameControl
  <2>9. KeysFit(r)
    BY <1>4, <2>8 DEF KeysFit
  <2>10. /\ k.cur \in ReadyTasks(r)
         /\ \A t \in Task : call[t] # Nobody => t \in Waiters(r) \/ t \in ReadyTasks(r)
    BY <1>7, <2>5 DEF Wakes
  <2>11. /\ ReadyInv' /\ k'.prio = r.prio /\ k'.base = r.base
         /\ k'.waiting = r.waiting /\ k'.before = r.before
         /\ ~w => k' = r
         /\ w => /\ k'.depth = 0
                 /\ \A t \in ReadyTasks(k') : k'.prio[t] <= k'.prio[k'.cur]
    BY <1>1, <2>2, <2>8, <2>9, <2>10, GiveYields
  <2>12. UseInv'
    <3>1. \A t \in Task, o \in Object : holder'[o] = t => holder[o] = t
      BY <1>1 DEF MutexAssumption
    <3>2. QED
      BY <1>1, <2>8, <2>11, <3>1, UseKept DEF InheritInv
  <2>13. ASSUME TakenAlone(m)
         PROVE  Bounded(k', m, k.base[u]) /\ k.prio[u] = k.base[u] /\ u # k.cur
    <3>1. SortedByBase(q, m)
      BY <1>3, <1>6, <2>13 DEF InheritInv, AloneInv, InheritedFor, SortedByBase
    <3>2. Bounded(q, m, q.base[u])
      BY <1>6, <2>1, <3>1, FirstBounds
    <3>3. Bounded(k', m, k.base[u])
      BY <1>3, <1>6, <2>8, <2>11, <3>2 DEF Bounded
    <3>4. holder[m] # u
      BY <2>3 DEF InheritInv, UseInv
    <3>5. k.prio[u] = k.base[u]
      BY <2>3, <2>13, <3>4, WaitersOwnPriority DEF InheritInv, OwnPriority
    <3>6. QED
      BY <1>1, <3>3, <3>4, <3>5
  <2>14. u \notin Waiters(k')
    BY <2>6, <2>11, WaitersElements
  <2>15. OnItsWay(u, m)'
    BY <1>1, <2>3, <2>14 DEF OnItsWay, WaitsFor
  <2>16. TakenAlone(m) => \E t \in Task : OnItsWay(t, m)' /\ Bounded(k', m, k'.base[t])
    BY <1>3, <2>3, <2>8, <2>11, <2>13, <2>15
  <2>17. TakenAlone(m) /\ ~w => Bounded(k', m, k'.prio[k.cur])
    <3>1. SUFFICES ASSUME TakenAlone(m), ~w
                   PROVE  \A x \in k'.waiting[m] : k'.base[x] <= k'.prio[k.cur]
      BY DEF Bounded
    <3>2. k.base[u] <= q.prio[k.cur]
      BY <1>3, <2>3, <2>7, <2>13, <3>1
    <3>3. SUFFICES ASSUME NEW x \in k'.waiting[m]
                   PROVE  k.base[x] <= q.prio[k.cur]
      BY <1>3, <2>8, <2>11
    <3>4. k.base[x] <= k.base[u]
      BY <1>3, <2>8, <2>11, <2>13, <3>1, <3>3 DEF Bounded
    <3>5. x \in Task
      BY <2>8, <2>11, <3>3, MutexFacts
    <3>6. k.base[x] \in Nat /\ k.base[u] \in Nat /\ q.prio[k.cur] \in Nat
      BY <1>2, <1>6, <2>3, <3>5 DEF KType, Prio
    <3>7. QED
      BY <3>2, <3>4, <3>6
  <2>18. \A o \in Object \ {m} : ~(TakenAlone(o) /\ UsesIt(k.cur, o))
    <3>1. SUFFICES ASSUME NEW o \in Object, o # m, TakenAlone(o), UsesIt(k.cur, o)
                   PROVE  FALSE
      OBVIOUS
    <3>2. UsesIt(k.cur, m)
      BY <1>1, <1>2 DEF InheritInv, UseInv
    <3>3. PICK a \in Uses[k.cur] : a[1] = o
      BY <3>1 DEF UsesIt
    <3>4. PICK b \in Uses[k.cur] : b[1] = m
      BY <3>2 DEF UsesIt
    <3>5. Contended(m)
      BY <2>3 DEF WaitsFor, Contended
    <3>6. QED
      BY <1>2, <3>1, <3>3, <3>4, <3>5 DEF TakenAlone
  <2>19. k'.prio[k.cur] # k.prio[k.cur] => held[k.cur] = 1
    BY <1>4, <1>5, <2>8, <2>11
  <2>20. \/ /\ k'.cur = k.cur
            /\ TakenAlone(m) => Bounded(k', m, k'.prio[k.cur])
            /\ \A o \in Object \ {m} : TakenAlone(o) /\ UsesIt(k.cur, o) =>
                 k'.prio[k.cur] = k.prio[k.cur]
         \/ /\ k'.depth = 0
            /\ \A t \in ReadyTasks(k') : k'.prio[t] <= k'.prio[k'.cur]
    BY <2>8, <2>11, <2>17, <2>18
  <2>21. /\ k'.base = k.base /\ \A t \in Task \ {k.cur} : k'.prio[t] = k.prio[t]
         /\ \A o \in Object : \A t \in k'.waiting[o] : t \in k.waiting[o]
         /\ \A e \in k'.before : e \in k.before
    BY <1>3, <2>8, <2>11
  <2>22. AloneInv'
    BY <1>1, <2>11, <2>12, <2>16, <2>19, <2>20, <2>21, GiveAlone
  <2>23. QED
    BY <2>11, <2>12, <2>22 DEF InheritInv
<1>10. QED
  BY <1>8, <1>9

-----------------------------------------------------------------------------
(* The whole specification.                                                *)

LEMMA InitInherits ==
  ASSUME MutexAssumption, MutexInit
  PROVE  InheritInv
<1>1. /\ k \in InitialKernel /\ pc = [t \in Task |-> IF t \in Boot THEN "run" ELSE "gone"]
      /\ holder = [m \in Object |-> Nobody] /\ call = [t \in Task |-> Nobody]
  BY DEF MutexInit, DispatchInit
<1>2. /\ k \in KType /\ k.prio = InitPrio /\ k.cur \in Boot
      /\ \A m \in Object : k.waiting[m] = {}
      /\ k.ready = [p \in Prio |-> {t \in Boot : InitPrio[t] = p}]
      /\ k.top = {InitPrio[t] : t \in Boot}
      /\ k.key = [t \in Task |-> MaxPrio - InitPrio[t]]
  BY <1>1, InitialKernelFacts
<1>3. InitPrio \in [Task -> Prio] /\ Boot \subseteq Task
  BY KernelAssumption
<1>4. Nobody \notin Task /\ Nobody \notin Object
  BY DEF MutexAssumption
<1>5. ReadyInv
  <2>1. ReadyFits(k)
    BY <1>2, <1>3 DEF ReadyFits
  <2>2. KeysFit(k)
    BY <1>2 DEF KeysFit
  <2>3. k.cur \in k.ready[InitPrio[k.cur]] /\ InitPrio[k.cur] \in Prio
    BY <1>2, <1>3
  <2>4. k.cur \in ReadyTasks(k)
    BY <2>3, ReadyTasksElements
  <2>5. pc[k.cur] = "run"
    BY <1>1, <1>2, <1>3
  <2>6. QED
    BY <1>1, <2>1, <2>2, <2>4, <2>5 DEF ReadyInv
<1>6. UseInv
  BY <1>1, <1>2, <1>4 DEF UseInv
<1>7. AloneInv
  <2>1. \A m \in Object : holder[m] = Nobody /\ k.waiting[m] = {}
    BY <1>1, <1>2
  <2>2. QED
    BY <2>1 DEF AloneInv, InheritedFor, Bounded, SortedByBase
<1>8. QED
  BY <1>5, <1>6, <1>7 DEF InheritInv

LEMMA StepKeepsInherit ==
  ASSUME MutexAssumption, NewPrios = {}, MutexInv, InheritInv, [MutexNext]_vars
  PROVE  InheritInv'
<1>0. MutexInv'
  BY StepKeepsMutex
<1>1. CASE MutexStep
  BY <1>0, <1>1, ObtainInherits, GiveUpInherits, EnterInherits, RunsOutInherits,
     WaitInherits, TryAgainInherits, ExpiredInherits, DisinheritInherits,
     UnlockSchedulerInherits, CatchUpInherits, UnlockedInherits, YieldInherits
     DEF MutexStep
<1>2. CASE MutexCall
  <2>1. ASSUME NEW u \in Uses[k.cur], Take(u[1], u[2])
        PROVE  InheritInv'
    BY <1>0, <2>1, TakeInherits
  <2>2. ASSUME NEW m \in Object, TakeAgain(m) \/ GiveNested(m) \/ Give(m)
        PROVE  InheritInv'
    BY <1>0, <2>2, NestingInherits, GiveInherits
  <2>3. QED
    BY <1>2, <2>1, <2>2 DEF MutexCall, me
<1>3. CASE OtherCall /\ UNCHANGED mutexVars
  <2>1. ASSUME NEW t \in Abortable, AbortDelay(t)
        PROVE  InheritInv'
    BY <1>0, <1>3, <2>1, AbortDelayInherits DEF MutexAssumption
  <2>2. ASSUME NEW n \in Delays, Delay(n)
        PROVE  InheritInv'
    BY <1>0, <1>3, <2>2, DelayInherits, SchedulerAssumption
  <2>3. QED
    BY <1>0, <1>3, <2>1, <2>2, AbortBlockedInherits, AbortReadyInherits,
       TickInterruptInherits, YieldInherits DEF OtherCall
<1>4. CASE UNCHANGED vars
  <2>1. UNCHANGED <<k, pc, arg, holder, call, left>>
    BY <1>4 DEF vars, kernelVars, mutexVars
  <2>2. ReadyInv' /\ UseInv'
    BY <2>1 DEF InheritInv, ReadyInv, UseInv, UsesIt, WaitsFor
  <2>3. AloneInv'
    BY <2>1 DEF InheritInv, AloneInv, TakenAlone, Contended, InheritedFor, OnItsWay,
       WaitsFor, UsesIt
  <2>4. QED
    BY <2>2, <2>3 DEF InheritInv
<1>5. QED
  BY <1>1, <1>2, <1>3, <1>4 DEF MutexNext

-----------------------------------------------------------------------------
(* The theorem.                                                            *)

LEMMA InheritInvImplies == MutexInv /\ InheritInv => NoPriorityInversion
<1> SUFFICES ASSUME MutexInv, InheritInv
             PROVE  NoPriorityInversion
  OBVIOUS
<1>1. ASSUME NEW m \in Object, holder[m] # Nobody, TakenAlone(m)
      PROVE  \A t \in k.waiting[m] : k.base[t] <= k.prio[holder[m]]
  BY <1>1 DEF InheritInv, AloneInv, InheritedFor, Bounded
<1>2. HoldersInherit
  BY <1>1 DEF HoldersInherit
<1>3. QED
  BY <1>2 DEF MutexInv, MutexCounts, NoPriorityInversion

(* Priority inheritance works: while tasks wait for a mutex its holder     *)
(* runs at least at the priority of every one of them - through the time   *)
(* between a give and the take of the task it woke, in which another task  *)
(* may take the mutex first, through time-outs that take inherited         *)
(* priority back from the holder, aborts, delays and ticks - and a task    *)
(* that has given back its last mutex is back at its own priority.  As     *)
(* long as no priority is set meanwhile, and for the mutexes that tasks    *)
(* do not nest with others that are waited for.                            *)
THEOREM NoInversion ==
  ASSUME MutexAssumption, NewPrios = {}
  PROVE  MutexSpec => []NoPriorityInversion
<1>1. MutexInit => MutexInv /\ InheritInv
  BY InitMutex, InitInherits
<1>2. MutexInv /\ InheritInv /\ [MutexNext]_vars => (MutexInv /\ InheritInv)'
  BY StepKeepsMutex, StepKeepsInherit
<1>3. MutexInv /\ InheritInv => NoPriorityInversion
  BY InheritInvImplies
<1>4. QED
  BY <1>1, <1>2, <1>3, PTL DEF MutexSpec

-----------------------------------------------------------------------------
(* The lists.  Inheritance keeps the bit map exact if the bit it clears is *)
(* that of the list it empties: an inherited priority, and one that is     *)
(* given back, clear the bit of the old priority.  A time-out clears that  *)
(* of the new one, which is right as long as it never empties a list.      *)

LEMMA MoveReadyGood ==
  ASSUME NEW s, Good(s), NEW t \in Task, NEW p \in Prio, NEW c, p # s.prio[t],
         s.ready[s.prio[t]] = {t} => c = s.prio[t]
  PROVE  LET r == MoveReady(s, t, p, c)
         IN  /\ Good(r) /\ Listed(r) = Listed(s) /\ ReadyTasks(r) = ReadyTasks(s)
             /\ \A q \in r.top : q \in s.top \/ (q = p /\ t \in ReadyTasks(s))
             /\ r.dying = s.dying /\ r.yieldPending = s.yieldPending
<1> DEFINE old == s.prio[t]
           np == [s.prio EXCEPT ![t] = p]
           nr == [s.ready EXCEPT ![old] = s.ready[old] \ {t}]
           nt == IF s.ready[old] = {t} THEN s.top \ {c} ELSE s.top
           off == [s EXCEPT !.prio = np, !.ready = nr, !.top = nt]
           stay == [s EXCEPT !.prio = np]
           r == MoveReady(s, t, p, c)
<1>1. r = IF t \in s.ready[old] THEN AddToReadyList(off, t) ELSE stay
  BY DEF MoveReady
<1>2. /\ s \in KType /\ OnOneListOnly(s) /\ ReadyAtPriority(s) /\ TopIsExact(s)
      /\ EventItemsConsistent(s) /\ EventListsOrdered(s) /\ TimesConsistent(s)
  BY DEF Good, ItemsOK, ListsOK
<1>3. /\ old \in Prio /\ np \in [Task -> Prio] /\ nr \in [Prio -> SUBSET Task]
      /\ nt \in SUBSET Prio
  <2>1. old \in Prio /\ np \in [Task -> Prio] /\ nt \in SUBSET Prio
    BY <1>2 DEF KType
  <2>2. nr \in [Prio -> SUBSET Task]
    BY <1>2, <2>1 DEF KType
  <2>3. QED
    BY <2>1, <2>2
<1>4. np[t] = p /\ \A u \in Task \ {t} : np[u] = s.prio[u]
  BY <1>2 DEF KType
<1>5. \A q \in Prio : nr[q] = IF q = old THEN s.ready[q] \ {t} ELSE s.ready[q]
  BY <1>2, <1>3 DEF KType
<1>6. nt = IF s.ready[old] = {t} THEN s.top \ {c} ELSE s.top
  OBVIOUS
<1>7. t \in ReadyTasks(s) <=> t \in s.ready[old]
  BY <1>2, ReadyAtOwnPriority
<1> HIDE DEF np, nr, nt
<1>8. /\ off \in KType /\ off.prio = np /\ off.ready = nr /\ off.top = nt
      /\ off.delayed = s.delayed /\ off.overflow = s.overflow
      /\ off.suspended = s.suspended /\ off.dying = s.dying /\ off.wake = s.wake
      /\ off.pending = s.pending /\ off.waiting = s.waiting /\ off.before = s.before
      /\ off.tick = s.tick /\ off.next = s.next /\ off.depth = s.depth
      /\ off.yieldPending = s.yieldPending
  BY <1>2, <1>3 DEF KType
<1>9. /\ stay \in KType /\ stay.prio = np /\ stay.ready = s.ready /\ stay.top = s.top
      /\ stay.delayed = s.delayed /\ stay.overflow = s.overflow
      /\ stay.suspended = s.suspended /\ stay.dying = s.dying /\ stay.wake = s.wake
      /\ stay.pending = s.pending /\ stay.waiting = s.waiting /\ stay.before = s.before
      /\ stay.tick = s.tick /\ stay.next = s.next /\ stay.depth = s.depth
      /\ stay.yieldPending = s.yieldPending
  BY <1>2, <1>3 DEF KType
<1> HIDE DEF off, stay, r
<1>10. CASE t \in s.ready[old]
  <2>1. \A u : u \in ReadyTasks(off) <=> u \in ReadyTasks(s) /\ u # t
    <3>1. \A q \in Prio : t \notin off.ready[q]
      BY <1>2, <1>5, <1>8 DEF ReadyAtPriority
    <3>2. \A u : u # t => \A q \in Prio : u \in off.ready[q] <=> u \in s.ready[q]
      BY <1>5, <1>8
    <3>3. QED
      BY <3>1, <3>2, ReadyTasksElements
  <2>2. t \notin s.delayed \cup s.overflow \cup s.suspended \cup s.dying
    BY <1>2, <1>7, <1>10 DEF OnOneListOnly
  <2>3. t \notin Listed(off) /\ Listed(off) \cup {t} = Listed(s)
    BY <1>7, <1>8, <1>10, <2>1, <2>2, ListedElements
  <2>4. ListsOK(off)
    <3>1. OnOneListOnly(off)
      BY <1>2, <1>8, <2>1 DEF OnOneListOnly
    <3>2. ReadyAtPriority(off)
      <4> SUFFICES ASSUME NEW q \in Prio, NEW u \in off.ready[q]
                   PROVE  off.prio[u] = q
        BY DEF ReadyAtPriority
      <4>1. u # t
        BY <2>1, ReadyTasksElements
      <4>2. u \in s.ready[q] /\ u \in Task
        BY <1>2, <1>5, <1>8, <4>1 DEF KType
      <4>3. QED
        BY <1>2, <1>4, <1>8, <4>1, <4>2 DEF ReadyAtPriority
    <3>3. TopIsExact(off)
      <4> SUFFICES ASSUME NEW q \in Prio
                   PROVE  q \in nt <=> nr[q] # {}
        BY <1>8 DEF TopIsExact
      <4>1. q \in s.top <=> s.ready[q] # {}
        BY <1>2 DEF TopIsExact
      <4>2. CASE q = old
        BY <1>5, <1>6, <1>10, <4>1, <4>2
      <4>3. CASE q # old
        BY <1>5, <1>6, <4>1, <4>3
      <4>4. QED
        BY <4>2, <4>3
    <3>4. QED
      BY <1>8, <3>1, <3>2, <3>3 DEF ListsOK
  <2>5. Good(off)
    <3>1. Waiters(off) = Waiters(s)
      BY <1>8 DEF Waiters
    <3>2. EventItemsConsistent(off) /\ EventListsOrdered(off) /\ TimesConsistent(off)
      BY <1>2, <1>8, <3>1 DEF EventItemsConsistent, EventListsOrdered, TimesConsistent
    <3>3. QED
      BY <2>4, <3>2 DEF Good, ItemsOK
  <2>6. r = AddToReadyList(off, t)
    BY <1>1, <1>10
  <2>7. /\ Good(r) /\ Listed(r) = Listed(off) \cup {t}
        /\ ReadyTasks(r) = ReadyTasks(off) \cup {t}
    BY <2>3, <2>5, <2>6, AddToReadyListItems
  <2>8. r.top = nt \cup {p} /\ r.dying = s.dying /\ r.yieldPending = s.yieldPending
    BY <1>4, <1>8, <2>6, AddToReadyListFields
  <2>9. \A q \in r.top : q \in s.top \/ (q = p /\ t \in ReadyTasks(s))
    BY <1>6, <1>7, <1>10, <2>8
  <2>10. ReadyTasks(r) = ReadyTasks(s)
    BY <1>7, <1>10, <2>1, <2>7
  <2>11. QED
    BY <2>3, <2>7, <2>8, <2>9, <2>10 DEF r
<1>11. CASE t \notin s.ready[old]
  <2>1. r = stay
    BY <1>1, <1>11
  <2>2. \A u \in ReadyTasks(s) : u \in Task /\ u # t
    <3>1. \A u \in ReadyTasks(s) : u \in Task
      BY <1>2, ReadyTasksElements DEF KType
    <3>2. QED
      BY <1>7, <1>11, <3>1
  <2>3. Reprioritised(r, s)
    BY <1>4, <1>9, <2>1, <2>2 DEF Reprioritised
  <2>4. Good(r) /\ Listed(r) = Listed(s) /\ ReadyTasks(r) = ReadyTasks(s)
    BY <2>3, ReprioritisedGood
  <2>5. QED
    BY <1>9, <2>1, <2>4 DEF r
<1>12. QED
  BY <1>10, <1>11

(* The same after the value of the event item has been set *)
LEMMA InheritGood ==
  ASSUME NEW s, Good(s), NEW t \in Task, NEW p \in Prio, NEW c, p # s.prio[t],
         s.ready[s.prio[t]] = {t} => c = s.prio[t]
  PROVE  LET r == MoveReady([s EXCEPT !.key[t] = MaxPrio - p], t, p, c)
         IN  /\ Good(r) /\ Listed(r) = Listed(s) /\ ReadyTasks(r) = ReadyTasks(s)
             /\ \A q \in r.top : q \in s.top \/ (q = p /\ t \in ReadyTasks(s))
             /\ r.dying = s.dying /\ r.yieldPending = s.yieldPending
<1> DEFINE nk == [s.key EXCEPT ![t] = MaxPrio - p]
           m == [s EXCEPT !.key = nk]
           r == MoveReady(m, t, p, c)
<1>1. s \in KType
  BY DEF Good, ItemsOK, ListsOK
<1>2. nk \in [Task -> 1 .. MaxPrio]
  <2>1. MaxPrio - p \in 1 .. MaxPrio
    BY Constants DEF Prio
  <2>2. QED
    BY <1>1, <2>1 DEF KType
<1> HIDE DEF nk
<1>3. /\ m \in KType /\ m.ready = s.ready /\ m.prio = s.prio /\ m.top = s.top
      /\ m.yieldPending = s.yieldPending /\ m.dying = s.dying
  BY <1>1, <1>2 DEF KType
<1>4. SameLists(m, s)
  BY <1>1, <1>2 DEF SameLists, SameItems, SameTimes, KType
<1>5. m = [s EXCEPT !.key[t] = MaxPrio - p]
  BY DEF nk
<1> HIDE DEF m
<1>6. Good(m) /\ Listed(m) = Listed(s) /\ ReadyTasks(m) = ReadyTasks(s)
  BY <1>4, SameListsGood
<1>7. m.ready[m.prio[t]] = {t} => c = m.prio[t]
  BY <1>3
<1>8. /\ Good(r) /\ Listed(r) = Listed(m) /\ ReadyTasks(r) = ReadyTasks(m)
      /\ \A q \in r.top : q \in m.top \/ (q = p /\ t \in ReadyTasks(m))
      /\ r.dying = m.dying /\ r.yieldPending = m.yieldPending
  BY <1>3, <1>6, <1>7, MoveReadyGood
<1>9. QED
  BY <1>3, <1>5, <1>6, <1>8

-----------------------------------------------------------------------------
(* The invariant.                                                          *)

(* Every mutex that tasks wait for is taken alone. *)
WaitedForAlone == \A m \in Object : Contended(m) => TakenAlone(m)

Resting == {"block", "catchup_block", "yield"}
MutexPlaces == {"gone", "run", "catchup"} \cup Resting \cup Suspending \cup Taking

Existing == {t \in Task : pc[t] # "gone"}

(* The running task has the highest priority of the ready tasks, or a      *)
(* switch is noted for the end of the suspension, or is about to be made.  *)
Foremost ==
  \/ pc[k.cur] \in Resting
  \/ \A p \in k.top : p <= k.prio[k.cur]
  \/ k.yieldPending /\ pc[k.cur] \in Suspending \cup {"catchup"}

(* The lists, as in SchedulerProofs. *)
ListsRight ==
  /\ Good(k) /\ k.dying = {} /\ Idle \in ReadyTasks(k)
  /\ Listed(k) = Existing \ (IF pc[k.cur] = "aborted" THEN {arg[k.cur]} ELSE {})
  /\ \A t \in Task : pc[t] \in MutexPlaces
  /\ pc[k.cur] = "abort" => arg[k.cur] \in k.delayed \cup k.overflow \cup k.suspended
  /\ pc[k.cur] \in {"abort", "aborted"} => pc[arg[k.cur]] # "gone"

(* The tasks whose priority the holder of m may have. *)
Lender(t, m) == call[t] = m /\ WaitsFor(t, m) /\ (t = k.cur => Foremost)

(* The priority of a holder is its own, or that of a task in the middle of *)
(* a take, or it bounds those of all the tasks that will take back what    *)
(* they lent: when one of them does, another task has the priority the     *)
(* holder falls from, so that its list is not emptied.                     *)
Lent(m) ==
  \/ k.prio[holder[m]] = k.base[holder[m]]
  \/ \E t \in Task : Lender(t, m) /\ k.base[t] = k.prio[holder[m]]
  \/ \A t \in Task : call[t] = m /\ inherited[t] => k.base[t] <= k.prio[holder[m]]

(* A give that wakes a waiter may leave its caller, back at its own        *)
(* priority, running below a ready task.  It is then no holder's lender,   *)
(* and has nothing to take back.                                           *)
LendInv ==
  /\ inherited \in [Task -> BOOLEAN]
  /\ \A t \in Task : inherited[t] => call[t] # Nobody /\ WaitsFor(t, call[t])
  /\ \A t \in Task : pc[t] = "disinherit" => inherited[t]
  /\ \A t \in Task : k.base[t] <= k.prio[t]
  /\ Foremost \/ (k.prio[k.cur] = k.base[k.cur] /\ ~inherited[k.cur])
  /\ \A m \in Object : holder[m] # Nobody /\ Contended(m) => Lent(m)

ExactInv == ListsRight /\ LendInv

LEMMA RightFacts ==
  ASSUME MutexInv, InheritInv, ExactInv
  PROVE  /\ k \in KType /\ Good(k) /\ k.cur \in Task /\ Idle \in ReadyTasks(k)
         /\ k.prio \in [Task -> Prio] /\ k.base \in [Task -> Prio]
         /\ k.top \in SUBSET Prio
         /\ ListsOK(k) /\ ReadyAtPriority(k) /\ TopIsExact(k)
         /\ pc \in [Task -> Place \cup Taking] /\ arg \in [Task -> Task]
         /\ pc[k.cur] # "aborted" => Listed(k) = Existing
         /\ k.cur \in Existing
         /\ pc[k.cur] \notin Resting => k.cur \in ReadyTasks(k)
<1>1. /\ k \in KType /\ k.cur \in Task /\ Good(k) /\ Idle \in ReadyTasks(k)
      /\ pc \in [Task -> Place \cup Taking] /\ arg \in [Task -> Task]
  BY MutexFacts DEF ExactInv, ListsRight
<1>2. k.prio \in [Task -> Prio] /\ k.base \in [Task -> Prio] /\ k.top \in SUBSET Prio
  BY <1>1 DEF KType
<1>3. ListsOK(k) /\ ReadyAtPriority(k) /\ TopIsExact(k)
  BY <1>1 DEF Good, ItemsOK, ListsOK
<1>4. pc[k.cur] # "aborted" => Listed(k) = Existing
  BY DEF ExactInv, ListsRight
<1>5. pc[k.cur] \notin Resting => k.cur \in ReadyTasks(k)
  BY DEF InheritInv, ReadyInv, Resting
<1>6. k.cur \in Existing
  BY <1>1, <1>5, ListedElements DEF ExactInv, ListsRight, Existing, Resting
<1>7. QED
  BY <1>1, <1>2, <1>3, <1>4, <1>5, <1>6

(* The current task moves on. *)
LEMMA ListsMove ==
  ASSUME MutexInv, InheritInv, ExactInv, MutexInv',
         Good(k'), k'.dying = {}, Idle \in ReadyTasks(k'),
         NEW p \in MutexPlaces \ {"gone"}, pc' = [pc EXCEPT ![k.cur] = p],
         Listed(k') = Existing \ (IF p = "aborted" THEN {arg'[k.cur]} ELSE {}),
         p = "abort" => arg'[k.cur] \in k'.delayed \cup k'.overflow \cup k'.suspended,
         p \in {"abort", "aborted"} => pc'[arg'[k.cur]] # "gone"
  PROVE  ListsRight'
<1>1. /\ k.cur \in Task /\ pc[k.cur] # "gone" /\ pc'[k.cur] = p
      /\ \A t \in Task \ {k.cur} : pc'[t] = pc[t]
  BY RightFacts DEF Existing
<1>2. Existing' = Existing
  BY <1>1 DEF Existing
<1>3. pc'[k'.cur] \in {"abort", "aborted"} => k'.cur = k.cur
  <2>1. \A t \in Task \ {k.cur} : pc[t] \notin Sections
    BY DEF MutexInv, MutexControl
  <2>2. k'.cur \in Task
    BY DEF MutexInv, MutexControl, KType
  <2>3. QED
    BY <1>1, <2>1, <2>2 DEF Sections, Suspending
<1>4. p \in {"abort", "aborted"} => k'.cur = k.cur
  <2>1. \A t \in Task \ {k'.cur} : pc'[t] \notin Sections
    BY DEF MutexInv, MutexControl
  <2>2. QED
    BY <1>1, <2>1 DEF Sections, Suspending
<1>5. \A t \in Task : pc'[t] \in MutexPlaces
  BY <1>1 DEF ExactInv, ListsRight
<1>6. Listed(k') = Existing' \ (IF pc'[k'.cur] = "aborted" THEN {arg'[k'.cur]} ELSE {})
  <2>1. CASE p = "aborted"
    BY <1>1, <1>2, <1>4, <2>1
  <2>2. CASE p # "aborted"
    <3>1. pc'[k'.cur] # "aborted"
      BY <1>1, <1>3, <2>2
    <3>2. QED
      BY <1>2, <2>2, <3>1
  <2>3. QED
    BY <2>1, <2>2
<1>7. QED
  BY <1>1, <1>3, <1>5, <1>6 DEF ListsRight

LEMMA LentKept ==
  ASSUME NEW m \in Object, Lent(m), holder'[m] = holder[m], k'.base = k.base,
         k'.prio[holder[m]] = k.prio[holder[m]],
         \A t \in Task : Lender(t, m) => Lender(t, m)',
         \A t \in Task : call'[t] = m /\ inherited'[t] => call[t] = m /\ inherited[t]
  PROVE  Lent(m)'
<1>1. CASE k.prio[holder[m]] = k.base[holder[m]]
  BY <1>1 DEF Lent
<1>2. CASE \E t \in Task : Lender(t, m) /\ k.base[t] = k.prio[holder[m]]
  BY <1>2 DEF Lent
<1>3. CASE \A t \in Task : call[t] = m /\ inherited[t] => k.base[t] <= k.prio[holder[m]]
  BY <1>3 DEF Lent
<1>4. QED
  BY <1>1, <1>2, <1>3 DEF Lent

(* A step that changes neither a priority nor what a call has done. *)
LEMMA LendsKept ==
  ASSUME MutexInv, InheritInv, ExactInv,
         UNCHANGED <<holder, call, inherited>>, k'.prio = k.prio, k'.base = k.base,
         NEW p, pc' = [pc EXCEPT ![k.cur] = p], p = "disinherit" => inherited[k.cur],
         Foremost' \/ (k'.cur = k.cur /\ ~Foremost)
  PROVE  LendInv'
<1>1. LendInv /\ \A t \in Task : pc'[t] = IF t = k.cur THEN p ELSE pc[t]
  BY RightFacts DEF ExactInv
<1>2. \A t \in Task, m \in Object : Lender(t, m) => Lender(t, m)'
  BY DEF Lender, WaitsFor
<1>3. ASSUME NEW m \in Object, holder'[m] # Nobody, Contended(m)
      PROVE  Lent(m)'
  <2>1. Lent(m)
    BY <1>1, <1>3 DEF LendInv
  <2>2. QED
    BY <1>2, <2>1, LentKept
<1>4. \A t \in Task : inherited'[t] => call'[t] # Nobody /\ WaitsFor(t, call'[t])
  BY <1>1 DEF LendInv
<1>5. \A t \in Task : pc'[t] = "disinherit" => inherited'[t]
  BY <1>1 DEF LendInv
<1>6. Foremost' \/ (k'.prio[k'.cur] = k'.base[k'.cur] /\ ~inherited'[k'.cur])
  BY <1>1 DEF LendInv
<1>7. QED
  BY <1>1, <1>3, <1>4, <1>5, <1>6 DEF LendInv, Contended, WaitsFor

LEMMA QuietRight ==
  ASSUME MutexInv, InheritInv, ExactInv, MutexInv', UNCHANGED mutexVars,
         Good(k'), k'.dying = {}, Idle \in ReadyTasks(k'),
         k'.prio = k.prio, k'.base = k.base,
         NEW p \in MutexPlaces \ {"gone"}, pc' = [pc EXCEPT ![k.cur] = p],
         p = "disinherit" => pc[k.cur] = p,
         Listed(k') = Existing \ (IF p = "aborted" THEN {arg'[k.cur]} ELSE {}),
         p = "abort" => arg'[k.cur] \in k'.delayed \cup k'.overflow \cup k'.suspended,
         p \in {"abort", "aborted"} => pc'[arg'[k.cur]] # "gone",
         Foremost' \/ (k'.cur = k.cur /\ ~Foremost)
  PROVE  ExactInv'
<1>1. ListsRight'
  BY ListsMove
<1>2. p = "disinherit" => inherited[k.cur]
  BY RightFacts DEF ExactInv, LendInv
<1>3. LendInv'
  BY <1>2, LendsKept DEF mutexVars
<1>4. QED
  BY <1>1, <1>3 DEF ExactInv

(* In its own code, or in a call with the scheduler running, the foremost  *)
(* task has the highest priority of those that are ready.                  *)
LEMMA ForemostRuns ==
  ASSUME MutexInv, InheritInv, ExactInv, Foremost,
         pc[k.cur] \in Taking \cup {"run"}
  PROVE  /\ \A q \in k.top : q <= k.prio[k.cur]
         /\ \A t \in ReadyTasks(k) : t \in Task /\ k.prio[t] <= k.prio[k.cur]
         /\ Highest(k)
<1>1. \A q \in k.top : q <= k.prio[k.cur]
  BY DEF Foremost, Resting, Suspending, Taking
<1>2. k.cur \in ReadyTasks(k)
  BY RightFacts DEF Resting, Taking
<1>3. ASSUME NEW t \in ReadyTasks(k)
      PROVE  t \in Task /\ k.prio[t] <= k.prio[k.cur]
  <2>1. PICK q \in Prio : t \in k.ready[q]
    BY <1>3, ReadyTasksElements
  <2>2. t \in Task /\ k.prio[t] = q /\ q \in k.top
    BY <2>1, RightFacts DEF ReadyAtPriority, TopIsExact, KType
  <2>3. QED
    BY <1>1, <2>2
<1>4. QED
  BY <1>1, <1>2, <1>3 DEF Highest

-----------------------------------------------------------------------------
(* Steps of the kernel.                                                    *)

(* A step that may make tasks ready, and notes a switch if one is owed. *)
LEMMA NotedForemost ==
  ASSUME MutexInv, InheritInv, ExactInv, Noted(k', k), pc[k.cur] \in Sections,
         pc'[k.cur] \in Sections, pc[k.cur] \in Resting => pc'[k.cur] \in Resting
  PROVE  Foremost' \/ (k'.cur = k.cur /\ ~Foremost)
<1>1. k'.cur = k.cur /\ k'.prio = k.prio /\ k.prio[k.cur] \in Nat
  BY RightFacts DEF Noted, Prio
<1>2. CASE pc'[k.cur] \in Resting
  BY <1>1, <1>2 DEF Foremost
<1>3. CASE pc'[k.cur] \notin Resting
  <2>1. pc'[k.cur] \in Suspending \cup {"catchup"}
    BY <1>3 DEF Sections, Resting
  <2>2. CASE k'.yieldPending
    BY <1>1, <2>1, <2>2 DEF Foremost
  <2>3. CASE ~k'.yieldPending
    <3>1. ~k.yieldPending /\ \A p \in k'.top : p \in k.top \/ p <= k.prio[k.cur]
      BY <2>3 DEF Noted
    <3>2. CASE \A p \in k.top : p <= k.prio[k.cur]
      BY <1>1, <3>1, <3>2 DEF Foremost
    <3>3. CASE ~\A p \in k.top : p <= k.prio[k.cur]
      <4>1. CASE pc[k.cur] \in Resting
        BY <1>3, <4>1
      <4>2. CASE pc[k.cur] \notin Resting
        BY <1>1, <3>1, <3>3, <4>2 DEF Foremost
      <4>3. QED
        BY <4>1, <4>2
    <3>4. QED
      BY <3>2, <3>3
  <2>4. QED
    BY <2>2, <2>3
<1>4. QED
  BY <1>2, <1>3

LEMMA UnlockSchedulerRight ==
  ASSUME MutexInv, InheritInv, ExactInv, MutexInv', UnlockScheduler, UNCHANGED mutexVars
  PROVE  ExactInv'
<1> DEFINE p == IF At("unlock") THEN "catchup" ELSE "catchup_block"
<1>1. /\ pc[k.cur] = IF p = "catchup" THEN "unlock" ELSE "block"
      /\ pc' = [pc EXCEPT ![k.cur] = p] /\ k' = DrainPending(k)
      /\ p \in {"catchup", "catchup_block"}
  BY DEF UnlockScheduler, Unlock, At, Goto
<1> HIDE DEF p
<1>2. k.depth = 1 /\ k \in KType /\ pc'[k.cur] = p
  BY <1>1, MutexFacts DEF Suspending
<1>3. /\ Good(k') /\ Listed(k') = Listed(k) /\ Noted(k', k) /\ k'.dying = k.dying
  BY <1>1, <1>2, RightFacts, DrainPendingGood
<1>4. Foremost' \/ (k'.cur = k.cur /\ ~Foremost)
  <2>1. CASE p = "catchup_block"
    BY <1>2, <1>3, <2>1 DEF Foremost, Resting, Noted
  <2>2. CASE p = "catchup"
    <3>1. pc[k.cur] \in Sections /\ pc'[k.cur] \in Sections /\ pc[k.cur] \notin Resting
      BY <1>1, <1>2, <2>2 DEF Sections, Suspending, Resting
    <3>2. QED
      BY <1>3, <3>1, NotedForemost
  <2>3. QED
    BY <1>1, <2>1, <2>2
<1>5. Idle \in ReadyTasks(k') /\ k'.dying = {} /\ k'.prio = k.prio /\ k'.base = k.base
  BY <1>3 DEF ExactInv, ListsRight, Noted
<1>6. Listed(k') = Existing \ {}
  BY <1>1, <1>3, RightFacts
<1>7. p \in MutexPlaces \ {"gone"} /\ p \notin {"abort", "aborted", "disinherit"}
  BY <1>1 DEF MutexPlaces, Resting
<1>8. QED
  BY <1>1, <1>3, <1>4, <1>5, <1>6, <1>7, QuietRight

LEMMA CatchUpRight ==
  ASSUME MutexInv, InheritInv, ExactInv, MutexInv', CatchUp, UNCHANGED mutexVars
  PROVE  ExactInv'
<1> DEFINE p == pc[k.cur]
<1>1. /\ p \in {"catchup", "catchup_block"} /\ k.pended > 0 /\ k' = CatchUpTick(k)
      /\ pc' = pc
      /\ pc' = [pc EXCEPT ![k.cur] = p]
  BY MutexFacts DEF CatchUp, Masked
<1>2. pc'[k.cur] = pc[k.cur] /\ pc[k.cur] = p
  BY <1>1
<1> HIDE DEF p
<1>3. Good(k') /\ Listed(k') = Listed(k) /\ Noted(k', k) /\ k'.dying = k.dying
  BY <1>1, RightFacts, CatchUpTickGood
<1>4. Foremost' \/ (k'.cur = k.cur /\ ~Foremost)
  <2>1. pc[k.cur] \in Sections /\ pc'[k.cur] \in Sections
    BY <1>1, <1>2 DEF Sections
  <2>2. QED
    BY <1>2, <1>3, <2>1, NotedForemost
<1>5. Idle \in ReadyTasks(k') /\ k'.dying = {} /\ k'.prio = k.prio /\ k'.base = k.base
  BY <1>3 DEF ExactInv, ListsRight, Noted
<1>6. Listed(k') = Existing \ {}
  BY <1>1, <1>2, <1>3, RightFacts
<1>7. p \in MutexPlaces \ {"gone"} /\ p \notin {"abort", "aborted", "disinherit"}
  BY <1>1 DEF MutexPlaces, Resting
<1>8. QED
  BY <1>1, <1>3, <1>4, <1>5, <1>6, <1>7, QuietRight

(* A step that yields, from the state m, at place p *)
LEMMA SwitchRight ==
  ASSUME MutexInv, InheritInv, ExactInv, MutexInv', UNCHANGED mutexVars,
         NEW m, Good(m), m.depth = 0, m.dying = {}, Idle \in ReadyTasks(m),
         m.prio = k.prio, m.base = k.base, Listed(m) = Existing,
         k' \in SwitchContext(m),
         NEW p \in MutexPlaces \ {"gone"}, pc' = [pc EXCEPT ![k.cur] = p],
         p \notin {"abort", "aborted"}, p = "disinherit" => pc[k.cur] = p
  PROVE  ExactInv'
<1>1. /\ Good(k') /\ SameLists(k', m) /\ Listed(k') = Listed(m)
      /\ ReadyTasks(k') = ReadyTasks(m) /\ k'.base = m.base /\ Highest(k')
  BY SwitchContextGood
<1>2. Foremost'
  BY <1>1 DEF Foremost, Highest
<1>3. /\ k'.dying = {} /\ Idle \in ReadyTasks(k') /\ k'.prio = k.prio /\ k'.base = k.base
      /\ Listed(k') = Existing \ {}
  BY <1>1 DEF SameLists, SameItems
<1>4. QED
  BY <1>1, <1>2, <1>3, QuietRight

LEMMA UnlockedRight ==
  ASSUME MutexInv, InheritInv, ExactInv, MutexInv', Unlocked, UNCHANGED mutexVars
  PROVE  ExactInv'
<1> DEFINE p == IF At("catchup") \/ k.yieldPending THEN after[k.cur] ELSE "yield"
<1>1. /\ pc[k.cur] \in {"catchup", "catchup_block"} /\ k' \in YieldIf(k.yieldPending, k)
      /\ pc' = [pc EXCEPT ![k.cur] = p]
      /\ ~k.yieldPending => p = "yield" \/ pc[k.cur] = "catchup"
  BY DEF Unlocked, Masked, Goto, At
<1>2. k.depth = 0 /\ p \in {"run", "try", "expired", "yield"}
  BY <1>1, MutexFacts DEF Suspending
<1> HIDE DEF p
<1>3. /\ p \in MutexPlaces \ {"gone"} /\ p \notin {"abort", "aborted", "disinherit"}
  BY <1>2 DEF MutexPlaces, Resting, Taking
<1>4. Good(k) /\ k.dying = {} /\ Idle \in ReadyTasks(k) /\ Listed(k) = Existing
  BY <1>1, RightFacts DEF ExactInv, ListsRight
<1>5. CASE k.yieldPending
  <2>1. k' \in SwitchContext(k)
    BY <1>1, <1>5 DEF YieldIf
  <2>2. QED
    BY <1>1, <1>2, <1>3, <1>4, <2>1, SwitchRight
<1>6. CASE ~k.yieldPending
  <2>1. k' = k /\ pc'[k.cur] = p
    BY <1>1, <1>6, MutexFacts DEF YieldIf
  <2>2. Foremost' \/ (k'.cur = k.cur /\ ~Foremost)
    <3>1. CASE p = "yield"
      BY <2>1, <3>1 DEF Foremost, Resting
    <3>2. CASE p # "yield"
      <4>1. pc[k.cur] \notin Resting
        BY <1>1, <1>6, <3>2 DEF Resting
      <4>2. QED
        BY <1>6, <2>1, <4>1 DEF Foremost
    <3>3. QED
      BY <3>1, <3>2
  <2>3. Listed(k') = Existing \ {}
    BY <1>4, <2>1
  <2>4. QED
    BY <1>1, <1>3, <1>4, <2>1, <2>2, <2>3, QuietRight
<1>7. QED
  BY <1>5, <1>6

LEMMA YieldRight ==
  ASSUME MutexInv, InheritInv, ExactInv, MutexInv', Yield \/ IdleYield,
         UNCHANGED mutexVars
  PROVE  ExactInv'
<1> DEFINE p == IF At("yield") THEN after[k.cur] ELSE pc[k.cur]
<1>1. /\ k' \in SwitchContext(k) /\ pc' = [pc EXCEPT ![k.cur] = p]
      /\ pc[k.cur] = "yield" \/ (pc[k.cur] = "run" /\ p = "run")
  <2>1. CASE Yield
    <3>1. /\ k' \in SwitchContext(k) /\ pc' = [pc EXCEPT ![k.cur] = after[k.cur]]
          /\ At("yield")
      BY <2>1 DEF Yield, Goto
    <3>2. p = after[k.cur] /\ pc[k.cur] = "yield"
      BY <3>1 DEF At
    <3> HIDE DEF p
    <3>3. QED
      BY <3>1, <3>2
  <2>2. CASE IdleYield
    <3>1. k' \in SwitchContext(k) /\ pc' = pc /\ pc[k.cur] = "run"
      BY <2>2 DEF IdleYield, MutexInv, MutexControl
    <3>2. p = "run" /\ pc' = [pc EXCEPT ![k.cur] = pc[k.cur]]
      BY <3>1, MutexFacts DEF At
    <3>3. QED
      BY <3>1, <3>2
  <2>3. QED
    BY <2>1, <2>2
<1>2. k.depth = 0 /\ p \in {"run", "try", "expired"}
  <2>1. k.depth = 0 /\ after[k.cur] \in {"run", "try", "expired"}
    BY <1>1, MutexFacts DEF Suspending
  <2>2. p = after[k.cur] \/ p = "run"
    BY <1>1 DEF At
  <2> HIDE DEF p
  <2>3. QED
    BY <2>1, <2>2
<1> HIDE DEF p
<1>3. /\ p \in MutexPlaces \ {"gone"} /\ p \notin {"abort", "aborted", "disinherit"}
  BY <1>2 DEF MutexPlaces, Resting, Taking
<1>4. Good(k) /\ k.dying = {} /\ Idle \in ReadyTasks(k) /\ Listed(k) = Existing
  BY <1>1, RightFacts DEF ExactInv, ListsRight
<1>5. QED
  BY <1>1, <1>2, <1>3, <1>4, SwitchRight

LEMMA TickInterruptRight ==
  ASSUME MutexInv, InheritInv, ExactInv, MutexInv', TickInterrupt, UNCHANGED mutexVars
  PROVE  ExactInv'
<1> DEFINE p == pc[k.cur]
<1>1. /\ p \notin {"catchup", "catchup_block"} /\ pc' = pc /\ arg' = arg
      /\ pc' = [pc EXCEPT ![k.cur] = p]
  BY MutexFacts DEF TickInterrupt, Masked
<1>2. pc[k.cur] = p
  OBVIOUS
<1> HIDE DEF p
<1>3. p \in MutexPlaces \ {"gone"}
  BY <1>2, RightFacts DEF Existing, ExactInv, ListsRight
<1>4. /\ p = "abort" => arg[k.cur] \in k.delayed \cup k.overflow \cup k.suspended
      /\ p \in {"abort", "aborted"} => pc'[arg'[k.cur]] # "gone"
      /\ Listed(k) = Existing \ (IF p = "aborted" THEN {arg'[k.cur]} ELSE {})
      /\ Good(k) /\ k.dying = {} /\ Idle \in ReadyTasks(k)
  BY <1>1, <1>2 DEF ExactInv, ListsRight
<1>5. CASE k.depth > 0 /\ k' = [k EXCEPT !.pended = k.pended + 1]
  <2>1. k \in KType /\ k.pended + 1 \in Nat
    BY MutexFacts DEF KType
  <2>2. /\ k' \in KType /\ k'.cur = k.cur /\ k'.base = k.base
        /\ k'.yieldPending = k.yieldPending /\ SameLists(k', k)
    BY <1>5, <2>1 DEF KType, SameLists, SameItems, SameTimes
  <2>3. Good(k') /\ Listed(k') = Listed(k) /\ ReadyTasks(k') = ReadyTasks(k)
    BY <1>4, <2>2, SameListsGood
  <2>4. /\ k'.prio = k.prio /\ k'.dying = k.dying /\ k'.top = k.top
        /\ k'.delayed = k.delayed /\ k'.overflow = k.overflow /\ k'.suspended = k.suspended
    BY <2>2 DEF SameLists, SameItems
  <2>5. Foremost' \/ (k'.cur = k.cur /\ ~Foremost)
    BY <1>1, <2>2, <2>4 DEF Foremost
  <2>6. QED
    BY <1>1, <1>2, <1>3, <1>4, <2>2, <2>3, <2>4, <2>5, QuietRight
<1>6. CASE k.depth = 0 /\ k' \in YieldIf(TickWantsSwitch(k), IncrementTick(k))
  <2> DEFINE m == IncrementTick(k)
  <2>1. p \notin Suspending
    BY <1>2, <1>6, MutexFacts
  <2>2. /\ Good(m) /\ Listed(m) = Listed(k) /\ Ticked(m, k)
        /\ ReadyTasks(m) = ReadyTasks(k) \cup NextDue(k)
        /\ m.yieldPending = k.yieldPending
    BY <1>4, IncrementTickGood
  <2>3. /\ m.depth = 0 /\ m.dying = {} /\ m.prio = k.prio /\ m.base = k.base
        /\ m.cur = k.cur /\ Idle \in ReadyTasks(m) /\ Listed(m) = Existing
    BY <1>4, <1>6, <2>1, <2>2 DEF Ticked, Suspending
  <2>4. CASE TickWantsSwitch(k)
    <3>1. k' \in SwitchContext(m)
      BY <1>6, <2>4 DEF YieldIf
    <3> HIDE DEF m
    <3>2. p \notin {"abort", "aborted"}
      BY <2>1 DEF Suspending
    <3>3. QED
      BY <1>1, <1>2, <1>3, <2>2, <2>3, <3>1, <3>2, SwitchRight
  <2>5. CASE ~TickWantsSwitch(k)
    <3>1. k' = m
      BY <1>6, <2>5 DEF YieldIf
    <3>2. \A q \in m.top : q \in k.top \/ q <= k.prio[k.cur]
      BY <1>4, <2>5, TickOwesNothing
    <3> HIDE DEF m
    <3>3. Foremost' \/ (k'.cur = k.cur /\ ~Foremost)
      BY <1>1, <2>2, <2>3, <3>1, <3>2 DEF Foremost
    <3>4. p \notin {"abort", "aborted"} /\ Listed(k') = Existing \ {}
      BY <2>1, <2>3, <3>1 DEF Suspending
    <3>5. QED
      BY <1>1, <1>2, <1>3, <2>2, <2>3, <3>1, <3>3, <3>4, QuietRight
  <2>6. QED
    BY <2>4, <2>5
<1>7. QED
  BY <1>5, <1>6 DEF TickInterrupt

LEMMA SuspendAllGood ==
  ASSUME NEW s, Good(s)
  PROVE  LET r == SuspendAll(s)
         IN  /\ SameLists(r, s) /\ Good(r) /\ Listed(r) = Listed(s)
             /\ ReadyTasks(r) = ReadyTasks(s)
             /\ r.cur = s.cur /\ r.base = s.base /\ r.yieldPending = s.yieldPending
<1> DEFINE r == SuspendAll(s)
<1>1. s \in KType /\ r = [s EXCEPT !.depth = s.depth + 1] /\ s.depth + 1 \in Nat
  BY DEF SuspendAll, KType, Good, ItemsOK, ListsOK
<1> HIDE DEF r
<1>2. /\ SameLists(r, s)
      /\ r.cur = s.cur /\ r.base = s.base /\ r.yieldPending = s.yieldPending
  BY <1>1 DEF KType, SameLists, SameItems, SameTimes
<1>3. QED
  BY <1>2, SameListsGood DEF r

LEMMA DelayRight ==
  ASSUME MutexInv, InheritInv, ExactInv, MutexInv', NEW n \in Delays, Delay(n),
         UNCHANGED mutexVars
  PROVE  ExactInv'
<1> DEFINE s == SuspendAll(k)
<1>1. /\ pc[k.cur] = "run" /\ k' = AddCurrentToDelayedList(s, n, FALSE)
      /\ pc' = [pc EXCEPT ![k.cur] = "block"] /\ k.cur # Idle
  BY DEF Delay, Running, At, Goto
<1>2. /\ SameLists(s, k) /\ Good(s) /\ Listed(s) = Listed(k)
      /\ ReadyTasks(s) = ReadyTasks(k) /\ s.cur = k.cur /\ s.base = k.base
  BY RightFacts, SuspendAllGood
<1>3. n \in Tick /\ (k.tick + n) % TickMod # k.tick
  <2>1. n \in 0 .. TickMod - 1 /\ n # 0 /\ k.tick \in 0 .. TickMod - 1
    BY RightFacts, SchedulerAssumption DEF Tick, KType
  <2>2. (k.tick + n) % TickMod = IF k.tick + n < TickMod THEN k.tick + n
                                 ELSE k.tick + n - TickMod
    BY <2>1, Constants, AddModulo
  <2>3. QED
    BY <2>1, <2>2, Constants DEF Tick
<1> HIDE DEF s
<1>4. /\ ListsOK(s) /\ TimesConsistent(s) /\ BlockingItems(s) /\ s.cur \in ReadyTasks(s)
      /\ (s.tick + n) % TickMod # s.tick /\ s.cur \notin s.dying
  <2>1. ListsOK(s) /\ TimesConsistent(s) /\ BlockingItems(s)
    BY <1>2 DEF Good, ItemsOK, EventItemsConsistent, BlockingItems
  <2>2. s.cur \in ReadyTasks(s)
    BY <1>1, <1>2, RightFacts DEF Resting
  <2>3. s.tick = k.tick /\ s.dying = {}
    BY <1>2 DEF SameLists, SameItems, SameTimes, ExactInv, ListsRight
  <2>4. QED
    BY <1>3, <2>1, <2>2, <2>3
<1>5. /\ Good(k') /\ Listed(k') = Listed(s) /\ ReadyTasks(k') = ReadyTasks(s) \ {s.cur}
      /\ SameControl(k', s)
  <2>1. FALSE \in BOOLEAN /\ s \in KType
    BY <1>2 DEF SameLists, SameItems
  <2>2. /\ Good(k') /\ Listed(k') = Listed(s) /\ ReadyTasks(k') = ReadyTasks(s) \ {s.cur}
    BY <1>1, <1>3, <1>4, <2>1, AddCurrentToDelayedListGood
  <2>3. SameControl(k', s)
    BY <1>1, <1>3, <1>4, <2>1, AddCurrentToDelayedListControl
  <2>4. QED
    BY <2>2, <2>3
<1>6. /\ k'.cur = k.cur /\ k'.prio = k.prio /\ k'.base = k.base /\ k'.dying = {}
      /\ Idle \in ReadyTasks(k') /\ Listed(k') = Existing \ {}
  <2>1. k.dying = {} /\ Idle \in ReadyTasks(k) /\ Listed(k) = Existing
    BY <1>1, RightFacts DEF ExactInv, ListsRight
  <2>2. QED
    BY <1>1, <1>2, <1>5, <2>1 DEF SameLists, SameItems, SameControl
<1>7. Foremost'
  BY <1>1, <1>6, MutexFacts DEF Foremost, Resting
<1>8. QED
  BY <1>1, <1>5, <1>6, <1>7, QuietRight DEF MutexPlaces, Resting

LEMMA AbortDelayRight ==
  ASSUME MutexInv, InheritInv, ExactInv, MutexInv', NEW t \in Task, AbortDelay(t),
         UNCHANGED mutexVars
  PROVE  ExactInv'
<1> DEFINE p == IF IsBlocked(t) THEN "abort" ELSE "unlock"
<1>1. /\ pc[k.cur] = "run" /\ k' = SuspendAll(k) /\ pc' = [pc EXCEPT ![k.cur] = p]
      /\ arg' = [arg EXCEPT ![k.cur] = IF IsBlocked(t) THEN t ELSE k.cur]
      /\ pc[t] # "gone"
  BY DEF AbortDelay, Running, At, Goto, Alive
<1>2. /\ SameLists(k', k) /\ Good(k') /\ Listed(k') = Listed(k)
      /\ ReadyTasks(k') = ReadyTasks(k) /\ k'.cur = k.cur /\ k'.base = k.base
  BY <1>1, RightFacts, SuspendAllGood
<1>3. p = "abort" => /\ t \in k.delayed \cup k.overflow \cup k.suspended
                     /\ arg'[k.cur] = t /\ t # k.cur
  BY <1>1, MutexFacts DEF IsBlocked
<1>4. p \in {"abort", "unlock"}
  OBVIOUS
<1> HIDE DEF p
<1>5. /\ k'.prio = k.prio /\ k'.top = k.top /\ k'.dying = {} /\ Idle \in ReadyTasks(k')
      /\ k'.delayed = k.delayed /\ k'.overflow = k.overflow /\ k'.suspended = k.suspended
  BY <1>2 DEF SameLists, SameItems, ExactInv, ListsRight
<1>6. Foremost' \/ (k'.cur = k.cur /\ ~Foremost)
  BY <1>1, <1>2, <1>5 DEF Foremost, Resting, Suspending
<1>7. Listed(k') = Existing \ {}
  BY <1>1, <1>2, RightFacts
<1>8. p = "abort" => pc'[arg'[k.cur]] # "gone"
  BY <1>1, <1>3, MutexFacts
<1>9. p \in MutexPlaces \ {"gone"}
  BY <1>4 DEF MutexPlaces, Suspending
<1>10. QED
  BY <1>1, <1>2, <1>3, <1>4, <1>5, <1>6, <1>7, <1>8, <1>9, QuietRight

LEMMA AbortBlockedRight ==
  ASSUME MutexInv, InheritInv, ExactInv, MutexInv', AbortBlocked, UNCHANGED mutexVars
  PROVE  ExactInv'
<1> DEFINE t == arg[k.cur]
           m == OffStateList(k, t)
           off == OffEventLists(m, {t})
<1>1. /\ pc[k.cur] = "abort" /\ pc' = [pc EXCEPT ![k.cur] = "aborted"] /\ arg' = arg
      /\ \/ k' = [off EXCEPT !.aborted = off.aborted \cup {t}]
         \/ k' = off
  BY DEF AbortBlocked, At, Goto
<1>2. /\ t \in Task /\ t # k.cur /\ k.cur \in Task /\ pc[t] # "gone"
      /\ t \in k.delayed \cup k.overflow \cup k.suspended /\ k.dying = {}
  BY <1>1, MutexFacts DEF InheritInv, ReadyInv, ExactInv, ListsRight
<1>3. /\ Good(off) /\ Listed(off) = Listed(k) \ {t} /\ ReadyTasks(off) = ReadyTasks(k)
      /\ off.top = k.top /\ off.yieldPending = k.yieldPending
  BY <1>2, RightFacts, OffBlockedItems
<1>4. SameControl(off, k)
  <2>1. SameControl(m, k)
    BY <1>2, RightFacts, OffStateListControl
  <2> HIDE DEF m, t
  <2>2. SameControl(off, m)
    BY <1>2, <2>1, OffEventListsControl DEF SameControl
  <2>3. QED
    BY <2>1, <2>2 DEF SameControl
<1> HIDE DEF off
<1>5. /\ SameLists(k', off) /\ k'.cur = off.cur /\ k'.base = off.base
      /\ k'.yieldPending = off.yieldPending
  <2>1. off \in KType /\ off.aborted \cup {t} \in SUBSET Task
    BY <1>2, <1>4 DEF SameControl, KType
  <2> HIDE DEF t
  <2>2. QED
    BY <1>1, <2>1 DEF SameLists, SameItems, SameTimes, KType
<1>6. Good(k') /\ Listed(k') = Listed(off) /\ ReadyTasks(k') = ReadyTasks(off)
  BY <1>3, <1>5, SameListsGood
<1>7. /\ k'.cur = k.cur /\ k'.prio = k.prio /\ k'.base = k.base /\ k'.dying = {}
      /\ k'.top = k.top /\ k'.yieldPending = k.yieldPending
  BY <1>2, <1>3, <1>4, <1>5 DEF SameLists, SameItems, SameControl
<1>8. Listed(k) = Existing /\ Idle \in ReadyTasks(k)
  BY <1>1, RightFacts
<1> HIDE DEF t
<1>9. arg'[k.cur] = t
  BY <1>1 DEF t
<1>10. Foremost' \/ (k'.cur = k.cur /\ ~Foremost)
  BY <1>1, <1>2, <1>7 DEF Foremost, Resting, Suspending
<1>11. pc'[t] # "gone"
  BY <1>1, <1>2, MutexFacts
<1>12. Listed(k') = Existing \ {t}
  BY <1>3, <1>6, <1>8
<1>13. QED
  BY <1>1, <1>3, <1>6, <1>7, <1>8, <1>9, <1>10, <1>11, <1>12, QuietRight
     DEF MutexPlaces, Suspending

LEMMA AbortReadyRight ==
  ASSUME MutexInv, InheritInv, ExactInv, MutexInv', AbortReady, UNCHANGED mutexVars
  PROVE  ExactInv'
<1> DEFINE t == arg[k.cur]
           r == AddToReadyList(k, t)
           y == Preempts(k, {t})
<1>1. /\ pc[k.cur] = "aborted" /\ pc' = [pc EXCEPT ![k.cur] = "unlock"]
      /\ k' = [r EXCEPT !.yieldPending = r.yieldPending \/ y]
  BY DEF AbortReady, At, Goto
<1>2. /\ t \in Task /\ y \in BOOLEAN /\ t \in Existing /\ Listed(k) = Existing \ {t}
      /\ k.dying = {} /\ Idle \in ReadyTasks(k) /\ Good(k) /\ k \in KType
  <2>1. t \in Task /\ y \in BOOLEAN /\ k \in KType
    BY MutexFacts DEF Preempts
  <2>2. QED
    BY <1>1, <2>1 DEF ExactInv, ListsRight, Existing
<1>3. /\ Good(r) /\ ReadyTasks(r) = ReadyTasks(k) \cup {t} /\ Listed(r) = Existing
  <2>1. t \notin Listed(k)
    BY <1>2
  <2>2. /\ Good(r) /\ ReadyTasks(r) = ReadyTasks(k) \cup {t}
        /\ Listed(r) = Listed(k) \cup {t}
    BY <1>2, <2>1, AddToReadyListItems
  <2> HIDE DEF r, t
  <2>3. QED
    BY <1>2, <2>2
<1>4. /\ r \in KType /\ r.top = k.top \cup {k.prio[t]} /\ r.cur = k.cur
      /\ r.prio = k.prio /\ r.base = k.base /\ r.dying = k.dying
      /\ r.yieldPending = k.yieldPending
  BY <1>2, AddToReadyListFields
<1>5. ~y => k.prio[t] <= k.prio[k.cur]
  <2>1. k.prio[t] \in Nat /\ k.prio[k.cur] \in Nat
    BY <1>2, RightFacts DEF Prio
  <2>2. QED
    BY <2>1 DEF Preempts
<1> HIDE DEF r, y
<1>6. /\ SameLists(k', r) /\ k'.cur = r.cur /\ k'.base = r.base
      /\ k'.yieldPending = (r.yieldPending \/ y)
  <2>1. (r.yieldPending \/ y) \in BOOLEAN
    BY <1>2, <1>4 DEF KType
  <2>2. k' \in KType
    BY <1>1, <1>4, <2>1 DEF KType
  <2>3. k'.yieldPending = (r.yieldPending \/ y)
    BY <1>1, <1>4 DEF KType
  <2>4. QED
    BY <1>1, <1>4, <2>2, <2>3 DEF SameLists, SameItems, SameTimes, KType
<1> HIDE DEF t
<1>7. Good(k') /\ Listed(k') = Existing \ {} /\ Idle \in ReadyTasks(k')
  BY <1>2, <1>3, <1>6, SameListsGood
<1>8. /\ k'.cur = k.cur /\ k'.prio = k.prio /\ k'.base = k.base /\ k'.dying = {}
      /\ k'.top = k.top \cup {k.prio[t]}
  BY <1>2, <1>4, <1>6 DEF SameLists, SameItems
<1>9. Foremost' \/ (k'.cur = k.cur /\ ~Foremost)
  <2>1. pc'[k.cur] = "unlock"
    BY <1>1, MutexFacts
  <2>2. CASE y \/ k.yieldPending
    BY <1>4, <1>6, <1>8, <2>1, <2>2 DEF Foremost, Suspending
  <2>3. CASE ~y /\ ~k.yieldPending
    BY <1>1, <1>5, <1>8, <2>1, <2>3 DEF Foremost, Resting
  <2>4. QED
    BY <2>2, <2>3
<1>10. QED
  BY <1>1, <1>7, <1>8, <1>9, QuietRight DEF MutexPlaces, Suspending

-----------------------------------------------------------------------------
(* The steps of a call.                                                    *)

(* One that changes neither a list nor a priority ... *)
LEMMA CallRight ==
  ASSUME MutexAssumption, MutexInv, InheritInv, ExactInv, MutexInv',
         Good(k'), Listed(k') = Listed(k), Idle \in ReadyTasks(k'), k'.dying = {},
         k'.cur = k.cur, k'.prio = k.prio, k'.base = k.base, k'.top = k.top,
         holder' = holder, inherited' = inherited,
         \A t \in Task : call'[t] = call[t] \/ (t = k.cur /\ call[t] = Nobody),
         pc[k.cur] \in Taking \cup {"run"},
         NEW p \in {"run", "try", "enter", "disinherit", "unlock"},
         pc' = [pc EXCEPT ![k.cur] = p], p = "disinherit" => inherited[k.cur]
  PROVE  ExactInv'
<1>1. /\ k.cur \in Task /\ pc'[k.cur] = p /\ \A t \in Task \ {k.cur} : pc'[t] = pc[t]
      /\ pc[k.cur] \notin Resting /\ Listed(k) = Existing
      /\ p \notin {"abort", "aborted", "gone"} /\ p \in MutexPlaces
  BY RightFacts DEF Taking, Resting, MutexPlaces, Suspending
<1>2. ListsRight'
  <2>1. Listed(k') = Existing \ {}
    BY <1>1
  <2>2. QED
    BY <1>1, <2>1, ListsMove
<1>3. Foremost => Foremost'
  BY <1>1 DEF Foremost, Taking, Suspending
<1>4. LendInv
  BY DEF ExactInv
<1>5. \A t \in Task : inherited'[t] => call'[t] = call[t] /\ inherited[t]
  BY <1>4 DEF LendInv
<1>6. \A t \in Task, m \in Object : Lender(t, m) => Lender(t, m)'
  <2>1. Nobody \notin Object
    BY DEF MutexAssumption
  <2>2. \A t \in Task, m \in Object : call[t] = m => call'[t] = m
    BY <2>1
  <2>3. QED
    BY <1>3, <2>2 DEF Lender, WaitsFor
<1>7. ASSUME NEW m \in Object, holder'[m] # Nobody, Contended(m)
      PROVE  Lent(m)'
  <2>1. Lent(m)
    BY <1>4, <1>7 DEF LendInv
  <2>2. \A t \in Task : call'[t] = m /\ inherited'[t] => call[t] = m /\ inherited[t]
    BY <1>5
  <2>3. QED
    BY <1>6, <2>1, <2>2, LentKept
<1>8. \A t \in Task : inherited'[t] => call'[t] # Nobody /\ WaitsFor(t, call'[t])
  BY <1>4, <1>5 DEF LendInv
<1>9. \A t \in Task : pc'[t] = "disinherit" => inherited'[t]
  BY <1>1, <1>4 DEF LendInv
<1>10. Foremost' \/ (k'.prio[k'.cur] = k'.base[k'.cur] /\ ~inherited'[k'.cur])
  BY <1>3, <1>4 DEF LendInv
<1>11. LendInv'
  BY <1>4, <1>7, <1>8, <1>9, <1>10 DEF LendInv, Contended, WaitsFor
<1>12. QED
  BY <1>2, <1>11 DEF ExactInv

(* ... or the kernel's lists *)
LEMMA QuietCallRight ==
  ASSUME MutexAssumption, MutexInv, InheritInv, ExactInv, MutexInv',
         SameLists(k', k), k'.cur = k.cur, k'.base = k.base,
         holder' = holder, inherited' = inherited,
         \A t \in Task : call'[t] = call[t] \/ (t = k.cur /\ call[t] = Nobody),
         pc[k.cur] \in Taking \cup {"run"},
         NEW p \in {"run", "try", "enter", "disinherit", "unlock"},
         pc' = [pc EXCEPT ![k.cur] = p], p = "disinherit" => inherited[k.cur]
  PROVE  ExactInv'
<1>1. Good(k') /\ Listed(k') = Listed(k) /\ ReadyTasks(k') = ReadyTasks(k)
  BY RightFacts, SameListsGood
<1>2. /\ k'.prio = k.prio /\ k'.top = k.top /\ k'.dying = {} /\ Idle \in ReadyTasks(k')
  BY <1>1 DEF SameLists, SameItems, ExactInv, ListsRight
<1>3. QED
  BY <1>1, <1>2, CallRight

LEMMA SameSame ==
  ASSUME MutexInv, k' = k
  PROVE  SameLists(k', k) /\ k'.cur = k.cur /\ k'.base = k.base
BY MutexFacts DEF SameLists, SameItems, SameTimes

LEMMA TakeRight ==
  ASSUME MutexAssumption, MutexInv, InheritInv, ExactInv, MutexInv',
         NEW m, NEW n, Take(m, n)
  PROVE  ExactInv'
<1>1. /\ pc[k.cur] = "run" /\ k' = k /\ holder' = holder /\ inherited' = inherited
      /\ call' = [call EXCEPT ![k.cur] = m] /\ pc' = [pc EXCEPT ![k.cur] = "try"]
  BY DEF Take, Calling, Running, At, Goto, me
<1>2. call[k.cur] = Nobody /\ \A t \in Task \ {k.cur} : call'[t] = call[t]
  BY <1>1, RunningFacts, MutexFacts DEF MutexInv, MutexTypes, InCall, Taking
<1>3. QED
  BY <1>1, <1>2, SameSame, QuietCallRight

LEMMA NestingRight ==
  ASSUME MutexAssumption, MutexInv, InheritInv, ExactInv, MutexInv',
         NEW m, TakeAgain(m) \/ GiveNested(m)
  PROVE  ExactInv'
<1>1. /\ pc[k.cur] = "run" /\ k' = k /\ holder' = holder /\ inherited' = inherited
      /\ call' = call /\ pc' = pc
  BY DEF TakeAgain, GiveNested, Calling, Running, At, kernelVars
<1>2. pc' = [pc EXCEPT ![k.cur] = "run"]
  BY <1>1, MutexFacts
<1>3. QED
  BY <1>1, <1>2, SameSame, QuietCallRight

LEMMA EnterRight ==
  ASSUME MutexAssumption, MutexInv, InheritInv, ExactInv, MutexInv', Enter
  PROVE  ExactInv'
<1>1. /\ pc[k.cur] = "try" /\ k' = k /\ holder' = holder /\ inherited' = inherited
      /\ call' = call /\ pc' = [pc EXCEPT ![k.cur] = "enter"]
  BY DEF Enter, At, Goto
<1>2. QED
  BY <1>1, SameSame, QuietCallRight DEF Taking

LEMMA RunsOutRight ==
  ASSUME MutexAssumption, MutexInv, InheritInv, ExactInv, MutexInv', RunsOut
  PROVE  ExactInv'
<1> DEFINE s == SuspendAll(k)
<1>1. /\ pc[k.cur] = "enter" /\ k' = [s EXCEPT !.aborted = s.aborted \ {k.cur}]
      /\ holder' = holder /\ inherited' = inherited
      /\ call' = call /\ pc' = [pc EXCEPT ![k.cur] = "unlock"]
  BY DEF RunsOut, At, Goto, me
<1>2. SameLists(s, k) /\ s.cur = k.cur /\ s.base = k.base
  BY RightFacts, SuspendAllGood
<1> HIDE DEF s
<1>3. s \in KType /\ s.aborted \ {k.cur} \in SUBSET Task
  BY <1>2 DEF SameLists, SameItems, KType
<1>4. SameLists(k', s) /\ k'.cur = s.cur /\ k'.base = s.base
  BY <1>1, <1>3 DEF SameLists, SameItems, SameTimes, KType
<1>5. SameLists(k', k) /\ k'.cur = k.cur /\ k'.base = k.base
  BY <1>2, <1>4 DEF SameLists, SameItems, SameTimes
<1>6. QED
  BY <1>1, <1>5, QuietCallRight DEF Taking

LEMMA TryAgainRight ==
  ASSUME MutexAssumption, MutexInv, InheritInv, ExactInv, MutexInv', TryAgain
  PROVE  ExactInv'
<1>1. /\ pc[k.cur] = "enter" /\ k' = SuspendAll(k)
      /\ holder' = holder /\ inherited' = inherited
      /\ call' = call /\ pc' = [pc EXCEPT ![k.cur] = "unlock"]
  BY DEF TryAgain, At, Goto
<1>2. SameLists(k', k) /\ k'.cur = k.cur /\ k'.base = k.base
  BY <1>1, RightFacts, SuspendAllGood
<1>3. QED
  BY <1>1, <1>2, QuietCallRight DEF Taking

(* Of two tasks that wait for a mutex taken alone, the one that runs and   *)
(* is foremost has the higher priority, unless the other is on the list.   *)
LEMMA LendersBelow ==
  ASSUME MutexAssumption, WaitedForAlone, MutexInv, InheritInv, ExactInv, Foremost,
         pc[k.cur] \in Taking,
         NEW m \in Object, call[k.cur] = m, WaitsFor(k.cur, m),
         NEW t \in Task, call[t] = m, WaitsFor(t, m)
  PROVE  t \in k.waiting[m] \/ k.base[t] <= k.base[k.cur]
<1>1. /\ k.cur \in Task /\ call[t] # Nobody /\ pc[k.cur] # "aborted"
      /\ k.cur \in ReadyTasks(k)
  BY RightFacts DEF Taking, Resting, MutexAssumption
<1>2. TakenAlone(m)
  BY DEF WaitedForAlone, Contended, WaitsFor
<1>3. holder[m] # t /\ holder[m] # k.cur
  BY <1>1 DEF InheritInv, UseInv
<1>4. k.prio[t] = k.base[t] /\ k.prio[k.cur] = k.base[k.cur]
  BY <1>1, <1>2, <1>3, WaitersOwnPriority DEF InheritInv, OwnPriority
<1>5. CASE t \in Waiters(k)
  <2>1. PICK o \in Object : t \in k.waiting[o]
    BY <1>5, WaitersElements
  <2>2. o = m
    BY <2>1 DEF MutexInv, MutexWaits
  <2>3. QED
    BY <2>1, <2>2
<1>6. CASE t \in ReadyTasks(k)
  BY <1>4, <1>6, ForemostRuns
<1>7. QED
  BY <1>1, <1>5, <1>6 DEF InheritInv, ReadyInv

(* A call that returns takes nothing back that another one lends. *)
LEMMA LeaveRight ==
  ASSUME MutexAssumption, WaitedForAlone, MutexInv, InheritInv, ExactInv, MutexInv',
         pc[k.cur] \in Taking, Leave, k' = k, holder' = holder
  PROVE  ExactInv'
<1>1. /\ k.cur \in Task /\ call[k.cur] \in Object /\ pc[k.cur] \notin Resting
      /\ pc' = [pc EXCEPT ![k.cur] = "run"]
      /\ call' = [call EXCEPT ![k.cur] = Nobody]
      /\ inherited' = [inherited EXCEPT ![k.cur] = FALSE]
  BY TakingFacts DEF Leave, Taking, Resting, me
<1>2. /\ pc'[k.cur] = "run" /\ \A t \in Task \ {k.cur} : pc'[t] = pc[t]
      /\ call'[k.cur] = Nobody /\ \A t \in Task \ {k.cur} : call'[t] = call[t]
      /\ ~inherited'[k.cur] /\ \A t \in Task \ {k.cur} : inherited'[t] = inherited[t]
      /\ inherited' \in [Task -> BOOLEAN]
  BY <1>1, RightFacts DEF ExactInv, LendInv, MutexInv, MutexTypes
<1>3. ListsRight'
  <2>1. Good(k) /\ k.dying = {} /\ Idle \in ReadyTasks(k) /\ Listed(k) = Existing \ {}
    BY <1>1, RightFacts DEF ExactInv, ListsRight, Taking
  <2>2. "run" \in MutexPlaces \ {"gone"}
    BY DEF MutexPlaces
  <2>3. QED
    BY <1>1, <2>1, <2>2, ListsMove
<1>4. LendInv
  BY DEF ExactInv
<1>5. Foremost => Foremost'
  BY <1>1 DEF Foremost, Taking, Suspending
<1>6. \A t \in Task : inherited'[t] => t # k.cur /\ call'[t] = call[t] /\ inherited[t]
  BY <1>2
<1>8. \A t \in Task \ {k.cur}, m \in Object : Lender(t, m) => Lender(t, m)'
  BY <1>2 DEF Lender, WaitsFor
<1>9. ASSUME NEW m \in Object, holder'[m] # Nobody, Contended(m)
      PROVE  Lent(m)'
  <2>1. Lent(m) /\ holder[m] \in Task
    BY <1>4, <1>9, HolderHolds DEF LendInv
  <2>2. \A t \in Task : call'[t] = m /\ inherited'[t] => call[t] = m /\ inherited[t]
    BY <1>6
  <2>3. CASE Lender(k.cur, m) /\ k.base[k.cur] = k.prio[holder[m]]
    <3>1. Foremost /\ call[k.cur] = m /\ WaitsFor(k.cur, m) /\ TakenAlone(m)
      BY <1>9, <2>3 DEF Lender, WaitedForAlone
    <3>2. Bounded(k, m, k.prio[holder[m]])
      BY <1>9, <3>1 DEF InheritInv, AloneInv, InheritedFor
    <3>3. ASSUME NEW t \in Task, call'[t] = m, inherited'[t]
          PROVE  k.base[t] <= k.prio[holder[m]]
      <4>1. call[t] = m /\ WaitsFor(t, m)
        BY <1>4, <2>2, <3>3 DEF LendInv
      <4>2. QED
        BY <2>3, <3>1, <3>2, <4>1, LendersBelow DEF Bounded
    <3>4. QED
      BY <3>3 DEF Lent
  <2>4. CASE \E t \in Task : Lender(t, m) /\ k.base[t] = k.prio[holder[m]] /\ t # k.cur
    BY <1>8, <2>4 DEF Lent
  <2>5. CASE k.prio[holder[m]] = k.base[holder[m]]
    BY <2>5 DEF Lent
  <2>6. CASE \A t \in Task : call[t] = m /\ inherited[t] => k.base[t] <= k.prio[holder[m]]
    BY <2>2, <2>6 DEF Lent
  <2>7. QED
    BY <2>1, <2>3, <2>4, <2>5, <2>6 DEF Lent
<1>10. \A t \in Task : inherited'[t] => call'[t] # Nobody /\ WaitsFor(t, call'[t])
  BY <1>4, <1>6 DEF LendInv
<1>11. \A t \in Task : pc'[t] = "disinherit" => inherited'[t]
  BY <1>2, <1>4 DEF LendInv
<1>12. Foremost' \/ (k'.prio[k'.cur] = k'.base[k'.cur] /\ ~inherited'[k'.cur])
  BY <1>2, <1>4, <1>5 DEF LendInv
<1>13. LendInv'
  BY <1>2, <1>4, <1>9, <1>10, <1>11, <1>12 DEF LendInv, Contended, WaitsFor
<1>14. QED
  BY <1>3, <1>13 DEF ExactInv

LEMMA GiveUpRight ==
  ASSUME MutexAssumption, WaitedForAlone, MutexInv, InheritInv, ExactInv, MutexInv', GiveUp
  PROVE  ExactInv'
<1>1. pc[k.cur] \in Taking /\ Leave /\ k' = k /\ holder' = holder
  BY DEF GiveUp, At, Taking
<1>2. QED
  BY <1>1, LeaveRight

LEMMA ExpiredRight ==
  ASSUME MutexAssumption, WaitedForAlone, MutexInv, InheritInv, ExactInv, MutexInv',
         Expired
  PROVE  ExactInv'
<1>1. pc[k.cur] \in Taking /\ k' = k /\ holder' = holder
  BY DEF Expired, At, Taking
<1>2. CASE Leave
  BY <1>1, <1>2, LeaveRight
<1>3. CASE ~Leave
  <2>1. /\ call' = call /\ inherited' = inherited
        /\ \/ pc' = [pc EXCEPT ![k.cur] = "try"]
           \/ pc' = [pc EXCEPT ![k.cur] = "disinherit"] /\ inherited[k.cur]
    BY <1>3 DEF Expired, Goto, me
  <2>2. QED
    BY <1>1, <2>1, SameSame, QuietCallRight
<1>4. QED
  BY <1>2, <1>3

(* A task that gets a mutex with a priority above its own is the foremost: *)
(* none of those on their way to it has a higher one.                      *)
LEMMA ObtainRight ==
  ASSUME MutexAssumption, WaitedForAlone, MutexInv, InheritInv, ExactInv,
         MutexInv', InheritInv', Obtain
  PROVE  ExactInv'
<1>0. PICK m \in Object : m = call[k.cur]
  BY TakingFacts DEF Obtain, At, Taking
<1>1. /\ pc[k.cur] = "try" /\ holder[m] = Nobody
      /\ holder' = [holder EXCEPT ![m] = k.cur] /\ k' = k
      /\ pc' = [pc EXCEPT ![k.cur] = "run"]
      /\ call' = [call EXCEPT ![k.cur] = Nobody]
      /\ inherited' = [inherited EXCEPT ![k.cur] = FALSE]
  BY <1>0 DEF Obtain, Leave, At, me
<1>2. /\ k.cur \in Task /\ m \in Object /\ pc[k.cur] \in Taking /\ Nobody \notin Task
      /\ pc[k.cur] \notin Resting /\ Listed(k) = Existing /\ Nobody \notin Object
  BY <1>1, RightFacts, TakingFacts DEF Taking, Resting, MutexAssumption
<1>3. /\ pc'[k.cur] = "run" /\ \A t \in Task \ {k.cur} : pc'[t] = pc[t]
      /\ call'[k.cur] = Nobody /\ \A t \in Task \ {k.cur} : call'[t] = call[t]
      /\ ~inherited'[k.cur] /\ \A t \in Task \ {k.cur} : inherited'[t] = inherited[t]
      /\ inherited' \in [Task -> BOOLEAN]
  <2>1. /\ call \in [Task -> Object \cup {Nobody}] /\ inherited \in [Task -> BOOLEAN]
        /\ pc \in [Task -> Place \cup Taking]
    BY MutexFacts DEF ExactInv, LendInv, MutexInv, MutexTypes
  <2>2. QED
    BY <1>1, <1>2, <2>1
<1>4. holder'[m] = k.cur /\ \A o \in Object \ {m} : holder'[o] = holder[o]
  BY <1>1, <1>2 DEF MutexInv, MutexTypes
<1>5. ListsRight'
  <2>1. Good(k) /\ k.dying = {} /\ Idle \in ReadyTasks(k) /\ Listed(k) = Existing \ {}
    BY <1>2 DEF ExactInv, ListsRight
  <2>2. "run" \in MutexPlaces \ {"gone"}
    BY DEF MutexPlaces
  <2>3. QED
    BY <1>1, <2>1, <2>2, ListsMove
<1>6. LendInv
  BY DEF ExactInv
<1>7. Foremost => Foremost'
  BY <1>1, <1>2 DEF Foremost, Taking, Suspending
<1>8. \A t \in Task : inherited'[t] => t # k.cur /\ call'[t] = call[t] /\ inherited[t]
  BY <1>3
<1>9. ASSUME NEW o \in Object \ {m}, holder'[o] # Nobody, Contended(o)
      PROVE  Lent(o)'
  <2>1. Lent(o) /\ holder'[o] = holder[o]
    BY <1>4, <1>6, <1>9 DEF LendInv
  <2>2. \A t \in Task : Lender(t, o) => Lender(t, o)'
    <3>1. call[k.cur] # o
      BY <1>0, <1>9
    <3>2. QED
      BY <1>1, <1>3, <3>1 DEF Lender, WaitsFor
  <2>3. \A t \in Task : call'[t] = o /\ inherited'[t] => call[t] = o /\ inherited[t]
    BY <1>8
  <2>4. QED
    BY <1>1, <2>1, <2>2, <2>3, LentKept
<1>10. ASSUME Contended(m)
       PROVE  Lent(m)'
  <2>1. CASE k.prio[k.cur] = k.base[k.cur]
    BY <1>1, <1>4, <2>1 DEF Lent
  <2>2. CASE k.prio[k.cur] # k.base[k.cur]
    <3>1. Foremost
      BY <1>6, <2>2 DEF LendInv
    <3>2. TakenAlone(m)
      BY <1>2, <1>10 DEF WaitedForAlone
    <3>3. Bounded(k, m, k.prio[k.cur])
      <4>1. InheritedFor(m)'
        BY <1>2, <3>2 DEF InheritInv, AloneInv, TakenAlone, Contended
      <4>2. Bounded(k', m, k'.prio[holder'[m]])
        BY <1>2, <1>4, <4>1 DEF InheritedFor
      <4>3. QED
        BY <1>1, <1>4, <4>2
    <3>4. ASSUME NEW t \in Task, call'[t] = m, inherited'[t]
          PROVE  k.base[t] <= k.prio[k.cur]
      <4>1. call[t] = m /\ WaitsFor(t, m) /\ call[t] # Nobody /\ holder[m] # t
        BY <1>1, <1>2, <1>6, <1>8, <3>4 DEF LendInv
      <4>2. CASE t \in Waiters(k)
        <5>1. PICK o \in Object : t \in k.waiting[o]
          BY <4>2, WaitersElements
        <5>2. o = m
          BY <4>1, <5>1 DEF MutexInv, MutexWaits
        <5>3. QED
          BY <3>3, <5>1, <5>2 DEF Bounded
      <4>3. CASE t \in ReadyTasks(k)
        <5>1. k.prio[t] <= k.prio[k.cur]
          BY <1>2, <3>1, <4>3, ForemostRuns
        <5>2. k.prio[t] = k.base[t]
          BY <1>2, <3>2, <4>1, WaitersOwnPriority DEF InheritInv, OwnPriority
        <5>3. QED
          BY <5>1, <5>2
      <4>4. QED
        BY <1>1, <4>1, <4>2, <4>3 DEF InheritInv, ReadyInv
    <3>5. QED
      BY <1>1, <1>4, <3>4 DEF Lent
  <2>3. QED
    BY <2>1, <2>2
<1>11. \A o \in Object : holder'[o] # Nobody /\ Contended(o) => Lent(o)'
  BY <1>9, <1>10
<1>12. \A t \in Task : inherited'[t] => call'[t] # Nobody /\ WaitsFor(t, call'[t])
  BY <1>6, <1>8 DEF LendInv
<1>13. \A t \in Task : pc'[t] = "disinherit" => inherited'[t]
  BY <1>3, <1>6 DEF LendInv
<1>14. Foremost' \/ (k'.prio[k'.cur] = k'.base[k'.cur] /\ ~inherited'[k'.cur])
  BY <1>1, <1>3, <1>6, <1>7 DEF LendInv
<1>15. \A t \in Task : k'.base[t] <= k'.prio[t]
  BY <1>1, <1>6 DEF LendInv
<1>16. LendInv'
  BY <1>3, <1>11, <1>12, <1>13, <1>14, <1>15 DEF LendInv, Contended, WaitsFor
<1>17. QED
  BY <1>5, <1>16 DEF ExactInv

LEMMA TicksGoneLater ==
  ASSUME MutexInv, ~TimedOut, TicksGone
  PROVE  left'[k.cur] \in Tick /\ (k.tick + left'[k.cur]) % TickMod # k.tick
<1> DEFINE e == (k.tick + TickMod - entry[k.cur].at) % TickMod
           n == left'[k.cur]
<1>1. /\ left \in [Task -> Tick] /\ entry \in [Task -> TimeOutType] /\ k.cur \in Task
      /\ k.tick \in Tick
  BY MutexFacts DEF MutexInv, MutexTypes, KType
<1>2. n \in Tick
  BY <1>1, TicksGoneTypes
<1>3. n # 0
  <2>1. CASE left[k.cur] = MaxDelay
    <3>1. n = MaxDelay
      BY <2>1 DEF TicksGone, me
    <3>2. MaxDelay # 0
      BY Constants DEF MaxDelay
    <3>3. QED
      BY <3>1, <3>2
  <2>2. CASE left[k.cur] # MaxDelay
    <3>1. left' = [left EXCEPT ![k.cur] = left[k.cur] - e] /\ ~(e >= left[k.cur])
      BY <2>2 DEF TicksGone, TimedOut, Elapsed, me
    <3>2. e \in Nat
      <4>1. entry[k.cur].at \in Tick
        BY <1>1 DEF TimeOutType
      <4>2. k.tick + TickMod - entry[k.cur].at \in Nat /\ TickMod \in Nat \ {0}
        BY <1>1, <4>1, Constants DEF Tick
      <4>3. QED
        BY <4>2
    <3> HIDE DEF e
    <3>3. n = left[k.cur] - e /\ left[k.cur] \in Nat
      BY <1>1, <3>1, Constants DEF Tick
    <3> HIDE DEF n
    <3>4. QED
      BY <3>1, <3>2, <3>3
  <2>3. QED
    BY <2>1, <2>2
<1> HIDE DEF n
<1>4. (k.tick + n) % TickMod # k.tick
  <2>1. n \in 0 .. TickMod - 1 /\ k.tick \in 0 .. TickMod - 1
    BY <1>1, <1>2 DEF Tick
  <2>2. (k.tick + n) % TickMod = IF k.tick + n < TickMod THEN k.tick + n
                                 ELSE k.tick + n - TickMod
    BY <2>1, Constants, AddModulo
  <2>3. QED
    BY <1>3, <2>1, <2>2, Constants DEF Tick
<1>5. QED
  BY <1>2, <1>4 DEF n

LEMMA PriorityInheritGood ==
  ASSUME NEW s, Good(s), s.cur \in Task, NEW h \in Task
  PROVE  LET r == PriorityInherit(s, h)
         IN  /\ Good(r) /\ Listed(r) = Listed(s) /\ ReadyTasks(r) = ReadyTasks(s)
             /\ r.dying = s.dying
<1> DEFINE p == s.prio[s.cur]
           r == PriorityInherit(s, h)
<1>1. p \in Prio /\ s.prio[h] \in Prio
  BY DEF Good, ItemsOK, ListsOK, KType
<1>2. CASE s.prio[h] < p
  <2>1. p # s.prio[h]
    BY <1>1, <1>2 DEF Prio
  <2>2. r = MoveReady([s EXCEPT !.key[h] = MaxPrio - p], h, p, s.prio[h])
    BY <1>2 DEF PriorityInherit
  <2> HIDE DEF r, p
  <2>3. QED
    BY <1>1, <2>1, <2>2, InheritGood DEF r
<1>3. CASE ~(s.prio[h] < p)
  BY <1>3 DEF PriorityInherit
<1>4. QED
  BY <1>2, <1>3

LEMMA WaitLists ==
  ASSUME MutexInv, InheritInv, ExactInv, Wait
  PROVE  /\ Good(k') /\ Listed(k') = Listed(k) /\ k'.dying = k.dying
         /\ ReadyTasks(k') = ReadyTasks(k) \ {k.cur} /\ k'.cur = k.cur
<1> DEFINE m == call[k.cur]
           h == holder[m]
           s == SuspendAll(k)
           q == PriorityInherit(s, h)
           n == left'[k.cur]
<1>1. pc[k.cur] = "enter" /\ h # Nobody /\ k' = PlaceOnEventList(q, m, n)
  BY DEF Wait, At, me
<1>2. m \in Object /\ k.cur \in Task /\ k.cur \in ReadyTasks(k)
  BY <1>1, TakingFacts DEF Taking, InheritInv, ReadyInv
<1>3. h \in Task /\ n \in Tick /\ (k.tick + n) % TickMod # k.tick
  BY <1>1, <1>2, HolderHolds, TicksGoneLater DEF Wait
<1>4. /\ SameLists(s, k) /\ Good(s) /\ Listed(s) = Listed(k)
      /\ ReadyTasks(s) = ReadyTasks(k) /\ s.cur = k.cur
  BY RightFacts, SuspendAllGood
<1> HIDE DEF m, h, s, n
<1>5. s.tick = k.tick /\ s.dying = k.dying /\ k.dying = {} /\ s \in KType
  BY <1>4 DEF SameLists, SameItems, SameTimes, ExactInv, ListsRight
<1>6. /\ Good(q) /\ Listed(q) = Listed(s) /\ ReadyTasks(q) = ReadyTasks(s)
      /\ q.dying = s.dying
  BY <1>2, <1>3, <1>4, PriorityInheritGood
<1>7. Reorders(q, s)
  BY <1>3, <1>5, PriorityInheritKeeps
<1> HIDE DEF q
<1>8. q \in KType /\ q.cur = k.cur /\ q.tick = k.tick
  BY <1>4, <1>5, <1>7 DEF Reorders
<1>9. q.cur \in ReadyTasks(q) /\ (q.tick + n) % TickMod # q.tick /\ q.cur \notin q.dying
  BY <1>2, <1>3, <1>4, <1>5, <1>6, <1>8
<1>10. /\ Good(k') /\ Listed(k') = Listed(q) /\ ReadyTasks(k') = ReadyTasks(q) \ {q.cur}
  BY <1>1, <1>2, <1>3, <1>6, <1>9, PlaceOnEventListGood
<1>11. SameControl(k', q)
  BY <1>1, <1>2, <1>3, <1>8, <1>9, PlaceOnEventListControl
<1>12. QED
  BY <1>4, <1>5, <1>6, <1>8, <1>10, <1>11 DEF SameControl

(* A task that starts to wait lends its priority if the holder's is lower. *)
LEMMA WaitRight ==
  ASSUME MutexAssumption, WaitedForAlone, MutexInv, InheritInv, ExactInv,
         MutexInv', InheritInv', Wait
  PROVE  ExactInv'
<1>0. PICK m \in Object : m = call[k.cur]
  BY TakingFacts DEF Wait, At, Taking
<1> DEFINE h == holder[m]
           yes == InheritanceOccurs(k, h)
<1>1. /\ pc[k.cur] = "enter" /\ h # Nobody /\ ~TimedOut
      /\ holder' = holder /\ call' = call
      /\ pc' = [pc EXCEPT ![k.cur] = "block"]
      /\ inherited' = [inherited EXCEPT ![k.cur] = yes]
  BY <1>0 DEF Wait, At, Goto, me
<1>2. /\ k.cur \in Task /\ k.cur # Idle /\ pc[k.cur] \notin Resting /\ Listed(k) = Existing
  BY <1>1, RightFacts, TakingFacts DEF Taking, Resting
<1>3. h \in Task /\ h # k.cur /\ yes \in BOOLEAN
  BY <1>0, <1>1, HolderHolds DEF InheritInv, UseInv, InheritanceOccurs
<1>4. /\ k'.base = k.base /\ \A u \in Task \ {h} : k'.prio[u] = k.prio[u]
      /\ k'.prio[h] = IF k.prio[h] < k.prio[k.cur] THEN k.prio[k.cur] ELSE k.prio[h]
  BY <1>0, WaitFits
<1>5. /\ Good(k') /\ Listed(k') = Listed(k) /\ k'.dying = k.dying
      /\ ReadyTasks(k') = ReadyTasks(k) \ {k.cur} /\ k'.cur = k.cur
  BY WaitLists
<1> HIDE DEF yes
<1>6. /\ pc'[k.cur] = "block" /\ \A t \in Task \ {k.cur} : pc'[t] = pc[t]
      /\ inherited'[k.cur] = yes /\ \A t \in Task \ {k.cur} : inherited'[t] = inherited[t]
      /\ inherited' \in [Task -> BOOLEAN]
  <2>1. inherited \in [Task -> BOOLEAN] /\ pc \in [Task -> Place \cup Taking]
    BY MutexFacts DEF ExactInv, LendInv
  <2>2. QED
    BY <1>1, <1>2, <1>3, <2>1
<1>7. ListsRight'
  <2>1. /\ Listed(k') = Existing \ {} /\ Idle \in ReadyTasks(k') /\ k'.dying = {}
    BY <1>2, <1>5 DEF ExactInv, ListsRight
  <2>2. "block" \in MutexPlaces \ {"gone"}
    BY DEF MutexPlaces, Suspending
  <2> HIDE DEF h
  <2>3. QED
    BY <1>1, <1>5, <2>1, <2>2, ListsMove
<1>8. Foremost'
  BY <1>5, <1>6 DEF Foremost, Resting
<1>9. LendInv
  BY DEF ExactInv
<1>10. WaitsFor(k.cur, m) /\ TakenAlone(m)
  <2>1. left[k.cur] # 0
    BY <1>1, TimeLeft
  <2>2. WaitsFor(k.cur, m)
    BY <1>0, <1>2, <2>1 DEF InheritInv, UseInv, WaitsFor
  <2>3. QED
    BY <1>2, <2>2 DEF WaitedForAlone, Contended, WaitsFor
<1>11. k.prio[k.cur] = k.base[k.cur]
  BY <1>2, <1>3, <1>10, WaitersOwnPriority DEF InheritInv, OwnPriority
<1>12. k.prio \in [Task -> Prio] /\ k.base \in [Task -> Prio]
  BY RightFacts
<1>13. k.prio[h] \in Nat /\ k.prio[k.cur] \in Nat /\ k.base[h] \in Nat
  BY <1>2, <1>3, <1>12 DEF Prio
<1>14. \A t \in Task : t = k.cur => Lender(t, m)'
  BY <1>0, <1>1, <1>8, <1>10 DEF Lender, WaitsFor
<1>15. \A t \in Task \ {k.cur}, o \in Object : Lender(t, o) => Lender(t, o)'
  BY <1>1, <1>5 DEF Lender, WaitsFor
<1>16. Lent(m)'
  <2>1. CASE k.prio[h] < k.prio[k.cur]
    BY <1>1, <1>2, <1>4, <1>11, <1>14, <2>1 DEF Lent
  <2>2. CASE ~(k.prio[h] < k.prio[k.cur])
    <3>1. k'.prio[h] = k.prio[h] /\ k.base[k.cur] <= k.prio[h]
      BY <1>4, <1>11, <1>13, <2>2
    <3>2. Lent(m)
      BY <1>1, <1>2, <1>9, <1>10 DEF LendInv, Contended, WaitsFor
    <3>3. CASE k.prio[h] = k.base[h]
      BY <1>1, <1>4, <3>1, <3>3 DEF Lent
    <3>4. CASE \E t \in Task : Lender(t, m) /\ k.base[t] = k.prio[h]
      BY <1>1, <1>4, <1>14, <1>15, <3>1, <3>4 DEF Lent
    <3>5. CASE \A t \in Task : call[t] = m /\ inherited[t] => k.base[t] <= k.prio[h]
      <4>1. \A t \in Task : call'[t] = m /\ inherited'[t] => k.base[t] <= k.prio[h]
        BY <1>1, <1>6, <3>1, <3>5
      <4>2. QED
        BY <1>1, <1>4, <3>1, <4>1 DEF Lent
    <3>6. QED
      BY <3>2, <3>3, <3>4, <3>5 DEF Lent
  <2>3. QED
    BY <2>1, <2>2
<1>17. ASSUME NEW o \in Object, o # m, holder'[o] # Nobody, Contended(o)
       PROVE  Lent(o)'
  <2>1. Lent(o) /\ holder[o] \in Task
    BY <1>1, <1>9, <1>17, HolderHolds DEF LendInv
  <2>2. holder[o] # h
    <3>1. SUFFICES ASSUME holder[o] = h
                   PROVE  FALSE
      OBVIOUS
    <3>2. UsesIt(h, m) /\ UsesIt(h, o)
      BY <1>3, <3>1 DEF InheritInv, UseInv
    <3>3. PICK a \in Uses[h], b \in Uses[h] : a[1] = m /\ b[1] = o
      BY <3>2 DEF UsesIt
    <3>4. QED
      BY <1>3, <1>10, <1>17, <3>3 DEF TakenAlone
  <2>3. k'.prio[holder[o]] = k.prio[holder[o]]
    BY <1>4, <2>1, <2>2
  <2>4. \A t \in Task : Lender(t, o) => Lender(t, o)'
    BY <1>0, <1>15, <1>17 DEF Lender
  <2>5. \A t \in Task : call'[t] = o /\ inherited'[t] => call[t] = o /\ inherited[t]
    BY <1>0, <1>1, <1>6, <1>17
  <2>6. QED
    BY <1>1, <1>4, <2>1, <2>3, <2>4, <2>5, LentKept
<1>18. \A o \in Object : holder'[o] # Nobody /\ Contended(o) => Lent(o)'
  BY <1>16, <1>17
<1>19. \A t \in Task : inherited'[t] => call'[t] # Nobody /\ WaitsFor(t, call'[t])
  <2>1. m # Nobody
    BY DEF MutexAssumption
  <2>2. QED
    BY <1>0, <1>1, <1>6, <1>9, <1>10, <2>1 DEF LendInv
<1>20. \A t \in Task : pc'[t] = "disinherit" => inherited'[t]
  BY <1>6, <1>9 DEF LendInv
<1>21. \A t \in Task : k'.base[t] <= k'.prio[t]
  <2>1. k.base[h] <= k'.prio[h]
    BY <1>3, <1>4, <1>9, <1>13 DEF LendInv
  <2>2. QED
    BY <1>4, <1>9, <2>1 DEF LendInv
<1>22. LendInv'
  BY <1>6, <1>8, <1>18, <1>19, <1>20, <1>21 DEF LendInv, Contended, WaitsFor
<1>23. QED
  BY <1>7, <1>22 DEF ExactInv

LEMMA HighestWaitingIsOne ==
  ASSUME MutexInv, InheritInv, NEW m \in Object, TakenAlone(m)
  PROVE  \/ HighestWaiting(k, m) = 0
         \/ \E w \in k.waiting[m] : HighestWaiting(k, m) = k.base[w]
<1>1. CASE k.waiting[m] = {}
  BY <1>1 DEF HighestWaiting
<1>2. CASE k.waiting[m] # {}
  <2> DEFINE head == CHOOSE t \in k.waiting[m] : t \in FirstWaiters(k, m, 1)
  <2>1. k \in KType /\ EventListsOrdered(k)
    BY MutexFacts DEF MutexInv, MutexWaits
  <2>2. \E t \in k.waiting[m] : t \in FirstWaiters(k, m, 1)
    BY <1>2, <2>1, OneFirstWaiter
  <2>3. head \in k.waiting[m]
    BY <2>2
  <2>4. HighestWaiting(k, m) = MaxPrio - k.key[head]
    BY <1>2 DEF HighestWaiting
  <2> HIDE DEF head
  <2>5. k.key[head] = MaxPrio - k.base[head] /\ k.base[head] \in Prio
    BY <2>3, WaiterKeys
  <2>6. HighestWaiting(k, m) = k.base[head]
    BY <2>4, <2>5, KernelAssumption DEF Prio
  <2>7. QED
    BY <2>3, <2>6
<1>3. QED
  BY <1>1, <1>2

(* What the caller lent is taken back: the holder's priority falls, to     *)
(* that of the first waiter or to its own, and its list is not emptied.    *)
LEMMA TakenBack ==
  ASSUME MutexAssumption, WaitedForAlone, MutexInv, InheritInv, ExactInv,
         pc[k.cur] = "disinherit", NEW m \in Object, call[k.cur] = m, holder[m] # Nobody,
         k.prio[holder[m]] # PriorityToUse(k, holder[m], m)
  PROVE  LET h == holder[m]
             p == PriorityToUse(k, h, m)
         IN  /\ WaitsFor(k.cur, m) /\ TakenAlone(m) /\ Foremost
             /\ h \in Task /\ h # k.cur /\ p \in Prio
             /\ k.base[h] <= p /\ p < k.prio[h] /\ k.ready[k.prio[h]] # {h}
             /\ p = k.base[h] \/ \E w \in k.waiting[m] : p = k.base[w]
<1> DEFINE h == holder[m]
           hw == HighestWaiting(k, m)
           p == PriorityToUse(k, h, m)
<1>1. /\ k.cur \in Task /\ pc[k.cur] \in Taking /\ k.cur \in ReadyTasks(k)
      /\ k.prio \in [Task -> Prio] /\ k.base \in [Task -> Prio] /\ k \in KType
      /\ ReadyAtPriority(k) /\ EventListsOrdered(k)
      /\ \A w \in k.waiting[m] : w \in Task
  BY RightFacts, MutexFacts DEF Taking, Resting, MutexInv, MutexWaits
<1>2. inherited[k.cur] /\ WaitsFor(k.cur, m) /\ Foremost
  BY <1>1 DEF ExactInv, LendInv
<1>3. TakenAlone(m) /\ Contended(m)
  BY <1>1, <1>2 DEF WaitedForAlone, Contended, WaitsFor
<1>4. h \in Task /\ h # k.cur /\ \A t \in Task : call[t] = m => t # h
  BY HolderHolds DEF InheritInv, UseInv
<1>5. hw \in Nat /\ Bounded(k, m, hw) /\ p \in Prio
  BY <1>1, <1>3, <1>4, HighestWaitingType, HighestWaitingBounds, PriorityToUseType
<1>6. p = IF k.base[h] < hw THEN hw ELSE k.base[h]
  BY DEF PriorityToUse
<1>7. hw = 0 \/ \E w \in k.waiting[m] : hw = k.base[w]
  BY <1>3, HighestWaitingIsOne
<1>8. p # k.prio[h]
  OBVIOUS
<1>9. Bounded(k, m, k.prio[h]) /\ Lent(m)
  BY <1>3 DEF InheritInv, AloneInv, InheritedFor, ExactInv, LendInv
<1>10. k.base[h] <= k.prio[h]
  BY <1>4 DEF ExactInv, LendInv
<1> HIDE DEF p, hw
<1>11. k.base[h] \in Nat /\ k.prio[h] \in Nat /\ p \in Nat
  BY <1>1, <1>4, <1>5 DEF Prio
<1> HIDE DEF h
<1>12. k.base[h] <= p /\ hw <= p
  BY <1>5, <1>6, <1>11
<1>13. p = k.base[h] \/ \E w \in k.waiting[m] : p = k.base[w]
  BY <1>5, <1>6, <1>7, <1>11
<1>14. p < k.prio[h]
  <2>1. p <= k.prio[h]
    BY <1>9, <1>10, <1>13 DEF Bounded
  <2>2. QED
    BY <1>8, <1>11, <2>1
<1>15. ASSUME k.ready[k.prio[h]] = {h}
       PROVE  FALSE
  <2>1. \A t \in Task : call[t] = m /\ WaitsFor(t, m) => k.prio[t] = k.base[t]
    BY <1>3, WaitersOwnPriority DEF InheritInv, UseInv, OwnPriority
  <2>2. \A t \in Task : t \in ReadyTasks(k) /\ k.prio[t] = k.prio[h] => t = h
    BY <1>1, <1>15, ReadyAtOwnPriority
  <2>3. k.prio[h] \in Prio /\ h \in ReadyTasks(k)
    BY <1>1, <1>4, <1>15, ReadyTasksElements
  <2>4. CASE k.prio[h] = k.base[h]
    BY <1>11, <1>12, <1>14, <2>4
  <2>5. CASE \E t \in Task : Lender(t, m) /\ k.base[t] = k.prio[h]
    <3>1. PICK t \in Task : Lender(t, m) /\ k.base[t] = k.prio[h]
      BY <2>5
    <3>2. call[t] = m /\ WaitsFor(t, m) /\ t # h /\ call[t] # Nobody
      BY <1>4, <3>1 DEF Lender, MutexAssumption
    <3>3. CASE t \in Waiters(k)
      <4>1. PICK o \in Object : t \in k.waiting[o]
        BY <3>3, WaitersElements
      <4>2. o = m
        BY <3>2, <4>1 DEF MutexInv, MutexWaits
      <4>3. k.prio[h] <= hw
        BY <1>5, <3>1, <4>1, <4>2 DEF Bounded
      <4>4. QED
        BY <1>5, <1>11, <1>12, <1>14, <4>3
    <3>4. CASE t \in ReadyTasks(k)
      BY <2>1, <2>2, <3>1, <3>2, <3>4
    <3>5. QED
      BY <3>2, <3>3, <3>4 DEF InheritInv, ReadyInv
  <2>6. CASE \A t \in Task : call[t] = m /\ inherited[t] => k.base[t] <= k.prio[h]
    <3>1. k.base[k.cur] <= k.prio[h] /\ k.prio[k.cur] = k.base[k.cur]
      BY <1>1, <1>2, <2>1, <2>6
    <3>2. k.prio[h] <= k.prio[k.cur]
      BY <1>1, <1>2, <2>3, ForemostRuns
    <3>3. k.prio[k.cur] = k.prio[h]
      BY <1>1, <1>11, <3>1, <3>2 DEF Prio
    <3>4. QED
      BY <1>1, <1>4, <2>2, <3>3
  <2>7. QED
    BY <1>9, <2>4, <2>5, <2>6 DEF Lent, h
<1>16. QED
  BY <1>2, <1>3, <1>4, <1>5, <1>12, <1>13, <1>14, <1>15 DEF h, p

LEMMA DisinheritRight ==
  ASSUME MutexAssumption, WaitedForAlone, MutexInv, InheritInv, ExactInv,
         MutexInv', InheritInv', Disinherit
  PROVE  ExactInv'
<1>0. PICK m \in Object : m = call[k.cur]
  BY TakingFacts DEF Disinherit, At, Taking
<1> DEFINE h == holder[m]
           p == PriorityToUse(k, h, m)
<1>1. /\ pc[k.cur] = "disinherit" /\ Leave /\ holder' = holder
      /\ k' = IF h = Nobody THEN k ELSE DisinheritAfterTimeout(k, h, m)
  BY <1>0 DEF Disinherit, At, me
<1>2. k' = k \/ (h # Nobody /\ k.prio[h] # p /\ held[h] = 1)
  BY <1>1 DEF DisinheritAfterTimeout
<1>3. pc[k.cur] \in Taking
  BY <1>1 DEF Taking
<1>4. CASE k' = k
  BY <1>1, <1>3, <1>4, LeaveRight
<1>5. CASE h # Nobody /\ k.prio[h] # p /\ held[h] = 1
  <2>1. /\ WaitsFor(k.cur, m) /\ TakenAlone(m) /\ Foremost
        /\ h \in Task /\ h # k.cur /\ p \in Prio
        /\ k.base[h] <= p /\ p < k.prio[h] /\ k.ready[k.prio[h]] # {h}
        /\ p = k.base[h] \/ \E w \in k.waiting[m] : p = k.base[w]
    BY <1>0, <1>1, <1>5, TakenBack
  <2>2. k' = MoveReady([k EXCEPT !.key[h] = MaxPrio - p], h, p, p)
    BY <1>1, <1>5 DEF DisinheritAfterTimeout
  <2>3. /\ k \in KType /\ k.cur \in Task /\ Good(k) /\ Listed(k) = Existing /\ k.dying = {}
        /\ Idle \in ReadyTasks(k) /\ k.cur \in ReadyTasks(k)
        /\ k.prio \in [Task -> Prio] /\ k.base \in [Task -> Prio]
    BY <1>1, RightFacts DEF ExactInv, ListsRight, Resting
  <2> HIDE DEF p, h
  <2>4. /\ Good(k') /\ Listed(k') = Listed(k) /\ ReadyTasks(k') = ReadyTasks(k)
        /\ \A q \in k'.top : q \in k.top \/ (q = p /\ h \in ReadyTasks(k))
        /\ k'.dying = k.dying
    <3> DEFINE r == MoveReady([k EXCEPT !.key[h] = MaxPrio - p], h, p, p)
    <3>1. h \in Task /\ p \in Prio /\ k.prio[h] # p /\ k.ready[k.prio[h]] # {h} /\ Good(k)
      BY <1>5, <2>1, <2>3
    <3>2. k.ready[k.prio[h]] = {h} => p = k.prio[h]
      BY <3>1
    <3>3. p # k.prio[h]
      BY <3>1
    <3>4. /\ Good(r) /\ Listed(r) = Listed(k) /\ ReadyTasks(r) = ReadyTasks(k)
          /\ \A q \in r.top : q \in k.top \/ (q = p /\ h \in ReadyTasks(k))
          /\ r.dying = k.dying /\ r.yieldPending = k.yieldPending
      BY <3>1, <3>2, <3>3, InheritGood
    <3>5. r = k'
      BY <2>2
    <3> HIDE DEF r
    <3>6. QED
      BY <3>4, <3>5
  <2>5. /\ k'.base = k.base /\ k'.prio = [k.prio EXCEPT ![h] = p] /\ k'.cur = k.cur
    BY <2>1, <2>2, <2>3, InheritReorders DEF Reorders
  <2>6. k'.prio[h] = p /\ \A t \in Task \ {h} : k'.prio[t] = k.prio[t]
    BY <2>1, <2>3, <2>5
  <2>7. /\ pc' = [pc EXCEPT ![k.cur] = "run"]
        /\ call' = [call EXCEPT ![k.cur] = Nobody]
        /\ inherited' = [inherited EXCEPT ![k.cur] = FALSE]
    BY <1>1 DEF Leave, me
  <2>8. /\ pc'[k.cur] = "run" /\ \A t \in Task \ {k.cur} : pc'[t] = pc[t]
        /\ call'[k.cur] = Nobody /\ \A t \in Task \ {k.cur} : call'[t] = call[t]
        /\ ~inherited'[k.cur] /\ \A t \in Task \ {k.cur} : inherited'[t] = inherited[t]
        /\ inherited' \in [Task -> BOOLEAN]
    <3>1. /\ call \in [Task -> Object \cup {Nobody}] /\ inherited \in [Task -> BOOLEAN]
          /\ pc \in [Task -> Place \cup Taking]
      BY MutexFacts DEF ExactInv, LendInv, MutexInv, MutexTypes
    <3>2. QED
      BY <2>3, <2>7, <3>1
  <2>9. ListsRight'
    <3>1. /\ Listed(k') = Existing \ {} /\ Idle \in ReadyTasks(k') /\ k'.dying = {}
      BY <2>3, <2>4
    <3>2. "run" \in MutexPlaces \ {"gone"}
      BY DEF MutexPlaces
    <3>3. QED
      BY <2>4, <2>7, <3>1, <3>2, ListsMove
  <2>10. LendInv
    BY DEF ExactInv
  <2>11. k'.prio[k'.cur] = k.prio[k.cur]
    BY <2>1, <2>3, <2>5, <2>6
  <2>12. Foremost'
    <3>1. /\ \A q \in k.top : q <= k.prio[k.cur]
          /\ \A t \in ReadyTasks(k) : t \in Task /\ k.prio[t] <= k.prio[k.cur]
      BY <1>3, <2>1, ForemostRuns
    <3>2. h \in ReadyTasks(k) => p <= k.prio[k.cur]
      <4>1. h \in ReadyTasks(k) => k.prio[h] <= k.prio[k.cur]
        BY <3>1
      <4>2. k.prio[h] \in Nat /\ p \in Nat /\ k.prio[k.cur] \in Nat
        BY <2>1, <2>3 DEF Prio
      <4>3. QED
        BY <2>1, <4>1, <4>2
    <3>3. \A q \in k'.top : q <= k'.prio[k'.cur]
      BY <2>4, <2>11, <3>1, <3>2
    <3>4. QED
      BY <3>3 DEF Foremost
  <2>13. \A t \in Task : inherited'[t] => t # k.cur /\ call'[t] = call[t] /\ inherited[t]
    BY <2>8
  <2>14. holder[m] = h /\ holder'[m] = h
    BY <1>1 DEF h
  <2>15. Lent(m)'
    <3>1. CASE p = k.base[h]
      BY <2>5, <2>6, <2>14, <3>1 DEF Lent
    <3>2. CASE \E w \in k.waiting[m] : p = k.base[w]
      <4>1. PICK w \in k.waiting[m] : p = k.base[w]
        BY <3>2
      <4>2. /\ w \in Task /\ call[w] = m /\ WaitsFor(w, m)
        BY MutexFacts DEF MutexInv, MutexWaits, InheritInv, UseInv
      <4>3. w # k.cur
        BY <1>3, TakingFacts, WaitersElements
      <4>4. Lender(w, m)'
        BY <2>5, <2>8, <4>2, <4>3 DEF Lender, WaitsFor
      <4>5. QED
        BY <2>5, <2>6, <2>14, <4>1, <4>2, <4>4 DEF Lent
    <3>3. QED
      BY <2>1, <3>1, <3>2
  <2>16. ASSUME NEW o \in Object, o # m, holder'[o] # Nobody, Contended(o)
         PROVE  Lent(o)'
    <3>1. Lent(o) /\ holder[o] \in Task
      BY <1>1, <2>10, <2>16, HolderHolds DEF LendInv
    <3>2. holder[o] # h
      BY <1>5, <2>1, <2>14, <2>16, HoldsOne
    <3>3. k'.prio[holder[o]] = k.prio[holder[o]]
      BY <2>6, <3>1, <3>2
    <3>4. \A t \in Task : Lender(t, o) => Lender(t, o)'
      BY <1>0, <2>5, <2>8, <2>16 DEF Lender, WaitsFor
    <3>5. \A t \in Task : call'[t] = o /\ inherited'[t] => call[t] = o /\ inherited[t]
      BY <2>13
    <3>6. QED
      BY <1>1, <2>5, <3>1, <3>3, <3>4, <3>5, LentKept
  <2>17. \A o \in Object : holder'[o] # Nobody /\ Contended(o) => Lent(o)'
    BY <2>15, <2>16
  <2>18. \A t \in Task : inherited'[t] => call'[t] # Nobody /\ WaitsFor(t, call'[t])
    BY <2>10, <2>13 DEF LendInv
  <2>19. \A t \in Task : pc'[t] = "disinherit" => inherited'[t]
    BY <2>8, <2>10 DEF LendInv
  <2>20. \A t \in Task : k'.base[t] <= k'.prio[t]
    BY <2>1, <2>5, <2>6, <2>10 DEF LendInv
  <2>21. LendInv'
    BY <2>8, <2>12, <2>17, <2>18, <2>19, <2>20 DEF LendInv, Contended, WaitsFor
  <2>22. QED
    BY <2>9, <2>21 DEF ExactInv
<1>6. QED
  BY <1>2, <1>4, <1>5

-----------------------------------------------------------------------------
(* The mutex is given back. *)

LEMMA PriorityDisinheritGood ==
  ASSUME NEW s, Good(s), NEW t \in Task
  PROVE  LET r == PriorityDisinherit(s, t)
         IN  /\ Good(r) /\ Listed(r) = Listed(s) /\ ReadyTasks(r) = ReadyTasks(s)
             /\ r.dying = s.dying
<1> DEFINE p == s.base[t]
           r == PriorityDisinherit(s, t)
<1>1. p \in Prio /\ s.prio[t] \in Prio
  BY DEF Good, ItemsOK, ListsOK, KType
<1>2. CASE Disinherits(s, t)
  <2>1. p # s.prio[t]
    BY <1>2 DEF Disinherits
  <2>2. r = MoveReady([s EXCEPT !.key[t] = MaxPrio - p], t, p, s.prio[t])
    BY <1>2 DEF PriorityDisinherit
  <2> HIDE DEF r, p
  <2>3. QED
    BY <1>1, <2>1, <2>2, InheritGood DEF r
<1>3. CASE ~Disinherits(s, t)
  BY <1>3 DEF PriorityDisinherit
<1>4. QED
  BY <1>2, <1>3

(* Its caller keeps its priority, or falls back to its own. *)
LEMMA GivenRight ==
  ASSUME MutexAssumption, MutexInv, InheritInv, ExactInv, MutexInv',
         pc[k.cur] = "run", UNCHANGED <<pc, call, inherited>>,
         NEW m \in Object, holder[m] = k.cur, holder' = [holder EXCEPT ![m] = Nobody],
         Good(k'), Listed(k') = Listed(k), Idle \in ReadyTasks(k'), k'.dying = {},
         k'.base = k.base, \A t \in Task \ {k.cur} : k'.prio[t] = k.prio[t],
         k'.prio[k.cur] # k.prio[k.cur] =>
           held[k.cur] = 1 /\ k'.prio[k.cur] = k.base[k.cur],
         Foremost' \/ (k'.cur = k.cur /\ (~Foremost \/ k'.prio[k.cur] = k.base[k.cur]))
  PROVE  ExactInv'
<1>1. /\ k.cur \in Task /\ call[k.cur] = Nobody /\ Nobody \notin Object
      /\ Listed(k) = Existing /\ pc' = [pc EXCEPT ![k.cur] = "run"]
  <2>1. k.cur \in Task /\ pc \in [Task -> Place \cup Taking] /\ Listed(k) = Existing
    BY RightFacts
  <2>2. call[k.cur] = Nobody
    BY <2>1, RunningFacts DEF MutexInv, MutexTypes, InCall, Taking
  <2>3. QED
    BY <2>1, <2>2 DEF MutexAssumption
<1>2. LendInv /\ ~inherited[k.cur]
  BY <1>1 DEF ExactInv, LendInv
<1>3. ListsRight'
  <2>1. Listed(k') = Existing \ {}
    BY <1>1
  <2>2. "run" \in MutexPlaces \ {"gone"}
    BY DEF MutexPlaces
  <2>3. QED
    BY <1>1, <2>1, <2>2, ListsMove
<1>4. holder'[m] = Nobody /\ \A o \in Object \ {m} : holder'[o] = holder[o]
  BY DEF MutexInv, MutexTypes
<1>5. ASSUME NEW o \in Object, holder'[o] # Nobody, Contended(o)
      PROVE  Lent(o)'
  <2>1. o # m /\ holder'[o] = holder[o] /\ Lent(o)
    BY <1>2, <1>4, <1>5 DEF LendInv
  <2>2. holder[o] \in Task
    BY <1>5, <2>1, HolderHolds
  <2>3. k'.prio[holder[o]] = k.prio[holder[o]]
    BY <2>1, <2>2, HoldsOne
  <2>4. \A t \in Task : Lender(t, o) => Lender(t, o)'
    BY <1>1 DEF Lender, WaitsFor
  <2>5. QED
    BY <2>1, <2>3, <2>4, LentKept
<1>6. Foremost' \/ (k'.prio[k'.cur] = k'.base[k'.cur] /\ ~inherited'[k'.cur])
  <2>1. CASE Foremost'
    BY <2>1
  <2>2. CASE k'.cur = k.cur /\ (~Foremost \/ k'.prio[k.cur] = k.base[k.cur])
    <3>1. k'.prio[k.cur] = k.base[k.cur]
      BY <1>2, <2>2 DEF LendInv
    <3>2. QED
      BY <1>2, <2>2, <3>1
  <2>3. QED
    BY <2>1, <2>2
<1>7. \A t \in Task : k'.base[t] <= k'.prio[t]
  <2>1. k.base[k.cur] \in Nat
    BY RightFacts DEF Prio
  <2>2. ASSUME NEW t \in Task
        PROVE  k.base[t] <= k'.prio[t]
    <3>1. CASE k'.prio[t] = k.prio[t]
      BY <1>2, <3>1 DEF LendInv
    <3>2. CASE k'.prio[t] # k.prio[t]
      BY <2>1, <3>2
    <3>3. QED
      BY <3>1, <3>2
  <2>3. QED
    BY <2>2
<1>8. /\ inherited' \in [Task -> BOOLEAN]
      /\ \A t \in Task : inherited'[t] => call'[t] # Nobody /\ WaitsFor(t, call'[t])
      /\ \A t \in Task : pc'[t] = "disinherit" => inherited'[t]
  BY <1>2 DEF LendInv
<1>9. LendInv'
  BY <1>5, <1>6, <1>7, <1>8 DEF LendInv, Contended, WaitsFor
<1>10. QED
  BY <1>3, <1>9 DEF ExactInv

LEMMA GiveRight ==
  ASSUME MutexAssumption, MutexInv, InheritInv, ExactInv, MutexInv',
         NEW m \in Object, Give(m)
  PROVE  ExactInv'
<1> DEFINE q == PriorityDisinherit(k, k.cur)
           restored == Disinherits(k, k.cur)
<1>1. /\ pc[k.cur] = "run" /\ k.depth = 0 /\ holder[m] = k.cur
      /\ holder' = [holder EXCEPT ![m] = Nobody]
      /\ k' \in HandOver(q, m, restored) /\ UNCHANGED <<pc, call, inherited>>
  BY DEF Give, Calling, Running, At, me
<1>2. /\ k \in KType /\ k.cur \in Task /\ Good(k) /\ Idle \in ReadyTasks(k)
      /\ k.dying = {} /\ k.prio \in [Task -> Prio]
  BY RightFacts DEF ExactInv, ListsRight
<1>3. /\ Reorders(q, k) /\ q.base = k.base
      /\ \A u \in Task \ {k.cur} : q.prio[u] = k.prio[u]
      /\ held[k.cur] = 1 => q.prio[k.cur] = k.base[k.cur]
  BY <1>2, PriorityDisinheritKeeps
<1>4. /\ Good(q) /\ Listed(q) = Listed(k) /\ ReadyTasks(q) = ReadyTasks(k)
      /\ q.dying = k.dying
  BY <1>2, PriorityDisinheritGood
<1>5. /\ restored \in BOOLEAN /\ (restored => held[k.cur] = 1)
      /\ ~restored => q = k
  BY DEF Disinherits, PriorityDisinherit
<1> HIDE DEF q, restored
<1>6. /\ q \in KType /\ q.depth = 0 /\ q.cur = k.cur /\ q.waiting = k.waiting
      /\ Waiters(q) = Waiters(k) /\ EventListsOrdered(q)
  BY <1>1, <1>3, <1>4, ReordersEases DEF Reorders, Good, ItemsOK
<1>7. q.prio[k.cur] # k.prio[k.cur] =>
        held[k.cur] = 1 /\ q.prio[k.cur] = k.base[k.cur]
  BY <1>3, <1>5
<1>8. restored => q.prio[k.cur] = k.base[k.cur]
  BY <1>3, <1>5
<1>9. Foremost => \A p \in k.top : p <= k.prio[k.cur]
  BY <1>1, ForemostRuns
<1>10. Highest(k') /\ pc' = pc => Foremost'
  BY DEF Foremost, Highest
<1>11. CASE k.waiting[m] = {}
  <2>1. k' \in YieldIf(restored, q)
    BY <1>1, <1>6, <1>11 DEF HandOver
  <2>2. /\ Good(k') /\ SameLists(k', q) /\ Listed(k') = Listed(q)
        /\ ReadyTasks(k') = ReadyTasks(q) /\ k'.base = q.base
        /\ restored => Highest(k')
    BY <1>4, <1>5, <1>6, <2>1, YieldIfGood
  <2>3. k'.dying = {} /\ k'.prio = q.prio /\ k'.base = k.base
    BY <1>2, <1>3, <1>4, <2>2 DEF SameLists, SameItems
  <2>4. Foremost' \/ (k'.cur = k.cur /\ ~Foremost)
    <3>1. CASE restored
      BY <1>1, <1>10, <2>2, <3>1
    <3>2. CASE ~restored
      <4>1. k' = k
        BY <1>5, <2>1, <3>2 DEF YieldIf
      <4>2. QED
        BY <1>1, <4>1 DEF Foremost
    <3>3. QED
      BY <3>1, <3>2
  <2>5. Listed(k') = Listed(k) /\ Idle \in ReadyTasks(k')
    BY <1>2, <1>4, <2>2
  <2>6. QED
    BY <1>1, <1>3, <1>7, <2>2, <2>3, <2>4, <2>5, GivenRight
<1>12. CASE k.waiting[m] # {}
  <2>1. PICK u \in q.waiting[m] : FirstWaiters(q, m, 1) = {u}
    BY <1>6, <1>12, OneFirstWaiter
  <2> DEFINE r == RemoveFromEventList(q, {u})
             w == Preempts(q, {u})
  <2>2. k' \in YieldIf(w, r) /\ w \in BOOLEAN
    BY <1>1, <1>6, <1>12, <2>1 DEF HandOver, Preempts
  <2>3. {u} \in SUBSET Waiters(q) /\ {u} \in SUBSET Task
    <3>1. u \in Waiters(q) /\ u \in Task
      BY <1>6, <2>1, WaitersElements, MutexFacts
    <3>2. QED
      BY <3>1
  <2>4. SameControl(r, q)
    BY <1>6, <2>3, RemoveFromEventListEases
  <2>5. /\ Good(r) /\ Listed(r) = Listed(q) /\ ReadyTasks(q) \subseteq ReadyTasks(r)
        /\ TopFrom(r, q, {u})
    BY <1>4, <2>3, RemoveFromEventListGood
  <2>6. ~w => \A p \in r.top : p \in q.top \/ p <= q.prio[q.cur]
    BY <1>6, <2>3, <2>5, NotPreempted
  <2> HIDE DEF r, w
  <2>7. /\ r.depth = 0 /\ r.cur = k.cur /\ r.prio = q.prio /\ r.base = k.base
        /\ r.dying = {}
    BY <1>2, <1>3, <1>4, <1>6, <2>4 DEF SameControl
  <2>8. /\ Good(k') /\ SameLists(k', r) /\ Listed(k') = Listed(r)
        /\ ReadyTasks(k') = ReadyTasks(r) /\ k'.base = r.base
        /\ w => Highest(k')
    BY <2>2, <2>5, <2>7, YieldIfGood
  <2>9. k'.dying = {} /\ k'.prio = q.prio /\ k'.base = k.base
    BY <2>7, <2>8 DEF SameLists, SameItems
  <2>10. Foremost' \/ (k'.cur = k.cur /\ (~Foremost \/ k'.prio[k.cur] = k.base[k.cur]))
    <3>1. CASE w
      BY <1>1, <1>10, <2>8, <3>1
    <3>2. CASE ~w
      <4>1. k' = r /\ k'.cur = k.cur
        BY <2>2, <2>7, <3>2 DEF YieldIf
      <4>2. CASE restored \/ ~Foremost
        BY <1>8, <2>9, <4>1, <4>2
      <4>3. CASE ~restored /\ Foremost
        <5>1. \A p \in k.top : p <= k.prio[k.cur]
          BY <1>9, <4>3
        <5>2. \A p \in r.top : p <= k.prio[k.cur]
          BY <1>5, <2>6, <3>2, <4>3, <5>1
        <5>3. \A p \in k'.top : p <= k'.prio[k'.cur]
          BY <1>5, <2>9, <4>1, <4>3, <5>2
        <5>4. QED
          BY <5>3 DEF Foremost
      <4>4. QED
        BY <4>2, <4>3
    <3>3. QED
      BY <3>1, <3>2
  <2>11. Listed(k') = Listed(k) /\ Idle \in ReadyTasks(k')
    BY <1>2, <1>4, <2>5, <2>8
  <2>12. QED
    BY <1>1, <1>3, <1>7, <2>8, <2>9, <2>10, <2>11, GivenRight
<1>13. QED
  BY <1>11, <1>12

-----------------------------------------------------------------------------
(* The whole specification.                                                *)

LEMMA InitialKernelGood ==
  ASSUME NEW s \in InitialKernel
  PROVE  /\ Good(s) /\ Listed(s) = Boot /\ ReadyTasks(s) = Boot /\ s.dying = {}
         /\ \A p \in s.top : p <= s.prio[s.cur]
<1>1. PICK c \in {t \in Boot : \A u \in Boot : InitPrio[u] <= InitPrio[t]} :
        s = [ cur |-> c, prio |-> InitPrio, base |-> InitPrio,
              ready |-> [p \in Prio |-> {t \in Boot : InitPrio[t] = p}],
              top |-> {InitPrio[t] : t \in Boot},
              delayed |-> {}, overflow |-> {}, suspended |-> {}, dying |-> {},
              wake |-> [t \in Task |-> 0], pending |-> {},
              waiting |-> [o \in Object |-> {}], before |-> {},
              key |-> [t \in Task |-> MaxPrio - InitPrio[t]],
              aborted |-> {}, notify |-> [t \in Task |-> "not_waiting"],
              tick |-> 0, next |-> MaxDelay, overflows |-> 0, pended |-> 0,
              depth |-> 0, yieldPending |-> FALSE,
              count |-> Cardinality(Boot), cleanup |-> 0 ]
  BY DEF InitialKernel
<1>2. /\ s.cur = c /\ s.prio = InitPrio
      /\ \A p \in Prio : s.ready[p] = {t \in Boot : InitPrio[t] = p}
      /\ s.top = {InitPrio[t] : t \in Boot}
      /\ s.delayed = {} /\ s.overflow = {} /\ s.suspended = {} /\ s.dying = {}
      /\ s.pending = {} /\ \A o \in Object : s.waiting[o] = {}
      /\ s.before = {} /\ s.depth = 0
  BY <1>1
<1>3. Boot \subseteq Task /\ \A t \in Boot : InitPrio[t] \in Prio
  BY KernelAssumption
<1>4. s \in KType
  BY InitialKernelFacts
<1>5. ReadyTasks(s) = Boot /\ Waiters(s) = {}
  <2>1. \A t : t \in ReadyTasks(s) <=> t \in Boot
    BY <1>2, <1>3, ReadyTasksElements
  <2>2. \A t : t \notin Waiters(s)
    BY <1>2, WaitersElements
  <2>3. QED
    BY <2>1, <2>2
<1>6. ListsOK(s)
  BY <1>2, <1>3, <1>4, <1>5 DEF ListsOK, OnOneListOnly, ReadyAtPriority, TopIsExact
<1>7. EventItemsConsistent(s) /\ EventListsOrdered(s) /\ TimesConsistent(s)
  BY <1>2, <1>5 DEF EventItemsConsistent, EventListsOrdered, TimesConsistent
<1>8. Listed(s) = Boot
  BY <1>2, <1>5, ListedElements
<1>9. \A p \in s.top : p <= s.prio[s.cur]
  BY <1>2
<1>10. QED
  BY <1>2, <1>5, <1>6, <1>7, <1>8, <1>9 DEF Good, ItemsOK

LEMMA InitExact ==
  ASSUME MutexAssumption, MutexInit
  PROVE  ExactInv
<1>1. /\ k \in InitialKernel /\ pc = [t \in Task |-> IF t \in Boot THEN "run" ELSE "gone"]
      /\ holder = [m \in Object |-> Nobody]
      /\ inherited = [t \in Task |-> FALSE]
  BY DEF MutexInit, DispatchInit
<1>2. /\ Good(k) /\ Listed(k) = Boot /\ ReadyTasks(k) = Boot /\ k.dying = {}
      /\ \A p \in k.top : p <= k.prio[k.cur]
  BY <1>1, InitialKernelGood
<1>3. k.prio = InitPrio /\ k.base = InitPrio /\ k.cur \in Boot
  BY <1>1, InitialKernelFacts
<1>4. InitPrio \in [Task -> Prio] /\ Boot \subseteq Task /\ Idle \in Boot
  BY KernelAssumption
<1>5. /\ Existing = Boot /\ pc[k.cur] = "run"
      /\ \A t \in Task : pc[t] \in {"run", "gone"}
  BY <1>1, <1>3, <1>4 DEF Existing
<1>6. ListsRight
  BY <1>2, <1>4, <1>5 DEF ListsRight, MutexPlaces
<1>7. \A t \in Task : k.base[t] <= k.prio[t]
  BY <1>3, <1>4 DEF Prio
<1>8. Foremost
  BY <1>2 DEF Foremost
<1>9. LendInv
  BY <1>1, <1>5, <1>7, <1>8 DEF LendInv
<1>10. QED
  BY <1>6, <1>9 DEF ExactInv

LEMMA StepKeepsExact ==
  ASSUME MutexAssumption, NewPrios = {}, WaitedForAlone, MutexInv, InheritInv, ExactInv,
         [MutexNext]_vars
  PROVE  ExactInv'
<1>0. MutexInv' /\ InheritInv'
  BY StepKeepsMutex, StepKeepsInherit
<1>1. CASE MutexStep
  BY <1>0, <1>1, ObtainRight, GiveUpRight, EnterRight, RunsOutRight, WaitRight,
     TryAgainRight, ExpiredRight, DisinheritRight, UnlockSchedulerRight, CatchUpRight,
     UnlockedRight, YieldRight DEF MutexStep
<1>2. CASE MutexCall
  <2>1. ASSUME NEW u \in Uses[k.cur], Take(u[1], u[2])
        PROVE  ExactInv'
    BY <1>0, <2>1, TakeRight
  <2>2. ASSUME NEW m \in Object, TakeAgain(m) \/ GiveNested(m) \/ Give(m)
        PROVE  ExactInv'
    BY <1>0, <2>2, NestingRight, GiveRight
  <2>3. QED
    BY <1>2, <2>1, <2>2 DEF MutexCall, me
<1>3. CASE OtherCall /\ UNCHANGED mutexVars
  <2>1. ASSUME NEW t \in Abortable, AbortDelay(t)
        PROVE  ExactInv'
    BY <1>0, <1>3, <2>1, AbortDelayRight DEF MutexAssumption
  <2>2. ASSUME NEW n \in Delays, Delay(n)
        PROVE  ExactInv'
    BY <1>0, <1>3, <2>2, DelayRight
  <2>3. QED
    BY <1>0, <1>3, <2>1, <2>2, AbortBlockedRight, AbortReadyRight,
       TickInterruptRight, YieldRight DEF OtherCall
<1>4. CASE UNCHANGED vars
  <2>1. UNCHANGED <<k, pc, arg, holder, call, inherited>>
    BY <1>4 DEF vars, kernelVars, mutexVars
  <2>2. ListsRight'
    BY <2>1 DEF ExactInv, ListsRight, Existing
  <2>3. Foremost' <=> Foremost
    BY <2>1 DEF Foremost
  <2>4. \A m \in Object : Lent(m)' <=> Lent(m)
    BY <2>1, <2>3 DEF Lent, Lender, WaitsFor
  <2>5. LendInv'
    BY <2>1, <2>3, <2>4 DEF ExactInv, LendInv, Contended, WaitsFor
  <2>6. QED
    BY <2>2, <2>5 DEF ExactInv
<1>5. QED
  BY <1>1, <1>2, <1>3, <1>4 DEF MutexNext

-----------------------------------------------------------------------------
(* The theorems.                                                           *)

LEMMA ExactInvImplies == MutexInv /\ InheritInv /\ ExactInv => MutexesConsistent
<1> SUFFICES ASSUME MutexInv, InheritInv, ExactInv
             PROVE  MutexesConsistent
  OBVIOUS
<1>1. /\ k \in KType /\ holder \in [Object -> Task \cup {Nobody}]
      /\ nesting \in [Object -> 0 .. MaxNesting] /\ HoldersCounted
  BY DEF MutexInv, MutexControl, MutexTypes, MutexCounts
<1>2. Good(k) /\ ListsOK(k) /\ ReadyAtPriority(k) /\ TopIsExact(k)
  BY RightFacts
<1>3. OnOneListOnly(k) /\ EventItemsConsistent(k)
  BY <1>2 DEF Good, ItemsOK, ListsOK
<1>4. k.dying = {t \in Task : pc[t] = "exit"}
  BY DEF ExactInv, ListsRight, MutexPlaces, Resting, Suspending, Taking
<1>5. Listed(k) = {t \in Task : pc[t] # "gone"} \ InTransit
  BY DEF ExactInv, ListsRight, Existing, InTransit, At
<1>6. EveryTaskOnItsList
  BY <1>2, <1>3, <1>4, <1>5 DEF EveryTaskOnItsList
<1>7. QED
  BY <1>1, <1>3, <1>6 DEF MutexesConsistent

(* The lists, the counters and the holders agree: every task is on the     *)
(* list it has to be on, at its priority, and the bit map says exactly     *)
(* which ready lists have a task, though every inheritance moves tasks     *)
(* from list to list and a waiter that gives up clears the bit of the      *)
(* holder's new priority, not of the old: it never empties the list that   *)
(* it takes the holder from.  As long as no priority is set meanwhile and  *)
(* no task nests a mutex with others that are waited for; without that it  *)
(* may empty it, and the bit map is wrong.                                 *)
THEOREM BitMapStaysExact ==
  ASSUME MutexAssumption, NewPrios = {}, WaitedForAlone
  PROVE  MutexSpec => []MutexesConsistent
<1>1. MutexInit => MutexInv /\ InheritInv /\ ExactInv
  BY InitMutex, InitInherits, InitExact
<1>2. MutexInv /\ InheritInv /\ ExactInv /\ [MutexNext]_vars =>
        (MutexInv /\ InheritInv /\ ExactInv)'
  BY StepKeepsMutex, StepKeepsInherit, StepKeepsExact
<1>3. MutexInv /\ InheritInv /\ ExactInv => MutexesConsistent
  BY ExactInvImplies
<1>4. QED
  BY <1>1, <1>2, <1>3, PTL DEF MutexSpec

(* A bit map that is exact, and not empty, leads to a ready task. *)
LEMMA SelectsReady ==
  ASSUME NEW s, Good(s), NEW t \in ReadyTasks(s)
  PROVE  HighestReady(s) # {}
<1>1. s \in KType /\ TopIsExact(s)
  BY DEF Good, ItemsOK, ListsOK
<1>2. PICK q \in Prio : t \in s.ready[q]
  BY ReadyTasksElements
<1>3. q \in s.top /\ s.top \in SUBSET Prio
  BY <1>1, <1>2 DEF TopIsExact, KType
<1> DEFINE T == {MaxPrio - p : p \in s.top}
<1>4. T \in SUBSET Nat /\ T # {}
  BY <1>3, Constants DEF Prio
<1>5. PICK w \in T : \A x \in T : w <= x
  BY <1>4, LeastNatural
<1>6. PICK p \in s.top : w = MaxPrio - p
  BY <1>5
<1>7. \A r \in s.top : r <= p
  <2>1. \A r \in s.top : MaxPrio - p <= MaxPrio - r
    BY <1>5, <1>6
  <2>2. p \in Int /\ \A r \in s.top : r \in Int
    BY <1>3 DEF Prio
  <2>3. QED
    BY <2>1, <2>2, Constants
<1>8. PICK u : u \in s.ready[p]
  BY <1>1, <1>3 DEF TopIsExact
<1>9. QED
  BY <1>7, <1>8 DEF HighestReady

(* The scheduler never selects from an empty list, which its configASSERT  *)
(* forbids, on the same assumptions.  Without the last of them it may, as  *)
(* the run stale_ready_bit shows.                                          *)
THEOREM SelectionIsSafe ==
  ASSUME MutexAssumption, NewPrios = {}, WaitedForAlone
  PROVE  MutexSpec => []SelectsFromNonEmptyList
<1>1. MutexInit => MutexInv /\ InheritInv /\ ExactInv
  BY InitMutex, InitInherits, InitExact
<1>2. MutexInv /\ InheritInv /\ ExactInv /\ [MutexNext]_vars =>
        (MutexInv /\ InheritInv /\ ExactInv)'
  BY StepKeepsMutex, StepKeepsInherit, StepKeepsExact
<1>3. ExactInv => SelectsFromNonEmptyList
  BY SelectsReady DEF ExactInv, ListsRight, SelectsFromNonEmptyList
<1>4. QED
  BY <1>1, <1>2, <1>3, PTL DEF MutexSpec

=============================================================================
