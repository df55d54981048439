--------------------------- MODULE ObjectsProofs ----------------------------
(***************************************************************************)
(* That a queue loses no wake-up, whatever tasks and interrupts send and   *)
(* receive between the steps of a call that blocks, how often calls are    *)
(* overtaken, time out or are aborted, and whatever the locks count: for   *)
(* every number of tasks and every length of the queue.  And that what the *)
(* proofs of notifications, stream buffers and the storage of queues show  *)
(* of each holds of the objects side by side.                              *)
(***************************************************************************)
EXTENDS Objects, SchedulerProofs

-----------------------------------------------------------------------------
(* The inductive invariant.                                                *)

Suspending == {"unlock", "block", "abort", "aborted", "lock"} \cup LockedPlace
Sections == Suspending \cup {"catchup", "catchup_block"}

(* Who is where, as in EventGroupProofs; no task is created or deleted.    *)
QueueControl ==
  /\ k \in KType
  /\ pc \in [Task -> Place \cup QueuePlace] /\ after \in [Task -> {"run", "try", "expired"}]
  /\ arg \in [Task -> Task]
  /\ \A t \in Task \ {k.cur} : pc[t] \notin Sections
  /\ k.depth = IF pc[k.cur] \in Suspending THEN 1 ELSE 0
  /\ pc[Idle] = "run"
  /\ \A t \in Task : pc[t] \in {"run", "abort", "aborted"} => after[t] = "run"
  /\ k.count = Cardinality(Task)

InCall(t) == pc[t] \in QueuePlace \/ after[t] # "run"

TimeOutType == [set : BOOLEAN, overflows : 0 .. OvfMod - 1, at : Tick]

QueueTypes ==
  /\ messages \in 0 .. Length
  /\ lock \in [Object -> UNLOCKED .. Cardinality(Task)]
  /\ call \in [Task -> QueueCall \cup {"none"}]
  /\ left \in [Task -> Tick] /\ entry \in [Task -> TimeOutType]
  /\ fate \in [Task -> {"none", "blocked", "retry", "expired"}]
  /\ hit \in [Task -> BOOLEAN]
  /\ \A t \in Task : InCall(t) <=> call[t] # "none"
  /\ \A t \in Task : pc[t] = "expired" \/ (pc[t] \in Place /\ after[t] = "expired")
                       => fate[t] = "expired"

(* The places at which a task may be on a list *)
WaitsAt(p, a) ==
  \/ p \in {"unlockTx", "unlockRx", "try"}
  \/ p \in {"block", "catchup_block", "yield"} /\ a = "try"

(* The tasks on a list are blocked in the middle of a call that waits      *)
(* there: none runs on before it is off the list.                          *)
QueueWaits ==
  /\ WaitersBlocked(k) /\ EventListsOrdered(k)
  /\ \A o \in Object : \A t \in k.waiting[o] :
       /\ call[t] # "none" /\ WaitList(call[t]) = o /\ fate[t] = "blocked"
       /\ WaitsAt(pc[t], after[t])
  /\ pc[k.cur] = "try" => k.cur \notin Waiters(k)
  /\ pc[k.cur] = "aborted" => arg[k.cur] \notin Waiters(k)

(* The part of the loop after a call's test has failed and before it looks *)
(* again with the queue locked, or waits                                   *)
Blind == {"enter", "lock", "check", "test", "place"}

(* The tasks that will test the queue again before they wait on o *)
Coming(o) ==
  {t \in Task : /\ call[t] # "none" /\ WaitList(call[t]) = o
                /\ t \notin Waiters(k) /\ fate[t] # "expired" /\ pc[t] \notin Blind}

(* What the tasks on o wait for, and what the lock has counted of it *)
Items(o) == IF o = ToReceive THEN messages ELSE Length - messages
Counted(o) == IF lock[o] > 0 THEN lock[o] ELSE 0

(* Each item has a task of its own coming for it, or is counted by the     *)
(* lock, so that the unlocking task will wake one; a lock that has counted *)
(* as many as there are tasks wakes all.                                   *)
Served(o) ==
  Items(o) <= Cardinality(Coming(o)) + Counted(o) \/ lock[o] >= Cardinality(Task)

(* What the running task found is still so when it joins the list. *)
PlaceServed ==
  LET o == WaitList(call[k.cur])
  IN  Items(o) <= Counted(o) \/ lock[o] >= Cardinality(Task)

QueueServes ==
  /\ \A o \in Object : k.waiting[o] # {} => Served(o)
  /\ pc[k.cur] = "place" => PlaceServed

QueueInv ==
  QueueControl /\ QueueTypes /\ LocksHeldByCurrent /\ QueueWaits /\ QueueServes

LEMMA QueueFacts ==
  ASSUME QueueInv
  PROVE  /\ k \in KType /\ k.cur \in Task /\ k.depth \in Nat /\ Idle \in Task
         /\ k.waiting \in [Object -> SUBSET Task] /\ k.count = Cardinality(Task)
         /\ pc \in [Task -> Place \cup QueuePlace]
         /\ after \in [Task -> {"run", "try", "expired"}]
         /\ arg \in [Task -> Task]
         /\ pc[k.cur] # "run" => k.cur # Idle
         /\ pc[k.cur] \in Suspending => k.depth = 1
         /\ pc[k.cur] \notin Suspending => k.depth = 0
BY KernelAssumption DEF QueueInv, QueueControl, KType

LEMMA TypeFacts ==
  ASSUME QueueInv, QueueAssumption
  PROVE  /\ messages \in 0 .. Length /\ Length \in Nat \ {0}
         /\ lock \in [Object -> UNLOCKED .. Cardinality(Task)]
         /\ call \in [Task -> QueueCall \cup {"none"}]
         /\ left \in [Task -> Tick] /\ entry \in [Task -> TimeOutType]
         /\ fate \in [Task -> {"none", "blocked", "retry", "expired"}]
         /\ hit \in [Task -> BOOLEAN]
         /\ IsFiniteSet(Task) /\ Cardinality(Task) \in Nat
         /\ ToSend \in Object /\ ToReceive \in Object /\ ToSend # ToReceive
         /\ Object = {ToSend, ToReceive}
BY KernelAssumption, FS_CardinalityType DEF QueueInv, QueueTypes, QueueAssumption

LEMMA Places ==
  /\ {"run", "unlock", "block", "catchup", "catchup_block", "yield", "abort", "aborted"}
       \subseteq Place
  /\ QueuePlace \cap Place = {} /\ LockedPlace \subseteq QueuePlace /\ Blind \subseteq QueuePlace
BY DEF Place, BasePlace, QueuePlace, LockedPlace, Blind

(* A task on a list that is about to run is about to block or to yield.    *)
LEMMA CurrentWaits ==
  ASSUME QueueInv, k.cur \in Waiters(k)
  PROVE  /\ WaitsAt(pc[k.cur], after[k.cur]) /\ pc[k.cur] # "try"
         /\ call[k.cur] # "none" /\ fate[k.cur] = "blocked"
<1>1. PICK o \in Object : k.cur \in k.waiting[o]
  BY WaitersElements
<1>2. QED
  BY <1>1 DEF QueueInv, QueueWaits

-----------------------------------------------------------------------------
(* What is left to show of a step.                                         *)

(* The running task goes from its place to p. *)
LEMMA MoveKeepsControl ==
  ASSUME QueueInv, k.cur # Idle, NEW p \in Place \cup QueuePlace,
         NEW a \in {"run", "try", "expired"},
         pc' = [pc EXCEPT ![k.cur] = p], after' = [after EXCEPT ![k.cur] = a],
         arg' \in [Task -> Task], k' \in KType, k'.count = k.count,
         p \in Sections => k'.cur = k.cur,
         k'.depth = IF p \in Suspending THEN 1 ELSE 0,
         p \in {"run", "abort", "aborted"} => a = "run"
  PROVE  QueueControl'
<1>1. /\ pc' \in [Task -> Place \cup QueuePlace] /\ pc'[Idle] = "run" /\ pc'[k.cur] = p
      /\ after' \in [Task -> {"run", "try", "expired"}] /\ after'[k.cur] = a
  BY QueueFacts DEF QueueInv, QueueControl
<1>2. \A t \in Task \ {k.cur} :
        pc'[t] = pc[t] /\ after'[t] = after[t] /\ pc[t] \notin Sections
  BY QueueFacts DEF QueueInv, QueueControl
<1>3. \A t \in Task \ {k'.cur} : pc'[t] \notin Sections
  BY <1>1, <1>2
<1>4. k'.depth = IF pc'[k'.cur] \in Suspending THEN 1 ELSE 0
  <2>1. k'.cur \in Task
    BY DEF KType
  <2>2. CASE k'.cur = k.cur
    BY <1>1, <2>2
  <2>3. CASE k'.cur # k.cur
    BY <1>1, <1>2, <2>1, <2>3 DEF Sections
  <2>4. QED
    BY <2>2, <2>3
<1>5. \A t \in Task : pc'[t] \in {"run", "abort", "aborted"} => after'[t] = "run"
  BY <1>1, <1>2 DEF QueueInv, QueueControl
<1>6. k'.count = Cardinality(Task)
  BY QueueFacts
<1>7. QED
  BY <1>1, <1>3, <1>4, <1>5, <1>6 DEF QueueControl

(* Nobody moves. *)
LEMMA StayKeepsControl ==
  ASSUME QueueInv, pc' = pc, after' = after, arg' = arg, k' \in KType, k'.count = k.count,
         k'.depth = k.depth, pc[k.cur] \in Sections => k'.cur = k.cur
  PROVE  QueueControl'
<1>1. \A t \in Task \ {k'.cur} : pc'[t] \notin Sections
  BY DEF QueueInv, QueueControl
<1>2. k'.depth = IF pc'[k'.cur] \in Suspending THEN 1 ELSE 0
  <2>1. k'.cur \in Task
    BY DEF KType
  <2>2. QED
    BY <2>1 DEF QueueInv, QueueControl, Sections
<1>3. QED
  BY <1>1, <1>2 DEF QueueInv, QueueControl

(* The running task goes to p, and maybe another one runs; no task joins a *)
(* list.                                                                   *)
LEMMA MoveKeepsWaits ==
  ASSUME QueueInv, NEW m, Eases(m, k),
         k'.waiting = m.waiting, k'.ready = m.ready, k'.before = m.before,
         k'.cur = k.cur \/ k'.cur \in ReadyTasks(m), k'.cur \in Task,
         NEW p, NEW a,
         pc' = [pc EXCEPT ![k.cur] = p], after' = [after EXCEPT ![k.cur] = a],
         \A t \in Task \ {k.cur} : call'[t] = call[t] /\ fate'[t] = fate[t],
         k.cur \in Waiters(m) =>
           WaitsAt(p, a) /\ call'[k.cur] = call[k.cur] /\ fate'[k.cur] = fate[k.cur],
         k'.cur = k.cur /\ p = "try" => k.cur \notin Waiters(m),
         p = "aborted" => k'.cur = k.cur /\ arg'[k.cur] \notin Waiters(m)
  PROVE  QueueWaits'
<1>1. \A o \in Object : m.waiting[o] \subseteq k.waiting[o]
  BY DEF Eases
<1>2. WaitersBlocked(m) /\ EventListsOrdered(m)
  BY EasesKeepsBlocked DEF QueueInv, QueueWaits, Eases
<1>3. ReadyTasks(k') = ReadyTasks(m) /\ Waiters(k') = Waiters(m)
  BY DEF ReadyTasks, Waiters
<1>4. WaitersBlocked(k') /\ EventListsOrdered(k')
  BY <1>2, <1>3 DEF WaitersBlocked, EventListsOrdered
<1>5. /\ pc'[k.cur] = p /\ after'[k.cur] = a
      /\ \A t \in Task \ {k.cur} : pc'[t] = pc[t] /\ after'[t] = after[t]
  BY QueueFacts
<1>6. ASSUME NEW o \in Object, NEW t \in k'.waiting[o]
      PROVE  /\ call'[t] # "none" /\ WaitList(call'[t]) = o /\ fate'[t] = "blocked"
             /\ WaitsAt(pc'[t], after'[t])
  <2>1. t \in k.waiting[o] /\ t \in Task /\ t \in Waiters(m)
    BY <1>1, QueueFacts, WaitersElements
  <2>2. /\ call[t] # "none" /\ WaitList(call[t]) = o /\ fate[t] = "blocked"
        /\ WaitsAt(pc[t], after[t])
    BY <2>1 DEF QueueInv, QueueWaits
  <2>3. CASE t = k.cur
    BY <1>5, <2>1, <2>2, <2>3
  <2>4. CASE t # k.cur
    BY <1>5, <2>1, <2>2, <2>4
  <2>5. QED
    BY <2>3, <2>4
<1>7. pc'[k'.cur] = "try" => k'.cur \notin Waiters(k')
  BY <1>2, <1>3, <1>5 DEF WaitersBlocked
<1>8. pc'[k'.cur] = "aborted" => arg'[k'.cur] \notin Waiters(k')
  <2>1. CASE k'.cur = k.cur
    BY <1>3, <1>5, <2>1
  <2>2. CASE k'.cur # k.cur
    BY <1>5, <2>2 DEF QueueInv, QueueControl, Sections, Suspending
  <2>3. QED
    BY <2>1, <2>2
<1>9. QED
  BY <1>4, <1>6, <1>7, <1>8 DEF QueueWaits, WaitList

(* The locks, if the running task stays inside its section, or outside.    *)
LEMMA MoveKeepsLocks ==
  ASSUME QueueInv, QueueControl', QueueAssumption, lock' = lock,
         NEW p, pc' = [pc EXCEPT ![k.cur] = p],
         p = "unlockRx" <=> pc[k.cur] = "unlockRx",
         p \in LockedPlace <=> pc[k.cur] \in LockedPlace,
         p \in LockedPlace => k'.cur = k.cur
  PROVE  LocksHeldByCurrent'
<1>1. pc'[k.cur] = p /\ \A t \in Task \ {k.cur} : pc'[t] = pc[t]
  BY QueueFacts
<1>2. k'.cur # k.cur => pc'[k'.cur] \notin LockedPlace
  BY <1>1 DEF QueueInv, QueueControl, KType, Sections, Suspending
<1>3. pc'[k'.cur] \in LockedPlace <=> pc[k.cur] \in LockedPlace
  BY <1>1, <1>2
<1>4. pc'[k'.cur] = "unlockRx" <=> pc[k.cur] = "unlockRx"
  BY <1>1, <1>2 DEF LockedPlace
<1>5. \A t \in Task : pc'[t] \in LockedPlace \cup {"lock"} => t = k'.cur /\ k'.depth = 1
  BY DEF QueueControl, Sections, Suspending
<1>6. QED
  BY <1>3, <1>4, <1>5 DEF QueueInv, LocksHeldByCurrent, me

-----------------------------------------------------------------------------
(* Counting the tasks that come for the items. *)

LEMMA SubsetCounts ==
  ASSUME NEW S \in SUBSET Task, NEW T \in SUBSET Task
  PROVE  /\ IsFiniteSet(S) /\ IsFiniteSet(T)
         /\ Cardinality(S) \in Nat /\ Cardinality(T) \in Nat
         /\ S \subseteq T => Cardinality(S) <= Cardinality(T)
         /\ Cardinality(S) >= Cardinality(Task) => S = Task
<1>1. IsFiniteSet(S) /\ IsFiniteSet(T)
  BY KernelAssumption, FS_Subset
<1>2. Cardinality(S) \in Nat /\ Cardinality(T) \in Nat /\ Cardinality(Task) \in Nat
  BY <1>1, KernelAssumption, FS_CardinalityType
<1>3. S \subseteq T => Cardinality(S) <= Cardinality(T)
  BY <1>1, FS_Subset
<1>4. Cardinality(S) <= Cardinality(Task) /\ (Cardinality(Task) = Cardinality(S) => Task = S)
  BY KernelAssumption, FS_Subset
<1>5. QED
  BY <1>1, <1>2, <1>3, <1>4

LEMMA GainCounts ==
  ASSUME NEW S \in SUBSET Task, NEW T \in SUBSET Task, NEW F \in SUBSET Task,
         S \cap F = {}, S \cup F \subseteq T
  PROVE  Cardinality(S) + Cardinality(F) <= Cardinality(T)
<1>1. /\ IsFiniteSet(S) /\ IsFiniteSet(F) /\ Cardinality(S) \in Nat
      /\ Cardinality(F) \in Nat /\ Cardinality(T) \in Nat
  BY SubsetCounts
<1>2. Cardinality(S \cap F) = 0
  BY FS_EmptySet
<1>3. Cardinality(S \cup F) = Cardinality(S) + Cardinality(F)
  <2>1. Cardinality(S \cup F) = Cardinality(S) + Cardinality(F) - Cardinality(S \cap F)
    BY <1>1, FS_Union
  <2>2. QED
    BY <1>1, <1>2, <2>1
<1>4. Cardinality(S \cup F) <= Cardinality(T)
  BY SubsetCounts
<1>5. QED
  BY <1>3, <1>4

LEMMA LossCounts ==
  ASSUME NEW S \in SUBSET Task, NEW T \in SUBSET Task, NEW t, S \ {t} \subseteq T
  PROVE  Cardinality(S) <= Cardinality(T) + 1
<1>1. IsFiniteSet(S) /\ Cardinality(S) \in Nat /\ Cardinality(T) \in Nat
  BY SubsetCounts
<1>2. Cardinality(S) <= Cardinality(S \ {t}) + 1 /\ Cardinality(S \ {t}) \in Nat
  BY <1>1, FS_RemoveElement, SubsetCounts
<1>3. Cardinality(S \ {t}) <= Cardinality(T)
  BY SubsetCounts
<1>4. QED
  BY <1>1, <1>2, <1>3

(* A list is served if no item came, and whoever was coming still comes. *)
LEMMA StillServed ==
  ASSUME QueueInv, QueueAssumption, NEW o \in Object, Served(o),
         Items(o)' <= Items(o), Items(o)' \in Nat, Items(o) \in Nat, lock'[o] = lock[o],
         Coming(o) \subseteq Coming(o)'
  PROVE  Served(o)'
<1>1. Coming(o) \in SUBSET Task /\ Coming(o)' \in SUBSET Task
  BY DEF Coming
<1>2. /\ Cardinality(Coming(o)) <= Cardinality(Coming(o)')
      /\ Cardinality(Coming(o)) \in Nat /\ Cardinality(Coming(o)') \in Nat
  BY <1>1, SubsetCounts
<1>3. lock[o] \in UNLOCKED .. Cardinality(Task) /\ Cardinality(Task) \in Nat
  BY TypeFacts
<1>4. Counted(o)' = Counted(o) /\ Counted(o) \in Nat
  BY <1>3 DEF Counted, UNLOCKED
<1>5. QED
  BY <1>2, <1>3, <1>4 DEF Served, UNLOCKED

LEMMA ItemsType ==
  ASSUME QueueInv, QueueAssumption
  PROVE  \A o \in Object : Items(o) \in Nat
BY TypeFacts DEF Items

(* The running task goes to p, and no one else does anything to the queue. *)
LEMMA QuietServes ==
  ASSUME QueueInv, QueueAssumption, UNCHANGED <<messages, lock, call, fate>>,
         NEW p, pc' = [pc EXCEPT ![k.cur] = p], k'.cur \in Task,
         p \in Blind => pc[k.cur] \in Blind, p = "place" => pc[k.cur] = "place",
         \A o \in Object : k'.waiting[o] \subseteq k.waiting[o]
  PROVE  QueueServes'
<1>1. pc'[k.cur] = p /\ \A t \in Task \ {k.cur} : pc'[t] = pc[t]
  BY QueueFacts
<1>2. \A t : t \in Waiters(k') => t \in Waiters(k)
  BY WaitersElements
<1>3. \A o \in Object : Coming(o) \subseteq Coming(o)'
  BY <1>1, <1>2 DEF Coming, WaitList
<1>4. \A o \in Object : Items(o)' = Items(o) /\ Items(o) \in Nat
  BY ItemsType DEF Items
<1>5. ASSUME NEW o \in Object, k'.waiting[o] # {}
      PROVE  Served(o)'
  <2>1. Served(o)
    BY <1>5 DEF QueueInv, QueueServes
  <2>2. QED
    BY <1>3, <1>4, <2>1, StillServed
<1>6. pc'[k'.cur] = "place" => k'.cur = k.cur /\ pc[k.cur] = "place"
  BY <1>1 DEF QueueInv, QueueControl, Sections, Suspending, LockedPlace
<1>7. ASSUME pc'[k'.cur] = "place"
      PROVE  PlaceServed'
  <2>1. k'.cur = k.cur /\ PlaceServed
    BY <1>6, <1>7 DEF QueueInv, QueueServes
  <2>2. QED
    BY <2>1 DEF PlaceServed, Items, Counted, WaitList
<1>8. QED
  BY <1>5, <1>7 DEF QueueServes

-----------------------------------------------------------------------------
(* Steps of the kernel, which leave the queue alone.                       *)

LEMMA QuietTypes ==
  ASSUME QueueInv, QueueAssumption, UNCHANGED <<messages, lock, call, left, entry, fate, after>>,
         hit' \in [Task -> BOOLEAN], NEW p, pc' = [pc EXCEPT ![k.cur] = p],
         p = pc[k.cur] \/ (pc[k.cur] \in Place /\ p \in Place \cup {after[k.cur]})
  PROVE  QueueTypes'
<1>1. pc'[k.cur] = p /\ \A t \in Task \ {k.cur} : pc'[t] = pc[t]
  BY QueueFacts
<1>2. p \in QueuePlace \/ after[k.cur] # "run" <=>
        pc[k.cur] \in QueuePlace \/ after[k.cur] # "run"
  BY QueueFacts, Places DEF Place, BasePlace, QueuePlace
<1>3. \A t \in Task : InCall(t)' <=> InCall(t)
  BY <1>1, <1>2 DEF InCall
<1>4. p = "expired" \/ (p \in Place /\ after[k.cur] = "expired") => fate[k.cur] = "expired"
  BY QueueFacts DEF QueueInv, QueueTypes, Place, BasePlace
<1>5. \A t \in Task : pc'[t] = "expired" \/ (pc'[t] \in Place /\ after'[t] = "expired")
                        => fate'[t] = "expired"
  BY <1>1, <1>4 DEF QueueInv, QueueTypes
<1>6. QED
  BY <1>3, <1>5 DEF QueueInv, QueueTypes

(* The running task goes on to p, and perhaps another one runs: the same   *)
(* task in the middle of a section, a ready one otherwise.                 *)
LEMMA QuietStep ==
  ASSUME QueueInv, QueueAssumption, QueueControl',
         UNCHANGED <<messages, lock, call, left, entry, fate, after>>,
         hit' \in [Task -> BOOLEAN], NEW m, Eases(m, k),
         k'.waiting = m.waiting, k'.ready = m.ready, k'.before = m.before,
         k'.cur = k.cur \/ (k'.cur \in ReadyTasks(m) /\ pc[k.cur] \notin LockedPlace),
         NEW p, pc' = [pc EXCEPT ![k.cur] = p],
         p = pc[k.cur] \/ (pc[k.cur] \in Place /\ p \in Place \cup {after[k.cur]}),
         k.cur \in Waiters(m) => WaitsAt(p, after[k.cur]),
         k'.cur = k.cur /\ p = "try" => k.cur \notin Waiters(m),
         p = "aborted" => k'.cur = k.cur /\ arg'[k.cur] \notin Waiters(m)
  PROVE  QueueInv'
<1>1. k'.cur \in Task /\ after' = [after EXCEPT ![k.cur] = after[k.cur]]
  BY QueueFacts DEF QueueControl, KType
<1>2. QueueWaits'
  BY <1>1, MoveKeepsWaits
<1>3. p \notin Place => p = pc[k.cur] \/ p \in {"try", "expired"}
  BY QueueFacts, Places
<1>4. /\ p \in LockedPlace <=> pc[k.cur] \in LockedPlace
      /\ p = "unlockRx" <=> pc[k.cur] = "unlockRx"
      /\ p \in Blind => p = pc[k.cur]
  BY <1>3, Places DEF LockedPlace, Blind, Place, BasePlace
<1>5. LocksHeldByCurrent'
  BY <1>4, MoveKeepsLocks
<1>6. QueueTypes'
  BY QuietTypes
<1>7. \A o \in Object : k'.waiting[o] \subseteq k.waiting[o]
  BY DEF Eases
<1>8. QueueServes'
  BY <1>1, <1>4, <1>7, QuietServes DEF Blind
<1>9. QED
  BY <1>2, <1>5, <1>6, <1>8 DEF QueueInv

LEMMA UnlockSchedulerKeeps ==
  ASSUME QueueInv, QueueAssumption, UnlockScheduler, UNCHANGED queueVars
  PROVE  QueueInv'
<1> DEFINE p == IF At("unlock") THEN "catchup" ELSE "catchup_block"
           a == after[k.cur]
<1>1. /\ pc[k.cur] = IF p = "catchup" THEN "unlock" ELSE "block"
      /\ pc' = [pc EXCEPT ![k.cur] = p] /\ after' = after /\ arg' = arg
      /\ k' = DrainPending(k)
  BY DEF UnlockScheduler, Unlock, At, Goto
<1>2. k.depth = 1 /\ k.cur # Idle
  BY <1>1, QueueFacts DEF Suspending
<1>3. Eases(k', k) /\ k'.depth = 0 /\ k'.count = k.count
  BY <1>1, <1>2, QueueFacts, DrainPendingEases, DrainPendingControl
<1>4. /\ p \in Place /\ p \notin Suspending
      /\ p \notin {"run", "abort", "aborted", "try"} /\ pc[k.cur] \in Place
  BY <1>1, Places DEF Suspending, LockedPlace
<1>5. k.cur \in Waiters(k') => WaitsAt(p, after[k.cur])
  <2>1. k.cur \in Waiters(k') => k.cur \in Waiters(k)
    BY <1>3, WaitersElements DEF Eases
  <2>2. QED
    BY <1>1, <2>1, CurrentWaits DEF WaitsAt
<1>6. a \in {"run", "try", "expired"} /\ after' = [after EXCEPT ![k.cur] = a]
  BY <1>1, QueueFacts
<1> HIDE DEF p, a
<1>7. QueueControl'
  BY <1>1, <1>2, <1>3, <1>4, <1>6, QueueFacts, MoveKeepsControl DEF Eases
<1>8. UNCHANGED <<messages, lock, call, left, entry, fate>> /\ hit' \in [Task -> BOOLEAN]
  BY TypeFacts DEF queueVars
<1>9. k'.cur = k.cur
  BY <1>3 DEF Eases
<1>10. QED
  BY <1>1, <1>3, <1>4, <1>5, <1>7, <1>8, <1>9, QuietStep

LEMMA CatchUpKeeps ==
  ASSUME QueueInv, QueueAssumption, CatchUp, UNCHANGED queueVars
  PROVE  QueueInv'
<1>1. /\ pc[k.cur] \in {"catchup", "catchup_block"} /\ k.pended > 0
      /\ k' = CatchUpTick(k) /\ pc' = pc /\ after' = after /\ arg' = arg
  BY DEF CatchUp, Masked
<1>2. /\ Eases(k', k) /\ k'.depth = k.depth /\ k' \in KType /\ k'.count = k.count
      /\ k'.cur = k.cur
  BY <1>1, QueueFacts, CatchUpTickEases, CatchUpTickControl
<1>3. QueueControl'
  BY <1>1, <1>2, StayKeepsControl
<1>4. pc' = [pc EXCEPT ![k.cur] = pc[k.cur]]
  BY <1>1, QueueFacts
<1>5. k.cur \in Waiters(k') => WaitsAt(pc[k.cur], after[k.cur])
  <2>1. k.cur \in Waiters(k') => k.cur \in Waiters(k)
    BY <1>2, WaitersElements DEF Eases
  <2>2. QED
    BY <2>1, CurrentWaits
<1>6. UNCHANGED <<messages, lock, call, left, entry, fate>> /\ hit' \in [Task -> BOOLEAN]
  BY TypeFacts DEF queueVars
<1>7. QED
  BY <1>1, <1>2, <1>3, <1>4, <1>5, <1>6, QuietStep

LEMMA UnlockedKeeps ==
  ASSUME QueueInv, QueueAssumption, Unlocked, UNCHANGED queueVars
  PROVE  QueueInv'
<1> DEFINE p == IF At("catchup") \/ k.yieldPending THEN after[k.cur] ELSE "yield"
           a == after[k.cur]
<1>1. /\ pc[k.cur] \in {"catchup", "catchup_block"} /\ k' \in YieldIf(k.yieldPending, k)
      /\ pc' = [pc EXCEPT ![k.cur] = p] /\ after' = after /\ arg' = arg
  BY DEF Unlocked, Masked, Goto
<1>2. k.cur # Idle /\ k.depth = 0 /\ k.yieldPending \in BOOLEAN /\ pc[k.cur] \in Place
  BY <1>1, QueueFacts, Places DEF Suspending, LockedPlace, KType
<1>3. /\ p \in {a, "yield"} /\ a \in {"run", "try", "expired"}
      /\ after' = [after EXCEPT ![k.cur] = a]
  BY <1>1, QueueFacts
<1>4. /\ p \in Place \cup QueuePlace /\ p \notin Sections /\ p \notin Suspending
      /\ p # "aborted" /\ p \in Place \cup {after[k.cur]}
      /\ p \in {"run", "abort", "aborted"} => a = "run"
  BY <1>3, Places DEF Sections, Suspending, LockedPlace, QueuePlace
<1>5. k.cur \in Waiters(k) => WaitsAt(p, after[k.cur]) /\ (~k.yieldPending => p = "yield")
  BY <1>1, CurrentWaits DEF At, WaitsAt
<1> HIDE DEF p, a
<1>6. Eases(k, k)
  BY QueueFacts, SameWaits
<1>7. /\ k' \in KType /\ k'.depth = 0 /\ k'.count = k.count
      /\ k'.waiting = k.waiting /\ k'.ready = k.ready /\ k'.before = k.before
      /\ k'.cur = k.cur \/ (k'.cur \in ReadyTasks(k) /\ k.yieldPending)
  <2>1. CASE k.yieldPending
    <3>1. k' \in SwitchContext(k)
      BY <1>1, <2>1 DEF YieldIf
    <3>2. k' = [k EXCEPT !.yieldPending = k'.yieldPending, !.cur = k'.cur]
      BY <3>1, QueueFacts, SwitchContextControl
    <3>3. k'.count = k.count
      BY <3>2, QueueFacts DEF KType
    <3>4. QED
      BY <1>2, <2>1, <3>1, <3>3, QueueFacts, SwitchContextWaits
  <2>2. CASE ~k.yieldPending
    BY <1>1, <1>2, <2>2, QueueFacts DEF YieldIf
  <2>3. QED
    BY <1>2, <2>1, <2>2
<1>8. QueueControl'
  BY <1>1, <1>2, <1>3, <1>4, <1>7, QueueFacts, MoveKeepsControl
<1>9. UNCHANGED <<messages, lock, call, left, entry, fate>> /\ hit' \in [Task -> BOOLEAN]
  BY TypeFacts DEF queueVars
<1>10. pc[k.cur] \notin LockedPlace
  BY <1>1 DEF LockedPlace
<1>11. k'.cur = k.cur /\ p = "try" => k.cur \notin Waiters(k)
  <2>1. SUFFICES ASSUME k'.cur = k.cur, k.cur \in Waiters(k), p = "try"
                 PROVE  FALSE
    OBVIOUS
  <2>2. k.yieldPending
    BY <1>5, <2>1
  <2>3. k' \in SwitchContext(k)
    BY <1>1, <2>2 DEF YieldIf
  <2>4. k'.cur \in ReadyTasks(k)
    BY <1>2, <2>3, QueueFacts, SwitchContextWaits
  <2>5. QED
    BY <2>1, <2>4 DEF QueueInv, QueueWaits, WaitersBlocked
<1>12. QED
  BY <1>1, <1>2, <1>4, <1>5, <1>6, <1>7, <1>8, <1>9, <1>10, <1>11, QuietStep

(* The running task gives way, at place p, to a ready task. *)
LEMMA SwitchStep ==
  ASSUME QueueInv, QueueAssumption, QueueControl',
         UNCHANGED <<messages, lock, call, left, entry, fate, after>>,
         hit' \in [Task -> BOOLEAN], NEW m, Eases(m, k), m.depth = 0, k' \in SwitchContext(m),
         pc[k.cur] \notin LockedPlace, NEW p, pc' = [pc EXCEPT ![k.cur] = p],
         p = pc[k.cur] \/ (pc[k.cur] \in Place /\ p \in Place \cup {after[k.cur]}),
         k.cur \in Waiters(m) => WaitsAt(p, after[k.cur]), p # "aborted"
  PROVE  QueueInv'
<1>1. m \in KType
  BY DEF Eases
<1>2. /\ k'.cur \in ReadyTasks(m)
      /\ k'.waiting = m.waiting /\ k'.ready = m.ready /\ k'.before = m.before
  BY <1>1, SwitchContextWaits
<1>3. k'.cur \notin Waiters(m)
  BY <1>2, EasesKeepsBlocked DEF QueueInv, QueueWaits, WaitersBlocked
<1>4. QED
  BY <1>2, <1>3, QuietStep

LEMMA SwitchCount ==
  ASSUME NEW s \in KType, s.depth = 0, NEW r \in SwitchContext(s)
  PROVE  r \in KType /\ r.depth = 0 /\ r.count = s.count
<1>1. r \in KType /\ r = [s EXCEPT !.yieldPending = r.yieldPending, !.cur = r.cur]
  BY SwitchContextControl
<1>2. QED
  BY <1>1 DEF KType

LEMMA YieldKeeps ==
  ASSUME QueueInv, QueueAssumption, Yield, UNCHANGED queueVars
  PROVE  QueueInv'
<1> DEFINE p == after[k.cur]
<1>1. /\ pc[k.cur] = "yield" /\ k' \in SwitchContext(k)
      /\ pc' = [pc EXCEPT ![k.cur] = p] /\ after' = after /\ arg' = arg
  BY DEF Yield, At, Goto
<1>2. k.cur # Idle /\ k.depth = 0 /\ pc[k.cur] \in Place /\ pc[k.cur] \notin LockedPlace
  BY <1>1, QueueFacts, Places DEF Suspending, LockedPlace
<1>3. p \in {"run", "try", "expired"} /\ after' = [after EXCEPT ![k.cur] = p]
  BY <1>1, QueueFacts
<1>4. p \in Place \cup QueuePlace /\ p \notin Sections /\ p \notin Suspending
  BY <1>3, Places DEF Sections, Suspending, LockedPlace, QueuePlace
<1>5. k.cur \in Waiters(k) => WaitsAt(p, after[k.cur])
  BY <1>1, CurrentWaits DEF WaitsAt
<1>6. p # "aborted"
  BY <1>3
<1> HIDE DEF p
<1>7. k' \in KType /\ k'.depth = 0 /\ k'.count = k.count /\ Eases(k, k)
  BY <1>1, <1>2, QueueFacts, SwitchCount, SameWaits
<1>8. QueueControl'
  BY <1>1, <1>2, <1>3, <1>4, <1>7, QueueFacts, MoveKeepsControl
<1>9. UNCHANGED <<messages, lock, call, left, entry, fate>> /\ hit' \in [Task -> BOOLEAN]
  BY TypeFacts DEF queueVars
<1>10. QED
  BY <1>1, <1>2, <1>5, <1>6, <1>7, <1>8, <1>9, SwitchStep DEF p

LEMMA IdleYieldKeeps ==
  ASSUME QueueInv, QueueAssumption, IdleYield, UNCHANGED queueVars
  PROVE  QueueInv'
<1>1. /\ k.cur = Idle /\ k' \in SwitchContext(k)
      /\ pc' = pc /\ after' = after /\ arg' = arg
  BY DEF IdleYield
<1>2. /\ pc[k.cur] = "run" /\ k.depth = 0 /\ pc[k.cur] \notin LockedPlace
      /\ pc[k.cur] \notin Sections
  BY <1>1, QueueFacts DEF Suspending, LockedPlace, Sections, QueueInv, QueueControl
<1>3. k' \in KType /\ k'.depth = 0 /\ k'.count = k.count /\ Eases(k, k)
  BY <1>1, <1>2, QueueFacts, SwitchCount, SameWaits
<1>4. QueueControl'
  BY <1>1, <1>2, <1>3, StayKeepsControl
<1>5. pc' = [pc EXCEPT ![k.cur] = pc[k.cur]]
  BY <1>1, QueueFacts
<1>6. k.cur \in Waiters(k) => WaitsAt(pc[k.cur], after[k.cur])
  BY CurrentWaits
<1>7. UNCHANGED <<messages, lock, call, left, entry, fate>> /\ hit' \in [Task -> BOOLEAN]
  BY TypeFacts DEF queueVars
<1>8. QED
  BY <1>1, <1>2, <1>3, <1>4, <1>5, <1>6, <1>7, SwitchStep

LEMMA TickInterruptKeeps ==
  ASSUME QueueInv, QueueAssumption, TickInterrupt, UNCHANGED queueVars
  PROVE  QueueInv'
<1> DEFINE p == pc[k.cur]
<1>1. /\ p \notin {"catchup", "catchup_block"} /\ pc' = pc /\ after' = after /\ arg' = arg
  BY DEF TickInterrupt, Masked
<1>2. pc' = [pc EXCEPT ![k.cur] = p]
  BY <1>1, QueueFacts
<1>3. k.cur \in Waiters(k) => WaitsAt(p, after[k.cur])
  BY CurrentWaits
<1>4. /\ p = "aborted" => arg[k.cur] \notin Waiters(k)
      /\ p = "try" => k.cur \notin Waiters(k)
  BY DEF QueueInv, QueueWaits
<1>5. UNCHANGED <<messages, lock, call, left, entry, fate>> /\ hit' \in [Task -> BOOLEAN]
  BY TypeFacts DEF queueVars
<1>6. CASE k.depth > 0 /\ k' = [k EXCEPT !.pended = k.pended + 1]
  <2>1. k.pended + 1 \in Nat
    BY QueueFacts DEF KType
  <2>2. /\ k' \in KType /\ k'.cur = k.cur /\ k'.waiting = k.waiting
        /\ k'.ready = k.ready /\ k'.depth = k.depth /\ k'.before = k.before
        /\ k'.count = k.count
    BY <1>6, <2>1, QueueFacts DEF KType
  <2>3. Eases(k', k) /\ Waiters(k') = Waiters(k) /\ QueueControl'
    BY <1>1, <2>2, SameWaits, StayKeepsControl
  <2>4. QED
    BY <1>1, <1>2, <1>3, <1>4, <1>5, <2>2, <2>3, QuietStep
<1>7. CASE k.depth = 0 /\ k' \in YieldIf(TickWantsSwitch(k), IncrementTick(k))
  <2> DEFINE m == IncrementTick(k)
  <2>1. /\ Eases(m, k) /\ m.depth = 0 /\ m \in KType /\ m.count = k.count /\ m.cur = k.cur
    BY <1>7, QueueFacts, IncrementTickEases, IncrementTickControl DEF Ticked
  <2>2. p \notin Suspending /\ p \notin Sections /\ p \notin LockedPlace
    BY <1>1, <1>7, QueueFacts DEF Sections, Suspending
  <2>3. \A t : t \in Waiters(m) => t \in Waiters(k)
    BY <2>1, WaitersElements DEF Eases
  <2>4. k' \in SwitchContext(m) \/ k' = m
    BY <1>7 DEF YieldIf
  <2>5. p # "aborted"
    BY <2>2 DEF Suspending
  <2> HIDE DEF m
  <2>6. CASE k' \in SwitchContext(m)
    <3>1. k' \in KType /\ k'.depth = 0 /\ k'.count = k.count
      BY <2>1, <2>6, SwitchCount
    <3>2. QueueControl'
      BY <1>1, <1>7, <2>2, <3>1, StayKeepsControl
    <3>3. QED
      BY <1>1, <1>2, <1>3, <1>5, <2>1, <2>2, <2>3, <2>5, <2>6, <3>2, SwitchStep
  <2>7. CASE k' = m
    <3>1. QueueControl'
      BY <1>1, <1>7, <2>1, <2>7, StayKeepsControl
    <3>2. QED
      BY <1>1, <1>2, <1>3, <1>4, <1>5, <2>1, <2>3, <2>5, <2>7, <3>1, QuietStep
  <2>8. QED
    BY <2>4, <2>6, <2>7
<1>8. QED
  BY <1>6, <1>7 DEF TickInterrupt

-----------------------------------------------------------------------------
(* xTaskAbortDelay.                                                        *)

LEMMA SuspendAllFacts ==
  ASSUME QueueInv, k.depth = 0
  PROVE  LET s == SuspendAll(k)
         IN  /\ s \in KType /\ s.depth = 1 /\ s.cur = k.cur /\ s.waiting = k.waiting
             /\ s.ready = k.ready /\ s.before = k.before
             /\ s.count = k.count /\ Eases(s, k) /\ Waiters(s) = Waiters(k)
<1> DEFINE s == SuspendAll(k)
<1>1. s \in KType /\ s = [k EXCEPT !.depth = k.depth + 1]
  BY QueueFacts, SuspendAllControl
<1> HIDE DEF s
<1>2. /\ s.depth = 1 /\ s.cur = k.cur /\ s.waiting = k.waiting /\ s.ready = k.ready
      /\ s.before = k.before /\ s.count = k.count
  BY <1>1, QueueFacts DEF KType
<1>3. Eases(s, k) /\ Waiters(s) = Waiters(k)
  BY <1>1, <1>2, SameWaits
<1>4. QED
  BY <1>1, <1>2, <1>3 DEF s

LEMMA RunningFacts ==
  ASSUME QueueInv, pc[k.cur] = "run"
  PROVE  /\ k.depth = 0 /\ k.cur \notin Waiters(k) /\ after[k.cur] = "run"
         /\ after' = after => after' = [after EXCEPT ![k.cur] = "run"]
BY QueueFacts, CurrentWaits DEF Suspending, LockedPlace, WaitsAt, QueueInv, QueueControl

LEMMA AbortDelayKeeps ==
  ASSUME QueueInv, QueueAssumption, NEW t \in Task, AbortDelay(t), UNCHANGED queueVars
  PROVE  QueueInv'
<1> DEFINE p == IF IsBlocked(t) THEN "abort" ELSE "unlock"
<1>1. /\ pc[k.cur] = "run" /\ k.cur # Idle /\ k' = SuspendAll(k)
      /\ pc' = [pc EXCEPT ![k.cur] = p] /\ after' = after
      /\ arg' = [arg EXCEPT ![k.cur] = IF IsBlocked(t) THEN t ELSE k.cur]
  BY DEF AbortDelay, Running, At, Goto
<1>2. /\ k' \in KType /\ k'.depth = 1 /\ k'.cur = k.cur /\ Waiters(k') = Waiters(k)
      /\ k'.count = k.count /\ Eases(k', k)
      /\ k.cur \notin Waiters(k) /\ after' = [after EXCEPT ![k.cur] = "run"]
  BY <1>1, RunningFacts, SuspendAllFacts
<1>3. /\ p \in Place /\ p \in Suspending /\ p # "aborted" /\ p # "try"
      /\ pc[k.cur] \in Place
  BY <1>1, Places DEF Suspending
<1>4. arg' \in [Task -> Task]
  BY <1>1, QueueFacts
<1> HIDE DEF p
<1>5. QueueControl'
  BY <1>1, <1>2, <1>3, <1>4, QueueFacts, MoveKeepsControl
<1>6. UNCHANGED <<messages, lock, call, left, entry, fate>> /\ hit' \in [Task -> BOOLEAN]
  BY TypeFacts DEF queueVars
<1>7. QED
  BY <1>1, <1>2, <1>3, <1>5, <1>6, QuietStep

LEMMA AbortBlockedKeeps ==
  ASSUME QueueInv, QueueAssumption, AbortBlocked,
         hit' \in [Task -> BOOLEAN], UNCHANGED <<messages, lock, call, left, entry, fate>>
  PROVE  QueueInv'
<1> DEFINE t == arg[k.cur]
           o == OffStateList(k, t)
           off == OffEventLists(o, {t})
<1>1. /\ pc[k.cur] = "abort" /\ pc' = [pc EXCEPT ![k.cur] = "aborted"]
      /\ after' = after /\ arg' = arg
      /\ \/ k' = [off EXCEPT !.aborted = off.aborted \cup {t}]
         \/ k' = off
  BY DEF AbortBlocked, At, Goto
<1>2. t \in Task /\ k.cur # Idle /\ k.depth = 1 /\ k.cur \in Task
  BY <1>1, QueueFacts DEF Suspending
<1>3. Eases(off, k) /\ off.depth = 1 /\ t \notin Waiters(off)
  BY <1>2, QueueFacts, OffBothEases
<1>4. off.count = k.count
  <2>1. o \in KType /\ o.count = k.count
    BY <1>2, QueueFacts, OffStateListFields
  <2>2. {t} \in SUBSET Task
    BY <1>2
  <2> HIDE DEF o, t
  <2>3. off.count = o.count
    BY <2>1, <2>2, OffEventListsFields
  <2>4. QED
    BY <2>1, <2>3
<1> HIDE DEF t, o, off
<1>5. /\ k' \in KType /\ k'.depth = 1 /\ k'.cur = off.cur /\ k'.waiting = off.waiting
      /\ k'.ready = off.ready /\ k'.before = off.before /\ k'.count = off.count
  <2>1. off \in KType
    BY <1>3 DEF Eases
  <2>2. off.aborted \cup {t} \in SUBSET Task
    BY <1>2, <2>1 DEF KType
  <2>3. QED
    BY <1>1, <1>3, <2>1, <2>2 DEF KType
<1>6. Eases(k', k) /\ t \notin Waiters(k') /\ k'.cur = k.cur
  BY <1>3, <1>5, SameWaits, EasesTransitive DEF Eases
<1>7. k.cur \notin Waiters(k')
  <2>1. k.cur \in Waiters(k') => k.cur \in Waiters(k)
    BY <1>6, WaitersElements DEF Eases
  <2>2. QED
    BY <1>1, <2>1, CurrentWaits DEF WaitsAt
<1>8. "aborted" \in Place /\ "aborted" \in Suspending /\ pc[k.cur] \in Place
  BY <1>1, Places DEF Suspending
<1>9. after' = [after EXCEPT ![k.cur] = "run"]
  BY <1>1, <1>2, QueueFacts DEF QueueInv, QueueControl
<1>10. QueueControl'
  BY <1>1, <1>2, <1>4, <1>5, <1>6, <1>8, <1>9, QueueFacts, MoveKeepsControl
<1>11. arg'[k.cur] \notin Waiters(k')
  BY <1>1, <1>6 DEF t
<1>12. QED
  BY <1>1, <1>6, <1>7, <1>8, <1>10, <1>11, QuietStep

LEMMA AbortReadyKeeps ==
  ASSUME QueueInv, QueueAssumption, AbortReady, UNCHANGED queueVars
  PROVE  QueueInv'
<1> DEFINE t == arg[k.cur]
           r == AddToReadyList(k, t)
           y == Preempts(k, {t})
<1>1. /\ pc[k.cur] = "aborted" /\ pc' = [pc EXCEPT ![k.cur] = "unlock"]
      /\ after' = after /\ arg' = [arg EXCEPT ![k.cur] = k.cur]
      /\ k' = [r EXCEPT !.yieldPending = r.yieldPending \/ y]
  BY DEF AbortReady, At, Goto
<1>2. t \in Task /\ k.cur # Idle /\ k.depth = 1 /\ y \in BOOLEAN /\ k.cur \in Task
  BY <1>1, QueueFacts DEF Suspending, Preempts
<1>3. t \notin Waiters(k)
  BY <1>1 DEF QueueInv, QueueWaits
<1>4. Eases(r, k) /\ r.depth = 1 /\ r.count = k.count
  BY <1>2, <1>3, QueueFacts, AddToReadyListEases, AddToReadyListFields
<1> HIDE DEF t, r, y
<1>5. r \in KType /\ (r.yieldPending \/ y) \in BOOLEAN
  BY <1>2, <1>4 DEF Eases, KType
<1>6. /\ k' \in KType /\ k'.depth = 1 /\ k'.cur = r.cur /\ k'.waiting = r.waiting
      /\ k'.ready = r.ready /\ k'.before = r.before /\ k'.count = k.count
  BY <1>1, <1>4, <1>5 DEF KType
<1>7. Eases(k', k) /\ k'.cur = k.cur
  BY <1>4, <1>6, SameWaits, EasesTransitive DEF Eases
<1>8. k.cur \notin Waiters(k')
  <2>1. k.cur \in Waiters(k') => k.cur \in Waiters(k)
    BY <1>7, WaitersElements DEF Eases
  <2>2. QED
    BY <1>1, <2>1, CurrentWaits DEF WaitsAt
<1>9. "unlock" \in Place /\ "unlock" \in Suspending /\ pc[k.cur] \in Place
  BY <1>1, Places DEF Suspending
<1>10. arg' \in [Task -> Task] /\ after' = [after EXCEPT ![k.cur] = "run"]
  BY <1>1, <1>2, QueueFacts DEF QueueInv, QueueControl
<1>11. QueueControl'
  BY <1>1, <1>2, <1>6, <1>7, <1>9, <1>10, QueueFacts, MoveKeepsControl
<1>12. UNCHANGED <<messages, lock, call, left, entry, fate>> /\ hit' \in [Task -> BOOLEAN]
  BY TypeFacts DEF queueVars
<1>13. QED
  BY <1>1, <1>6, <1>7, <1>8, <1>9, <1>11, <1>12, QuietStep

-----------------------------------------------------------------------------
(* A call goes on.                                                         *)

LEMMA CallerFacts ==
  ASSUME QueueInv, QueueAssumption, pc[k.cur] \in QueuePlace
  PROVE  /\ k.cur # Idle /\ k.cur \in Task /\ call[k.cur] \in QueueCall
         /\ WaitList(call[k.cur]) \in Object
<1>1. k.cur \in Task /\ k.cur # Idle
  BY QueueFacts, Places
<1>2. call[k.cur] # "none"
  BY <1>1 DEF QueueInv, QueueTypes, InCall
<1>3. call[k.cur] \in QueueCall /\ WaitList(call[k.cur]) \in Object
  BY <1>1, <1>2, TypeFacts DEF WaitList
<1>4. QED
  BY <1>1, <1>3

(* Nobody who comes for an item turns away while there is one. *)
LEMMA NobodyTurnsAway ==
  ASSUME QueueInv, QueueAssumption, messages' = messages,
         \A o \in Object : k'.waiting[o] \subseteq k.waiting[o],
         \A o \in Object : Items(o) = 0 \/ Coming(o) \subseteq Coming(o)',
         \A o \in Object : /\ Counted(o)' = Counted(o)
                           /\ lock[o] >= Cardinality(Task) => lock'[o] >= Cardinality(Task),
         (pc[k.cur] = "place" => PlaceServed)'
  PROVE  QueueServes'
<1>1. ASSUME NEW o \in Object, k'.waiting[o] # {}
      PROVE  Served(o)'
  <2>1. Served(o) /\ Items(o) \in Nat /\ Items(o)' = Items(o)
    BY <1>1, ItemsType DEF QueueInv, QueueServes, Items
  <2>2. Coming(o) \in SUBSET Task /\ Coming(o)' \in SUBSET Task
    BY DEF Coming
  <2>3. /\ Coming(o) \subseteq Coming(o)' => Cardinality(Coming(o)) <= Cardinality(Coming(o)')
        /\ Cardinality(Coming(o)) \in Nat /\ Cardinality(Coming(o)') \in Nat
    BY <2>2, SubsetCounts
  <2>4. lock[o] \in UNLOCKED .. Cardinality(Task) /\ Cardinality(Task) \in Nat
    BY TypeFacts
  <2>5. Counted(o) \in Nat
    BY <2>4 DEF Counted, UNLOCKED
  <2>6. CASE lock[o] >= Cardinality(Task)
    BY <2>6 DEF Served
  <2>7. CASE Items(o) <= Cardinality(Coming(o)) + Counted(o)
    <3>1. Items(o)' <= Cardinality(Coming(o)') + Counted(o)'
      BY <2>1, <2>3, <2>5, <2>7
    <3>2. QED
      BY <3>1 DEF Served
  <2>8. QED
    BY <2>1, <2>6, <2>7 DEF Served
<1>2. QED
  BY <1>1 DEF QueueServes

(* The caller goes on to p with fate f, and no list changes. *)
LEMMA CallStep ==
  ASSUME QueueInv, QueueAssumption,
         NEW p \in QueuePlace \ {"expired"}, pc[k.cur] \in QueuePlace,
         pc' = [pc EXCEPT ![k.cur] = p], UNCHANGED <<after, arg, messages, call, hit>>,
         k' \in KType, k'.cur = k.cur, k'.waiting = k.waiting, k'.ready = k.ready,
         k'.before = k.before, k'.count = k.count,
         k'.depth = IF p \in Suspending THEN 1 ELSE 0,
         left' \in [Task -> Tick], entry' \in [Task -> TimeOutType],
         lock' \in [Object -> UNLOCKED .. Cardinality(Task)],
         NEW f \in {"none", "blocked", "retry", "expired"}, fate' = [fate EXCEPT ![k.cur] = f],
         k.cur \in Waiters(k) => WaitsAt(p, after[k.cur]) /\ f = fate[k.cur],
         p = "try" => k.cur \notin Waiters(k),
         \A o \in Object : /\ Counted(o)' = Counted(o)
                           /\ lock[o] >= Cardinality(Task) => lock'[o] >= Cardinality(Task),
         \/ Items(WaitList(call[k.cur])) = 0
         \/ pc[k.cur] \in Blind \/ fate[k.cur] = "expired"
         \/ p \notin Blind /\ f # "expired",
         p = "place" => Items(WaitList(call[k.cur])) = 0
  PROVE  QueueControl' /\ QueueTypes' /\ QueueWaits' /\ QueueServes'
<1>1. /\ k.cur # Idle /\ k.cur \in Task /\ call[k.cur] \in QueueCall
      /\ WaitList(call[k.cur]) \in Object
  BY CallerFacts
<1>2. after' = [after EXCEPT ![k.cur] = after[k.cur]] /\ after[k.cur] \in {"run", "try", "expired"}
  BY QueueFacts
<1>3. /\ pc'[k.cur] = p /\ fate'[k.cur] = f
      /\ \A t \in Task \ {k.cur} : pc'[t] = pc[t] /\ fate'[t] = fate[t]
  BY QueueFacts, TypeFacts
<1>4. p \notin Place /\ p \in Place \cup QueuePlace /\ p # "run" /\ p # "abort" /\ p # "aborted"
  BY Places
<1>5. QueueControl'
  BY <1>1, <1>2, <1>4, QueueFacts, MoveKeepsControl
<1>6. QueueTypes'
  <2>1. \A t \in Task : InCall(t)' <=> InCall(t)
    BY <1>3 DEF InCall
  <2>2. \A t \in Task : pc'[t] = "expired" \/ (pc'[t] \in Place /\ after'[t] = "expired")
                          => fate'[t] = "expired"
    BY <1>3, <1>4 DEF QueueInv, QueueTypes
  <2>3. fate' \in [Task -> {"none", "blocked", "retry", "expired"}]
    BY TypeFacts
  <2>4. QED
    BY <2>1, <2>2, <2>3, TypeFacts DEF QueueInv, QueueTypes
<1>7. Eases(k', k) /\ Waiters(k') = Waiters(k)
  BY QueueFacts, SameWaits
<1>8. QueueWaits'
  BY <1>1, <1>2, <1>3, <1>4, <1>7, MoveKeepsWaits
<1>9. \A o \in Object : Items(o) = 0 \/ Coming(o) \subseteq Coming(o)'
  <2>1. SUFFICES ASSUME NEW o \in Object, Items(o) # 0, NEW t \in Coming(o)
                 PROVE  t \in Coming(o)'
    OBVIOUS
  <2>2. /\ t \in Task /\ call[t] # "none" /\ WaitList(call[t]) = o
        /\ t \notin Waiters(k) /\ fate[t] # "expired" /\ pc[t] \notin Blind
    BY DEF Coming
  <2>3. fate'[t] # "expired" /\ pc'[t] \notin Blind
    <3>1. CASE t = k.cur
      BY <1>3, <2>1, <2>2, <3>1
    <3>2. CASE t # k.cur
      BY <1>3, <2>2, <3>2
    <3>3. QED
      BY <3>1, <3>2
  <2>4. QED
    BY <1>7, <2>2, <2>3 DEF Coming, WaitList
<1>10. (pc[k.cur] = "place" => PlaceServed)'
  <2>1. SUFFICES ASSUME p = "place"
                 PROVE  PlaceServed'
    BY <1>3
  <2>2. Items(WaitList(call[k.cur])) = 0
    BY <2>1
  <2>3. (Items(WaitList(call[k.cur])) = 0)'
    BY <2>2 DEF Items, WaitList
  <2>4. (Counted(WaitList(call[k.cur])) \in Nat)'
    <3>1. (WaitList(call[k.cur]) \in Object)'
      BY <1>1 DEF WaitList
    <3>2. Cardinality(Task) \in Nat
      BY TypeFacts
    <3>3. QED
      BY <3>1, <3>2 DEF Counted, UNLOCKED
  <2>5. QED
    BY <2>3, <2>4 DEF PlaceServed
<1>11. QueueServes'
  BY <1>9, <1>10, NobodyTurnsAway
<1>12. QED
  BY <1>5, <1>6, <1>8, <1>11

LEMMA NotWaiting ==
  ASSUME QueueInv,
         pc[k.cur] \in {"run", "try", "enter", "lock", "check", "test", "place", "expired"}
  PROVE  k.cur \notin Waiters(k)
BY CurrentWaits DEF WaitsAt

LEMMA CannotProceed ==
  ASSUME QueueInv, QueueAssumption, NEW c \in QueueCall, ~CanProceed(c)
  PROVE  Items(WaitList(c)) = 0
BY TypeFacts DEF CanProceed, Items, WaitList, QueueCall

LEMMA SameFate ==
  ASSUME QueueInv, QueueAssumption, fate' = fate
  PROVE  /\ fate' = [fate EXCEPT ![k.cur] = fate[k.cur]]
         /\ fate[k.cur] \in {"none", "blocked", "retry", "expired"}
BY QueueFacts, TypeFacts

LEMMA SameLock ==
  ASSUME QueueInv, QueueAssumption, lock' = lock
  PROVE  /\ lock' \in [Object -> UNLOCKED .. Cardinality(Task)]
         /\ \A o \in Object : /\ Counted(o)' = Counted(o)
                              /\ lock[o] >= Cardinality(Task) => lock'[o] >= Cardinality(Task)
BY TypeFacts DEF Counted

LEMMA EnterKeeps ==
  ASSUME QueueInv, QueueAssumption, Enter
  PROVE  QueueInv'
<1> DEFINE now == [set |-> TRUE, overflows |-> k.overflows, at |-> k.tick]
           f == fate[k.cur]
<1>1. /\ pc[k.cur] = "try" /\ pc' = [pc EXCEPT ![k.cur] = "enter"] /\ k' = k
      /\ entry' = entry \/ entry' = [entry EXCEPT ![k.cur] = now]
      /\ ~CanProceed(call[k.cur])
      /\ UNCHANGED <<after, arg, messages, lock, call, left, fate, hit>>
  BY DEF Enter, At, Goto, me
<1>2. /\ pc[k.cur] \in QueuePlace /\ "enter" \in QueuePlace \ {"expired"} /\ k.depth = 0
      /\ "enter" \notin Suspending /\ k' \in KType
  BY <1>1, QueueFacts DEF QueuePlace, Suspending, LockedPlace
<1>3. entry' \in [Task -> TimeOutType] /\ left' \in [Task -> Tick]
  <2>1. now \in TimeOutType
    BY QueueFacts DEF KType, TimeOutType
  <2> HIDE DEF now
  <2>2. QED
    BY <1>1, <2>1, TypeFacts
<1>4. k.cur \notin Waiters(k)
  BY <1>1, NotWaiting
<1>5. Items(WaitList(call[k.cur])) = 0
  BY <1>1, <1>2, CallerFacts, CannotProceed
<1>6. fate' = [fate EXCEPT ![k.cur] = f] /\ f \in {"none", "blocked", "retry", "expired"}
  BY <1>1, SameFate
<1> HIDE DEF now, f
<1>7. QueueControl' /\ QueueTypes' /\ QueueWaits' /\ QueueServes'
  BY <1>1, <1>2, <1>3, <1>4, <1>5, <1>6, SameLock, CallStep
<1>8. LocksHeldByCurrent'
  BY <1>1, <1>7, MoveKeepsLocks DEF LockedPlace
<1>9. QED
  BY <1>7, <1>8 DEF QueueInv

LEMMA LockSchedulerKeeps ==
  ASSUME QueueInv, QueueAssumption, LockScheduler
  PROVE  QueueInv'
<1> DEFINE f == fate[k.cur]
<1>1. /\ pc[k.cur] = "enter" /\ pc' = [pc EXCEPT ![k.cur] = "lock"] /\ k' = SuspendAll(k)
      /\ UNCHANGED <<after, arg, messages, lock, call, left, entry, fate, hit>>
  BY DEF LockScheduler, At, Goto, queueVars
<1>2. /\ pc[k.cur] \in QueuePlace /\ "lock" \in QueuePlace \ {"expired"} /\ k.depth = 0
      /\ "lock" \in Suspending /\ pc[k.cur] \in Blind
  BY <1>1, QueueFacts DEF QueuePlace, Suspending, LockedPlace, Blind
<1>3. /\ k' \in KType /\ k'.depth = 1 /\ k'.cur = k.cur /\ k'.waiting = k.waiting
      /\ k'.ready = k.ready /\ k'.before = k.before /\ k'.count = k.count
  BY <1>1, <1>2, SuspendAllFacts
<1>4. k.cur \notin Waiters(k)
  BY <1>1, NotWaiting
<1>5. fate' = [fate EXCEPT ![k.cur] = f] /\ f \in {"none", "blocked", "retry", "expired"}
  BY <1>1, SameFate
<1>6. left' \in [Task -> Tick] /\ entry' \in [Task -> TimeOutType]
  BY <1>1, TypeFacts
<1> HIDE DEF f
<1>7. QueueControl' /\ QueueTypes' /\ QueueWaits' /\ QueueServes'
  BY <1>1, <1>2, <1>3, <1>4, <1>5, <1>6, SameLock, CallStep
<1>8. LocksHeldByCurrent'
  BY <1>1, <1>7, MoveKeepsLocks DEF LockedPlace
<1>9. QED
  BY <1>7, <1>8 DEF QueueInv

LEMMA LockQueueKeeps ==
  ASSUME QueueInv, QueueAssumption, LockQueue
  PROVE  QueueInv'
<1> DEFINE f == fate[k.cur]
<1>1. /\ pc[k.cur] = "lock" /\ pc' = [pc EXCEPT ![k.cur] = "check"] /\ k' = k
      /\ lock' = [o \in Object |-> IF lock[o] = UNLOCKED THEN 0 ELSE lock[o]]
      /\ UNCHANGED <<after, arg, messages, call, left, entry, fate, hit>>
  BY DEF LockQueue, At, Goto
<1>2. /\ pc[k.cur] \in QueuePlace /\ "check" \in QueuePlace \ {"expired"} /\ k.depth = 1
      /\ "check" \in Suspending /\ pc[k.cur] \in Blind /\ k' \in KType
  BY <1>1, QueueFacts DEF QueuePlace, Suspending, LockedPlace, Blind
<1>3. /\ lock' \in [Object -> UNLOCKED .. Cardinality(Task)]
      /\ \A o \in Object : lock'[o] # UNLOCKED
      /\ \A o \in Object : /\ Counted(o)' = Counted(o)
                           /\ lock[o] >= Cardinality(Task) => lock'[o] >= Cardinality(Task)
  BY <1>1, TypeFacts DEF UNLOCKED, Counted
<1>4. k.cur \notin Waiters(k)
  BY <1>1, NotWaiting
<1>5. fate' = [fate EXCEPT ![k.cur] = f] /\ f \in {"none", "blocked", "retry", "expired"}
  BY <1>1, SameFate
<1>6. left' \in [Task -> Tick] /\ entry' \in [Task -> TimeOutType]
  BY <1>1, TypeFacts
<1> HIDE DEF f
<1>7. QueueControl' /\ QueueTypes' /\ QueueWaits' /\ QueueServes'
  BY <1>1, <1>2, <1>3, <1>4, <1>5, <1>6, CallStep
<1>8. LocksHeldByCurrent'
  <2>1. pc'[k'.cur] = "check"
    BY <1>1, QueueFacts
  <2>2. \A t \in Task : pc'[t] \in LockedPlace \cup {"lock"} => t = k'.cur /\ k'.depth = 1
    BY <1>7 DEF QueueControl, Sections, Suspending
  <2>3. QED
    BY <1>3, <2>1, <2>2, TypeFacts DEF LocksHeldByCurrent, LockedPlace, me
<1>9. QED
  BY <1>7, <1>8 DEF QueueInv

LEMMA TestAgainKeeps ==
  ASSUME QueueInv, QueueAssumption, TestAgain
  PROVE  QueueInv'
<1> DEFINE p == IF CanProceed(call[k.cur]) THEN "unlockTx" ELSE "place"
           f == IF CanProceed(call[k.cur]) THEN "retry" ELSE fate[k.cur]
<1>1. /\ pc[k.cur] = "test" /\ pc' = [pc EXCEPT ![k.cur] = p] /\ k' = k
      /\ UNCHANGED <<after, arg, messages, lock, call, left, entry, hit>>
  BY DEF TestAgain, At, Goto, me
<1>2. fate' = [fate EXCEPT ![k.cur] = f] /\ f \in {"none", "blocked", "retry", "expired"}
  BY SameFate DEF TestAgain, me
<1>3. /\ pc[k.cur] \in QueuePlace /\ p \in QueuePlace \ {"expired"} /\ k.depth = 1
      /\ p \in Suspending /\ pc[k.cur] \in Blind /\ p # "try" /\ k' \in KType
      /\ p \in LockedPlace /\ p # "unlockRx" /\ pc[k.cur] \in LockedPlace
  BY <1>1, QueueFacts DEF QueuePlace, Suspending, LockedPlace, Blind
<1>4. k.cur \notin Waiters(k)
  BY <1>1, NotWaiting
<1>5. p = "place" => Items(WaitList(call[k.cur])) = 0
  BY <1>3, CallerFacts, CannotProceed
<1>6. left' \in [Task -> Tick] /\ entry' \in [Task -> TimeOutType]
  BY <1>1, TypeFacts
<1> HIDE DEF f, p
<1>7. QueueControl' /\ QueueTypes' /\ QueueWaits' /\ QueueServes'
  BY <1>1, <1>2, <1>3, <1>4, <1>5, <1>6, SameLock, CallStep
<1>8. LocksHeldByCurrent'
  BY <1>1, <1>3, <1>7, MoveKeepsLocks
<1>9. QED
  BY <1>7, <1>8 DEF QueueInv

(* What is left of the block time is not negative. *)
LEMMA TicksLeftTypes ==
  ASSUME QueueInv, QueueAssumption, Elapsed < left[k.cur],
         left' = [left EXCEPT ![k.cur] = TicksLeft],
         entry' = [entry EXCEPT ![k.cur].overflows = k.overflows, ![k.cur].at = k.tick]
  PROVE  left' \in [Task -> Tick] /\ entry' \in [Task -> TimeOutType]
<1>1. /\ left \in [Task -> Tick] /\ entry \in [Task -> TimeOutType] /\ k.cur \in Task
      /\ k.tick \in Tick /\ k.overflows \in 0 .. OvfMod - 1
  BY QueueFacts, TypeFacts DEF KType
<1>2. Elapsed \in Nat
  <2>1. entry[k.cur].at \in Tick
    BY <1>1 DEF TimeOutType
  <2>2. k.tick + TickMod - entry[k.cur].at \in Nat /\ TickMod \in Nat \ {0}
    BY <1>1, <2>1, Constants DEF Tick
  <2>3. QED
    BY <2>2 DEF Elapsed, me
<1>3. TicksLeft \in Tick
  BY <1>1, <1>2, Constants DEF Tick, TicksLeft, me
<1>4. left' \in [Task -> Tick]
  BY <1>1, <1>3
<1>5. entry' \in [Task -> TimeOutType]
  BY <1>1 DEF TimeOutType
<1>6. QED
  BY <1>4, <1>5

LEMMA CheckForTimeOutKeeps ==
  ASSUME QueueInv, QueueAssumption, CheckForTimeOut
  PROVE  QueueInv'
<1> DEFINE A == k.aborted \ {k.cur}
<1>1. /\ pc[k.cur] = "check" /\ UNCHANGED <<after, arg, messages, lock, call, hit>>
  BY DEF CheckForTimeOut, At
<1>2. /\ pc[k.cur] \in QueuePlace /\ k.depth = 1 /\ pc[k.cur] \in Blind
      /\ pc[k.cur] \in LockedPlace /\ k.cur \notin Waiters(k)
  BY <1>1, QueueFacts, NotWaiting DEF QueuePlace, Suspending, LockedPlace, Blind
<1>3. /\ {"unlockTx", "test"} \subseteq QueuePlace \ {"expired", "place", "try"}
      /\ {"unlockTx", "test"} \subseteq Suspending
      /\ {"unlockTx", "test"} \subseteq LockedPlace \ {"unlockRx"}
  BY DEF QueuePlace, Suspending, LockedPlace
<1>4. /\ k' \in KType /\ k'.cur = k.cur /\ k'.waiting = k.waiting /\ k'.ready = k.ready
      /\ k'.before = k.before /\ k'.count = k.count /\ k'.depth = 1
  <2>1. A \in SUBSET Task
    BY QueueFacts DEF KType
  <2>2. k' = [k EXCEPT !.aborted = A] \/ k' = k
    BY DEF CheckForTimeOut, me
  <2> HIDE DEF A
  <2>3. QED
    BY <1>2, <2>1, <2>2, QueueFacts DEF KType
<1>5. left' \in [Task -> Tick] /\ entry' \in [Task -> TimeOutType]
  <2>1. left' = left \/ left' = [left EXCEPT ![k.cur] = 0] => left' \in [Task -> Tick]
    BY TypeFacts, Constants
  <2>2. entry' = entry => entry' \in [Task -> TimeOutType]
    BY TypeFacts
  <2>3. QED
    BY <2>1, <2>2, TicksLeftTypes DEF CheckForTimeOut, me
<1>6. PICK p \in {"unlockTx", "test"}, f \in {"none", "blocked", "retry", "expired"} :
        pc' = [pc EXCEPT ![k.cur] = p] /\ fate' = [fate EXCEPT ![k.cur] = f]
  <2>1. \/ /\ pc' = [pc EXCEPT ![k.cur] = "unlockTx"]
           /\ fate' = [fate EXCEPT ![k.cur] = "expired"]
        \/ pc' = [pc EXCEPT ![k.cur] = "test"] /\ fate' = fate
    BY DEF CheckForTimeOut, Goto, me
  <2>2. QED
    BY <2>1, SameFate
<1>7. QueueControl' /\ QueueTypes' /\ QueueWaits' /\ QueueServes'
  BY <1>1, <1>2, <1>3, <1>4, <1>5, <1>6, SameLock, CallStep
<1>8. LocksHeldByCurrent'
  BY <1>1, <1>2, <1>3, <1>4, <1>6, <1>7, MoveKeepsLocks
<1>9. QED
  BY <1>7, <1>8 DEF QueueInv

(* A task waits on one list only. *)
LEMMA ListsDisjoint ==
  ASSUME QueueInv
  PROVE  \A o, q \in Object : o # q => k.waiting[o] \cap k.waiting[q] = {}
BY DEF QueueInv, QueueWaits

LEMMA JoinWaitersKeeps ==
  ASSUME QueueInv, QueueAssumption, JoinWaiters
  PROVE  QueueInv'
<1> DEFINE o == WaitList(call[k.cur])
           n == left[k.cur]
           a == after[k.cur]
<1>1. /\ pc[k.cur] = "place" /\ pc' = [pc EXCEPT ![k.cur] = "unlockTx"]
      /\ k' = PlaceOnEventList(k, o, n) /\ fate' = [fate EXCEPT ![k.cur] = "blocked"]
      /\ UNCHANGED <<after, arg, messages, lock, call, left, entry, hit>>
  BY DEF JoinWaiters, At, Goto, me
<1>2. /\ pc[k.cur] \in QueuePlace /\ k.depth = 1 /\ pc[k.cur] \in LockedPlace
      /\ k.cur \notin Waiters(k)
  BY <1>1, QueueFacts, NotWaiting DEF QueuePlace, Suspending, LockedPlace
<1>3. /\ "unlockTx" \in Place \cup QueuePlace /\ "unlockTx" \in Suspending
      /\ "unlockTx" \in LockedPlace /\ "unlockTx" \notin Place
  BY Places DEF QueuePlace, Suspending, LockedPlace
<1>4. /\ k.cur # Idle /\ k.cur \in Task /\ call[k.cur] \in QueueCall /\ o \in Object
      /\ n \in Tick /\ k \in KType /\ WaitersBlocked(k) /\ EventListsOrdered(k)
  BY <1>2, CallerFacts, QueueFacts, TypeFacts DEF QueueInv, QueueWaits
<1>5. a \in {"run", "try", "expired"} /\ after' = [after EXCEPT ![k.cur] = a]
  BY <1>1, QueueFacts
<1>6. k'.count = k.count
  BY <1>1, <1>4, PlaceOnEventListFields
<1>7. /\ k' \in KType /\ k'.cur = k.cur /\ k'.depth = k.depth
      /\ k'.waiting = [k.waiting EXCEPT ![o] = k.waiting[o] \cup {k.cur}]
      /\ WaitersBlocked(k') /\ EventListsOrdered(k')
  BY <1>1, <1>2, <1>4, ListsDisjoint, PlaceOnEventListWaits
<1> HIDE DEF n, a
<1>8. QueueControl'
  BY <1>1, <1>2, <1>3, <1>4, <1>5, <1>6, <1>7, QueueFacts, MoveKeepsControl
<1>9. /\ pc'[k.cur] = "unlockTx" /\ fate'[k.cur] = "blocked"
      /\ \A t \in Task \ {k.cur} : pc'[t] = pc[t] /\ fate'[t] = fate[t]
  BY <1>1, <1>4, QueueFacts, TypeFacts
<1>10. QueueTypes'
  <2>1. \A t \in Task : InCall(t)' <=> InCall(t)
    BY <1>1, <1>2, <1>3, <1>9, Places DEF InCall
  <2>2. \A t \in Task : pc'[t] = "expired" \/ (pc'[t] \in Place /\ after'[t] = "expired")
                          => fate'[t] = "expired"
    BY <1>1, <1>3, <1>9 DEF QueueInv, QueueTypes
  <2>3. fate' \in [Task -> {"none", "blocked", "retry", "expired"}]
    BY <1>1, TypeFacts
  <2>4. QED
    BY <1>1, <2>1, <2>2, <2>3, TypeFacts DEF QueueInv, QueueTypes
<1>11. LocksHeldByCurrent'
  BY <1>1, <1>2, <1>3, <1>7, <1>8, MoveKeepsLocks
<1>12. /\ k'.waiting[o] = k.waiting[o] \cup {k.cur}
       /\ \A q \in Object \ {o} : k'.waiting[q] = k.waiting[q]
  BY <1>4, <1>7, QueueFacts
<1>13. \A t : t \in Waiters(k') <=> t \in Waiters(k) \/ t = k.cur
  BY <1>4, <1>12, WaitersElements
<1>14. QueueWaits'
  <2>1. ASSUME NEW q \in Object, NEW t \in k'.waiting[q]
        PROVE  /\ call'[t] # "none" /\ WaitList(call'[t]) = q /\ fate'[t] = "blocked"
               /\ WaitsAt(pc'[t], after'[t])
    <3>1. CASE t = k.cur
      <4>1. q = o
        BY <1>2, <1>12, <2>1, <3>1, WaitersElements
      <4>2. QED
        BY <1>1, <1>4, <1>9, <3>1, <4>1 DEF WaitsAt, QueueCall
    <3>2. CASE t # k.cur
      <4>1. t \in k.waiting[q] /\ t \in Task
        BY <1>12, <2>1, <3>2, QueueFacts
      <4>2. /\ call[t] # "none" /\ WaitList(call[t]) = q /\ fate[t] = "blocked"
            /\ WaitsAt(pc[t], after[t])
        BY <4>1 DEF QueueInv, QueueWaits
      <4>3. QED
        BY <1>1, <1>9, <3>2, <4>1, <4>2
    <3>3. QED
      BY <3>1, <3>2
  <2>2. pc'[k'.cur] = "unlockTx"
    BY <1>7, <1>9
  <2>3. QED
    BY <1>7, <2>1, <2>2 DEF QueueWaits, WaitList
<1>15. QueueServes'
  <2>1. ASSUME NEW q \in Object, k'.waiting[q] # {}
        PROVE  Served(q)'
    <3>1. Items(q)' = Items(q) /\ Items(q) \in Nat /\ lock'[q] = lock[q]
      BY <1>1, ItemsType DEF Items
    <3>2. CASE q = o
      <4>1. Items(q) <= Counted(q) \/ lock[q] >= Cardinality(Task)
        BY <1>1, <3>2 DEF QueueInv, QueueServes, PlaceServed
      <4>2. /\ Counted(q)' = Counted(q) /\ Counted(q) \in Nat
            /\ Cardinality(Coming(q)') \in Nat
        <5>1. Coming(q)' \in SUBSET Task
          BY DEF Coming
        <5>2. QED
          BY <1>1, <5>1, SubsetCounts, TypeFacts DEF Counted, UNLOCKED
      <4>3. Items(q) <= Counted(q) => Items(q)' <= Cardinality(Coming(q)') + Counted(q)'
        BY <3>1, <4>2
      <4>4. QED
        BY <3>1, <4>1, <4>3 DEF Served
    <3>3. CASE q # o
      <4>1. Served(q)
        BY <1>12, <2>1, <3>3 DEF QueueInv, QueueServes
      <4>2. Coming(q) \subseteq Coming(q)'
        <5>1. k.cur \notin Coming(q)
          BY <3>3 DEF Coming
        <5>2. QED
          BY <1>1, <1>9, <1>13, <5>1 DEF Coming, WaitList
      <4>3. QED
        BY <3>1, <4>1, <4>2, StillServed
    <3>4. QED
      BY <3>2, <3>3
  <2>2. pc'[k'.cur] # "place"
    BY <1>7, <1>9
  <2>3. QED
    BY <2>1, <2>2 DEF QueueServes
<1>16. QED
  BY <1>8, <1>10, <1>11, <1>14, <1>15 DEF QueueInv

-----------------------------------------------------------------------------
(* Waking the first tasks of a list.                                       *)

(* A task that is woken, and has not been at work itself, comes.           *)
LEMMA WokenComes ==
  ASSUME QueueInv, NEW o \in Object, NEW F \in SUBSET k.waiting[o],
         \A q \in Object : k'.waiting[q] = k.waiting[q] \ F,
         NEW t \in Task, call'[t] = call[t], fate'[t] = fate[t],
         pc'[t] = pc[t] \/ pc'[t] \notin Blind
  PROVE  /\ t \in F => t \in Coming(o)' /\ t \notin Coming(o)
         /\ \A q \in Object : t \in Coming(q) => t \in Coming(q)'
<1>1. t \in Waiters(k') => t \in Waiters(k)
  BY WaitersElements
<1>2. \A q \in Object : t \in Coming(q) => t \in Coming(q)'
  BY <1>1 DEF Coming, WaitList
<1>3. ASSUME t \in F
      PROVE  t \in Coming(o)' /\ t \notin Coming(o)
  <2>1. /\ call[t] # "none" /\ WaitList(call[t]) = o /\ fate[t] = "blocked"
        /\ WaitsAt(pc[t], after[t])
    BY <1>3 DEF QueueInv, QueueWaits
  <2>2. pc'[t] \notin Blind
    BY <2>1 DEF WaitsAt, Blind
  <2>3. t \notin Waiters(k')
    <3>1. \A q \in Object : t \in k.waiting[q] => t \notin k'.waiting[q]
      BY <1>3
    <3>2. \A q \in Object : k'.waiting[q] \subseteq k.waiting[q]
      OBVIOUS
    <3>3. QED
      BY <3>1, <3>2, WaitersElements
  <2>4. t \in Coming(o)'
    BY <2>1, <2>2, <2>3 DEF Coming, WaitList
  <2>5. t \in Waiters(k)
    BY <1>3, WaitersElements
  <2>6. QED
    BY <2>4, <2>5 DEF Coming
<1>4. QED
  BY <1>2, <1>3

LEMMA RemoveFacts ==
  ASSUME QueueInv, NEW o \in Object, NEW F \in SUBSET k.waiting[o]
  PROVE  LET r == RemoveFromEventList(k, F)
         IN  /\ Eases(r, k) /\ r \in KType /\ r.cur = k.cur /\ r.depth = k.depth
             /\ r.count = k.count /\ \A q \in Object : r.waiting[q] = k.waiting[q] \ F
<1> DEFINE r == RemoveFromEventList(k, F)
<1>1. F \in SUBSET Task
  BY QueueFacts
<1>2. Eases(r, k) /\ SameControl(r, k) /\ r.waiting = [q \in Object |-> k.waiting[q] \ F]
  BY <1>1, QueueFacts, RemoveFromEventListEases
<1> HIDE DEF r
<1>3. /\ r \in KType /\ r.cur = k.cur /\ r.depth = k.depth /\ r.count = k.count
      /\ \A q \in Object : r.waiting[q] = k.waiting[q] \ F
  BY <1>2 DEF SameControl
<1>4. QED
  BY <1>2, <1>3 DEF r

(* The first part of a list that prvUnlockQueue wakes, and those it leaves *)
LEMMA UnlockServes ==
  ASSUME QueueInv, QueueAssumption, NEW o \in Object, lock[o] # UNLOCKED,
         NEW F \in SUBSET k.waiting[o],
         F = IF lock[o] > 0 THEN FirstWaiters(k, o, lock[o]) ELSE {},
         \A q \in Object : k'.waiting[q] = k.waiting[q] \ F,
         k'.cur = k.cur, UNCHANGED <<messages, call, fate>>,
         lock' = [lock EXCEPT ![o] = UNLOCKED],
         NEW p, p \notin Blind, pc' = [pc EXCEPT ![k.cur] = p]
  PROVE  QueueServes'
<1>1. pc'[k.cur] = p /\ \A t \in Task \ {k.cur} : pc'[t] = pc[t]
  BY QueueFacts
<1>2. \A t \in Task : t \in F => t \in Coming(o)' /\ t \notin Coming(o)
  BY <1>1, WokenComes
<1>3. \A t \in Task : \A q \in Object : t \in Coming(q) => t \in Coming(q)'
  BY <1>1, WokenComes
<1>4. /\ lock[o] \in Nat /\ lock[o] \in UNLOCKED .. Cardinality(Task)
      /\ Cardinality(Task) \in Nat /\ lock'[o] = UNLOCKED
      /\ \A q \in Object \ {o} : lock'[q] = lock[q]
  BY TypeFacts DEF UNLOCKED
<1>5. ASSUME NEW q \in Object, k'.waiting[q] # {}, q # o
      PROVE  Served(q)'
  <2>1. Served(q) /\ Items(q)' = Items(q) /\ Items(q) \in Nat
    BY <1>5, ItemsType DEF QueueInv, QueueServes, Items
  <2>2. Coming(q) \subseteq Coming(q)'
    BY <1>3 DEF Coming
  <2>3. QED
    BY <1>4, <1>5, <2>1, <2>2, StillServed
<1>6. ASSUME k'.waiting[o] # {}
      PROVE  Served(o)'
  <2>1. Served(o) /\ Items(o)' = Items(o) /\ Items(o) \in Nat
    BY <1>6, ItemsType DEF QueueInv, QueueServes, Items
  <2>2. /\ Coming(o) \in SUBSET Task /\ Coming(o)' \in SUBSET Task /\ F \in SUBSET Task
    BY QueueFacts DEF Coming
  <2>3. /\ Cardinality(F) \in Nat /\ Cardinality(Coming(o)) \in Nat
        /\ Cardinality(Coming(o)') \in Nat
    BY <2>2, SubsetCounts
  <2>4. Cardinality(Coming(o)) + Cardinality(F) <= Cardinality(Coming(o)')
    <3>1. Coming(o) \cap F = {} /\ Coming(o) \cup F \subseteq Coming(o)'
      BY <1>2, <1>3, <2>2
    <3>2. QED
      BY <2>2, <3>1, GainCounts
  <2>5. F # Task
    BY <1>6, QueueFacts
  <2>6. ~(Cardinality(F) >= Cardinality(Task))
    BY <2>2, <2>5, SubsetCounts
  <2>7. lock[o] <= Cardinality(F)
    <3>1. CASE lock[o] = 0
      BY <2>3, <3>1
    <3>2. CASE lock[o] > 0
      <4>1. F = FirstWaiters(k, o, lock[o]) /\ F # k.waiting[o]
        BY <1>6, <3>2
      <4>2. k \in KType /\ EventListsOrdered(k)
        BY QueueFacts DEF QueueInv, QueueWaits
      <4>3. QED
        BY <1>4, <4>1, <4>2, ManyFirstWaiters
    <3>3. QED
      BY <1>4, <3>1, <3>2
  <2>8. Items(o) <= Cardinality(Coming(o)) + lock[o]
    <3>1. Counted(o) = lock[o]
      BY <1>4 DEF Counted
    <3>2. ~(lock[o] >= Cardinality(Task))
      BY <1>4, <2>3, <2>6, <2>7
    <3>3. QED
      BY <2>1, <3>1, <3>2 DEF Served
  <2>9. Counted(o)' = 0
    BY <1>4 DEF Counted, UNLOCKED
  <2>10. Items(o)' <= Cardinality(Coming(o)') + Counted(o)'
    BY <1>4, <2>1, <2>3, <2>4, <2>7, <2>8, <2>9
  <2>11. QED
    BY <2>10 DEF Served
<1>7. pc'[k'.cur] # "place"
  BY <1>1 DEF Blind
<1>8. QED
  BY <1>5, <1>6, <1>7 DEF QueueServes

LEMMA UnlockKernel ==
  ASSUME QueueInv, QueueAssumption, NEW o \in Object, UnlockList(o)
  PROVE  LET F == IF lock[o] > 0 THEN FirstWaiters(k, o, lock[o]) ELSE {}
         IN  /\ F \in SUBSET k.waiting[o]
             /\ Eases(k', k) /\ k' \in KType /\ k'.cur = k.cur /\ k'.depth = k.depth
             /\ k'.count = k.count /\ \A q \in Object : k'.waiting[q] = k.waiting[q] \ F
<1> DEFINE F == IF lock[o] > 0 THEN FirstWaiters(k, o, lock[o]) ELSE {}
<1>1. F \in SUBSET k.waiting[o]
  BY DEF FirstWaiters
<1>2. CASE lock[o] > 0
  <2>1. k' = RemoveFromEventList(k, F)
    BY <1>2 DEF UnlockList
  <2> HIDE DEF F
  <2>2. /\ Eases(k', k) /\ k' \in KType /\ k'.cur = k.cur /\ k'.depth = k.depth
        /\ k'.count = k.count /\ \A q \in Object : k'.waiting[q] = k.waiting[q] \ F
    BY <1>1, <2>1, RemoveFacts
  <2>3. QED
    BY <1>1, <2>2 DEF F
<1>3. CASE ~(lock[o] > 0)
  <2>1. k' = k /\ F = {}
    BY <1>3 DEF UnlockList
  <2>2. Eases(k', k)
    BY <2>1, QueueFacts, SameWaits
  <2>3. QED
    BY <1>1, <2>1, <2>2, QueueFacts
<1>4. QED
  BY <1>2, <1>3

LEMMA UnlockTxKeeps ==
  ASSUME QueueInv, QueueAssumption, UnlockTx
  PROVE  QueueInv'
<1> DEFINE o == ToReceive
           a == after[k.cur]
<1>1. /\ pc[k.cur] = "unlockTx" /\ pc' = [pc EXCEPT ![k.cur] = "unlockRx"] /\ UnlockList(o)
      /\ lock' = [lock EXCEPT ![o] = UNLOCKED]
      /\ UNCHANGED <<after, arg, messages, call, left, entry, fate, hit>>
  BY DEF UnlockTx, UnlockList, At, Goto
<1>2. /\ pc[k.cur] \in QueuePlace /\ k.depth = 1 /\ o \in Object
  BY <1>1, QueueFacts, TypeFacts DEF QueuePlace, Suspending, LockedPlace
<1>3. /\ "unlockRx" \in Place \cup QueuePlace /\ "unlockRx" \in Suspending
      /\ "unlockRx" \in QueuePlace /\ "unlockRx" \notin Place /\ "unlockRx" \notin Blind
      /\ k.cur # Idle
  BY <1>2, CallerFacts, Places DEF QueuePlace, Suspending, LockedPlace, Blind
<1>4. lock[ToReceive] # UNLOCKED /\ lock[ToSend] # UNLOCKED
  BY <1>1 DEF QueueInv, LocksHeldByCurrent, LockedPlace, me
<1>5. a \in {"run", "try", "expired"} /\ after' = [after EXCEPT ![k.cur] = a]
  BY <1>1, QueueFacts
<1> DEFINE F == IF lock[o] > 0 THEN FirstWaiters(k, o, lock[o]) ELSE {}
<1>6. /\ F \in SUBSET k.waiting[o]
      /\ Eases(k', k) /\ k' \in KType /\ k'.cur = k.cur /\ k'.depth = k.depth
      /\ k'.count = k.count /\ \A q \in Object : k'.waiting[q] = k.waiting[q] \ F
  BY <1>1, <1>2, UnlockKernel
<1>7. QueueServes'
  BY <1>1, <1>2, <1>3, <1>4, <1>6, UnlockServes
<1> HIDE DEF F, a
<1>8. QueueControl'
  BY <1>1, <1>2, <1>3, <1>5, <1>6, QueueFacts, MoveKeepsControl
<1>9. QueueWaits'
  <2>1. WaitsAt("unlockRx", a)
    BY DEF WaitsAt
  <2> DEFINE p == "unlockRx"
  <2>2. p # "try" /\ p # "aborted" /\ WaitsAt(p, a) /\ pc' = [pc EXCEPT ![k.cur] = p]
    BY <1>1, <2>1
  <2>3. /\ \A t \in Task : call'[t] = call[t] /\ fate'[t] = fate[t]
        /\ after' = [after EXCEPT ![k.cur] = a] /\ k.cur \in Task
    BY <1>1, <1>5, QueueFacts
  <2> HIDE DEF p
  <2>4. QED
    BY <1>6, <2>2, <2>3, MoveKeepsWaits
<1>10. pc'[k.cur] = "unlockRx" /\ \A t \in Task \ {k.cur} : pc'[t] = pc[t]
  BY <1>1, QueueFacts
<1>11. QueueTypes'
  <2>1. \A t \in Task : InCall(t)' <=> InCall(t)
    BY <1>1, <1>2, <1>3, <1>10 DEF InCall
  <2>2. \A t \in Task : pc'[t] = "expired" \/ (pc'[t] \in Place /\ after'[t] = "expired")
                          => fate'[t] = "expired"
    BY <1>1, <1>3, <1>10 DEF QueueInv, QueueTypes
  <2>3. lock' \in [Object -> UNLOCKED .. Cardinality(Task)]
    BY <1>1, TypeFacts DEF UNLOCKED
  <2>4. QED
    BY <1>1, <2>1, <2>2, <2>3, TypeFacts DEF QueueInv, QueueTypes
<1>12. LocksHeldByCurrent'
  <2>1. lock'[ToReceive] = UNLOCKED /\ lock'[ToSend] # UNLOCKED
    BY <1>1, <1>4, TypeFacts
  <2>2. pc'[k'.cur] = "unlockRx"
    BY <1>6, <1>10
  <2>3. \A t \in Task : pc'[t] \in LockedPlace \cup {"lock"} => t = k'.cur /\ k'.depth = 1
    BY <1>8 DEF QueueControl, Sections, Suspending
  <2>4. QED
    BY <2>1, <2>2, <2>3 DEF LocksHeldByCurrent, LockedPlace, me
<1>13. QED
  BY <1>7, <1>8, <1>9, <1>11, <1>12 DEF QueueInv

LEMMA UnlockRxKeeps ==
  ASSUME QueueInv, QueueAssumption, UnlockRx
  PROVE  QueueInv'
<1> DEFINE o == ToSend
           p == IF fate[k.cur] = "blocked" THEN "block" ELSE "unlock"
           a == IF fate[k.cur] = "expired" THEN "expired" ELSE "try"
<1>1. /\ pc[k.cur] = "unlockRx" /\ pc' = [pc EXCEPT ![k.cur] = p] /\ UnlockList(o)
      /\ lock' = [lock EXCEPT ![o] = UNLOCKED] /\ after' = [after EXCEPT ![k.cur] = a]
      /\ UNCHANGED <<arg, messages, call, left, entry, fate, hit>>
  BY DEF UnlockRx, UnlockList, At, Goto, me
<1>2. pc[k.cur] \in QueuePlace /\ k.depth = 1 /\ o \in Object
  BY <1>1, QueueFacts, TypeFacts DEF QueuePlace, Suspending, LockedPlace
<1>3. /\ p \in Place /\ p \in Suspending /\ p \notin Blind /\ p \notin LockedPlace
      /\ p \notin {"run", "abort", "aborted", "try", "expired"} /\ k.cur # Idle
  BY <1>2, CallerFacts, Places DEF Suspending, LockedPlace, Blind
<1>4. lock[ToReceive] = UNLOCKED /\ lock[ToSend] # UNLOCKED
  BY <1>1 DEF QueueInv, LocksHeldByCurrent, LockedPlace, me
<1>5. a \in {"run", "try", "expired"} /\ a # "run" /\ (a = "expired" => fate[k.cur] = "expired")
  OBVIOUS
<1> DEFINE F == IF lock[o] > 0 THEN FirstWaiters(k, o, lock[o]) ELSE {}
<1>6. /\ F \in SUBSET k.waiting[o]
      /\ Eases(k', k) /\ k' \in KType /\ k'.cur = k.cur /\ k'.depth = k.depth
      /\ k'.count = k.count /\ \A q \in Object : k'.waiting[q] = k.waiting[q] \ F
  BY <1>1, <1>2, UnlockKernel
<1>7. k.cur \in Waiters(k') => WaitsAt(p, a)
  <2>1. k.cur \in Waiters(k') => k.cur \in Waiters(k)
    BY <1>6, WaitersElements
  <2>2. QED
    BY <2>1, CurrentWaits DEF WaitsAt
<1> HIDE DEF p, a
<1>8. QueueServes'
  BY <1>1, <1>2, <1>3, <1>4, <1>6, UnlockServes
<1> HIDE DEF F
<1>9. QueueControl'
  BY <1>1, <1>2, <1>3, <1>5, <1>6, QueueFacts, MoveKeepsControl
<1>10. QueueWaits'
  BY <1>1, <1>3, <1>6, <1>7, QueueFacts, MoveKeepsWaits
<1>11. /\ pc'[k.cur] = p /\ after'[k.cur] = a
       /\ \A t \in Task \ {k.cur} : pc'[t] = pc[t] /\ after'[t] = after[t]
  BY <1>1, QueueFacts
<1>12. QueueTypes'
  <2>1. \A t \in Task : InCall(t)' <=> InCall(t)
    BY <1>2, <1>5, <1>11 DEF InCall
  <2>2. \A t \in Task : pc'[t] = "expired" \/ (pc'[t] \in Place /\ after'[t] = "expired")
                          => fate'[t] = "expired"
    BY <1>1, <1>3, <1>5, <1>11 DEF QueueInv, QueueTypes
  <2>3. lock' \in [Object -> UNLOCKED .. Cardinality(Task)]
    BY <1>1, TypeFacts DEF UNLOCKED
  <2>4. QED
    BY <1>1, <2>1, <2>2, <2>3, TypeFacts DEF QueueInv, QueueTypes
<1>13. LocksHeldByCurrent'
  <2>1. lock'[ToReceive] = UNLOCKED /\ lock'[ToSend] = UNLOCKED
    BY <1>1, <1>4, TypeFacts
  <2>2. pc'[k'.cur] \notin LockedPlace
    BY <1>3, <1>6, <1>11
  <2>3. \A t \in Task : pc'[t] \in LockedPlace \cup {"lock"} => t = k'.cur /\ k'.depth = 1
    BY <1>9 DEF QueueControl, Sections, Suspending
  <2>4. QED
    BY <2>1, <2>2, <2>3 DEF LocksHeldByCurrent, LockedPlace, me
<1>14. QED
  BY <1>8, <1>9, <1>10, <1>12, <1>13 DEF QueueInv

-----------------------------------------------------------------------------
(* A call begins, and ends.                                                *)

LEMMA CallKeeps ==
  ASSUME QueueInv, QueueAssumption, NEW c \in QueueCall, NEW n \in Tick, Call(c, n)
  PROVE  QueueInv'
<1>1. /\ pc[k.cur] = "run" /\ k.cur # Idle /\ k' = k /\ k.depth = 0
      /\ pc' = [pc EXCEPT ![k.cur] = "try"] /\ call' = [call EXCEPT ![k.cur] = c]
      /\ left' = [left EXCEPT ![k.cur] = n]
      /\ UNCHANGED <<after, arg, messages, lock, entry, fate, hit>>
  BY DEF Call, Running, At, Goto, me
<1>2. /\ k.cur \in Task /\ k.cur \notin Waiters(k) /\ after[k.cur] = "run"
      /\ after' = [after EXCEPT ![k.cur] = "run"] /\ Eases(k', k)
  BY <1>1, RunningFacts, QueueFacts, SameWaits
<1>3. /\ "try" \in QueuePlace /\ "try" \notin Place /\ "try" \notin Sections
      /\ "try" \notin Suspending /\ "try" \notin Blind /\ "try" \notin LockedPlace
      /\ "run" \notin LockedPlace
  BY Places DEF QueuePlace, Sections, Suspending, Blind, LockedPlace
<1>4. QueueControl'
  BY <1>1, <1>2, <1>3, QueueFacts, MoveKeepsControl
<1>5. /\ pc'[k.cur] = "try" /\ call'[k.cur] = c
      /\ \A t \in Task \ {k.cur} : pc'[t] = pc[t] /\ call'[t] = call[t]
  BY <1>1, <1>2, QueueFacts, TypeFacts
<1>6. QueueWaits'
  BY <1>1, <1>2, <1>5, QueueFacts, MoveKeepsWaits
<1>7. LocksHeldByCurrent'
  BY <1>1, <1>3, <1>4, MoveKeepsLocks
<1>8. QueueTypes'
  <2>1. call' \in [Task -> QueueCall \cup {"none"}] /\ left' \in [Task -> Tick]
    BY <1>1, TypeFacts
  <2>2. \A t \in Task : InCall(t)' <=> call'[t] # "none"
    BY <1>1, <1>3, <1>5 DEF InCall, QueueCall, QueueInv, QueueTypes
  <2>3. \A t \in Task : pc'[t] = "expired" \/ (pc'[t] \in Place /\ after'[t] = "expired")
                          => fate'[t] = "expired"
    BY <1>1, <1>3, <1>5 DEF QueueInv, QueueTypes
  <2>4. QED
    BY <1>1, <2>1, <2>2, <2>3, TypeFacts DEF QueueTypes
<1>9. QueueServes'
  <2>1. ~InCall(k.cur)
    BY <1>1, <1>2, Places DEF InCall
  <2>2. call[k.cur] = "none"
    BY <1>2, <2>1 DEF QueueInv, QueueTypes
  <2>3. \A o \in Object : Coming(o) \subseteq Coming(o)'
    BY <1>1, <1>5, <2>2 DEF Coming, WaitList
  <2>4. pc'[k'.cur] # "place"
    BY <1>1, <1>5
  <2>5. QED
    BY <1>1, <2>3, <2>4, SameLock, NobodyTurnsAway
<1>10. QED
  BY <1>4, <1>6, <1>7, <1>8, <1>9 DEF QueueInv

(* The call returns, and perhaps another task runs. *)
LEMMA LeaveStep ==
  ASSUME QueueInv, QueueAssumption, Leave, pc[k.cur] \in {"try", "expired"},
         UNCHANGED <<arg, lock>>, messages' \in 0 .. Length,
         NEW m, Eases(m, k), k' \in KType, k'.depth = 0, k'.count = k.count,
         k'.waiting = m.waiting, k'.ready = m.ready, k'.before = m.before,
         k'.cur = k.cur \/ k'.cur \in ReadyTasks(m)
  PROVE  /\ QueueControl' /\ QueueTypes' /\ QueueWaits' /\ LocksHeldByCurrent'
         /\ k.cur \notin Waiters(k) /\ pc'[k'.cur] # "place"
         /\ \A t \in Task \ {k.cur} : pc'[t] = pc[t] /\ call'[t] = call[t] /\ fate'[t] = fate[t]
<1>1. /\ call' = [call EXCEPT ![k.cur] = "none"] /\ left' = [left EXCEPT ![k.cur] = 0]
      /\ entry' = [entry EXCEPT ![k.cur] = NotSet] /\ fate' = [fate EXCEPT ![k.cur] = "none"]
      /\ hit' = [hit EXCEPT ![k.cur] = FALSE] /\ pc' = [pc EXCEPT ![k.cur] = "run"]
      /\ after' = [after EXCEPT ![k.cur] = "run"]
  BY DEF Leave, me
<1>2. /\ k.cur \in Task /\ k.cur # Idle /\ k.cur \notin Waiters(k) /\ k'.cur \in Task
      /\ pc[k.cur] \in QueuePlace
  BY CallerFacts, NotWaiting DEF QueuePlace, KType
<1>3. /\ "run" \in Place /\ "run" \notin QueuePlace /\ "run" \notin Sections
      /\ "run" \notin Suspending /\ "run" \notin LockedPlace /\ pc[k.cur] \notin LockedPlace
  BY Places DEF QueuePlace, Sections, Suspending, LockedPlace
<1>4. k.cur \notin Waiters(m)
  BY <1>2, WaitersElements DEF Eases
<1>5. /\ pc'[k.cur] = "run" /\ after'[k.cur] = "run" /\ call'[k.cur] = "none"
      /\ \A t \in Task \ {k.cur} :
           /\ pc'[t] = pc[t] /\ after'[t] = after[t]
           /\ call'[t] = call[t] /\ fate'[t] = fate[t]
  BY <1>1, <1>2, QueueFacts, TypeFacts
<1>6. QueueControl'
  BY <1>1, <1>2, <1>3, QueueFacts, MoveKeepsControl
<1>7. QueueWaits'
  BY <1>1, <1>2, <1>4, <1>5, MoveKeepsWaits
<1>8. LocksHeldByCurrent'
  BY <1>1, <1>3, <1>6, MoveKeepsLocks
<1>9. QueueTypes'
  <2>1. NotSet \in TimeOutType /\ 0 \in Tick
    BY Constants DEF NotSet, TimeOutType
  <2>2. /\ call' \in [Task -> QueueCall \cup {"none"}] /\ left' \in [Task -> Tick]
        /\ entry' \in [Task -> TimeOutType] /\ hit' \in [Task -> BOOLEAN]
        /\ fate' \in [Task -> {"none", "blocked", "retry", "expired"}]
    BY <1>1, <2>1, TypeFacts
  <2>3. \A t \in Task : InCall(t)' <=> call'[t] # "none"
    BY <1>3, <1>5 DEF InCall, QueueInv, QueueTypes
  <2>4. \A t \in Task : pc'[t] = "expired" \/ (pc'[t] \in Place /\ after'[t] = "expired")
                          => fate'[t] = "expired"
    BY <1>5 DEF QueueInv, QueueTypes
  <2>5. QED
    BY <2>2, <2>3, <2>4, TypeFacts DEF QueueTypes
<1>10. pc'[k'.cur] # "place"
  BY <1>2, <1>5 DEF QueueInv, QueueControl, Sections, Suspending, LockedPlace
<1>11. QED
  BY <1>2, <1>5, <1>6, <1>7, <1>8, <1>9, <1>10

(* The call ends with nothing to come for, or no longer coming. *)
LEMMA LeaveWithNothing ==
  ASSUME QueueInv, QueueAssumption, Leave, pc[k.cur] \in {"try", "expired"},
         UNCHANGED <<k, arg, lock, messages>>,
         Items(WaitList(call[k.cur])) = 0 \/ fate[k.cur] = "expired"
  PROVE  QueueInv'
<1>1. Eases(k', k) /\ k' \in KType /\ k'.depth = 0 /\ messages' \in 0 .. Length
  BY QueueFacts, TypeFacts, SameWaits DEF Suspending, LockedPlace
<1>2. /\ QueueControl' /\ QueueTypes' /\ QueueWaits' /\ LocksHeldByCurrent'
      /\ pc'[k'.cur] # "place"
      /\ \A t \in Task \ {k.cur} : pc'[t] = pc[t] /\ call'[t] = call[t] /\ fate'[t] = fate[t]
  BY <1>1, LeaveStep
<1>3. \A o \in Object : Items(o) = 0 \/ Coming(o) \subseteq Coming(o)'
  <2>1. SUFFICES ASSUME NEW o \in Object, Items(o) # 0, NEW t \in Coming(o)
                 PROVE  t \in Coming(o)'
    OBVIOUS
  <2>2. t # k.cur
    BY <2>1 DEF Coming
  <2>3. QED
    BY <1>2, <2>2 DEF Coming, WaitList
<1>4. QueueServes'
  BY <1>2, <1>3, SameLock, NobodyTurnsAway
<1>5. QED
  BY <1>2, <1>4 DEF QueueInv

LEMMA GiveUpKeeps ==
  ASSUME QueueInv, QueueAssumption, GiveUp
  PROVE  QueueInv'
<1>1. /\ pc[k.cur] = "try" /\ ~CanProceed(call[k.cur]) /\ Leave
      /\ UNCHANGED <<k, arg, messages, lock>>
  BY DEF GiveUp, At, me
<1>2. Items(WaitList(call[k.cur])) = 0
  BY <1>1, CallerFacts, CannotProceed DEF QueuePlace
<1>3. QED
  BY <1>1, <1>2, LeaveWithNothing

LEMMA ExpiredKeeps ==
  ASSUME QueueInv, QueueAssumption, Expired
  PROVE  QueueInv'
<1>1. /\ pc[k.cur] = "expired" /\ UNCHANGED <<k, arg, messages, lock>>
  BY DEF Expired, At
<1>2. pc[k.cur] \in QueuePlace /\ fate[k.cur] = "expired" /\ k.depth = 0
  BY <1>1, QueueFacts DEF QueueInv, QueueTypes, QueuePlace, Suspending, LockedPlace
<1>3. CASE Leave
  BY <1>1, <1>2, <1>3, LeaveWithNothing
<1>4. CASE pc' = [pc EXCEPT ![k.cur] = "try"] /\ UNCHANGED <<after, call, left, entry, fate, hit>>
  <2> DEFINE f == fate[k.cur]
  <2>1. /\ "try" \in QueuePlace \ {"expired"} /\ "try" \notin Suspending /\ k' \in KType
    BY <1>1, QueueFacts DEF QueuePlace, Suspending, LockedPlace
  <2>2. left' \in [Task -> Tick] /\ entry' \in [Task -> TimeOutType]
    BY <1>4, TypeFacts
  <2>3. k.cur \notin Waiters(k)
    BY <1>1, NotWaiting
  <2>4. fate' = [fate EXCEPT ![k.cur] = f] /\ f \in {"none", "blocked", "retry", "expired"}
    BY <1>4, SameFate
  <2> HIDE DEF f
  <2>5. QueueControl' /\ QueueTypes' /\ QueueWaits' /\ QueueServes'
    BY <1>1, <1>2, <1>4, <2>1, <2>2, <2>3, <2>4, SameLock, CallStep
  <2>6. LocksHeldByCurrent'
    BY <1>1, <1>4, <2>5, MoveKeepsLocks DEF LockedPlace
  <2>7. QED
    BY <2>5, <2>6 DEF QueueInv
<1>5. QED
  BY <1>3, <1>4 DEF Expired, Goto, me

-----------------------------------------------------------------------------
(* What a successful call, or an interrupt, does to the two lists.         *)

(* A yield that may be wanted changes only who runs. *)
LEMMA YieldIfWaits ==
  ASSUME NEW s \in KType, NEW w \in BOOLEAN, NEW r \in YieldIf(w, s)
  PROVE  /\ r \in KType /\ r.depth = s.depth /\ r.count = s.count
         /\ r.waiting = s.waiting /\ r.ready = s.ready /\ r.before = s.before
         /\ r.cur = s.cur \/ (s.depth = 0 /\ r.cur \in ReadyTasks(s))
<1>1. /\ r \in KType /\ r = [s EXCEPT !.yieldPending = r.yieldPending, !.cur = r.cur]
      /\ s.depth # 0 => r.cur = s.cur
  BY YieldIfControl
<1>2. /\ r.depth = s.depth /\ r.count = s.count
      /\ r.waiting = s.waiting /\ r.ready = s.ready /\ r.before = s.before
  BY <1>1 DEF KType
<1>3. r.cur = s.cur \/ (s.depth = 0 /\ r.cur \in ReadyTasks(s))
  <2>1. CASE s.depth # 0
    BY <1>1, <2>1
  <2>2. CASE s.depth = 0
    BY <2>2, SwitchContextWaits DEF YieldIf
  <2>3. QED
    BY <2>1, <2>2
<1>4. QED
  BY <1>1, <1>2, <1>3

(* The first waiter, if there is one, is taken off the list. *)
LEMMA WakeOneFacts ==
  ASSUME QueueInv, NEW o \in Object, k' \in WakeOne(o)
  PROVE  LET F == FirstWaiters(k, o, 1)
             m == RemoveFromEventList(k, F)
         IN  /\ F \in SUBSET k.waiting[o] /\ (k.waiting[o] # {} => Cardinality(F) = 1)
             /\ Eases(m, k) /\ k' \in KType /\ k'.depth = k.depth /\ k'.count = k.count
             /\ k'.waiting = m.waiting /\ k'.ready = m.ready /\ k'.before = m.before
             /\ k'.cur = k.cur \/ (k.depth = 0 /\ k'.cur \in ReadyTasks(m))
             /\ \A q \in Object : k'.waiting[q] = k.waiting[q] \ F
<1> DEFINE F == FirstWaiters(k, o, 1)
           m == RemoveFromEventList(k, F)
           w == Preempts(k, F)
<1>1. F \in SUBSET k.waiting[o]
  BY DEF FirstWaiters
<1>2. k.waiting[o] # {} => Cardinality(F) = 1
  <2>1. EventListsOrdered(k) /\ k \in KType
    BY QueueFacts DEF QueueInv, QueueWaits
  <2>2. k.waiting[o] # {} => \E t \in k.waiting[o] : F = {t}
    BY <2>1, OneFirstWaiter
  <2> HIDE DEF F
  <2>3. QED
    BY <2>2, FS_Singleton
<1>3. k' \in YieldIf(w, m) /\ w \in BOOLEAN
  BY DEF WakeOne, Preempts
<1> HIDE DEF F
<1>4. /\ Eases(m, k) /\ m \in KType /\ m.cur = k.cur /\ m.depth = k.depth
      /\ m.count = k.count /\ \A q \in Object : m.waiting[q] = k.waiting[q] \ F
  BY <1>1, RemoveFacts
<1> HIDE DEF m, w
<1>5. /\ k' \in KType /\ k'.depth = m.depth /\ k'.count = m.count
      /\ k'.waiting = m.waiting /\ k'.ready = m.ready /\ k'.before = m.before
      /\ k'.cur = m.cur \/ (m.depth = 0 /\ k'.cur \in ReadyTasks(m))
  BY <1>3, <1>4, YieldIfWaits
<1>6. QED
  BY <1>1, <1>2, <1>4, <1>5 DEF F, m

(* The coming tasks, when those of F are woken and perhaps t no longer     *)
(* comes.                                                                  *)
LEMMA ComingBalance ==
  ASSUME NEW C \in SUBSET Task, NEW D \in SUBSET Task, NEW F \in SUBSET Task,
         C \cap F = {}, NEW t, (C \cup F) \ {t} \subseteq D
  PROVE  /\ Cardinality(C) + Cardinality(F) <= Cardinality(D) + 1
         /\ t \in D \/ t \notin C \cup F => Cardinality(C) + Cardinality(F) <= Cardinality(D)
         /\ Cardinality(C) \in Nat /\ Cardinality(D) \in Nat /\ Cardinality(F) \in Nat
<1>1. C \cup F \in SUBSET Task
  OBVIOUS
<1>2. /\ Cardinality(C) \in Nat /\ Cardinality(D) \in Nat /\ Cardinality(F) \in Nat
      /\ Cardinality(C \cup F) \in Nat
  BY <1>1, SubsetCounts
<1>3. Cardinality(C) + Cardinality(F) <= Cardinality(C \cup F)
  BY <1>1, GainCounts
<1>4. Cardinality(C \cup F) <= Cardinality(D) + 1
  BY <1>1, LossCounts
<1>5. ASSUME t \in D \/ t \notin C \cup F
      PROVE  Cardinality(C) + Cardinality(F) <= Cardinality(D)
  BY <1>5, GainCounts
<1>6. QED
  BY <1>2, <1>3, <1>4, <1>5

(* The list on which a waiter is woken for each item that comes. *)
LEMMA WokenServes ==
  ASSUME QueueInv, QueueAssumption, NEW o \in Object, lock[o] = UNLOCKED, lock' = lock,
         NEW F \in SUBSET Task, k.waiting[o] # {}, Cardinality(F) = 1,
         Coming(o) \cap F = {}, NEW t, (Coming(o) \cup F) \ {t} \subseteq Coming(o)',
         Items(o)' \in Nat,
         \/ Items(o)' <= Items(o)
         \/ Items(o)' = Items(o) + 1 /\ t \notin Coming(o) \cup F
  PROVE  Served(o)'
<1>1. /\ Cardinality(Task) \in Nat /\ ~(lock[o] >= Cardinality(Task))
      /\ Counted(o) = 0 /\ Counted(o)' = 0
  BY TypeFacts DEF Counted, UNLOCKED
<1>2. Items(o) <= Cardinality(Coming(o)) + Counted(o) /\ Items(o) \in Nat
  BY <1>1, ItemsType DEF QueueInv, QueueServes, Served
<1>3. Coming(o) \in SUBSET Task /\ Coming(o)' \in SUBSET Task
  BY DEF Coming
<1>4. /\ Cardinality(Coming(o)) + 1 <= Cardinality(Coming(o)') + 1
      /\ t \notin Coming(o) \cup F => Cardinality(Coming(o)) + 1 <= Cardinality(Coming(o)')
      /\ Cardinality(Coming(o)) \in Nat /\ Cardinality(Coming(o)') \in Nat
  <2> DEFINE C == Coming(o)
             D == Coming(o)'
  <2>1. C \in SUBSET Task /\ D \in SUBSET Task /\ C \cap F = {} /\ (C \cup F) \ {t} \subseteq D
    BY <1>3
  <2> HIDE DEF C, D
  <2>2. /\ Cardinality(C) + Cardinality(F) <= Cardinality(D) + 1
        /\ t \in D \/ t \notin C \cup F => Cardinality(C) + Cardinality(F) <= Cardinality(D)
        /\ Cardinality(C) \in Nat /\ Cardinality(D) \in Nat /\ Cardinality(F) \in Nat
    BY <2>1, ComingBalance
  <2>3. QED
    BY <2>2 DEF C, D
<1>5. Items(o)' <= Cardinality(Coming(o)') + Counted(o)'
  BY <1>1, <1>2, <1>4
<1>6. QED
  BY <1>5 DEF Served

(* The list whose item is taken by a task that came for it. *)
LEMMA TakenServes ==
  ASSUME QueueInv, QueueAssumption, NEW o \in Object, lock[o] = UNLOCKED, lock' = lock,
         k.waiting[o] # {}, NEW t, Coming(o) \ {t} \subseteq Coming(o)',
         Items(o)' \in Nat, Items(o)' + 1 = Items(o)
  PROVE  Served(o)'
<1>1. /\ Cardinality(Task) \in Nat /\ ~(lock[o] >= Cardinality(Task))
      /\ Counted(o) = 0 /\ Counted(o)' = 0
  BY TypeFacts DEF Counted, UNLOCKED
<1>2. Items(o) <= Cardinality(Coming(o)) + Counted(o) /\ Items(o) \in Nat
  BY <1>1, ItemsType DEF QueueInv, QueueServes, Served
<1>3. Coming(o) \in SUBSET Task /\ Coming(o)' \in SUBSET Task
  BY DEF Coming
<1>4. /\ Cardinality(Coming(o)) <= Cardinality(Coming(o)') + 1
      /\ Cardinality(Coming(o)) \in Nat /\ Cardinality(Coming(o)') \in Nat
  BY <1>3, LossCounts, SubsetCounts
<1>5. Items(o)' <= Cardinality(Coming(o)') + Counted(o)'
  BY <1>1, <1>2, <1>4
<1>6. QED
  BY <1>5 DEF Served

(* What a call that can proceed does to the items of the two lists *)
LEMMA ItemsAfter ==
  ASSUME QueueInv, QueueAssumption, NEW c \in QueueCall, CanProceed(c),
         messages' = MessagesAfter(c)
  PROVE  /\ messages' \in 0 .. Length /\ WakeList(c) \in Object
         /\ \A q \in Object : Items(q)' \in Nat
         /\ c = "peek" => WaitList(c) = WakeList(c) /\ \A q \in Object : Items(q)' = Items(q)
         /\ c # "peek" => WaitList(c) # WakeList(c)
         /\ c # "peek" => \A q \in Object :
              IF q = WakeList(c) THEN Items(q)' = Items(q) + 1 ELSE Items(q)' + 1 = Items(q)
<1>1. /\ messages \in 0 .. Length /\ Length \in Nat \ {0} /\ ToSend # ToReceive
      /\ ToSend \in Object /\ ToReceive \in Object /\ Object = {ToSend, ToReceive}
  BY TypeFacts
<1>2. CASE c = "send"
  <2>1. messages' = messages + 1 /\ messages < Length
    BY <1>2 DEF MessagesAfter, CanProceed
  <2>2. WakeList(c) = ToReceive /\ WaitList(c) = ToSend
    BY <1>2 DEF WakeList, WaitList
  <2>3. QED
    BY <1>1, <1>2, <2>1, <2>2 DEF Items
<1>3. CASE c = "receive"
  <2>1. messages' = messages - 1 /\ messages > 0
    BY <1>3 DEF MessagesAfter, CanProceed
  <2>2. WakeList(c) = ToSend /\ WaitList(c) = ToReceive
    BY <1>3 DEF WakeList, WaitList
  <2>3. QED
    BY <1>1, <1>3, <2>1, <2>2 DEF Items
<1>4. CASE c = "peek"
  <2>1. messages' = messages
    BY <1>4 DEF MessagesAfter
  <2>2. WakeList(c) = ToReceive /\ WaitList(c) = ToReceive
    BY <1>4 DEF WakeList, WaitList
  <2>3. QED
    BY <1>1, <1>4, <2>1, <2>2 DEF Items
<1>5. QED
  BY <1>2, <1>3, <1>4 DEF QueueCall

LEMMA SucceedKeeps ==
  ASSUME QueueInv, QueueAssumption, Succeed
  PROVE  QueueInv'
<1> DEFINE c == call[k.cur]
           w == WakeList(c)
           F == FirstWaiters(k, w, 1)
           m == RemoveFromEventList(k, F)
<1>1. /\ pc[k.cur] = "try" /\ CanProceed(c) /\ messages' = MessagesAfter(c)
      /\ k' \in WakeOne(w) /\ Leave /\ UNCHANGED <<arg, lock>>
  BY DEF Succeed, At, me
<1>2. /\ pc[k.cur] \in QueuePlace /\ k.depth = 0
      /\ lock[ToReceive] = UNLOCKED /\ lock[ToSend] = UNLOCKED
  BY <1>1, QueueFacts
     DEF QueuePlace, Suspending, LockedPlace, QueueInv, LocksHeldByCurrent, me
<1>3. k.cur \in Task /\ c \in QueueCall
  BY <1>2, CallerFacts
<1>4. \A q \in Object : lock[q] = UNLOCKED
  BY <1>2, TypeFacts
<1> HIDE DEF c
<1>5. /\ messages' \in 0 .. Length /\ w \in Object
      /\ \A q \in Object : Items(q)' \in Nat
      /\ c = "peek" => WaitList(c) = w /\ \A q \in Object : Items(q)' = Items(q)
      /\ c # "peek" => WaitList(c) # w
      /\ c # "peek" => \A q \in Object :
           IF q = w THEN Items(q)' = Items(q) + 1 ELSE Items(q)' + 1 = Items(q)
  BY <1>1, <1>3, ItemsAfter
<1> HIDE DEF w
<1>6. /\ F \in SUBSET k.waiting[w] /\ (k.waiting[w] # {} => Cardinality(F) = 1)
      /\ Eases(m, k) /\ k' \in KType /\ k'.depth = k.depth /\ k'.count = k.count
      /\ k'.waiting = m.waiting /\ k'.ready = m.ready /\ k'.before = m.before
      /\ k'.cur = k.cur \/ (k.depth = 0 /\ k'.cur \in ReadyTasks(m))
      /\ \A q \in Object : k'.waiting[q] = k.waiting[q] \ F
  BY <1>1, <1>5, WakeOneFacts
<1> HIDE DEF F, m
<1>7. /\ QueueControl' /\ QueueTypes' /\ QueueWaits' /\ LocksHeldByCurrent'
      /\ k.cur \notin Waiters(k) /\ pc'[k'.cur] # "place"
      /\ \A t \in Task \ {k.cur} : pc'[t] = pc[t] /\ call'[t] = call[t] /\ fate'[t] = fate[t]
  BY <1>1, <1>2, <1>5, <1>6, LeaveStep
<1>8. k.cur \notin F /\ F \in SUBSET Task
  BY <1>5, <1>6, <1>7, QueueFacts, WaitersElements
<1>9. \A t \in Task \ {k.cur} : \A q \in Object :
        /\ q = w /\ t \in F => t \in Coming(q)' /\ t \notin Coming(q)
        /\ t \in Coming(q) => t \in Coming(q)'
  <2>1. SUFFICES ASSUME NEW t \in Task \ {k.cur}, NEW o \in Object, o = w
                 PROVE  /\ t \in F => t \in Coming(o)' /\ t \notin Coming(o)
                        /\ \A q \in Object : t \in Coming(q) => t \in Coming(q)'
    BY <1>5
  <2>2. F \in SUBSET k.waiting[o] /\ t \in Task
    BY <1>6, <2>1
  <2>3. \A q \in Object : k'.waiting[q] = k.waiting[q] \ F
    BY <1>6
  <2>4. call'[t] = call[t] /\ fate'[t] = fate[t] /\ pc'[t] = pc[t]
    BY <1>7
  <2>5. QED
    BY <2>2, <2>3, <2>4, WokenComes
<1>10. ASSUME NEW q \in Object, k'.waiting[q] # {}
       PROVE  Served(q)'
  <2>1. k.waiting[q] # {} /\ lock[q] = UNLOCKED /\ lock' = lock
    BY <1>1, <1>4, <1>6, <1>10
  <2>2. Coming(q) \in SUBSET Task /\ Coming(q) \ {k.cur} \subseteq Coming(q)'
    BY <1>9 DEF Coming
  <2>3. WaitList(c) # q => k.cur \notin Coming(q)
    BY DEF Coming, c
  <2>4. CASE q = w
    <3>1. Coming(q) \cap F = {} /\ (Coming(q) \cup F) \ {k.cur} \subseteq Coming(q)'
      BY <1>8, <1>9, <2>2, <2>4
    <3>2. \/ Items(q)' <= Items(q)
          \/ Items(q)' = Items(q) + 1 /\ k.cur \notin Coming(q) \cup F
      BY <1>5, <1>8, <2>3, <2>4, ItemsType
    <3>3. Cardinality(F) = 1
      BY <1>6, <2>1, <2>4
    <3>4. QED
      BY <1>5, <1>8, <2>1, <3>1, <3>2, <3>3, WokenServes
  <2>5. CASE q # w /\ c # "peek"
    BY <1>5, <2>1, <2>2, <2>5, TakenServes
  <2>6. CASE q # w /\ c = "peek"
    <3>1. Coming(q) \subseteq Coming(q)'
      BY <1>5, <2>2, <2>3, <2>6
    <3>2. Served(q) /\ Items(q)' <= Items(q) /\ Items(q) \in Nat /\ lock'[q] = lock[q]
      BY <1>5, <2>1, <2>6, ItemsType DEF QueueInv, QueueServes
    <3>3. QED
      BY <1>5, <3>1, <3>2, StillServed
  <2>7. QED
    BY <2>4, <2>5, <2>6
<1>11. QueueServes'
  BY <1>7, <1>10 DEF QueueServes
<1>12. QED
  BY <1>7, <1>11 DEF QueueInv

-----------------------------------------------------------------------------
(* A call from an interrupt.                                               *)

LEMMA FromISRFacts ==
  ASSUME QueueInv, QueueAssumption, NEW c \in {"send", "receive"}, FromISR(c)
  PROVE  /\ pc[k.cur] \notin {"catchup", "catchup_block"}
         /\ UNCHANGED <<pc, after, arg, call, left, entry, fate, hit>>
         /\ messages' \in 0 .. Length /\ WakeList(c) \in Object
         /\ \A q \in Object : Items(q)' \in Nat
         /\ \A q \in Object :
              IF q = WakeList(c) THEN Items(q)' = Items(q) + 1 ELSE Items(q)' + 1 = Items(q)
<1>1. /\ CanProceed(c) /\ messages' = MessagesAfter(c) /\ c \in QueueCall /\ c # "peek"
      /\ pc[k.cur] \notin {"catchup", "catchup_block"}
      /\ UNCHANGED <<pc, after, arg, call, left, entry, fate, hit>>
  BY DEF FromISR, Masked, QueueCall
<1>2. QED
  BY <1>1, ItemsAfter

(* Nobody moves and nobody's call changes. *)
LEMMA InterruptTypes ==
  ASSUME QueueInv, messages' \in 0 .. Length,
         lock' \in [Object -> UNLOCKED .. Cardinality(Task)],
         UNCHANGED <<pc, after, arg, call, left, entry, fate, hit>>
  PROVE  QueueTypes'
BY DEF QueueInv, QueueTypes, InCall

LEMMA FromISRWakes ==
  ASSUME QueueInv, QueueAssumption, NEW c \in {"send", "receive"}, FromISR(c),
         lock[WakeList(c)] = UNLOCKED
  PROVE  QueueInv'
<1> DEFINE w == WakeList(c)
           F == FirstWaiters(k, w, 1)
           m == RemoveFromEventList(k, F)
           p == pc[k.cur]
           a == after[k.cur]
<1>1. k' \in WakeOne(w) /\ lock' = lock
  BY DEF FromISR
<1>2. /\ p \notin {"catchup", "catchup_block"}
      /\ UNCHANGED <<pc, after, arg, call, left, entry, fate, hit>>
      /\ messages' \in 0 .. Length /\ w \in Object
      /\ \A q \in Object : Items(q)' \in Nat
      /\ \A q \in Object :
           IF q = w THEN Items(q)' = Items(q) + 1 ELSE Items(q)' + 1 = Items(q)
  BY FromISRFacts
<1>3. /\ F \in SUBSET k.waiting[w] /\ (k.waiting[w] # {} => Cardinality(F) = 1)
      /\ Eases(m, k) /\ k' \in KType /\ k'.depth = k.depth /\ k'.count = k.count
      /\ k'.waiting = m.waiting /\ k'.ready = m.ready /\ k'.before = m.before
      /\ k'.cur = k.cur \/ (k.depth = 0 /\ k'.cur \in ReadyTasks(m))
      /\ \A q \in Object : k'.waiting[q] = k.waiting[q] \ F
  BY <1>1, <1>2, WakeOneFacts
<1>4. lock[w] = UNLOCKED
  OBVIOUS
<1> HIDE DEF w, F, m
<1>5. p \in Sections => k'.cur = k.cur
  BY <1>2, <1>3, QueueFacts DEF Sections
<1>6. QueueControl'
  BY <1>2, <1>3, <1>5, StayKeepsControl
<1>7. /\ pc' = [pc EXCEPT ![k.cur] = p] /\ after' = [after EXCEPT ![k.cur] = a]
      /\ k'.cur \in Task
  BY <1>2, <1>3, QueueFacts DEF KType
<1>8. \A t : t \in Waiters(m) => t \in Waiters(k)
  BY <1>3, WaitersElements DEF Eases
<1>9. /\ k.cur \in Waiters(m) => WaitsAt(p, a)
      /\ p = "try" => k.cur \notin Waiters(m)
      /\ p = "aborted" => k'.cur = k.cur /\ arg'[k.cur] \notin Waiters(m)
  BY <1>2, <1>5, <1>8, CurrentWaits DEF QueueInv, QueueWaits, Sections, Suspending
<1>10. p \in LockedPlace => p \in Sections
  BY DEF Sections, Suspending
<1> HIDE DEF p, a
<1>11. QueueWaits'
  BY <1>2, <1>3, <1>7, <1>9, MoveKeepsWaits
<1>12. LocksHeldByCurrent'
  BY <1>1, <1>5, <1>6, <1>7, <1>10, MoveKeepsLocks DEF p
<1>13. QueueTypes'
  BY <1>1, <1>2, TypeFacts, InterruptTypes
<1>14. pc'[k'.cur] # "place"
  <2>1. pc[k.cur] # "place"
    BY <1>2, <1>4, TypeFacts DEF QueueInv, LocksHeldByCurrent, LockedPlace, me
  <2>2. QED
    BY <1>2, <1>7, <2>1 DEF QueueInv, QueueControl, Sections, Suspending, LockedPlace
<1>15. \A t \in Task : \A q \in Object :
         /\ q = w /\ t \in F => t \in Coming(q)' /\ t \notin Coming(q)
         /\ t \in Coming(q) => t \in Coming(q)'
  BY <1>2, <1>3, WokenComes
<1>16. ASSUME NEW q \in Object, k'.waiting[q] # {}
       PROVE  Served(q)'
  <2>1. k.waiting[q] # {} /\ F \in SUBSET Task
    BY <1>2, <1>3, <1>16, QueueFacts
  <2>2. Coming(q) \in SUBSET Task /\ Coming(q) \subseteq Coming(q)'
    BY <1>15 DEF Coming
  <2>3. CASE q = w
    <3>1. PICK t : t \notin Task
      BY NoSetContainsEverything
    <3>2. Coming(q) \cap F = {} /\ (Coming(q) \cup F) \ {t} \subseteq Coming(q)'
      BY <1>15, <2>1, <2>2, <2>3
    <3>3. Items(q)' = Items(q) + 1 /\ t \notin Coming(q) \cup F /\ Cardinality(F) = 1
      BY <1>2, <1>3, <2>1, <2>2, <2>3, <3>1
    <3>4. QED
      BY <1>1, <1>2, <1>4, <2>1, <2>3, <3>2, <3>3, WokenServes
  <2>4. CASE q # w
    <3>1. Served(q) /\ Items(q)' + 1 = Items(q) /\ Items(q) \in Nat /\ Items(q)' \in Nat
      BY <1>2, <2>1, <2>4, ItemsType DEF QueueInv, QueueServes
    <3>2. Items(q)' <= Items(q)
      BY <3>1
    <3>3. QED
      BY <1>1, <2>2, <3>1, <3>2, StillServed
  <2>5. QED
    BY <2>3, <2>4
<1>17. QueueServes'
  BY <1>14, <1>16 DEF QueueServes
<1>18. QED
  BY <1>6, <1>11, <1>12, <1>13, <1>17 DEF QueueInv

LEMMA FromISRCounts ==
  ASSUME QueueInv, QueueAssumption, NEW c \in {"send", "receive"}, FromISR(c),
         lock[WakeList(c)] # UNLOCKED
  PROVE  QueueInv'
<1> DEFINE w == WakeList(c)
           n == IF lock[w] < k.count THEN lock[w] + 1 ELSE lock[w]
           p == pc[k.cur]
           a == after[k.cur]
<1>1. k' = k /\ lock' = [lock EXCEPT ![w] = n]
  BY DEF FromISR
<1>2. /\ UNCHANGED <<pc, after, arg, call, left, entry, fate, hit>>
      /\ messages' \in 0 .. Length /\ w \in Object
      /\ \A q \in Object : Items(q)' \in Nat
      /\ \A q \in Object :
           IF q = w THEN Items(q)' = Items(q) + 1 ELSE Items(q)' + 1 = Items(q)
  BY FromISRFacts
<1>3. lock[w] # UNLOCKED
  OBVIOUS
<1> HIDE DEF w
<1>4. /\ lock[w] \in Nat /\ lock[w] <= Cardinality(Task) /\ Cardinality(Task) \in Nat
      /\ k.count = Cardinality(Task)
  BY <1>2, <1>3, TypeFacts, QueueFacts DEF UNLOCKED
<1>5. n \in 0 .. Cardinality(Task) /\ (n = lock[w] + 1 \/ (n = lock[w] /\ n >= Cardinality(Task)))
  BY <1>4
<1> HIDE DEF n
<1>6. /\ lock' \in [Object -> UNLOCKED .. Cardinality(Task)]
      /\ \A q \in Object : lock'[q] = IF q = w THEN n ELSE lock[q]
  <2>1. n \in UNLOCKED .. Cardinality(Task)
    BY <1>4, <1>5 DEF UNLOCKED
  <2>2. QED
    BY <1>1, <2>1, TypeFacts
<1>7. QueueControl' /\ Eases(k', k)
  BY <1>1, <1>2, QueueFacts, SameWaits, StayKeepsControl
<1>8. QueueWaits'
  <2>1. /\ pc' = [pc EXCEPT ![k.cur] = p] /\ after' = [after EXCEPT ![k.cur] = a]
        /\ k'.cur \in Task
    BY <1>1, <1>2, QueueFacts
  <2>2. /\ k.cur \in Waiters(k) => WaitsAt(p, a)
        /\ p = "try" => k.cur \notin Waiters(k)
        /\ p = "aborted" => arg'[k.cur] \notin Waiters(k)
    BY <1>2, CurrentWaits DEF QueueInv, QueueWaits
  <2> HIDE DEF p, a
  <2>3. QED
    BY <1>1, <1>2, <1>7, <2>1, <2>2, MoveKeepsWaits
<1>9. QueueTypes'
  BY <1>2, <1>6, InterruptTypes
<1>10. LocksHeldByCurrent'
  <2>1. \A q \in Object : lock'[q] = UNLOCKED <=> lock[q] = UNLOCKED
    BY <1>3, <1>5, <1>6 DEF UNLOCKED
  <2>2. QED
    BY <1>1, <1>2, <2>1, TypeFacts DEF QueueInv, LocksHeldByCurrent, me
<1>11. ASSUME NEW q \in Object, NEW i \in Nat,
              Items(q) <= i + Counted(q) \/ lock[q] >= Cardinality(Task)
       PROVE  Items(q)' <= i + Counted(q)' \/ lock'[q] >= Cardinality(Task)
  <2>1. CASE q = w
    <3>1. Items(q)' = Items(q) + 1 /\ lock'[q] = n /\ Items(q) \in Nat
      BY <1>2, <1>6, <2>1, ItemsType
    <3>2. Counted(q) = lock[q] /\ Counted(q)' = n
      BY <1>4, <1>5, <2>1, <3>1 DEF Counted
    <3>3. QED
      BY <1>4, <1>5, <1>11, <2>1, <3>1, <3>2
  <2>2. CASE q # w
    <3>1. Items(q)' + 1 = Items(q) /\ Items(q) \in Nat /\ Items(q)' \in Nat
      BY <1>2, <2>2, ItemsType
    <3>2. lock'[q] = lock[q] /\ Counted(q)' = Counted(q)
      BY <1>6, <2>2 DEF Counted
    <3>3. Counted(q) \in Nat
      BY TypeFacts DEF Counted
    <3>4. QED
      BY <1>11, <3>1, <3>2, <3>3
  <2>3. QED
    BY <2>1, <2>2
<1>12. ASSUME NEW q \in Object, k'.waiting[q] # {}
       PROVE  Served(q)'
  <2>1. Served(q) /\ Coming(q)' = Coming(q)
    BY <1>1, <1>2, <1>12 DEF QueueInv, QueueServes, Coming, WaitList
  <2>2. Coming(q) \in SUBSET Task
    BY DEF Coming
  <2>3. Cardinality(Coming(q)) \in Nat
    BY <2>2, SubsetCounts
  <2>4. QED
    BY <1>11, <2>1, <2>3 DEF Served
<1>13. ASSUME pc'[k'.cur] = "place"
       PROVE  PlaceServed'
  <2> DEFINE o == WaitList(call[k.cur])
  <2>1. pc[k.cur] = "place" /\ pc[k.cur] \in QueuePlace
    BY <1>1, <1>2, <1>13 DEF QueuePlace
  <2>2. o \in Object
    BY <2>1, CallerFacts
  <2>3. WaitList(call'[k'.cur]) = o
    BY <1>1, <1>2
  <2>4. /\ Items(o) <= Counted(o) \/ lock[o] >= Cardinality(Task)
        /\ Counted(o) \in Nat
    BY <2>1, <2>2, TypeFacts DEF QueueInv, QueueServes, PlaceServed, Counted
  <2>5. \A q \in Object : q = o => Items(q)' <= Counted(q)' \/ lock'[q] >= Cardinality(Task)
    <3>1. SUFFICES ASSUME NEW q \in Object, q = o
                   PROVE  Items(q)' <= Counted(q)' \/ lock'[q] >= Cardinality(Task)
      OBVIOUS
    <3>2. Counted(q)' \in Nat
      BY <1>6, <1>4 DEF Counted
    <3>3. Items(q) <= 0 + Counted(q) \/ lock[q] >= Cardinality(Task)
      BY <2>4, <3>1
    <3>4. Items(q)' <= 0 + Counted(q)' \/ lock'[q] >= Cardinality(Task)
      BY <1>11, <3>3
    <3>5. QED
      BY <3>2, <3>4
  <2> HIDE DEF o
  <2>6. QED
    BY <2>2, <2>3, <2>5 DEF PlaceServed, Items, Counted
<1>14. QueueServes'
  BY <1>12, <1>13 DEF QueueServes
<1>15. QED
  BY <1>7, <1>8, <1>9, <1>10, <1>14 DEF QueueInv

LEMMA FromISRKeeps ==
  ASSUME QueueInv, QueueAssumption, NEW c \in {"send", "receive"}, FromISR(c)
  PROVE  QueueInv'
BY FromISRWakes, FromISRCounts

-----------------------------------------------------------------------------
(* The whole specification.                                                *)

LEMMA AbortKeeps ==
  ASSUME QueueInv, QueueAssumption, Abort
  PROVE  QueueInv'
<1>1. ASSUME NEW t \in Abortable, AbortDelay(t), UNCHANGED queueVars
      PROVE  QueueInv'
  BY <1>1, AbortDelayKeeps DEF QueueAssumption
<1>2. ASSUME AbortBlocked, hit' = [hit EXCEPT ![arg[me]] = call[arg[me]] # "none"],
             UNCHANGED <<messages, lock, call, left, entry, fate>>
      PROVE  QueueInv'
  <2>1. hit' \in [Task -> BOOLEAN]
    BY <1>2, TypeFacts
  <2>2. QED
    BY <1>2, <2>1, AbortBlockedKeeps
<1>3. QED
  BY <1>1, <1>2, AbortReadyKeeps DEF Abort

LEMMA InitQueue ==
  ASSUME QueueAssumption, QueueInit
  PROVE  QueueInv
<1>1. /\ k \in InitialKernel
      /\ pc = [t \in Task |-> IF t \in Boot THEN "run" ELSE "gone"]
      /\ after = [t \in Task |-> "run"] /\ arg = [t \in Task |-> t]
      /\ messages = 0 /\ lock = [o \in Object |-> UNLOCKED]
      /\ call = [t \in Task |-> "none"] /\ left = [t \in Task |-> 0]
      /\ entry = [t \in Task |-> NotSet] /\ fate = [t \in Task |-> "none"]
      /\ hit = [t \in Task |-> FALSE]
  BY DEF QueueInit, DispatchInit
<1>2. /\ k \in KType /\ k.depth = 0 /\ k.count = Cardinality(Task) /\ k.before = {}
      /\ \A o \in Object : k.waiting[o] = {}
  BY <1>1, InitialKernelFacts DEF QueueAssumption
<1>3. k.cur \in Task /\ Waiters(k) = {}
  BY <1>2, WaitersElements DEF KType
<1>4. \A t \in Task : pc[t] = "run" /\ after[t] = "run"
  BY <1>1 DEF QueueAssumption
<1>5. QueueControl
  <2>1. \A t \in Task : pc[t] \notin Sections /\ pc[t] \notin Suspending
    BY <1>4 DEF Sections, Suspending, LockedPlace
  <2>2. pc \in [Task -> Place \cup QueuePlace] /\ pc[Idle] = "run"
    BY <1>1, <1>4, KernelAssumption DEF Place, BasePlace
  <2>3. QED
    BY <1>1, <1>2, <1>3, <2>1, <2>2 DEF QueueControl
<1>6. QueueTypes
  <2>1. 0 \in Tick /\ NotSet \in TimeOutType
    BY Constants DEF NotSet, TimeOutType
  <2>2. 0 \in 0 .. Length /\ UNLOCKED \in UNLOCKED .. Cardinality(Task)
    BY KernelAssumption, FS_CardinalityType DEF QueueAssumption, UNLOCKED
  <2>3. \A t \in Task : ~InCall(t)
    BY <1>4 DEF InCall, QueuePlace
  <2>4. QED
    BY <1>1, <1>4, <2>1, <2>2, <2>3 DEF QueueTypes
<1>7. LocksHeldByCurrent
  BY <1>1, <1>3, <1>4 DEF LocksHeldByCurrent, LockedPlace, QueueAssumption, me
<1>8. QueueWaits
  <2>1. WaitersBlocked(k) /\ EventListsOrdered(k)
    BY <1>2, <1>3 DEF WaitersBlocked, EventListsOrdered
  <2>2. QED
    BY <1>2, <1>3, <1>4, <2>1 DEF QueueWaits
<1>9. QueueServes
  BY <1>2, <1>3, <1>4 DEF QueueServes
<1>10. QED
  BY <1>5, <1>6, <1>7, <1>8, <1>9 DEF QueueInv

LEMMA StepKeepsQueue ==
  ASSUME QueueAssumption, QueueInv, [QueueNext]_vars
  PROVE  QueueInv'
<1>1. CASE QueueStep
  BY <1>1, SucceedKeeps, GiveUpKeeps, EnterKeeps, LockSchedulerKeeps, LockQueueKeeps,
     CheckForTimeOutKeeps, TestAgainKeeps, JoinWaitersKeeps, UnlockTxKeeps, UnlockRxKeeps,
     ExpiredKeeps, UnlockSchedulerKeeps, CatchUpKeeps, UnlockedKeeps, YieldKeeps
     DEF QueueStep
<1>2. ASSUME NEW c \in Role[me], NEW n \in Delays \cup {0}, Call(c, n)
      PROVE  QueueInv'
  <2>1. c \in QueueCall
    BY <1>2, QueueFacts DEF QueueAssumption, me
  <2>2. n \in Tick
    BY SchedulerAssumption, Constants DEF Tick
  <2>3. QED
    BY <1>2, <2>1, <2>2, CallKeeps
<1>3. CASE SendFromISR \/ ReceiveFromISR
  BY <1>3, FromISRKeeps DEF SendFromISR, ReceiveFromISR
<1>4. CASE (TickInterrupt \/ IdleYield) /\ UNCHANGED queueVars
  BY <1>4, TickInterruptKeeps, IdleYieldKeeps
<1>5. CASE UNCHANGED vars
  <2>1. UNCHANGED <<k, pc, after, arg, messages, lock, call, left, entry, fate, hit>>
    BY <1>5 DEF vars, kernelVars, queueVars
  <2>2. QueueControl' /\ QueueTypes'
    BY <2>1 DEF QueueInv, QueueControl, QueueTypes, InCall
  <2>3. QueueWaits' /\ LocksHeldByCurrent'
    BY <2>1 DEF QueueInv, QueueWaits, LocksHeldByCurrent, WaitList, me
  <2>4. \A o \in Object : Served(o)' = Served(o)
    BY <2>1 DEF Served, Coming, WaitList, Items, Counted
  <2>5. PlaceServed' = PlaceServed
    BY <2>1 DEF PlaceServed, WaitList, Items, Counted
  <2>6. QueueServes'
    BY <2>1, <2>4, <2>5 DEF QueueInv, QueueServes
  <2>7. QED
    BY <2>2, <2>3, <2>6 DEF QueueInv
<1>6. QED
  BY <1>1, <1>2, <1>3, <1>4, <1>5, AbortKeeps DEF QueueNext

-----------------------------------------------------------------------------
(* The theorems.                                                           *)

(* The invariant of the queue, of the tasks on its two lists and of the    *)
(* places the calls of xQueueGenericSend, xQueueReceive and xQueuePeek     *)
(* have reached holds in every reachable state.                            *)
THEOREM QueueInvariant ==
  ASSUME QueueAssumption
  PROVE  QueueSpec => []QueueInv
<1>1. QueueInit => QueueInv
  BY InitQueue
<1>2. QueueInv /\ [QueueNext]_vars => QueueInv'
  BY StepKeepsQueue
<1>3. QED
  BY <1>1, <1>2, PTL DEF QueueSpec

(* The messages stay within uxLength, each lock within what it may count,  *)
(* and every call within its steps.                                        *)
THEOREM QueueTyped ==
  ASSUME QueueAssumption
  PROVE  QueueSpec => []QueueTypeOK
<1>1. QueueInv => QueueTypeOK
  BY DEF QueueInv, QueueControl, QueueTypes, QueueTypeOK, TimeOutType
<1>2. QED
  BY <1>1, QueueInvariant, PTL

(* The two locks are held exactly by the running task between              *)
(* prvLockQueue and prvUnlockQueue: no queue is left locked, however       *)
(* interrupts come in between.                                             *)
THEOREM LocksReleased ==
  ASSUME QueueAssumption
  PROVE  QueueSpec => []LocksHeldByCurrent
<1>1. QueueInv => LocksHeldByCurrent
  BY DEF QueueInv
<1>2. QED
  BY <1>1, QueueInvariant, PTL

(* With the lock open, the tasks that come for a list's items are those    *)
(* that will look at the queue again.                                      *)
LEMMA ServedIsAwaited ==
  ASSUME QueueInv, QueueAssumption, NEW o \in Object,
         lock[o] = UNLOCKED, k.waiting[o] # {}, NEW cs,
         \A c \in QueueCall : WaitList(c) = o => c \in cs
  PROVE  Items(o) <= Cardinality(OnTheirWay(cs))
<1>1. Items(o) <= Cardinality(Coming(o)) + Counted(o) /\ Items(o) \in Nat
  <2>1. Served(o)
    BY DEF QueueInv, QueueServes
  <2>2. QED
    BY <2>1, TypeFacts, ItemsType DEF Served, UNLOCKED
<1>2. Counted(o) = 0
  BY DEF Counted, UNLOCKED
<1>3. Coming(o) \subseteq OnTheirWay(cs)
  BY TypeFacts DEF Coming, OnTheirWay
<1>4. Coming(o) \in SUBSET Task /\ OnTheirWay(cs) \in SUBSET Task
  BY DEF Coming, OnTheirWay
<1>5. /\ Cardinality(Coming(o)) <= Cardinality(OnTheirWay(cs))
      /\ Cardinality(Coming(o)) \in Nat /\ Cardinality(OnTheirWay(cs)) \in Nat
  BY <1>3, <1>4, SubsetCounts
<1>6. QED
  BY <1>1, <1>2, <1>5

(* While tasks wait on an unlocked queue there are as many tasks on their  *)
(* way to it as there are messages to receive, or places to fill: the      *)
(* wake-up that a send or a receive owes a waiter is never lost, however   *)
(* the woken tasks are overtaken, time out or are aborted, and whatever    *)
(* the interrupts did while the queue was locked.                          *)
THEOREM NoWakeUpLost ==
  ASSUME QueueAssumption
  PROVE  QueueSpec => []NoLostWakeup
<1>1. ASSUME QueueInv
      PROVE  NoLostWakeup
  <2>1. \A c \in QueueCall : WaitList(c) = ToReceive => c \in {"receive", "peek"}
    BY DEF QueueAssumption, QueueCall, WaitList
  <2>2. \A c \in QueueCall : WaitList(c) = ToSend => c \in {"send"}
    BY DEF QueueAssumption, QueueCall, WaitList
  <2>3. /\ ToReceive \in Object /\ ToSend \in Object
        /\ Items(ToReceive) = messages /\ Items(ToSend) = Length - messages
    BY DEF QueueAssumption, Items
  <2>4. lock[ToReceive] = UNLOCKED /\ k.waiting[ToReceive] # {} =>
          messages <= Cardinality(OnTheirWay({"receive", "peek"}))
    BY <1>1, <2>1, <2>3, ServedIsAwaited
  <2>5. lock[ToSend] = UNLOCKED /\ k.waiting[ToSend] # {} =>
          Length - messages <= Cardinality(OnTheirWay({"send"}))
    BY <1>1, <2>2, <2>3, ServedIsAwaited
  <2>6. QED
    BY <2>4, <2>5 DEF NoLostWakeup
<1>2. QED
  BY <1>1, QueueInvariant, PTL

-----------------------------------------------------------------------------
(* The objects side by side.                                               *)

(* Each behaviour of the composition is one of the object it is about.     *)
LEMMA StaysNotify ==
  ObjectsSpec /\ scenario = "notify" => [](scenario = "notify") /\ Notify!NotifySpec
<1>1. ObjectsInit /\ scenario = "notify" => Notify!NotifyInit
  BY DEF ObjectsInit
<1>2. scenario = "notify" /\ [ObjectsNext]_<<vars, others>> =>
        (scenario = "notify")' /\ [Notify!NotifyNext]_Notify!vars
  BY DEF ObjectsNext, others, vars, queueVars, Notify!vars, Notify!kernelVars,
     Notify!notifyVars, kernelVars
<1>3. QED
  BY <1>1, <1>2, PTL DEF ObjectsSpec, Notify!NotifySpec

LEMMA StaysStream ==
  ObjectsSpec /\ scenario = "stream" => [](scenario = "stream") /\ Streams!StreamSpec
<1>1. ObjectsInit /\ scenario = "stream" => Streams!StreamInit
  BY DEF ObjectsInit
<1>2. scenario = "stream" /\ [ObjectsNext]_<<vars, others>> =>
        (scenario = "stream")' /\ [Streams!StreamNext]_Streams!vars
  BY DEF ObjectsNext, others, From4, From9, Streams!vars
<1>3. QED
  BY <1>1, <1>2, PTL DEF ObjectsSpec, Streams!StreamSpec

LEMMA StaysStorage ==
  ObjectsSpec /\ scenario = "storage" => [](scenario = "storage") /\ Storage!StorageSpec
<1>1. ObjectsInit /\ scenario = "storage" => Storage!StorageInit
  BY DEF ObjectsInit
<1>2. scenario = "storage" /\ [ObjectsNext]_<<vars, others>> =>
        (scenario = "storage")' /\ [Storage!StorageNext]_Storage!vars
  BY DEF ObjectsNext, others, From4, Storage!vars, Storage!lockVars
<1>3. QED
  BY <1>1, <1>2, PTL DEF ObjectsSpec, Storage!StorageSpec

(* The promise follows from what holds of the object, and says nothing of   *)
(* the behaviours of another one.                                          *)
LEMMA PromisedOfNotify ==
  /\ []Notify!NotifyTypeOK /\ []Notify!NoneSleepsNotified /\ []Notify!WaitReturnsNotified
       => []NoNoticeLost
  /\ ObjectsSpec /\ ~(scenario = "notify") => []NoNoticeLost
<1>1. Notify!NotifyTypeOK /\ Notify!NoneSleepsNotified /\ Notify!WaitReturnsNotified
        => NoNoticeLost
  BY DEF NoNoticeLost
<1>2. ~(scenario = "notify") => NoNoticeLost
  BY DEF NoNoticeLost
<1>3. ~(scenario = "notify") /\ [ObjectsNext]_<<vars, others>> => ~(scenario = "notify")'
  BY DEF ObjectsNext, others
<1>4. QED
  BY <1>1, <1>2, <1>3, PTL DEF ObjectsSpec

LEMMA PromisedOfStream ==
  /\ []Streams!StreamTypeOK /\ []Streams!RingHoldsUnread /\ []Streams!DeliversInOrder
       /\ []Streams!NoneSleepsInVain => []RingDelivers
  /\ ObjectsSpec /\ ~(scenario = "stream") => []RingDelivers
<1>1. Streams!StreamTypeOK /\ Streams!RingHoldsUnread /\ Streams!DeliversInOrder
        /\ Streams!NoneSleepsInVain => RingDelivers
  BY DEF RingDelivers
<1>2. ~(scenario = "stream") => RingDelivers
  BY DEF RingDelivers
<1>3. ~(scenario = "stream") /\ [ObjectsNext]_<<vars, others>> => ~(scenario = "stream")'
  BY DEF ObjectsNext, others
<1>4. QED
  BY <1>1, <1>2, <1>3, PTL DEF ObjectsSpec

LEMMA PromisedOfStorage ==
  /\ []Storage!PointersAgree /\ []Storage!EveryItemAnnounced => []QueuesAnnounce
  /\ ObjectsSpec /\ ~(scenario = "storage") => []QueuesAnnounce
<1>1. Storage!PointersAgree /\ Storage!EveryItemAnnounced => QueuesAnnounce
  BY DEF QueuesAnnounce
<1>2. ~(scenario = "storage") => QueuesAnnounce
  BY DEF QueuesAnnounce
<1>3. ~(scenario = "storage") /\ [ObjectsNext]_<<vars, others>> => ~(scenario = "storage")'
  BY DEF ObjectsNext, others
<1>4. QED
  BY <1>1, <1>2, <1>3, PTL DEF ObjectsSpec

(* The kernel of the notification is the same kernel.                      *)
LEMMA SameKernel ==
  Notify!KernelAssumption /\ Notify!SchedulerAssumption
<1>1. Notify!IsFiniteSet(Task) <=> IsFiniteSet(Task)
  BY Zenon DEF Notify!IsFiniteSet, IsFiniteSet
<1>2. Notify!Prio = Prio
  BY DEF Notify!Prio, Prio
<1>3. Notify!KernelAssumption
  BY <1>1, <1>2, KernelAssumption DEF Notify!KernelAssumption
<1>4. Notify!SchedulerAssumption
  BY <1>2, SchedulerAssumption DEF Notify!SchedulerAssumption
<1>5. QED
  BY <1>3, <1>4

LEMMA SameSuccessors ==
  \A c, n : Storage!Abstract!Successors(c, n) = BoundedByStorage!Successors(c, n)
BY DEF Storage!Abstract!Successors, Storage!Abstract!Longer, BoundedByStorage!Successors,
   BoundedByStorage!Longer

(* A step of the composition is one of bounded queues, or none if it is    *)
(* not one of the storage.                                                 *)
LEMMA StoresFollow ==
  ASSUME Storage!StorageAssumption, scenario = "storage" => Storage!BlocksSound /\ Storage!LockSound,
         [ObjectsNext]_<<vars, others>>
  PROVE  /\ (scenario = "storage" => Storage!BlocksSound /\ Storage!LockSound)'
         /\ [BoundedByStorage!BoundedNext]_[q \in Stores |->
              IF scenario = "storage" THEN Storage!Contents(q) ELSE NoQueue]
<1> DEFINE c == [q \in Stores |-> IF scenario = "storage" THEN Storage!Contents(q) ELSE NoQueue]
<1>1. CASE scenario = "storage"
  <2>1. scenario' = "storage" /\ [Storage!StorageNext]_Storage!vars
    BY <1>1 DEF ObjectsNext, others, From4, Storage!vars, Storage!lockVars
  <2>2. Storage!BlocksSound' /\ Storage!LockSound' /\ Storage!Follows
    BY <1>1, <2>1, Storage!StepFollows, Storage!StepLocks
  <2>3. c = [q \in Stores |-> Storage!Contents(q)] /\ c' = [q \in Stores |-> Storage!Contents(q)']
    BY <1>1, <2>1
  <2>4. \A q \in Stores : c'[q] \in BoundedByStorage!Successors(c[q], StoreLength[q])
    <3> SUFFICES ASSUME NEW q \in Stores
                 PROVE  c'[q] \in BoundedByStorage!Successors(c[q], StoreLength[q])
      OBVIOUS
    <3>1. c[q] = Storage!Contents(q) /\ c'[q] = Storage!Contents(q)'
      BY <2>3
    <3>2. Storage!Contents(q)' \in
            Storage!Abstract!Successors(Storage!Contents(q), StoreLength[q])
      BY <2>2 DEF Storage!Follows
    <3> HIDE DEF c
    <3>3. QED
      BY <3>1, <3>2, SameSuccessors
  <2>5. QED
    BY <2>1, <2>2, <2>4 DEF BoundedByStorage!BoundedNext
<1>2. CASE scenario # "storage"
  <2>1. scenario' # "storage"
    BY <1>2 DEF ObjectsNext, others
  <2>2. c' = c
    BY <1>2, <2>1
  <2>3. QED
    BY <2>1, <2>2
<1>3. QED
  BY <1>1, <1>2

(* No notified task sleeps and no wait ends as notified that was not,      *)
(* whatever the tasks, their priorities and the bounds.                    *)
THEOREM NoNoticeEverLost ==
  ASSUME Notify!NotifyAssumption, "none" \notin Actions
  PROVE  ObjectsSpec => []NoNoticeLost
<1>1. /\ Notify!NotifySpec => []Notify!NotifyTypeOK
      /\ Notify!NotifySpec => []Notify!NoneSleepsNotified
      /\ Notify!NotifySpec => []Notify!WaitReturnsNotified
  BY SameKernel, Notify!NotifyTyped, Notify!NotifiedTasksWake, Notify!WaitsEndNotified
<1>2. QED
  BY <1>1, PromisedOfNotify, StaysNotify, PTL

(* The ring keeps what is unread, delivers it in order, and nobody sleeps  *)
(* in vain, in a stream or message buffer whose trigger level is never     *)
(* lowered.                                                                *)
THEOREM RingAlwaysDelivers ==
  ASSUME Streams!StreamBufferAssumption, Streams!LevelOnlyRises, "batching" \notin Kinds
  PROVE  ObjectsSpec => []RingDelivers
<1>1. /\ Streams!StreamSpec => []Streams!StreamTypeOK
      /\ Streams!StreamSpec => []Streams!RingHoldsUnread
      /\ Streams!StreamSpec => []Streams!DeliversInOrder
      /\ Streams!StreamSpec => Streams!LevelNeverLowered
      /\ Streams!StreamSpec /\ Streams!LevelNeverLowered => []Streams!NoneSleepsInVain
  BY Streams!StreamTyped, Streams!RingKeepsUnread, Streams!DeliveredInOrder,
     Streams!LevelRises, Streams!SleepersNeverInVain
<1>2. QED
  BY <1>1, PromisedOfStream, StaysStream, PTL

(* The pointers of every queue agree with its count, and a set announces   *)
(* each item of its members once, at the latest when the member is         *)
(* unlocked, whatever the queues, sets and members, as long as a set has   *)
(* room for what its members hold, and no interrupt has overwritten the    *)
(* item of a locked member, or sent it more than there are tasks.          *)
THEOREM QueuesAlwaysAnnounce ==
  ASSUME Storage!StorageAssumption, Storage!SetAssumption
  PROVE  ObjectsSpec => []QueuesAnnounce
<1>1. /\ Storage!StorageSpec => []Storage!PointersAgree
      /\ Storage!StorageSpec => []Storage!EveryItemAnnounced
  BY Storage!PointersAlwaysAgree, Storage!EveryItemIsAnnounced
<1>2. QED
  BY <1>1, PromisedOfStorage, StaysStorage, PTL

(* What queues hold changes as bounded sequences do, an item at an end at  *)
(* a time, whatever their number and their lengths.                        *)
THEOREM StoresAreBoundedQueues ==
  ASSUME Storage!StorageAssumption
  PROVE  ObjectsSpec => QueuesImplementBounded
<1> DEFINE Inv == scenario = "storage" => Storage!BlocksSound /\ Storage!LockSound
<1>1. ObjectsInit => Inv
  BY Storage!InitSound DEF ObjectsInit
<1>2. ObjectsInit => BoundedByStorage!BoundedInit
  BY DEF ObjectsInit, BoundedByStorage!BoundedInit, Storage!StorageInit, Storage!Contents,
     Storage!Exists
<1>3. Inv /\ [ObjectsNext]_<<vars, others>> =>
        /\ Inv'
        /\ [BoundedByStorage!BoundedNext]_[q \in Stores |->
             IF scenario = "storage" THEN Storage!Contents(q) ELSE NoQueue]
  BY StoresFollow
<1>4. QED
  BY <1>1, <1>2, <1>3, PTL DEF ObjectsSpec, QueuesImplementBounded, BoundedByStorage!BoundedSpec

=============================================================================
