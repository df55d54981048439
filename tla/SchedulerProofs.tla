-------------------------- MODULE SchedulerProofs ---------------------------
(***************************************************************************)
(* Theorems about the kernel and the task API, for every number of tasks,  *)
(* priorities, objects and ticks.                                          *)
(*                                                                         *)
(* First what the operators of Kernel keep: each lemma is about one        *)
(* function of tasks.c, what it leaves alone, and what it does to the      *)
(* state items, the event items, the order of the event lists, the wake    *)
(* times and the ready lists.                                              *)
(*                                                                         *)
(* Then the task API: its counters and sections; its lists: that every     *)
(* task is on its list, that the event items agree with the state items,   *)
(* that no wake-up is hidden or missed, and that no context switch is      *)
(* forgotten.                                                              *)
(***************************************************************************)
EXTENDS Scheduler, Integers, FiniteSetTheorems, WellFoundedInduction, TLAPS

(* What the lists of state items and the bit map keep. *)
ListsOK(s) ==
  s \in KType /\ OnOneListOnly(s) /\ ReadyAtPriority(s) /\ TopIsExact(s)

-----------------------------------------------------------------------------
(* Constants, and the sets in terms of their elements. *)

LEMMA Constants ==
  /\ 0 \in Tick /\ MaxDelay \in Tick
  /\ TickMod \in Nat \ {0, 1} /\ MaxPrio \in Nat \ {0} /\ OvfMod \in Nat \ {0}
BY KernelAssumption DEF Tick, MaxDelay

LEMMA AddModulo ==
  ASSUME NEW M \in Nat \ {0}, NEW a \in 0 .. M - 1, NEW b \in 0 .. M - 1
  PROVE  (a + b) % M = IF a + b < M THEN a + b ELSE a + b - M
  OBVIOUS

(* Division with remainder. *)
LEMMA DivideBy ==
  ASSUME NEW M \in Nat \ {0}, NEW a \in Nat
  PROVE  \E q \in Nat, m \in Nat, r \in 0 .. M - 1 :
            m = M * q /\ a = m + r /\ r = a % M
<1>1. a % M \in 0 .. M - 1 /\ a \div M \in Nat /\ M * (a \div M) \in Nat
  BY SMT
<1>2. a = (M * (a \div M)) + (a % M)
  BY SMT
<1>3. QED
  BY <1>1, <1>2

LEMMA UniqueRemainder ==
  ASSUME NEW M \in Nat \ {0}, NEW p \in Nat, NEW q \in Nat,
         NEW x \in 0 .. M - 1, NEW y \in 0 .. M - 1, (M * p) + x = (M * q) + y
  PROVE  x = y
<1>1. CASE p < q
  <2>1. M * (q - p) >= M
    BY <1>1, SMT
  <2>2. QED
    BY <2>1, SMT
<1>2. CASE q < p
  <2>1. M * (p - q) >= M
    BY <1>2, SMT
  <2>2. QED
    BY <2>1, SMT
<1>3. QED
  BY <1>1, <1>2, SMT

LEMMA RemainderOfSum ==
  ASSUME NEW M \in Nat \ {0}, NEW a \in Nat, NEW b \in Nat
  PROVE  (a + b) % M = ((a % M) + b) % M
<1>1. PICK d \in Nat, md \in Nat, r \in 0 .. M - 1 :
         md = M * d /\ a = md + r /\ r = a % M
  BY DivideBy
<1>2. PICK e \in Nat, me \in Nat, u \in 0 .. M - 1 :
         me = M * e /\ a + b = me + u /\ u = (a + b) % M
  <2>1. a + b \in Nat
    OBVIOUS
  <2>2. QED
    BY <2>1, DivideBy
<1>3. PICK f \in Nat, mf \in Nat, v \in 0 .. M - 1 :
         mf = M * f /\ r + b = mf + v /\ v = (r + b) % M
  <2>1. r + b \in Nat
    OBVIOUS
  <2>2. QED
    BY <2>1, DivideBy
<1>4. me + u = (md + mf) + v
  <2>1. a = md + r /\ a + b = me + u /\ r + b = mf + v
    BY <1>1, <1>2, <1>3
  <2>2. QED
    BY <2>1
<1>5. md + mf = M * (d + f) /\ d + f \in Nat
  BY <1>1, <1>3
<1>6. u = v
  BY <1>2, <1>4, <1>5, UniqueRemainder
<1>7. QED
  BY <1>1, <1>2, <1>3, <1>6

LEMMA ReadyTasksElements ==
  ASSUME NEW s
  PROVE  \A t : t \in ReadyTasks(s) <=> \E p \in Prio : t \in s.ready[p]
BY DEF ReadyTasks

LEMMA WaitersElements ==
  ASSUME NEW s
  PROVE  \A t : t \in Waiters(s) <=> \E o \in Object : t \in s.waiting[o]
BY DEF Waiters

LEMMA ListedElements ==
  ASSUME NEW s
  PROVE  Listed(s) = ReadyTasks(s) \cup s.delayed \cup s.overflow \cup s.suspended \cup s.dying
BY DEF Listed, StateLists, ReadyTasks

(* A ready task is on the list of its priority, and on no other. *)
LEMMA ReadyAtOwnPriority ==
  ASSUME NEW s, s \in KType, ReadyAtPriority(s), NEW t \in Task
  PROVE  /\ t \in ReadyTasks(s) <=> t \in s.ready[s.prio[t]]
         /\ s.prio[t] \in Prio
<1>1. s.prio[t] \in Prio
  BY DEF KType
<1>2. QED
  BY <1>1, ReadyTasksElements DEF ReadyAtPriority

-----------------------------------------------------------------------------
(* Typing: every operator returns a kernel record.  The lemma about an     *)
(* operator also lists the fields it changes, and so all it leaves alone.  *)

LEMMA ForgetType ==
  ASSUME NEW w \in [Task -> Tick], NEW S
  PROVE  Forget(w, S) \in [Task -> Tick]
BY Constants DEF Forget

LEMMA OffStateListFields ==
  ASSUME NEW s \in KType, NEW t \in Task
  PROVE  LET r == OffStateList(s, t)
         IN  /\ r \in KType
             /\ r.ready = [p \in Prio |-> s.ready[p] \ {t}]
             /\ r.delayed = s.delayed \ {t} /\ r.overflow = s.overflow \ {t}
             /\ r.suspended = s.suspended \ {t} /\ r.dying = s.dying \ {t}
             /\ r.wake = Forget(s.wake, {t})
             /\ r.cur = s.cur /\ r.prio = s.prio /\ r.base = s.base /\ r.top = s.top
             /\ r.pending = s.pending /\ r.waiting = s.waiting /\ r.before = s.before
             /\ r.key = s.key /\ r.aborted = s.aborted /\ r.notify = s.notify
             /\ r.tick = s.tick /\ r.next = s.next /\ r.overflows = s.overflows
             /\ r.pended = s.pended /\ r.depth = s.depth
             /\ r.yieldPending = s.yieldPending
             /\ r.count = s.count /\ r.cleanup = s.cleanup
<1>1. Forget(s.wake, {t}) \in [Task -> Tick]
  BY ForgetType DEF KType
<1>2. [p \in Prio |-> s.ready[p] \ {t}] \in [Prio -> SUBSET Task]
  BY DEF KType
<1>3. OffStateList(s, t) \in KType
  BY <1>1, <1>2 DEF KType, OffStateList
<1>4. QED
  BY <1>3 DEF KType, OffStateList

LEMMA OffEventListsFields ==
  ASSUME NEW s \in KType, NEW S \in SUBSET Task
  PROVE  LET r == OffEventLists(s, S)
         IN  /\ r \in KType
             /\ r.waiting = [o \in Object |-> s.waiting[o] \ S]
             /\ r.pending = s.pending \ S
             /\ r.cur = s.cur /\ r.prio = s.prio /\ r.base = s.base /\ r.top = s.top
             /\ r.ready = s.ready /\ r.delayed = s.delayed /\ r.overflow = s.overflow
             /\ r.suspended = s.suspended /\ r.dying = s.dying /\ r.wake = s.wake
             /\ r.key = s.key /\ r.aborted = s.aborted /\ r.notify = s.notify
             /\ r.tick = s.tick /\ r.next = s.next /\ r.overflows = s.overflows
             /\ r.pended = s.pended /\ r.depth = s.depth
             /\ r.yieldPending = s.yieldPending
             /\ r.count = s.count /\ r.cleanup = s.cleanup
<1>1. [o \in Object |-> s.waiting[o] \ S] \in [Object -> SUBSET Task]
  BY DEF KType
<1>2. OffEventLists(s, S) \in KType
  BY <1>1 DEF KType, OffEventLists
<1>3. QED
  BY <1>2 DEF KType, OffEventLists

LEMMA ResetReadyPriorityFields ==
  ASSUME NEW s \in KType, NEW p \in Prio
  PROVE  LET r == ResetReadyPriority(s, p)
         IN  /\ r \in KType
             /\ r.top = IF s.ready[p] = {} THEN s.top \ {p} ELSE s.top
             /\ r.cur = s.cur /\ r.prio = s.prio /\ r.base = s.base /\ r.ready = s.ready
             /\ r.delayed = s.delayed /\ r.overflow = s.overflow
             /\ r.suspended = s.suspended /\ r.dying = s.dying /\ r.wake = s.wake
             /\ r.pending = s.pending /\ r.waiting = s.waiting /\ r.before = s.before
             /\ r.key = s.key /\ r.aborted = s.aborted /\ r.notify = s.notify
             /\ r.tick = s.tick /\ r.next = s.next /\ r.overflows = s.overflows
             /\ r.pended = s.pended /\ r.depth = s.depth
             /\ r.yieldPending = s.yieldPending
             /\ r.count = s.count /\ r.cleanup = s.cleanup
BY DEF KType, ResetReadyPriority

LEMMA ResetReadyPriorityType ==
  ASSUME NEW s \in KType, NEW p \in Prio
  PROVE  ResetReadyPriority(s, p) \in KType
BY ResetReadyPriorityFields

LEMMA AddToReadyListFields ==
  ASSUME NEW s \in KType, NEW t \in Task
  PROVE  LET r == AddToReadyList(s, t)
         IN  /\ r \in KType
             /\ r.ready = [s.ready EXCEPT ![s.prio[t]] = @ \cup {t}]
             /\ r.top = s.top \cup {s.prio[t]}
             /\ r.cur = s.cur /\ r.prio = s.prio /\ r.base = s.base
             /\ r.delayed = s.delayed /\ r.overflow = s.overflow
             /\ r.suspended = s.suspended /\ r.dying = s.dying /\ r.wake = s.wake
             /\ r.pending = s.pending /\ r.waiting = s.waiting /\ r.before = s.before
             /\ r.key = s.key /\ r.aborted = s.aborted /\ r.notify = s.notify
             /\ r.tick = s.tick /\ r.next = s.next /\ r.overflows = s.overflows
             /\ r.pended = s.pended /\ r.depth = s.depth
             /\ r.yieldPending = s.yieldPending
             /\ r.count = s.count /\ r.cleanup = s.cleanup
BY DEF KType, AddToReadyList

LEMMA MakeReadyFields ==
  ASSUME NEW s \in KType, NEW S \in SUBSET Task
  PROVE  LET r == MakeReady(s, S)
         IN  /\ r \in KType
             /\ r.ready = [p \in Prio |-> (s.ready[p] \ S) \cup {t \in S : s.prio[t] = p}]
             /\ r.top = s.top \cup {s.prio[t] : t \in S}
             /\ r.delayed = s.delayed \ S /\ r.overflow = s.overflow \ S
             /\ r.suspended = s.suspended \ S /\ r.dying = s.dying
             /\ r.wake = Forget(s.wake, S)
             /\ r.waiting = [o \in Object |-> s.waiting[o] \ S]
             /\ r.pending = s.pending \ S
             /\ r.cur = s.cur /\ r.prio = s.prio /\ r.base = s.base
             /\ r.key = s.key /\ r.aborted = s.aborted /\ r.notify = s.notify
             /\ r.tick = s.tick /\ r.next = s.next /\ r.overflows = s.overflows
             /\ r.pended = s.pended /\ r.depth = s.depth
             /\ r.yieldPending = s.yieldPending
             /\ r.count = s.count /\ r.cleanup = s.cleanup
<1> DEFINE o == OffEventLists(s, S)
<1>1. Forget(s.wake, S) \in [Task -> Tick]
  BY ForgetType DEF KType
<1>2. [p \in Prio |-> (s.ready[p] \ S) \cup {t \in S : s.prio[t] = p}]
        \in [Prio -> SUBSET Task]
  BY DEF KType
<1>3. {s.prio[t] : t \in S} \subseteq Prio
  BY DEF KType
<1>4. /\ o \in KType
      /\ o.ready = s.ready /\ o.prio = s.prio /\ o.wake = s.wake
  BY OffEventListsFields
<1>5. MakeReady(s, S) \in KType
  BY <1>1, <1>2, <1>3, <1>4 DEF KType, MakeReady
<1>6. LET r == MakeReady(s, S)
      IN  /\ r.ready = [p \in Prio |-> (s.ready[p] \ S) \cup {t \in S : s.prio[t] = p}]
          /\ r.top = s.top \cup {s.prio[t] : t \in S}
          /\ r.delayed = s.delayed \ S /\ r.overflow = s.overflow \ S
          /\ r.suspended = s.suspended \ S /\ r.dying = s.dying
          /\ r.wake = Forget(s.wake, S)
  BY DEF KType, MakeReady, OffEventLists
<1>7. LET r == MakeReady(s, S)
      IN  /\ r.waiting = [oo \in Object |-> s.waiting[oo] \ S]
          /\ r.pending = s.pending \ S
          /\ r.cur = s.cur /\ r.prio = s.prio /\ r.base = s.base
          /\ r.key = s.key /\ r.aborted = s.aborted /\ r.notify = s.notify
          /\ r.tick = s.tick /\ r.next = s.next /\ r.overflows = s.overflows
          /\ r.pended = s.pended /\ r.depth = s.depth
          /\ r.yieldPending = s.yieldPending
          /\ r.count = s.count /\ r.cleanup = s.cleanup
  BY DEF KType, MakeReady, OffEventLists
<1>8. QED
  BY <1>5, <1>6, <1>7

LEMMA TakenOffFields ==
  ASSUME NEW s \in KType, NEW t \in Task
  PROVE  LET r == TakenOff(s, t)
         IN  /\ r \in KType
             /\ r.ready = [p \in Prio |-> s.ready[p] \ {t}]
             /\ r.top = IF s.ready[s.prio[t]] \ {t} = {} THEN s.top \ {s.prio[t]} ELSE s.top
             /\ r.delayed = s.delayed \ {t} /\ r.overflow = s.overflow \ {t}
             /\ r.suspended = s.suspended \ {t} /\ r.dying = s.dying \ {t}
             /\ r.wake = Forget(s.wake, {t})
             /\ r.waiting = [o \in Object |-> s.waiting[o] \ {t}]
             /\ r.pending = s.pending \ {t}
             /\ r.cur = s.cur /\ r.prio = s.prio /\ r.base = s.base
             /\ r.key = s.key /\ r.aborted = s.aborted /\ r.notify = s.notify
             /\ r.tick = s.tick /\ r.next = s.next /\ r.overflows = s.overflows
             /\ r.pended = s.pended /\ r.depth = s.depth
             /\ r.yieldPending = s.yieldPending
             /\ r.count = s.count /\ r.cleanup = s.cleanup
<1> DEFINE a == OffStateList(s, t)
           b == OffEventLists(a, {t})
           r == TakenOff(s, t)
<1>1. s.prio[t] \in Prio /\ {t} \in SUBSET Task
  BY DEF KType
<1>2. a \in KType
  BY OffStateListFields
<1>3. b \in KType
  BY <1>1, <1>2, OffEventListsFields
<1>4. r \in KType
  <2>1. r = ResetReadyPriority(b, s.prio[t])
    BY DEF TakenOff
  <2> HIDE DEF b, r
  <2>2. QED
    BY <1>1, <1>3, <2>1, ResetReadyPriorityType
<1>5. /\ r.ready = [p \in Prio |-> s.ready[p] \ {t}]
      /\ r.delayed = s.delayed \ {t} /\ r.overflow = s.overflow \ {t}
      /\ r.suspended = s.suspended \ {t} /\ r.dying = s.dying \ {t}
      /\ r.wake = Forget(s.wake, {t})
  BY DEF KType, TakenOff, ResetReadyPriority, OffEventLists, OffStateList
<1>6. r.top = IF s.ready[s.prio[t]] \ {t} = {} THEN s.top \ {s.prio[t]} ELSE s.top
  BY <1>1 DEF KType, TakenOff, ResetReadyPriority, OffEventLists, OffStateList
<1>7. /\ r.waiting = [o \in Object |-> s.waiting[o] \ {t}]
      /\ r.pending = s.pending \ {t}
      /\ r.cur = s.cur /\ r.prio = s.prio /\ r.base = s.base
      /\ r.key = s.key /\ r.aborted = s.aborted /\ r.notify = s.notify
      /\ r.tick = s.tick /\ r.next = s.next /\ r.overflows = s.overflows
      /\ r.pended = s.pended /\ r.depth = s.depth
      /\ r.yieldPending = s.yieldPending
      /\ r.count = s.count /\ r.cleanup = s.cleanup
  BY DEF KType, TakenOff, ResetReadyPriority, OffEventLists, OffStateList
<1>8. QED
  BY <1>4, <1>5, <1>6, <1>7

-----------------------------------------------------------------------------
(* Leaving the lists and becoming ready keep ListsOK. *)

LEMMA TakenOffLists ==
  ASSUME NEW s, ListsOK(s), NEW t \in Task
  PROVE  /\ ListsOK(TakenOff(s, t))
         /\ ReadyTasks(TakenOff(s, t)) = ReadyTasks(s) \ {t}
         /\ Listed(TakenOff(s, t)) = Listed(s) \ {t}
         /\ TakenOff(s, t).top \subseteq s.top
<1> DEFINE r == TakenOff(s, t)
<1>1. s \in KType
  BY DEF ListsOK
<1>2. /\ r \in KType
      /\ r.ready = [p \in Prio |-> s.ready[p] \ {t}]
      /\ r.top = IF s.ready[s.prio[t]] \ {t} = {} THEN s.top \ {s.prio[t]} ELSE s.top
      /\ r.delayed = s.delayed \ {t} /\ r.overflow = s.overflow \ {t}
      /\ r.suspended = s.suspended \ {t} /\ r.dying = s.dying \ {t}
      /\ r.prio = s.prio
  BY <1>1, TakenOffFields
<1> HIDE DEF r
<1>3. ReadyTasks(r) = ReadyTasks(s) \ {t}
  BY <1>2, ReadyTasksElements
<1>4. Listed(r) = Listed(s) \ {t}
  BY <1>2, <1>3, ListedElements
<1>5. OnOneListOnly(r)
  BY <1>2, <1>3 DEF ListsOK, OnOneListOnly
<1>6. ReadyAtPriority(r)
  BY <1>2 DEF ListsOK, ReadyAtPriority
<1>7. TopIsExact(r)
  BY <1>1, <1>2 DEF ListsOK, TopIsExact, ReadyAtPriority, KType
<1>8. QED
  BY <1>2, <1>3, <1>4, <1>5, <1>6, <1>7 DEF r, ListsOK

LEMMA MakeReadyLists ==
  ASSUME NEW s, ListsOK(s), NEW S \in SUBSET Task, S \cap s.dying = {}
  PROVE  /\ ListsOK(MakeReady(s, S))
         /\ ReadyTasks(MakeReady(s, S)) = ReadyTasks(s) \cup S
         /\ Listed(MakeReady(s, S)) = Listed(s) \cup S
<1> DEFINE r == MakeReady(s, S)
<1>1. s \in KType /\ \A t \in Task : s.prio[t] \in Prio
  BY DEF ListsOK, KType
<1>2. /\ r \in KType
      /\ r.ready = [p \in Prio |-> (s.ready[p] \ S) \cup {t \in S : s.prio[t] = p}]
      /\ r.top = s.top \cup {s.prio[t] : t \in S}
      /\ r.delayed = s.delayed \ S /\ r.overflow = s.overflow \ S
      /\ r.suspended = s.suspended \ S /\ r.dying = s.dying
      /\ r.prio = s.prio
  BY <1>1, MakeReadyFields
<1> HIDE DEF r
<1>3. ReadyTasks(r) = ReadyTasks(s) \cup S
  BY <1>1, <1>2, ReadyTasksElements
<1>4. Listed(r) = Listed(s) \cup S
  BY <1>2, <1>3, ListedElements
<1>5. OnOneListOnly(r)
  BY <1>2, <1>3 DEF ListsOK, OnOneListOnly
<1>6. ReadyAtPriority(r)
  BY <1>2 DEF ListsOK, ReadyAtPriority
<1>7. TopIsExact(r)
  <2> SUFFICES ASSUME NEW p \in Prio
               PROVE  p \in r.top <=> r.ready[p] # {}
    BY DEF TopIsExact
  <2>1. p \in s.top <=> s.ready[p] # {}
    BY DEF ListsOK, TopIsExact
  <2>2. \A t \in s.ready[p] : t \in Task /\ s.prio[t] = p
    BY <1>1 DEF ListsOK, ReadyAtPriority, KType
  <2>3. QED
    BY <1>2, <2>1, <2>2
<1>8. QED
  BY <1>2, <1>3, <1>4, <1>5, <1>6, <1>7 DEF r, ListsOK

-----------------------------------------------------------------------------
(* Time. *)

LEMMA NatOrder ==
  \A x, y \in Nat : <<x, y>> \in OpToRel(<, Nat) <=> x < y
BY Zenon DEF OpToRel

LEMMA LeastNatural ==
  ASSUME NEW T \in SUBSET Nat, T # {}
  PROVE  \E w \in T : \A x \in T : w <= x
<1>1. \E w \in T : \A x \in T : ~ (<<x, w>> \in OpToRel(<, Nat))
  BY NatLessThanWellFounded, WFMin, Zenon
<1>2. \E w \in T : \A x \in T : ~ (x < w)
  BY <1>1, NatOrder, Zenon
<1>3. QED
  BY <1>2

(* The earliest wake time exists when a task is delayed. *)
LEMMA EarliestWakeIsLeast ==
  ASSUME NEW s \in KType, s.delayed # {}
  PROVE  /\ EarliestWake(s) \in Tick
         /\ \E t \in s.delayed : s.wake[t] = EarliestWake(s)
         /\ \A t \in s.delayed : EarliestWake(s) <= s.wake[t]
<1> DEFINE T == {s.wake[t] : t \in s.delayed}
<1>1. T \in SUBSET Tick /\ T \in SUBSET Nat /\ T # {}
  BY KernelAssumption DEF KType, Tick
<1>2. \E w \in T : \A x \in T : w <= x
  <2> HIDE DEF T
  <2>1. QED
    BY <1>1, LeastNatural
<1>3. \E v \in Tick : /\ \E t \in s.delayed : s.wake[t] = v
                      /\ \A t \in s.delayed : v <= s.wake[t]
  BY <1>1, <1>2
<1>4. QED
  BY <1>3 DEF EarliestWake

LEMMA ResetNextUnblockTimeFields ==
  ASSUME NEW s \in KType
  PROVE  LET r == ResetNextUnblockTime(s)
         IN  /\ r \in KType
             /\ r = [s EXCEPT !.next = r.next]
             /\ s.delayed = {} => r.next = MaxDelay
             /\ s.delayed # {} => r.next = EarliestWake(s)
<1>1. (IF s.delayed = {} THEN MaxDelay ELSE EarliestWake(s)) \in Tick
  BY Constants, EarliestWakeIsLeast
<1>2. QED
  BY <1>1 DEF KType, ResetNextUnblockTime

-----------------------------------------------------------------------------
(* What all of these operators leave alone. *)

SameControl(r, s) ==
  /\ r \in KType
  /\ r.cur = s.cur /\ r.prio = s.prio /\ r.base = s.base
  /\ r.tick = s.tick /\ r.pended = s.pended /\ r.depth = s.depth
  /\ r.dying = s.dying /\ r.count = s.count /\ r.cleanup = s.cleanup

LEMMA OffStateListControl ==
  ASSUME NEW s \in KType, NEW t \in Task, t \notin s.dying
  PROVE  SameControl(OffStateList(s, t), s)
<1>1. s.dying \ {t} = s.dying
  OBVIOUS
<1>2. QED
  BY <1>1, OffStateListFields DEF SameControl

LEMMA OffEventListsControl ==
  ASSUME NEW s \in KType, NEW S \in SUBSET Task
  PROVE  SameControl(OffEventLists(s, S), s)
BY OffEventListsFields DEF SameControl

LEMMA TakenOffControl ==
  ASSUME NEW s \in KType, NEW t \in Task, t \notin s.dying
  PROVE  SameControl(TakenOff(s, t), s)
<1>1. s.dying \ {t} = s.dying
  OBVIOUS
<1>2. QED
  BY <1>1, TakenOffFields DEF SameControl

LEMMA AddToReadyListControl ==
  ASSUME NEW s \in KType, NEW t \in Task
  PROVE  SameControl(AddToReadyList(s, t), s)
BY AddToReadyListFields DEF SameControl

LEMMA MakeReadyControl ==
  ASSUME NEW s \in KType, NEW S \in SUBSET Task
  PROVE  SameControl(MakeReady(s, S), s)
BY MakeReadyFields DEF SameControl

LEMMA YieldPendingControl ==
  ASSUME NEW s, NEW r, SameControl(r, s), NEW b \in BOOLEAN
  PROVE  SameControl([r EXCEPT !.yieldPending = b], s)
BY DEF SameControl, KType

LEMMA SetControl ==
  ASSUME NEW s, NEW r, SameControl(r, s), NEW S \in SUBSET Task
  PROVE  /\ SameControl([r EXCEPT !.pending = S], s)
         /\ SameControl([r EXCEPT !.suspended = S], s)
BY DEF SameControl, KType

LEMMA AbortedControl ==
  ASSUME NEW s, NEW r, SameControl(r, s), NEW S \in SUBSET Task, NEW T \in SUBSET Prio
  PROVE  SameControl([r EXCEPT !.aborted = S, !.top = T], s)
BY DEF SameControl, KType

LEMMA ResetNextUnblockTimeControl ==
  ASSUME NEW s \in KType
  PROVE  SameControl(ResetNextUnblockTime(s), s)
<1>1. ResetNextUnblockTime(s) \in KType
  BY ResetNextUnblockTimeFields
<1>2. QED
  BY <1>1 DEF SameControl, KType, ResetNextUnblockTime

LEMMA RemoveFromEventListControl ==
  ASSUME NEW s \in KType, NEW S \in SUBSET Task
  PROVE  SameControl(RemoveFromEventList(s, S), s)
<1> DEFINE o == OffEventLists(s, S)
           m == MakeReady(s, S)
           y == Preempts(s, S)
<1>1. SameControl(m, s) /\ SameControl(o, s)
  BY MakeReadyControl, OffEventListsControl
<1>2. y \in BOOLEAN
  BY DEF Preempts
<1>3. CASE s.depth = 0
  <2>1. RemoveFromEventList(s, S) = [m EXCEPT !.yieldPending = @ \/ y]
    BY <1>3 DEF RemoveFromEventList
  <2>2. (m.yieldPending \/ y) \in BOOLEAN
    BY <1>1 DEF SameControl, KType
  <2> HIDE DEF m, y
  <2>3. QED
    BY <1>1, <2>1, <2>2, YieldPendingControl
<1>4. CASE s.depth # 0
  <2> DEFINE p == [o EXCEPT !.pending = @ \cup S]
  <2>1. RemoveFromEventList(s, S) = [p EXCEPT !.yieldPending = @ \/ y]
    BY <1>4 DEF RemoveFromEventList
  <2>2. SameControl(p, s)
    <3>1. o.pending \cup S \in SUBSET Task
      BY <1>1 DEF SameControl, KType
    <3> HIDE DEF o
    <3>2. QED
      BY <1>1, <3>1, SetControl
  <2>3. (p.yieldPending \/ y) \in BOOLEAN
    BY <2>2 DEF SameControl, KType
  <2> HIDE DEF p, y
  <2>4. QED
    BY <2>1, <2>2, <2>3, YieldPendingControl
<1>5. QED
  BY <1>3, <1>4

LEMMA AddCurrentToDelayedListControl ==
  ASSUME NEW s \in KType, NEW n \in Tick, NEW i \in BOOLEAN, s.cur \notin s.dying
  PROVE  SameControl(AddCurrentToDelayedList(s, n, i), s)
<1> DEFINE t == s.cur
           w == (s.tick + n) % TickMod
           o == OffStateList(s, t)
           free == [o EXCEPT !.aborted = @ \ {t},
                             !.top = IF AloneOnList(s, t) THEN @ \ {s.prio[t]} ELSE @]
           v == [free.wake EXCEPT ![t] = w]
<1>1. t \in Task /\ w \in Tick
  BY Constants DEF KType, Tick
<1>2. SameControl(o, s)
  BY <1>1, OffStateListControl
<1>3. SameControl(free, s)
  <2>1. o.top \in SUBSET Prio /\ o.aborted \in SUBSET Task
    BY <1>2 DEF SameControl, KType
  <2>2. (IF AloneOnList(s, t) THEN o.top \ {s.prio[t]} ELSE o.top) \in SUBSET Prio
    BY <2>1
  <2> HIDE DEF o
  <2>3. QED
    BY <1>1, <1>2, <2>1, <2>2, AbortedControl
<1>4. /\ free.suspended \cup {t} \in SUBSET Task
      /\ free.overflow \cup {t} \in SUBSET Task
      /\ free.delayed \cup {t} \in SUBSET Task
      /\ (IF w < free.next THEN w ELSE free.next) \in Tick
      /\ v \in [Task -> Tick]
  BY <1>1, <1>3 DEF SameControl, KType
<1>5. AddCurrentToDelayedList(s, n, i) =
        IF n = MaxDelay /\ i
          THEN [free EXCEPT !.suspended = free.suspended \cup {t}]
          ELSE IF w < s.tick
            THEN [free EXCEPT !.wake = v, !.overflow = free.overflow \cup {t}]
            ELSE [free EXCEPT !.wake = v, !.delayed = free.delayed \cup {t},
                              !.next = IF w < free.next THEN w ELSE free.next]
  BY DEF AddCurrentToDelayedList
<1> HIDE DEF free, w, t
<1>6. CASE n = MaxDelay /\ i
  <2>1. AddCurrentToDelayedList(s, n, i) =
          [free EXCEPT !.suspended = free.suspended \cup {t}]
    BY <1>5, <1>6
  <2>2. QED
    BY <1>1, <1>3, <1>4, <2>1 DEF SameControl, KType
<1>7. CASE ~ (n = MaxDelay /\ i) /\ w < s.tick
  <2>1. AddCurrentToDelayedList(s, n, i) =
          [free EXCEPT !.wake = v, !.overflow = free.overflow \cup {t}]
    BY <1>5, <1>7
  <2>2. v \in [Task -> Tick]
    BY <1>4
  <2> HIDE DEF v
  <2>3. QED
    BY <1>1, <1>3, <1>4, <2>1, <2>2 DEF SameControl, KType
<1>8. CASE ~ (n = MaxDelay /\ i) /\ ~ (w < s.tick)
  <2> DEFINE x == IF w < free.next THEN w ELSE free.next
  <2>1. AddCurrentToDelayedList(s, n, i) =
          [free EXCEPT !.wake = v, !.delayed = free.delayed \cup {t}, !.next = x]
    BY <1>5, <1>8
  <2>2. x \in Tick
    BY <1>4
  <2>3. v \in [Task -> Tick]
    BY <1>4
  <2> HIDE DEF x, v
  <2>4. QED
    BY <1>1, <1>3, <1>4, <2>1, <2>2, <2>3 DEF SameControl, KType
<1>9. QED
  BY <1>6, <1>7, <1>8

LEMMA PlaceOnEventListControl ==
  ASSUME NEW s \in KType, NEW o \in Object, NEW n \in Tick, s.cur \notin s.dying
  PROVE  SameControl(PlaceOnEventList(s, o, n), s)
<1> DEFINE t == s.cur
           passed == PassedOnInsert(s, o, t)
           b == s.before \cup (passed \X {t}) \cup ({t} \X (s.waiting[o] \ passed))
           m == [s EXCEPT !.waiting[o] = @ \cup {t}, !.before = b]
<1>1. t \in Task /\ s.waiting[o] \in SUBSET Task /\ passed \in SUBSET Task
  BY DEF KType, PassedOnInsert
<1>2. b \in SUBSET (Task \X Task)
  <2>1. s.before \in SUBSET (Task \X Task)
    BY DEF KType
  <2> HIDE DEF passed, t
  <2>2. QED
    BY <1>1, <2>1
<1>3. PlaceOnEventList(s, o, n) = AddCurrentToDelayedList(m, n, TRUE)
  BY DEF PlaceOnEventList
<1>4. SameControl(m, s)
  <2> HIDE DEF b, t
  <2>1. QED
    BY <1>1, <1>2 DEF SameControl, KType
<1> HIDE DEF m
<1>5. SameControl(AddCurrentToDelayedList(m, n, TRUE), m)
  BY <1>4, AddCurrentToDelayedListControl DEF SameControl
<1>6. QED
  BY <1>3, <1>4, <1>5 DEF SameControl

-----------------------------------------------------------------------------
(* What the operators that switch tasks, count ticks or suspend change.    *)

LEMMA SwitchContextControl ==
  ASSUME NEW s \in KType, NEW r \in SwitchContext(s)
  PROVE  /\ r \in KType
         /\ r = [s EXCEPT !.yieldPending = r.yieldPending, !.cur = r.cur]
         /\ s.depth # 0 => r.cur = s.cur /\ r.yieldPending = TRUE
         /\ s.depth = 0 => r.cur \in HighestReady(s) /\ r.yieldPending = FALSE
<1>1. HighestReady(s) \in SUBSET Task
  BY DEF HighestReady, KType
<1>2. CASE s.depth # 0
  <2>1. r = [s EXCEPT !.yieldPending = TRUE]
    BY <1>2 DEF SwitchContext
  <2>2. QED
    BY <1>2, <2>1 DEF KType
<1>3. CASE s.depth = 0
  <2>1. PICK t \in HighestReady(s) : r = [s EXCEPT !.yieldPending = FALSE, !.cur = t]
    BY <1>3 DEF SwitchContext
  <2>2. t \in Task
    BY <1>1
  <2>3. QED
    BY <1>3, <2>1, <2>2 DEF KType
<1>4. QED
  <2>1. s.depth \in Nat
    BY DEF KType
  <2>2. QED
    BY <1>2, <1>3, <2>1

LEMMA SwitchDelayedListsControl ==
  ASSUME NEW s \in KType
  PROVE  SameControl(SwitchDelayedLists(s), s)
<1> DEFINE m == [s EXCEPT !.delayed = s.overflow, !.overflow = s.delayed,
                          !.overflows = (@ + 1) % OvfMod]
<1>1. (s.overflows + 1) % OvfMod \in 0 .. OvfMod - 1
  BY Constants DEF KType
<1>2. SameControl(m, s)
  BY <1>1 DEF SameControl, KType
<1>3. SwitchDelayedLists(s) = ResetNextUnblockTime(m)
  BY DEF SwitchDelayedLists
<1> HIDE DEF m
<1>4. SameControl(ResetNextUnblockTime(m), m)
  BY <1>2, ResetNextUnblockTimeControl DEF SameControl
<1>5. QED
  BY <1>2, <1>3, <1>4 DEF SameControl

(* A tick adds one to the tick count and changes nothing else of these. *)
Ticked(r, s) ==
  /\ r \in KType
  /\ r.cur = s.cur /\ r.prio = s.prio /\ r.base = s.base
  /\ r.tick = (s.tick + 1) % TickMod /\ r.pended = s.pended /\ r.depth = s.depth
  /\ r.dying = s.dying /\ r.count = s.count /\ r.cleanup = s.cleanup

LEMMA AdvanceTickControl ==
  ASSUME NEW s \in KType
  PROVE  Ticked(AdvanceTick(s), s)
<1> DEFINE m == [s EXCEPT !.tick = (@ + 1) % TickMod]
<1>1. (s.tick + 1) % TickMod \in Tick
  BY Constants DEF KType, Tick
<1>2. Ticked(m, s)
  BY <1>1 DEF Ticked, KType
<1>3. AdvanceTick(s) = IF m.tick = 0 THEN SwitchDelayedLists(m) ELSE m
  BY DEF AdvanceTick
<1> HIDE DEF m
<1>4. SameControl(SwitchDelayedLists(m), m)
  BY <1>2, SwitchDelayedListsControl DEF Ticked
<1>5. QED
  BY <1>2, <1>3, <1>4 DEF Ticked, SameControl

LEMMA IncrementTickControl ==
  ASSUME NEW s \in KType
  PROVE  Ticked(IncrementTick(s), s)
<1> DEFINE m == AdvanceTick(s)
           d == DueTasks(m)
           w == MakeReady(m, d)
<1>1. Ticked(m, s)
  BY AdvanceTickControl
<1>2. IncrementTick(s) = IF m.tick >= m.next THEN ResetNextUnblockTime(w) ELSE m
  BY DEF IncrementTick, WakeDueTasks
<1>3. d \in SUBSET Task
  BY <1>1 DEF DueTasks, Ticked, KType
<1> HIDE DEF m, d
<1>4. SameControl(w, m)
  BY <1>1, <1>3, MakeReadyControl DEF Ticked
<1> HIDE DEF w
<1>5. SameControl(ResetNextUnblockTime(w), w)
  BY <1>4, ResetNextUnblockTimeControl DEF SameControl
<1>6. QED
  BY <1>1, <1>2, <1>4, <1>5 DEF Ticked, SameControl

LEMMA SuspendAllControl ==
  ASSUME NEW s \in KType
  PROVE  /\ SuspendAll(s) \in KType
         /\ SuspendAll(s) = [s EXCEPT !.depth = s.depth + 1]
<1>1. s.depth + 1 \in Nat
  BY DEF KType
<1>2. SuspendAll(s) = [s EXCEPT !.depth = s.depth + 1]
  BY DEF SuspendAll
<1>3. QED
  BY <1>1, <1>2 DEF KType

LEMMA DrainPendingControl ==
  ASSUME NEW s \in KType, s.depth > 0
  PROVE  LET r == DrainPending(s)
         IN  /\ r \in KType /\ r.depth = s.depth - 1
             /\ r.cur = s.cur /\ r.prio = s.prio /\ r.base = s.base
             /\ r.tick = s.tick /\ r.pended = s.pended
             /\ r.dying = s.dying /\ r.count = s.count /\ r.cleanup = s.cleanup
<1> DEFINE down == [s EXCEPT !.depth = @ - 1]
           m == MakeReady(down, s.pending)
           n == ResetNextUnblockTime(m)
           y == Preempts(s, s.pending)
<1>1. /\ down \in KType /\ down.depth = s.depth - 1
      /\ down.cur = s.cur /\ down.prio = s.prio /\ down.base = s.base
      /\ down.tick = s.tick /\ down.pended = s.pended
      /\ down.dying = s.dying /\ down.count = s.count /\ down.cleanup = s.cleanup
  <2>1. s.depth - 1 \in Nat
    BY DEF KType
  <2>2. QED
    BY <2>1 DEF KType
<1>2. DrainPending(s) = IF down.depth = 0 /\ s.pending # {}
                          THEN [n EXCEPT !.yieldPending = n.yieldPending \/ y]
                          ELSE down
  BY DEF DrainPending
<1>3. s.pending \in SUBSET Task /\ y \in BOOLEAN
  BY DEF KType, Preempts
<1> HIDE DEF down, y
<1>4. SameControl(m, down)
  BY <1>1, <1>3, MakeReadyControl
<1> HIDE DEF m
<1>5. SameControl(n, m)
  BY <1>4, ResetNextUnblockTimeControl DEF SameControl
<1>6. SameControl(n, down)
  BY <1>4, <1>5 DEF SameControl
<1>7. (n.yieldPending \/ y) \in BOOLEAN
  BY <1>6 DEF SameControl, KType
<1>8. SameControl([n EXCEPT !.yieldPending = n.yieldPending \/ y], down)
  <2> HIDE DEF n
  <2>1. QED
    BY <1>6, <1>7, YieldPendingControl
<1>9. QED
  BY <1>1, <1>2, <1>8 DEF SameControl

LEMMA CatchUpTickControl ==
  ASSUME NEW s \in KType, s.pended > 0
  PROVE  LET r == CatchUpTick(s)
         IN  /\ r \in KType /\ r.pended = s.pended - 1
             /\ r.tick = (s.tick + 1) % TickMod /\ r.depth = s.depth
             /\ r.cur = s.cur /\ r.prio = s.prio /\ r.base = s.base
             /\ r.dying = s.dying /\ r.count = s.count /\ r.cleanup = s.cleanup
<1> DEFINE i == IncrementTick(s)
           y == TickWantsSwitch(s)
<1>1. Ticked(i, s)
  BY IncrementTickControl
<1>2. CatchUpTick(s) = [i EXCEPT !.pended = i.pended - 1,
                                 !.yieldPending = i.yieldPending \/ y]
  BY DEF CatchUpTick
<1> HIDE DEF i, y
<1>3. (i.yieldPending \/ y) \in BOOLEAN /\ i.pended - 1 \in Nat
  BY <1>1 DEF Ticked, KType
<1>4. QED
  BY <1>1, <1>2, <1>3 DEF Ticked, KType

(* A yield changes the running task only, and only with the scheduler      *)
(* running.                                                                *)
LEMMA YieldIfControl ==
  ASSUME NEW s \in KType, NEW w \in BOOLEAN, NEW r \in YieldIf(w, s)
  PROVE  /\ r \in KType
         /\ r = [s EXCEPT !.yieldPending = r.yieldPending, !.cur = r.cur]
         /\ s.depth # 0 => r.cur = s.cur
<1>1. CASE w
  BY <1>1, SwitchContextControl DEF YieldIf
<1>2. CASE ~ w
  <2>1. r = s
    BY <1>2 DEF YieldIf
  <2>2. QED
    BY <2>1 DEF KType
<1>3. QED
  BY <1>1, <1>2

-----------------------------------------------------------------------------
(* What the operators do to the lists.                                     *)

ItemsOK(s) == ListsOK(s) /\ EventItemsConsistent(s) /\ EventListsOrdered(s)

Good(s) == ItemsOK(s) /\ TimesConsistent(s)

-----------------------------------------------------------------------------
(* Records whose lists are the same. *)

SameItems(r, s) ==
  /\ r \in KType
  /\ r.prio = s.prio /\ r.ready = s.ready /\ r.top = s.top
  /\ r.delayed = s.delayed /\ r.overflow = s.overflow
  /\ r.suspended = s.suspended /\ r.dying = s.dying
  /\ r.pending = s.pending /\ r.waiting = s.waiting /\ r.before = s.before
  /\ s.depth > 0 => r.depth > 0

SameTimes(r, s) ==
  /\ r.delayed = s.delayed /\ r.overflow = s.overflow /\ r.wake = s.wake
  /\ r.tick = s.tick /\ r.next = s.next

SameLists(r, s) == SameItems(r, s) /\ SameTimes(r, s)

LEMMA SameItemsOK ==
  ASSUME NEW s, NEW r, ItemsOK(s), SameItems(r, s)
  PROVE  /\ ItemsOK(r) /\ Listed(r) = Listed(s) /\ ReadyTasks(r) = ReadyTasks(s)
         /\ Waiters(r) = Waiters(s)
<1>1. /\ ReadyTasks(r) = ReadyTasks(s) /\ Waiters(r) = Waiters(s)
      /\ Listed(r) = Listed(s)
  BY DEF SameItems, ReadyTasks, Waiters, Listed, StateLists
<1>2. ListsOK(r)
  BY <1>1 DEF ItemsOK, SameItems, ListsOK, OnOneListOnly, ReadyAtPriority, TopIsExact
<1>3. EventItemsConsistent(r)
  BY <1>1 DEF ItemsOK, SameItems, EventItemsConsistent
<1>4. EventListsOrdered(r)
  BY DEF ItemsOK, SameItems, EventListsOrdered
<1>5. QED
  BY <1>1, <1>2, <1>3, <1>4 DEF ItemsOK

LEMMA SameListsGood ==
  ASSUME NEW s, NEW r, Good(s), SameLists(r, s)
  PROVE  /\ Good(r) /\ Listed(r) = Listed(s) /\ ReadyTasks(r) = ReadyTasks(s)
         /\ Waiters(r) = Waiters(s)
<1>1. TimesConsistent(r)
  BY DEF Good, SameLists, SameTimes, TimesConsistent
<1>2. QED
  BY <1>1, SameItemsOK DEF Good, SameLists

-----------------------------------------------------------------------------
(* The order of the event lists. *)

(* The tasks of S have left the event lists. *)
Restricted(r, s, S) ==
  /\ r.waiting = [o \in Object |-> s.waiting[o] \ S]
  /\ r.before = {e \in s.before : e[1] \notin S /\ e[2] \notin S}

LEMMA RestrictedOrder ==
  ASSUME NEW s, NEW r, NEW S, EventListsOrdered(s), Restricted(r, s, S),
         s.before \in SUBSET (Task \X Task)
  PROVE  EventListsOrdered(r)
<1>1. \A o \in Object : \A t : t \in r.waiting[o] <=> t \in s.waiting[o] /\ t \notin S
  BY DEF Restricted
<1>2. \A t, u : t \notin S /\ u \notin S => (<<t, u>> \in r.before <=> <<t, u>> \in s.before)
  BY DEF Restricted
<1>3. ASSUME NEW e \in r.before
      PROVE  \E o \in Object : e[1] \in r.waiting[o] /\ e[2] \in r.waiting[o]
  <2>1. e \in s.before /\ e[1] \notin S /\ e[2] \notin S
    BY DEF Restricted
  <2>2. PICK o \in Object : e[1] \in s.waiting[o] /\ e[2] \in s.waiting[o]
    BY <2>1 DEF EventListsOrdered
  <2>3. QED
    BY <1>1, <2>1, <2>2
<1>4. ASSUME NEW o \in Object, NEW t \in r.waiting[o], NEW u \in r.waiting[o]
      PROVE  /\ t # u => (<<t, u>> \in r.before <=> <<u, t>> \notin r.before)
             /\ <<t, t>> \notin r.before
             /\ \A w \in r.waiting[o] :
                  <<t, u>> \in r.before /\ <<u, w>> \in r.before => <<t, w>> \in r.before
  <2>1. /\ t \in s.waiting[o] /\ u \in s.waiting[o] /\ t \notin S /\ u \notin S
        /\ \A w \in r.waiting[o] : w \in s.waiting[o] /\ w \notin S
    BY <1>1
  <2>2. /\ t # u => (<<t, u>> \in s.before <=> <<u, t>> \notin s.before)
        /\ <<t, t>> \notin s.before
        /\ \A w \in s.waiting[o] :
             <<t, u>> \in s.before /\ <<u, w>> \in s.before => <<t, w>> \in s.before
    BY <2>1 DEF EventListsOrdered
  <2>3. QED
    BY <1>2, <2>1, <2>2
<1>5. QED
  BY <1>3, <1>4 DEF EventListsOrdered

-----------------------------------------------------------------------------
(* Leaving lists, and becoming ready. *)

LEMMA MakeReadyItems ==
  ASSUME NEW s, ItemsOK(s), NEW S \in SUBSET Task, S \cap s.dying = {}
  PROVE  /\ ItemsOK(MakeReady(s, S))
         /\ ReadyTasks(MakeReady(s, S)) = ReadyTasks(s) \cup S
         /\ Listed(MakeReady(s, S)) = Listed(s) \cup S
         /\ Waiters(MakeReady(s, S)) = Waiters(s) \ S
         /\ TimesConsistent(s) => TimesConsistent(MakeReady(s, S))
<1> DEFINE r == MakeReady(s, S)
<1>1. /\ s \in KType /\ ListsOK(s) /\ EventItemsConsistent(s) /\ EventListsOrdered(s)
      /\ s.before \in SUBSET (Task \X Task)
  BY DEF ItemsOK, ListsOK, KType
<1>2. /\ r.delayed = s.delayed \ S /\ r.overflow = s.overflow \ S
      /\ r.suspended = s.suspended \ S
      /\ r.wake = Forget(s.wake, S)
      /\ r.waiting = [o \in Object |-> s.waiting[o] \ S]
      /\ r.pending = s.pending \ S
      /\ r.tick = s.tick /\ r.next = s.next /\ r.depth = s.depth
  BY <1>1, MakeReadyFields
<1>3. /\ ListsOK(r) /\ ReadyTasks(r) = ReadyTasks(s) \cup S
      /\ Listed(r) = Listed(s) \cup S
  BY <1>1, MakeReadyLists
<1>4. Restricted(r, s, S)
  BY <1>1 DEF Restricted, MakeReady, OffEventLists, KType
<1> HIDE DEF r
<1>5. EventListsOrdered(r)
  BY <1>1, <1>4, RestrictedOrder
<1>6. Waiters(r) = Waiters(s) \ S
  BY <1>2, WaitersElements
<1>7. EventItemsConsistent(r)
  BY <1>1, <1>2, <1>6 DEF EventItemsConsistent
<1>8. TimesConsistent(s) => TimesConsistent(r)
  <2>1. \A t \in Task : t \notin S => r.wake[t] = s.wake[t]
    BY <1>2 DEF Forget
  <2>2. r.delayed \subseteq Task /\ r.overflow \subseteq Task
    BY <1>1, <1>2 DEF KType
  <2>3. QED
    BY <1>2, <2>1, <2>2 DEF TimesConsistent
<1>9. QED
  BY <1>3, <1>5, <1>6, <1>7, <1>8 DEF r, ItemsOK

LEMMA TakenOffItems ==
  ASSUME NEW s, ItemsOK(s), NEW t \in Task
  PROVE  /\ ItemsOK(TakenOff(s, t))
         /\ ReadyTasks(TakenOff(s, t)) = ReadyTasks(s) \ {t}
         /\ Listed(TakenOff(s, t)) = Listed(s) \ {t}
         /\ Waiters(TakenOff(s, t)) = Waiters(s) \ {t}
         /\ TakenOff(s, t).top \subseteq s.top
         /\ TimesConsistent(s) => TimesConsistent(TakenOff(s, t))
<1> DEFINE r == TakenOff(s, t)
<1>1. /\ s \in KType /\ ListsOK(s) /\ EventItemsConsistent(s) /\ EventListsOrdered(s)
      /\ s.before \in SUBSET (Task \X Task)
  BY DEF ItemsOK, ListsOK, KType
<1>2. /\ r.delayed = s.delayed \ {t} /\ r.overflow = s.overflow \ {t}
      /\ r.suspended = s.suspended \ {t}
      /\ r.wake = Forget(s.wake, {t})
      /\ r.waiting = [o \in Object |-> s.waiting[o] \ {t}]
      /\ r.pending = s.pending \ {t}
      /\ r.tick = s.tick /\ r.next = s.next /\ r.depth = s.depth
  BY <1>1, TakenOffFields
<1>3. /\ ListsOK(r) /\ ReadyTasks(r) = ReadyTasks(s) \ {t}
      /\ Listed(r) = Listed(s) \ {t} /\ r.top \subseteq s.top
  BY <1>1, TakenOffLists
<1>4. Restricted(r, s, {t})
  BY <1>1 DEF Restricted, TakenOff, ResetReadyPriority, OffEventLists, OffStateList, KType
<1> HIDE DEF r
<1>5. EventListsOrdered(r)
  BY <1>1, <1>4, RestrictedOrder
<1>6. Waiters(r) = Waiters(s) \ {t}
  BY <1>2, WaitersElements
<1>7. EventItemsConsistent(r)
  BY <1>1, <1>2, <1>6 DEF EventItemsConsistent
<1>8. TimesConsistent(s) => TimesConsistent(r)
  <2>1. \A u \in Task : u # t => r.wake[u] = s.wake[u]
    BY <1>2 DEF Forget
  <2>2. r.delayed \subseteq Task /\ r.overflow \subseteq Task
    BY <1>1, <1>2 DEF KType
  <2>3. QED
    BY <1>2, <2>1, <2>2 DEF TimesConsistent
<1>9. QED
  BY <1>3, <1>5, <1>6, <1>7, <1>8 DEF r, ItemsOK

(* prvResetNextTaskUnblockTime makes the next unblock time right, whatever *)
(* it was.                                                                 *)
LEMMA ResetNextGood ==
  ASSUME NEW s, ItemsOK(s),
         \A t \in s.delayed : s.tick < s.wake[t],
         \A t \in s.overflow : s.wake[t] < s.tick
  PROVE  LET r == ResetNextUnblockTime(s)
         IN  /\ Good(r) /\ SameItems(r, s) /\ SameControl(r, s)
             /\ r.wake = s.wake /\ r.yieldPending = s.yieldPending
<1> DEFINE r == ResetNextUnblockTime(s)
<1>1. s \in KType
  BY DEF ItemsOK, ListsOK
<1>2. /\ r \in KType /\ r = [s EXCEPT !.next = r.next]
      /\ s.delayed # {} => r.next = EarliestWake(s)
  BY <1>1, ResetNextUnblockTimeFields
<1> HIDE DEF r
<1>3. SameItems(r, s) /\ r.wake = s.wake /\ r.tick = s.tick /\ r.yieldPending = s.yieldPending
  BY <1>1, <1>2 DEF SameItems, KType
<1>4. TimesConsistent(r)
  <2>1. \A t \in s.delayed : r.next <= s.wake[t]
    BY <1>1, <1>2, EarliestWakeIsLeast
  <2>2. QED
    BY <1>3, <2>1 DEF TimesConsistent, SameItems
<1>5. SameControl(r, s)
  BY <1>1, ResetNextUnblockTimeControl DEF r
<1>6. QED
  BY <1>3, <1>4, <1>5, SameItemsOK DEF Good, r

LEMMA ResetNextKeeps ==
  ASSUME NEW s, Good(s)
  PROVE  LET r == ResetNextUnblockTime(s)
         IN  /\ Good(r) /\ SameItems(r, s) /\ SameControl(r, s)
             /\ r.wake = s.wake /\ r.yieldPending = s.yieldPending
BY ResetNextGood DEF Good, TimesConsistent

(* A task whose state item is on no list joins its ready list. *)
LEMMA AddToReadyListItems ==
  ASSUME NEW s, Good(s), NEW t \in Task, t \notin Listed(s)
  PROVE  /\ Good(AddToReadyList(s, t))
         /\ ReadyTasks(AddToReadyList(s, t)) = ReadyTasks(s) \cup {t}
         /\ Listed(AddToReadyList(s, t)) = Listed(s) \cup {t}
<1> DEFINE r == AddToReadyList(s, t)
<1>1. /\ s \in KType /\ ListsOK(s) /\ EventItemsConsistent(s) /\ EventListsOrdered(s)
      /\ TimesConsistent(s) /\ s.prio[t] \in Prio
  BY DEF Good, ItemsOK, ListsOK, KType
<1>2. /\ r \in KType
      /\ r.ready = [s.ready EXCEPT ![s.prio[t]] = @ \cup {t}]
      /\ r.top = s.top \cup {s.prio[t]} /\ r.prio = s.prio
      /\ r.delayed = s.delayed /\ r.overflow = s.overflow
      /\ r.suspended = s.suspended /\ r.dying = s.dying /\ r.wake = s.wake
      /\ r.pending = s.pending /\ r.waiting = s.waiting /\ r.before = s.before
      /\ r.tick = s.tick /\ r.next = s.next /\ r.depth = s.depth
  BY <1>1, AddToReadyListFields
<1> HIDE DEF r
<1>3. /\ s.ready \in [Prio -> SUBSET Task]
      /\ \A p \in Prio : r.ready[p] = IF p = s.prio[t] THEN s.ready[p] \cup {t} ELSE s.ready[p]
  BY <1>1, <1>2 DEF KType
<1>4. ReadyTasks(r) = ReadyTasks(s) \cup {t}
  <2>1. t \in r.ready[s.prio[t]]
    BY <1>1, <1>3
  <2>2. \A u : u # t => \A p \in Prio : u \in r.ready[p] <=> u \in s.ready[p]
    BY <1>3
  <2>3. \A u : u # t => (u \in ReadyTasks(r) <=> u \in ReadyTasks(s))
    BY <2>2, ReadyTasksElements
  <2>4. t \in ReadyTasks(r)
    BY <1>1, <2>1, ReadyTasksElements
  <2>5. QED
    BY <2>3, <2>4
<1>5. Listed(r) = Listed(s) \cup {t}
  BY <1>2, <1>4, ListedElements
<1>6. OnOneListOnly(r)
  <2>1. t \notin s.delayed \cup s.overflow \cup s.suspended \cup s.dying
    BY ListedElements
  <2>2. QED
    BY <1>1, <1>2, <1>4, <2>1 DEF ListsOK, OnOneListOnly
<1>7. ReadyAtPriority(r) /\ TopIsExact(r)
  BY <1>1, <1>2, <1>3 DEF ListsOK, ReadyAtPriority, TopIsExact
<1>8. EventItemsConsistent(r) /\ EventListsOrdered(r) /\ TimesConsistent(r)
  <2>1. Waiters(r) = Waiters(s)
    BY <1>2 DEF Waiters
  <2>2. QED
    BY <1>1, <1>2, <2>1 DEF EventItemsConsistent, EventListsOrdered, TimesConsistent
<1>9. QED
  BY <1>2, <1>4, <1>5, <1>6, <1>7, <1>8 DEF r, Good, ItemsOK, ListsOK

(* The idle task takes a task off the termination list. *)
LEMMA OffDyingItems ==
  ASSUME NEW s, Good(s), NEW t \in s.dying
  PROVE  LET r == OffStateList(s, t)
         IN  /\ Good(r) /\ Listed(r) = Listed(s) \ {t} /\ ReadyTasks(r) = ReadyTasks(s)
             /\ r.top = s.top
<1> DEFINE r == OffStateList(s, t)
<1>1. /\ s \in KType /\ t \in Task /\ ListsOK(s) /\ EventItemsConsistent(s)
      /\ EventListsOrdered(s) /\ TimesConsistent(s)
  BY DEF Good, ItemsOK, ListsOK, KType
<1>2. t \notin ReadyTasks(s) \cup s.delayed \cup s.overflow \cup s.suspended
  BY <1>1 DEF ListsOK, OnOneListOnly
<1>3. /\ r \in KType
      /\ r.ready = [p \in Prio |-> s.ready[p] \ {t}]
      /\ r.delayed = s.delayed \ {t} /\ r.overflow = s.overflow \ {t}
      /\ r.suspended = s.suspended \ {t} /\ r.dying = s.dying \ {t}
      /\ r.wake = Forget(s.wake, {t}) /\ r.prio = s.prio /\ r.top = s.top
      /\ r.pending = s.pending /\ r.waiting = s.waiting /\ r.before = s.before
      /\ r.tick = s.tick /\ r.next = s.next /\ r.depth = s.depth
  BY <1>1, OffStateListFields
<1> HIDE DEF r
<1>4. r.delayed = s.delayed /\ r.overflow = s.overflow /\ r.suspended = s.suspended
  BY <1>2, <1>3
<1>5. r.ready = s.ready
  <2>1. \A p \in Prio : t \notin s.ready[p]
    BY <1>2, ReadyTasksElements
  <2>2. s.ready \in [Prio -> SUBSET Task]
    BY <1>1 DEF KType
  <2>3. \A p \in Prio : r.ready[p] = s.ready[p]
    BY <1>3, <2>1
  <2>4. QED
    BY <1>3, <2>2, <2>3
<1>6. ReadyTasks(r) = ReadyTasks(s) /\ Listed(r) = Listed(s) \ {t}
  <2>1. ReadyTasks(r) = ReadyTasks(s)
    BY <1>5 DEF ReadyTasks
  <2>2. QED
    BY <1>2, <1>3, <1>4, <2>1, ListedElements
<1>7. ListsOK(r)
  BY <1>1, <1>3, <1>4, <1>5, <1>6 DEF ListsOK, OnOneListOnly, ReadyAtPriority, TopIsExact
<1>8. EventItemsConsistent(r) /\ EventListsOrdered(r)
  <2>1. Waiters(r) = Waiters(s)
    BY <1>3 DEF Waiters
  <2>2. QED
    BY <1>1, <1>3, <1>4, <2>1 DEF EventItemsConsistent, EventListsOrdered
<1>9. TimesConsistent(r)
  <2>1. \A u \in Task : u # t => r.wake[u] = s.wake[u]
    BY <1>3 DEF Forget
  <2>2. s.delayed \subseteq Task /\ s.overflow \subseteq Task
    BY <1>1 DEF KType
  <2>3. QED
    BY <1>1, <1>2, <1>3, <1>4, <2>1, <2>2 DEF TimesConsistent
<1>10. QED
  BY <1>3, <1>6, <1>7, <1>8, <1>9 DEF r, Good, ItemsOK

(* xTaskAbortDelay takes a blocked task off all its lists. *)
LEMMA OffBlockedItems ==
  ASSUME NEW s, Good(s), NEW t \in s.delayed \cup s.overflow \cup s.suspended
  PROVE  LET r == OffEventLists(OffStateList(s, t), {t})
         IN  /\ Good(r) /\ Listed(r) = Listed(s) \ {t} /\ ReadyTasks(r) = ReadyTasks(s)
             /\ r.top = s.top /\ r.yieldPending = s.yieldPending
<1> DEFINE m == OffStateList(s, t)
           r == OffEventLists(m, {t})
<1>1. /\ s \in KType /\ t \in Task /\ ListsOK(s) /\ EventItemsConsistent(s)
      /\ EventListsOrdered(s) /\ TimesConsistent(s) /\ s.before \in SUBSET (Task \X Task)
  BY DEF Good, ItemsOK, ListsOK, KType
<1>2. t \notin ReadyTasks(s) \cup s.dying
  BY <1>1 DEF ListsOK, OnOneListOnly
<1>3. /\ m \in KType
      /\ m.ready = [p \in Prio |-> s.ready[p] \ {t}]
      /\ m.delayed = s.delayed \ {t} /\ m.overflow = s.overflow \ {t}
      /\ m.suspended = s.suspended \ {t} /\ m.dying = s.dying \ {t}
      /\ m.wake = Forget(s.wake, {t}) /\ m.prio = s.prio /\ m.top = s.top
      /\ m.pending = s.pending /\ m.waiting = s.waiting /\ m.before = s.before
      /\ m.tick = s.tick /\ m.next = s.next /\ m.depth = s.depth
      /\ m.yieldPending = s.yieldPending
  BY <1>1, OffStateListFields
<1> HIDE DEF m
<1>4. /\ r \in KType /\ r.ready = m.ready /\ r.delayed = m.delayed
      /\ r.overflow = m.overflow /\ r.suspended = m.suspended /\ r.dying = m.dying
      /\ r.wake = m.wake /\ r.prio = m.prio /\ r.top = m.top
      /\ r.pending = m.pending \ {t}
      /\ r.waiting = [o \in Object |-> m.waiting[o] \ {t}]
      /\ r.tick = m.tick /\ r.next = m.next /\ r.depth = m.depth
      /\ r.yieldPending = m.yieldPending
  <2>1. {t} \in SUBSET Task
    BY <1>1
  <2>2. QED
    BY <1>3, <2>1, OffEventListsFields
<1>5. Restricted(r, s, {t})
  BY <1>3 DEF Restricted, OffEventLists, KType
<1> HIDE DEF r
<1>6. r.ready = s.ready
  <2>1. \A p \in Prio : t \notin s.ready[p]
    BY <1>2, ReadyTasksElements
  <2>2. s.ready \in [Prio -> SUBSET Task]
    BY <1>1 DEF KType
  <2>3. \A p \in Prio : r.ready[p] = s.ready[p]
    BY <1>3, <1>4, <2>1
  <2>4. r.ready \in [Prio -> SUBSET Task]
    BY <1>4 DEF KType
  <2>5. QED
    BY <2>2, <2>3, <2>4
<1>7. ReadyTasks(r) = ReadyTasks(s) /\ Listed(r) = Listed(s) \ {t}
  <2>1. ReadyTasks(r) = ReadyTasks(s)
    BY <1>6 DEF ReadyTasks
  <2>2. QED
    BY <1>2, <1>3, <1>4, <2>1, ListedElements
<1>8. ListsOK(r)
  BY <1>1, <1>3, <1>4, <1>6, <1>7 DEF ListsOK, OnOneListOnly, ReadyAtPriority, TopIsExact
<1>9. EventItemsConsistent(r) /\ EventListsOrdered(r)
  <2>1. Waiters(r) = Waiters(s) \ {t}
    BY <1>3, <1>4, WaitersElements
  <2>2. EventItemsConsistent(r)
    BY <1>1, <1>3, <1>4, <2>1 DEF EventItemsConsistent
  <2>3. QED
    BY <1>1, <1>5, <2>2, RestrictedOrder
<1>10. TimesConsistent(r)
  <2>1. \A u \in Task : u # t => r.wake[u] = s.wake[u]
    BY <1>3, <1>4 DEF Forget
  <2>2. s.delayed \subseteq Task /\ s.overflow \subseteq Task
    BY <1>1 DEF KType
  <2>3. QED
    BY <1>1, <1>3, <1>4, <2>1, <2>2 DEF TimesConsistent
<1>11. QED
  BY <1>3, <1>4, <1>7, <1>8, <1>9, <1>10 DEF m, r, Good, ItemsOK

-----------------------------------------------------------------------------
(* Blocking. *)

(* The running task of s has left its ready list and joined the list of    *)
(* its wake time w, or that of the suspended tasks.                        *)
Blocks(r, s, w) ==
  LET t == s.cur
  IN  /\ r \in KType
      /\ r.ready = [p \in Prio |-> s.ready[p] \ {t}]
      /\ r.top = IF AloneOnList(s, t) THEN s.top \ {s.prio[t]} ELSE s.top
      /\ r.dying = s.dying /\ r.prio = s.prio
      /\ r.pending = s.pending /\ r.waiting = s.waiting /\ r.before = s.before
      /\ r.tick = s.tick /\ r.depth = s.depth /\ r.yieldPending = s.yieldPending
      /\ \A u \in Task \ {t} : r.wake[u] = s.wake[u]
      /\ \/ /\ r.delayed = s.delayed \ {t} /\ r.overflow = s.overflow \ {t}
            /\ r.suspended = s.suspended \cup {t} /\ r.next = s.next
         \/ /\ w < s.tick /\ r.wake[t] = w
            /\ r.delayed = s.delayed \ {t} /\ r.overflow = s.overflow \cup {t}
            /\ r.suspended = s.suspended \ {t} /\ r.next = s.next
         \/ /\ ~(w < s.tick) /\ r.wake[t] = w
            /\ r.delayed = s.delayed \cup {t} /\ r.overflow = s.overflow \ {t}
            /\ r.suspended = s.suspended \ {t}
            /\ r.next = IF w < s.next THEN w ELSE s.next

LEMMA AddCurrentToDelayedListFields ==
  ASSUME NEW s \in KType, NEW n \in Tick, NEW i \in BOOLEAN, s.cur \notin s.dying
  PROVE  Blocks(AddCurrentToDelayedList(s, n, i), s, (s.tick + n) % TickMod)
<1> DEFINE r == AddCurrentToDelayedList(s, n, i)
           t == s.cur
           w == (s.tick + n) % TickMod
           o == OffStateList(s, t)
           T == IF AloneOnList(s, t) THEN o.top \ {s.prio[t]} ELSE o.top
           A == o.aborted \ {t}
           free == [o EXCEPT !.aborted = A, !.top = T]
<1>1. /\ SameControl(r, s)
      /\ t \in Task /\ w \in Tick
  BY AddCurrentToDelayedListControl, Constants DEF KType, Tick
<1>2. /\ o \in KType
      /\ o.ready = [p \in Prio |-> s.ready[p] \ {t}]
      /\ o.delayed = s.delayed \ {t} /\ o.overflow = s.overflow \ {t}
      /\ o.suspended = s.suspended \ {t}
      /\ o.wake = Forget(s.wake, {t}) /\ o.top = s.top
      /\ o.pending = s.pending /\ o.waiting = s.waiting /\ o.before = s.before
      /\ o.next = s.next /\ o.yieldPending = s.yieldPending
  BY <1>1, OffStateListFields
<1>3. r = IF n = MaxDelay /\ i
            THEN [free EXCEPT !.suspended = @ \cup {t}]
            ELSE IF w < s.tick
              THEN [free EXCEPT !.wake[t] = w, !.overflow = @ \cup {t}]
              ELSE [free EXCEPT !.wake[t] = w, !.delayed = @ \cup {t},
                                !.next = IF w < @ THEN w ELSE @]
  BY DEF AddCurrentToDelayedList
<1>4. T = IF AloneOnList(s, t) THEN s.top \ {s.prio[t]} ELSE s.top
  BY <1>2
<1>5. /\ o.wake \in [Task -> Tick]
      /\ \A u \in Task \ {t} : o.wake[u] = s.wake[u]
  BY <1>2 DEF KType, Forget
<1> HIDE DEF o, r, T, A, t
<1>6. /\ r.ready = o.ready /\ r.top = T /\ r.pending = o.pending
      /\ r.waiting = o.waiting /\ r.before = o.before
      /\ r.yieldPending = o.yieldPending
  BY <1>2, <1>3 DEF KType
<1>7. CASE n = MaxDelay /\ i
  <2>1. r = [free EXCEPT !.suspended = free.suspended \cup {t}]
    BY <1>3, <1>7
  <2>2. /\ r.delayed = o.delayed /\ r.overflow = o.overflow
        /\ r.suspended = o.suspended \cup {t} /\ r.next = o.next /\ r.wake = o.wake
    BY <1>2, <2>1 DEF KType
  <2>3. r.suspended = s.suspended \cup {t}
    BY <1>2, <2>2
  <2>4. QED
    BY <1>1, <1>2, <1>4, <1>5, <1>6, <2>2, <2>3 DEF SameControl, Blocks, r, t
<1>8. CASE ~(n = MaxDelay /\ i) /\ w < s.tick
  <2>1. r = [free EXCEPT !.wake[t] = w, !.overflow = free.overflow \cup {t}]
    BY <1>3, <1>8
  <2>2. /\ r.delayed = o.delayed /\ r.overflow = o.overflow \cup {t}
        /\ r.suspended = o.suspended /\ r.next = o.next
        /\ r.wake = [o.wake EXCEPT ![t] = w]
    BY <1>2, <2>1 DEF KType
  <2>3. /\ r.overflow = s.overflow \cup {t} /\ r.wake[t] = w
        /\ \A u \in Task \ {t} : r.wake[u] = s.wake[u]
    BY <1>1, <1>2, <1>5, <2>2
  <2>4. QED
    BY <1>1, <1>2, <1>4, <1>6, <1>8, <2>2, <2>3 DEF SameControl, Blocks, r, t
<1>9. CASE ~(n = MaxDelay /\ i) /\ ~(w < s.tick)
  <2>1. r = [free EXCEPT !.wake[t] = w, !.delayed = free.delayed \cup {t},
                         !.next = IF w < free.next THEN w ELSE free.next]
    BY <1>3, <1>9
  <2>2. /\ r.delayed = o.delayed \cup {t} /\ r.overflow = o.overflow
        /\ r.suspended = o.suspended /\ r.next = IF w < o.next THEN w ELSE o.next
        /\ r.wake = [o.wake EXCEPT ![t] = w]
    BY <1>2, <2>1 DEF KType
  <2>3. /\ r.delayed = s.delayed \cup {t} /\ r.wake[t] = w
        /\ \A u \in Task \ {t} : r.wake[u] = s.wake[u]
    BY <1>1, <1>2, <1>5, <2>2
  <2>4. QED
    BY <1>1, <1>2, <1>4, <1>6, <1>9, <2>2, <2>3 DEF SameControl, Blocks, r, t
<1>10. QED
  BY <1>7, <1>8, <1>9

(* What is true of the event items while the running task blocks: its own  *)
(* may already be on an event list.                                        *)
BlockingItems(s) ==
  /\ \A o \in Object : s.waiting[o] \cap s.pending = {}
  /\ \A o, q \in Object : o # q => s.waiting[o] \cap s.waiting[q] = {}
  /\ (Waiters(s) \cup s.pending) \ {s.cur}
        \subseteq s.delayed \cup s.overflow \cup s.suspended
  /\ s.pending # {} => s.depth > 0
  /\ EventListsOrdered(s)

(* The running task blocks: it leaves its ready list, the bit of an empty  *)
(* list is cleared, and its wake time is still to come.                    *)
LEMMA AddCurrentToDelayedListGood ==
  ASSUME NEW s, ListsOK(s), TimesConsistent(s), BlockingItems(s),
         s.cur \in ReadyTasks(s), NEW n \in Tick, NEW i \in BOOLEAN,
         (s.tick + n) % TickMod # s.tick
  PROVE  LET r == AddCurrentToDelayedList(s, n, i)
         IN  /\ Good(r) /\ Listed(r) = Listed(s)
             /\ ReadyTasks(r) = ReadyTasks(s) \ {s.cur}
             /\ r.top \subseteq s.top /\ r.yieldPending = s.yieldPending
             /\ s.cur \in r.delayed \cup r.overflow \cup r.suspended
<1> DEFINE r == AddCurrentToDelayedList(s, n, i)
           t == s.cur
           w == (s.tick + n) % TickMod
<1>1. /\ s \in KType /\ OnOneListOnly(s) /\ ReadyAtPriority(s) /\ TopIsExact(s)
      /\ t \in Task /\ w \in Tick /\ w \in Nat /\ s.tick \in Nat /\ s.next \in Nat
      /\ w # s.tick
  BY Constants DEF ListsOK, KType, Tick
<1>2. t \notin s.delayed \cup s.overflow \cup s.suspended \cup s.dying
  BY <1>1 DEF OnOneListOnly
<1>3. /\ s.prio[t] \in Prio /\ t \in s.ready[s.prio[t]]
      /\ \A p \in Prio : p # s.prio[t] => t \notin s.ready[p]
  BY <1>1, ReadyAtOwnPriority DEF ReadyAtPriority
<1>4. AloneOnList(s, t) <=> s.ready[s.prio[t]] = {t}
  BY <1>2, <1>3 DEF AloneOnList, StateLists
<1>5. Blocks(r, s, w)
  BY <1>1, <1>2, AddCurrentToDelayedListFields
<1> HIDE DEF r, w
<1>6. /\ r \in KType
      /\ r.ready = [p \in Prio |-> s.ready[p] \ {t}]
      /\ r.top = IF AloneOnList(s, t) THEN s.top \ {s.prio[t]} ELSE s.top
      /\ r.dying = s.dying /\ r.prio = s.prio
      /\ r.pending = s.pending /\ r.waiting = s.waiting /\ r.before = s.before
      /\ r.tick = s.tick /\ r.depth = s.depth /\ r.yieldPending = s.yieldPending
      /\ \A u \in Task \ {t} : r.wake[u] = s.wake[u]
      /\ \/ /\ r.delayed = s.delayed \ {t} /\ r.overflow = s.overflow \ {t}
            /\ r.suspended = s.suspended \cup {t} /\ r.next = s.next
         \/ /\ w < s.tick /\ r.wake[t] = w
            /\ r.delayed = s.delayed \ {t} /\ r.overflow = s.overflow \cup {t}
            /\ r.suspended = s.suspended \ {t} /\ r.next = s.next
         \/ /\ ~(w < s.tick) /\ r.wake[t] = w
            /\ r.delayed = s.delayed \cup {t} /\ r.overflow = s.overflow \ {t}
            /\ r.suspended = s.suspended \ {t}
            /\ r.next = IF w < s.next THEN w ELSE s.next
  BY <1>5 DEF Blocks
<1>7. ReadyTasks(r) = ReadyTasks(s) \ {t}
  BY <1>6, ReadyTasksElements
<1>8. /\ r.delayed \cup r.overflow \cup r.suspended
           = s.delayed \cup s.overflow \cup s.suspended \cup {t}
      /\ r.delayed \cap r.overflow = {} /\ r.delayed \cap r.suspended = {}
      /\ r.overflow \cap r.suspended = {}
  BY <1>1, <1>2, <1>6 DEF OnOneListOnly
<1>9. OnOneListOnly(r)
  BY <1>1, <1>2, <1>6, <1>7, <1>8 DEF OnOneListOnly
<1>10. Listed(r) = Listed(s)
  BY <1>6, <1>7, <1>8, ListedElements
<1>11. ReadyAtPriority(r)
  BY <1>1, <1>6 DEF ReadyAtPriority
<1>12. TopIsExact(r)
  BY <1>1, <1>3, <1>4, <1>6 DEF TopIsExact
<1>13. EventItemsConsistent(r) /\ EventListsOrdered(r)
  <2>1. Waiters(r) = Waiters(s)
    BY <1>6 DEF Waiters
  <2>2. EventItemsConsistent(r)
    BY <1>6, <1>8, <2>1 DEF BlockingItems, EventItemsConsistent
  <2>3. QED
    BY <1>6, <2>2 DEF BlockingItems, EventListsOrdered
<1>14. TimesConsistent(r)
  <2>1. s.delayed \subseteq Task \ {t} /\ s.overflow \subseteq Task \ {t}
    BY <1>1, <1>2 DEF KType
  <2>2. \A u \in s.delayed : s.tick < r.wake[u] /\ s.next <= r.wake[u] /\ r.wake[u] \in Nat
    BY <1>1, <1>6, <2>1, Constants DEF TimesConsistent, KType, Tick
  <2>3. \A u \in s.overflow : r.wake[u] < s.tick
    BY <1>6, <2>1 DEF TimesConsistent
  <2>4. r.next \in Nat /\ r.next <= s.next
    BY <1>1, <1>6
  <2>5. ASSUME NEW u \in r.delayed
        PROVE  r.tick < r.wake[u] /\ r.next <= r.wake[u]
    <3>1. CASE u = t
      <4>1. /\ ~(w < s.tick) /\ r.wake[t] = w
            /\ r.next = IF w < s.next THEN w ELSE s.next
        BY <1>2, <1>6, <3>1
      <4>2. QED
        BY <1>1, <1>6, <3>1, <4>1
    <3>2. CASE u # t
      <4>1. u \in s.delayed
        BY <1>6, <3>2
      <4>2. QED
        BY <1>1, <1>6, <2>2, <2>4, <4>1
    <3>3. QED
      BY <3>1, <3>2
  <2>6. ASSUME NEW u \in r.overflow
        PROVE  r.wake[u] < r.tick
    BY <1>1, <1>2, <1>6, <2>3
  <2>7. QED
    BY <2>5, <2>6 DEF TimesConsistent
<1>15. QED
  BY <1>6, <1>7, <1>8, <1>9, <1>10, <1>11, <1>12, <1>13, <1>14 DEF r, Good, ItemsOK, ListsOK

(* vListInsert passes a first part of the list, so the order stays one.    *)
LEMMA InsertKeepsOrder ==
  ASSUME NEW s, s \in KType, EventListsOrdered(s), NEW o \in Object, NEW t \in Task,
         t \notin Waiters(s),
         \A p, q \in Object : p # q => s.waiting[p] \cap s.waiting[q] = {},
         NEW r, NEW passed, passed = PassedOnInsert(s, o, t),
         r.waiting = [s.waiting EXCEPT ![o] = @ \cup {t}],
         r.before = s.before \cup (passed \X {t}) \cup ({t} \X (s.waiting[o] \ passed))
  PROVE  EventListsOrdered(r)
<1> DEFINE W == s.waiting[o]
           B(x, y) == <<x, y>> \in s.before
           C(x, y) == <<x, y>> \in r.before
<1>1. /\ s.waiting \in [Object -> SUBSET Task] /\ s.before \in SUBSET (Task \X Task)
      /\ t \notin W /\ \A q \in Object : t \notin s.waiting[q]
      /\ passed \subseteq W
  BY WaitersElements DEF KType, PassedOnInsert
<1>2. /\ r.waiting[o] = W \cup {t}
      /\ \A q \in Object \ {o} : r.waiting[q] = s.waiting[q] /\ s.waiting[q] \cap W = {}
  BY <1>1
<1>3. \A x, y : C(x, y) <=> B(x, y) \/ (x \in passed /\ y = t) \/ (x = t /\ y \in W \ passed)
  OBVIOUS
<1>4. \A x, y : B(x, y) => x # t /\ y # t
  <2>1. SUFFICES ASSUME NEW x, NEW y, B(x, y)
                 PROVE  x # t /\ y # t
    OBVIOUS
  <2>2. \E q \in Object : x \in s.waiting[q] /\ y \in s.waiting[q]
    BY <2>1 DEF EventListsOrdered
  <2>3. QED
    BY <1>1, <2>2
<1>5. \A q \in Object : \A x, y \in s.waiting[q] :
        /\ x # y => (B(x, y) <=> ~B(y, x))
        /\ ~B(x, x)
        /\ \A z \in s.waiting[q] : B(x, y) /\ B(y, z) => B(x, z)
  BY DEF EventListsOrdered
<1>6. \A x, y \in W : B(x, y) /\ y \in passed => x \in passed
  <2>1. SUFFICES ASSUME NEW x \in W, NEW y \in W, B(x, y), y \in passed
                 PROVE  x \in passed
    OBVIOUS
  <2>2. \A z \in W : z = y \/ B(z, y) => s.key[z] <= s.key[t]
    BY <2>1 DEF PassedOnInsert
  <2>3. \A z \in W : z = x \/ B(z, x) => z = y \/ B(z, y)
    BY <1>5, <2>1
  <2>4. \A z \in W : z = x \/ B(z, x) => s.key[z] <= s.key[t]
    BY <2>2, <2>3
  <2>5. QED
    BY <2>4 DEF PassedOnInsert
<1> HIDE DEF W, B, C
<1>7. \A x, y \in W \cup {t} : /\ x # y => (C(x, y) <=> ~C(y, x))
                               /\ ~C(x, x)
  BY <1>1, <1>3, <1>4, <1>5 DEF W
<1>8. \A x, y, z \in W \cup {t} : C(x, y) /\ C(y, z) => C(x, z)
  <2>1. \A x, y, z \in W : B(x, y) /\ B(y, z) => B(x, z)
    BY <1>5 DEF W
  <2>2. \A x, y \in W : x # y => (B(x, y) <=> ~B(y, x))
    BY <1>5 DEF W
  <2>3. SUFFICES ASSUME NEW x \in W \cup {t}, NEW y \in W \cup {t}, NEW z \in W \cup {t},
                        C(x, y), C(y, z)
                 PROVE  C(x, z)
    OBVIOUS
  <2>4. CASE x = t
    <3>1. y \in W \ passed /\ z \in W /\ B(y, z)
      BY <1>1, <1>3, <1>4, <2>3, <2>4
    <3>2. QED
      BY <1>3, <1>6, <2>4, <3>1
  <2>5. CASE y = t
    <3>1. x \in passed /\ z \in W \ passed
      BY <1>1, <1>3, <1>4, <2>3, <2>5
    <3>2. x \in W /\ ~B(z, x) /\ x # z
      BY <1>1, <1>6, <3>1
    <3>3. QED
      BY <1>3, <2>2, <3>1, <3>2
  <2>6. CASE z = t
    <3>1. x \in W /\ y \in passed
      BY <1>1, <1>3, <1>4, <2>3, <2>6
    <3>2. B(x, y)
      BY <1>1, <1>3, <2>3, <3>1
    <3>3. QED
      BY <1>1, <1>3, <1>6, <2>6, <3>1, <3>2
  <2>7. CASE x # t /\ y # t /\ z # t
    BY <1>3, <2>1, <2>3, <2>7
  <2>8. QED
    BY <2>4, <2>5, <2>6, <2>7
<1>9. \A e \in r.before : \E q \in Object : e[1] \in r.waiting[q] /\ e[2] \in r.waiting[q]
  <2>1. SUFFICES ASSUME NEW e \in r.before
                 PROVE  \E q \in Object : e[1] \in r.waiting[q] /\ e[2] \in r.waiting[q]
    OBVIOUS
  <2>2. CASE e \in s.before
    <3>1. PICK q \in Object : e[1] \in s.waiting[q] /\ e[2] \in s.waiting[q]
      BY <2>2 DEF EventListsOrdered
    <3>2. s.waiting[q] \subseteq r.waiting[q]
      BY <1>2 DEF W
    <3>3. QED
      BY <3>1, <3>2
  <2>3. CASE e \in passed \X {t}
    BY <1>1, <1>2, <2>3
  <2>4. CASE e \in {t} \X (s.waiting[o] \ passed)
    BY <1>1, <1>2, <2>4 DEF W
  <2>5. QED
    BY <2>1, <2>2, <2>3, <2>4
<1>10. ASSUME NEW q \in Object, NEW x \in r.waiting[q], NEW y \in r.waiting[q]
       PROVE  /\ x # y => (C(x, y) <=> ~C(y, x))
              /\ ~C(x, x)
              /\ \A z \in r.waiting[q] : C(x, y) /\ C(y, z) => C(x, z)
  <2>1. CASE q = o
    BY <1>2, <1>7, <1>8, <2>1
  <2>2. CASE q # o
    <3>1. /\ r.waiting[q] = s.waiting[q] /\ s.waiting[q] \cap W = {} /\ t \notin s.waiting[q]
      BY <1>1, <1>2, <2>2
    <3>2. \A u, v \in s.waiting[q] : C(u, v) <=> B(u, v)
      BY <1>1, <1>3, <3>1
    <3>3. /\ x # y => (B(x, y) <=> ~B(y, x))
          /\ ~B(x, x)
          /\ \A z \in s.waiting[q] : B(x, y) /\ B(y, z) => B(x, z)
      BY <1>5, <3>1
    <3>4. QED
      BY <3>1, <3>2, <3>3
  <2>3. QED
    BY <2>1, <2>2
<1>11. QED
  BY <1>9, <1>10 DEF EventListsOrdered, C

(* The running task joins an event list and blocks. *)
LEMMA PlaceOnEventListGood ==
  ASSUME NEW s, Good(s), s.cur \in ReadyTasks(s), NEW o \in Object, NEW n \in Tick,
         (s.tick + n) % TickMod # s.tick
  PROVE  LET r == PlaceOnEventList(s, o, n)
         IN  /\ Good(r) /\ Listed(r) = Listed(s)
             /\ ReadyTasks(r) = ReadyTasks(s) \ {s.cur}
             /\ r.top \subseteq s.top /\ r.yieldPending = s.yieldPending
<1> DEFINE t == s.cur
           passed == PassedOnInsert(s, o, t)
           b == s.before \cup (passed \X {t}) \cup ({t} \X (s.waiting[o] \ passed))
           v == [s.waiting EXCEPT ![o] = @ \cup {t}]
           m == [s EXCEPT !.waiting = v, !.before = b]
<1>1. /\ s \in KType /\ t \in Task /\ ListsOK(s) /\ OnOneListOnly(s)
      /\ EventItemsConsistent(s) /\ EventListsOrdered(s) /\ TimesConsistent(s)
      /\ s.waiting \in [Object -> SUBSET Task] /\ s.before \in SUBSET (Task \X Task)
  BY DEF Good, ItemsOK, ListsOK, KType
<1>2. t \notin Waiters(s) /\ t \notin s.pending
  BY <1>1 DEF OnOneListOnly, EventItemsConsistent
<1>3. passed \subseteq Task /\ v \in [Object -> SUBSET Task] /\ b \in SUBSET (Task \X Task)
  <2>1. passed \subseteq Task /\ s.waiting[o] \subseteq Task
    BY <1>1 DEF PassedOnInsert
  <2> HIDE DEF passed, t
  <2>2. QED
    BY <1>1, <2>1
<1>4. PlaceOnEventList(s, o, n) = AddCurrentToDelayedList(m, n, TRUE)
  BY DEF PlaceOnEventList
<1> HIDE DEF v, b
<1>5. /\ m \in KType /\ m.waiting = v /\ m.before = b
      /\ m.cur = t /\ m.prio = s.prio /\ m.ready = s.ready /\ m.top = s.top
      /\ m.delayed = s.delayed /\ m.overflow = s.overflow
      /\ m.suspended = s.suspended /\ m.dying = s.dying /\ m.wake = s.wake
      /\ m.pending = s.pending /\ m.tick = s.tick /\ m.next = s.next
      /\ m.depth = s.depth /\ m.yieldPending = s.yieldPending
  BY <1>1, <1>3 DEF KType
<1> HIDE DEF m
<1>6. ReadyTasks(m) = ReadyTasks(s)
  BY <1>5 DEF ReadyTasks
<1>7. Listed(m) = Listed(s)
  BY <1>5, <1>6, ListedElements
<1>8. ListsOK(m) /\ TimesConsistent(m)
  BY <1>1, <1>5, <1>6 DEF ListsOK, OnOneListOnly, ReadyAtPriority, TopIsExact, TimesConsistent
<1>9. BlockingItems(m)
  <2>1. \A q \in Object : m.waiting[q] = IF q = o THEN s.waiting[q] \cup {t} ELSE s.waiting[q]
    BY <1>1, <1>5 DEF v
  <2>2. Waiters(m) = Waiters(s) \cup {t}
    <3>1. \A u : u # t => (u \in Waiters(m) <=> u \in Waiters(s))
      BY <2>1, WaitersElements
    <3>2. t \in Waiters(m)
      BY <2>1, WaitersElements
    <3>3. QED
      BY <3>1, <3>2
  <2>3. \A q \in Object : t \notin s.waiting[q]
    BY <1>2, WaitersElements
  <2>4. EventListsOrdered(m)
    <3>1. \A p, q \in Object : p # q => s.waiting[p] \cap s.waiting[q] = {}
      BY <1>1 DEF EventItemsConsistent
    <3>2. m.waiting = [s.waiting EXCEPT ![o] = @ \cup {t}]
      BY <1>5 DEF v
    <3>3. m.before = s.before \cup (passed \X {t}) \cup ({t} \X (s.waiting[o] \ passed))
      BY <1>5 DEF b
    <3> HIDE DEF passed, t
    <3>4. passed = PassedOnInsert(s, o, t)
      BY DEF passed
    <3>5. QED
      BY <1>1, <1>2, <3>1, <3>2, <3>3, <3>4, InsertKeepsOrder
  <2>5. \A q \in Object : m.waiting[q] \cap m.pending = {}
    <3>1. \A q \in Object : s.waiting[q] \cap s.pending = {}
      BY <1>1 DEF EventItemsConsistent
    <3>2. m.pending = s.pending /\ t \notin s.pending
      BY <1>2, <1>5
    <3>3. QED
      BY <2>1, <3>1, <3>2
  <2>6. \A p, q \in Object : p # q => m.waiting[p] \cap m.waiting[q] = {}
    BY <1>1, <2>1, <2>3 DEF EventItemsConsistent
  <2>7. /\ (Waiters(m) \cup m.pending) \ {m.cur}
              \subseteq m.delayed \cup m.overflow \cup m.suspended
        /\ m.pending # {} => m.depth > 0
    BY <1>1, <1>5, <2>2 DEF EventItemsConsistent
  <2>8. QED
    BY <2>4, <2>5, <2>6, <2>7 DEF BlockingItems
<1>10. m.cur \in ReadyTasks(m) /\ (m.tick + n) % TickMod # m.tick
  BY <1>5, <1>6
<1>11. LET r == AddCurrentToDelayedList(m, n, TRUE)
       IN  /\ Good(r) /\ Listed(r) = Listed(m)
           /\ ReadyTasks(r) = ReadyTasks(m) \ {m.cur}
           /\ r.top \subseteq m.top /\ r.yieldPending = m.yieldPending
  BY <1>8, <1>9, <1>10, AddCurrentToDelayedListGood
<1>12. QED
  BY <1>4, <1>5, <1>6, <1>7, <1>11

-----------------------------------------------------------------------------
(* Waking waiters, and the context switch that is owed for it. *)

(* The running task is ready, and no ready task beats it. *)
Highest(s) == s.cur \in ReadyTasks(s) /\ \A p \in s.top : p <= s.prio[s.cur]

(* Every priority of r that s does not have is one of the tasks of S. *)
TopFrom(r, s, S) == \A p \in r.top : p \in s.top \/ \E t \in S : p = s.prio[t]

LEMMA NotPreempted ==
  ASSUME NEW s \in KType, NEW r, NEW S \in SUBSET Task, TopFrom(r, s, S),
         ~Preempts(s, S)
  PROVE  \A p \in r.top : p \in s.top \/ p <= s.prio[s.cur]
<1>1. /\ s.prio[s.cur] \in Nat
      /\ \A t \in S : s.prio[t] \in Nat /\ ~(s.prio[t] > s.prio[s.cur])
  BY KernelAssumption DEF KType, Prio, Preempts
<1>2. \A t \in S : s.prio[t] <= s.prio[s.cur]
  BY <1>1
<1>3. QED
  BY <1>2 DEF TopFrom

LEMMA RemoveFromEventListGood ==
  ASSUME NEW s, Good(s), NEW S \in SUBSET Waiters(s)
  PROVE  LET r == RemoveFromEventList(s, S)
         IN  /\ Good(r) /\ Listed(r) = Listed(s)
             /\ ReadyTasks(s) \subseteq ReadyTasks(r) /\ TopFrom(r, s, S)
             /\ s.depth # 0 => ReadyTasks(r) = ReadyTasks(s) /\ r.top = s.top
             /\ r.delayed \cup r.overflow \cup r.suspended
                   \subseteq s.delayed \cup s.overflow \cup s.suspended
             /\ s.depth # 0 => r.delayed \cup r.overflow \cup r.suspended
                                 = s.delayed \cup s.overflow \cup s.suspended
             /\ r.yieldPending = (s.yieldPending \/ Preempts(s, S))
<1> DEFINE r == RemoveFromEventList(s, S)
           y == s.yieldPending \/ Preempts(s, S)
<1>1. /\ s \in KType /\ ListsOK(s) /\ OnOneListOnly(s) /\ ItemsOK(s)
      /\ EventItemsConsistent(s) /\ EventListsOrdered(s) /\ TimesConsistent(s)
      /\ s.before \in SUBSET (Task \X Task) /\ y \in BOOLEAN
      /\ s.depth \in Nat
  BY DEF Good, ItemsOK, ListsOK, KType, Preempts
<1>2. /\ S \subseteq s.delayed \cup s.overflow \cup s.suspended
      /\ S \in SUBSET Task /\ S \cap s.dying = {} /\ S \subseteq Listed(s)
  BY <1>1, ListedElements DEF EventItemsConsistent, OnOneListOnly, KType
<1>3. CASE s.depth = 0
  <2> DEFINE m == MakeReady(s, S)
  <2>1. /\ m \in KType /\ m.yieldPending = s.yieldPending
        /\ m.top = s.top \cup {s.prio[t] : t \in S}
        /\ m.delayed = s.delayed \ S /\ m.overflow = s.overflow \ S
        /\ m.suspended = s.suspended \ S
    BY <1>1, <1>2, MakeReadyFields
  <2>2. /\ ItemsOK(m) /\ TimesConsistent(m)
        /\ ReadyTasks(m) = ReadyTasks(s) \cup S
        /\ Listed(m) = Listed(s) \cup S
    BY <1>1, <1>2, MakeReadyItems
  <2>3. r = [m EXCEPT !.yieldPending = y]
    BY <1>3, <2>1 DEF RemoveFromEventList
  <2> HIDE DEF m, r, y
  <2>4. SameLists(r, m) /\ r.yieldPending = y
    BY <1>1, <2>1, <2>3 DEF SameLists, SameItems, SameTimes, KType
  <2>5. Good(r) /\ Listed(r) = Listed(m) /\ ReadyTasks(r) = ReadyTasks(m)
    BY <2>2, <2>4, SameListsGood DEF Good
  <2>6. r.top = m.top /\ r.delayed = m.delayed /\ r.overflow = m.overflow
        /\ r.suspended = m.suspended
    BY <2>4 DEF SameLists, SameItems
  <2>7. TopFrom(r, s, S)
    BY <2>1, <2>6 DEF TopFrom
  <2>8. QED
    BY <1>2, <1>3, <2>1, <2>2, <2>4, <2>5, <2>6, <2>7 DEF r, y
<1>4. CASE s.depth # 0
  <2> DEFINE m == OffEventLists(s, S)
             n == [m EXCEPT !.pending = m.pending \cup S]
  <2>1. /\ m \in KType
        /\ m.waiting = [o \in Object |-> s.waiting[o] \ S]
        /\ m.pending = s.pending \ S
        /\ m.prio = s.prio /\ m.top = s.top
        /\ m.ready = s.ready /\ m.delayed = s.delayed /\ m.overflow = s.overflow
        /\ m.suspended = s.suspended /\ m.dying = s.dying /\ m.wake = s.wake
        /\ m.tick = s.tick /\ m.next = s.next /\ m.depth = s.depth
        /\ m.yieldPending = s.yieldPending
    BY <1>1, <1>2, OffEventListsFields
  <2>2. m.before = {e \in s.before : e[1] \notin S /\ e[2] \notin S}
    BY <1>1 DEF OffEventLists, KType
  <2>3. r = [n EXCEPT !.yieldPending = y]
    <3>1. n.yieldPending = s.yieldPending
      BY <2>1
    <3>2. QED
      BY <1>4, <3>1 DEF RemoveFromEventList
  <2>4. m.pending \cup S \in SUBSET Task
    BY <1>2, <2>1 DEF KType
  <2> HIDE DEF m, r, y
  <2>5. /\ r \in KType
        /\ r.waiting = m.waiting /\ r.before = m.before /\ r.pending = m.pending \cup S
        /\ r.prio = s.prio /\ r.top = s.top
        /\ r.ready = s.ready /\ r.delayed = s.delayed /\ r.overflow = s.overflow
        /\ r.suspended = s.suspended /\ r.dying = s.dying /\ r.wake = s.wake
        /\ r.tick = s.tick /\ r.next = s.next /\ r.depth = s.depth
        /\ r.yieldPending = y
    BY <1>1, <2>1, <2>3, <2>4 DEF KType
  <2>6. ReadyTasks(r) = ReadyTasks(s)
    BY <2>5 DEF ReadyTasks
  <2>7. Listed(r) = Listed(s)
    BY <2>5, <2>6, ListedElements
  <2>8. ListsOK(r) /\ TimesConsistent(r)
    BY <1>1, <2>5, <2>6
       DEF ListsOK, OnOneListOnly, ReadyAtPriority, TopIsExact, TimesConsistent
  <2>9. Restricted(r, s, S)
    BY <2>1, <2>2, <2>5 DEF Restricted
  <2>10. Waiters(r) = Waiters(s) \ S
    BY <2>1, <2>5, WaitersElements
  <2>11. EventItemsConsistent(r)
    BY <1>1, <1>2, <1>4, <2>1, <2>5, <2>10 DEF EventItemsConsistent
  <2>12. EventListsOrdered(r)
    BY <1>1, <2>9, RestrictedOrder
  <2>13. TopFrom(r, s, S)
    BY <2>5 DEF TopFrom
  <2>14. QED
    BY <2>5, <2>6, <2>7, <2>8, <2>11, <2>12, <2>13 DEF r, y, Good, ItemsOK
<1>5. QED
  BY <1>3, <1>4

(* After a context switch the running task is one of the highest priority. *)
LEMMA SwitchContextGood ==
  ASSUME NEW s, Good(s), NEW r \in SwitchContext(s)
  PROVE  /\ Good(r) /\ SameLists(r, s) /\ Listed(r) = Listed(s)
         /\ ReadyTasks(r) = ReadyTasks(s) /\ r.base = s.base /\ r.depth = s.depth
         /\ s.depth = 0 => Highest(r)
         /\ s.depth # 0 => r.cur = s.cur /\ r.yieldPending
<1>1. s \in KType /\ ReadyAtPriority(s) /\ s.depth \in Nat
  BY DEF Good, ItemsOK, ListsOK, KType
<1>2. /\ r \in KType
      /\ r = [s EXCEPT !.yieldPending = r.yieldPending, !.cur = r.cur]
      /\ s.depth # 0 => r.cur = s.cur /\ r.yieldPending = TRUE
      /\ s.depth = 0 => r.cur \in HighestReady(s) /\ r.yieldPending = FALSE
  BY <1>1, SwitchContextControl
<1>3. SameLists(r, s) /\ r.base = s.base /\ r.depth = s.depth
  BY <1>1, <1>2 DEF SameLists, SameItems, SameTimes, KType
<1>4. Good(r) /\ Listed(r) = Listed(s) /\ ReadyTasks(r) = ReadyTasks(s)
  BY <1>3, SameListsGood
<1>5. ASSUME s.depth = 0
      PROVE  Highest(r)
  <2>1. PICK p \in {q \in s.top : \A x \in s.top : x <= q} : r.cur \in s.ready[p]
    BY <1>2, <1>5 DEF HighestReady
  <2>2. p \in Prio /\ s.prio[r.cur] = p
    BY <1>1, <2>1 DEF KType, ReadyAtPriority
  <2>3. r.cur \in ReadyTasks(s)
    BY <2>1, <2>2, ReadyTasksElements
  <2>4. r.prio = s.prio /\ r.top = s.top
    BY <1>3 DEF SameLists, SameItems
  <2>5. QED
    BY <1>4, <2>1, <2>2, <2>3, <2>4 DEF Highest
<1>6. QED
  BY <1>2, <1>3, <1>4, <1>5

-----------------------------------------------------------------------------
(* Ticks. *)

(* The delayed tasks whose wake time is the tick after the present one. *)
NextDue(s) ==
  {t \in s.delayed \cup s.overflow : s.wake[t] = (s.tick + 1) % TickMod}

(* Counting a tick moves the overflow list into place when the counter     *)
(* wraps: the delayed list is empty then, for it holds what is due before. *)
LEMMA AdvanceTickItems ==
  ASSUME NEW s, Good(s)
  PROVE  LET m == AdvanceTick(s)
         IN  /\ ItemsOK(m) /\ SameItems(m, [s EXCEPT !.delayed = m.delayed,
                                                      !.overflow = m.overflow])
             /\ m.delayed \cup m.overflow = s.delayed \cup s.overflow
             /\ m.wake = s.wake /\ m.tick = (s.tick + 1) % TickMod
             /\ m.yieldPending = s.yieldPending
             /\ \A t \in m.delayed : m.tick <= m.wake[t] /\ m.next <= m.wake[t]
             /\ \A t \in m.overflow : m.wake[t] < m.tick
<1> DEFINE m == AdvanceTick(s)
           n == (s.tick + 1) % TickMod
           a == [s EXCEPT !.tick = n]
           o == (s.overflows + 1) % OvfMod
           b == [s EXCEPT !.tick = n, !.delayed = s.overflow, !.overflow = s.delayed,
                          !.overflows = o]
<1>1. /\ s \in KType /\ ItemsOK(s) /\ TimesConsistent(s) /\ OnOneListOnly(s)
      /\ s.tick \in 0 .. TickMod - 1 /\ TickMod \in Nat \ {0, 1}
      /\ \A t \in Task : s.wake[t] \in 0 .. TickMod - 1
      /\ s.delayed \subseteq Task /\ s.overflow \subseteq Task
      /\ s.next \in Nat
  BY Constants DEF Good, ItemsOK, ListsOK, KType, Tick
<1>2. /\ n = IF s.tick = TickMod - 1 THEN 0 ELSE s.tick + 1
      /\ n \in Tick /\ o \in 0 .. OvfMod - 1
  <2>1. n = IF s.tick = TickMod - 1 THEN 0 ELSE s.tick + 1
    BY <1>1
  <2>2. o \in 0 .. OvfMod - 1
    BY <1>1, Constants DEF KType
  <2>3. QED
    BY <1>1, <2>1, <2>2 DEF Tick
<1>3. m = IF n = 0 THEN ResetNextUnblockTime(b) ELSE a
  <2>1. /\ a.tick = n /\ a.delayed = s.delayed /\ a.overflow = s.overflow
        /\ a.overflows = s.overflows
    BY <1>1 DEF KType
  <2>2. SwitchDelayedLists(a) =
          ResetNextUnblockTime([a EXCEPT !.delayed = s.overflow, !.overflow = s.delayed,
                                         !.overflows = o])
    BY <2>1 DEF SwitchDelayedLists
  <2>3. m = IF a.tick = 0 THEN SwitchDelayedLists(a) ELSE a
    BY DEF AdvanceTick
  <2>4. QED
    BY <2>1, <2>2, <2>3
<1> HIDE DEF m, n, o
<1>4. CASE n # 0
  <2>1. m = a
    BY <1>3, <1>4
  <2>2. /\ m \in KType /\ m.tick = n /\ m.wake = s.wake /\ m.next = s.next
        /\ m.prio = s.prio /\ m.ready = s.ready /\ m.top = s.top
        /\ m.delayed = s.delayed /\ m.overflow = s.overflow
        /\ m.suspended = s.suspended /\ m.dying = s.dying
        /\ m.pending = s.pending /\ m.waiting = s.waiting /\ m.before = s.before
        /\ m.depth = s.depth /\ m.yieldPending = s.yieldPending
    BY <1>1, <1>2, <2>1 DEF KType
  <2>3. SameItems(m, s)
    BY <2>2 DEF SameItems
  <2>4. [s EXCEPT !.delayed = m.delayed, !.overflow = m.overflow] = s
    BY <1>1, <2>2 DEF KType
  <2>5. /\ \A t \in m.delayed : m.tick <= m.wake[t] /\ m.next <= m.wake[t]
        /\ \A t \in m.overflow : m.wake[t] < m.tick
    BY <1>1, <1>2, <1>4, <2>2 DEF TimesConsistent
  <2>6. ItemsOK(m)
    BY <1>1, <2>3, SameItemsOK
  <2>7. QED
    BY <2>2, <2>3, <2>4, <2>5, <2>6 DEF m, n
<1>5. CASE n = 0
  <2>1. m = ResetNextUnblockTime(b)
    BY <1>3, <1>5
  <2>2. /\ b \in KType /\ b.tick = n /\ b.wake = s.wake
        /\ b.prio = s.prio /\ b.ready = s.ready /\ b.top = s.top
        /\ b.delayed = s.overflow /\ b.overflow = s.delayed
        /\ b.suspended = s.suspended /\ b.dying = s.dying
        /\ b.pending = s.pending /\ b.waiting = s.waiting /\ b.before = s.before
        /\ b.depth = s.depth /\ b.yieldPending = s.yieldPending
    BY <1>1, <1>2 DEF KType
  <2> HIDE DEF b
  <2>3. /\ m \in KType /\ m = [b EXCEPT !.next = m.next]
        /\ b.delayed # {} => m.next = EarliestWake(b)
    BY <2>1, <2>2, ResetNextUnblockTimeFields
  <2>4. /\ m.tick = n /\ m.wake = s.wake
        /\ m.prio = s.prio /\ m.ready = s.ready /\ m.top = s.top
        /\ m.delayed = s.overflow /\ m.overflow = s.delayed
        /\ m.suspended = s.suspended /\ m.dying = s.dying
        /\ m.pending = s.pending /\ m.waiting = s.waiting /\ m.before = s.before
        /\ m.depth = s.depth /\ m.yieldPending = s.yieldPending
    BY <2>2, <2>3 DEF KType
  <2>5. m.overflow = {}
    BY <1>1, <1>2, <1>5, <2>4 DEF TimesConsistent
  <2>6. \A t \in m.delayed : m.tick <= m.wake[t] /\ m.next <= m.wake[t]
    <3>1. \A t \in m.delayed : m.next <= m.wake[t]
      BY <2>2, <2>3, <2>4, EarliestWakeIsLeast
    <3>2. \A t \in m.delayed : m.tick <= m.wake[t]
      BY <1>1, <1>5, <2>4
    <3>3. QED
      BY <3>1, <3>2
  <2>7. SameItems(m, [s EXCEPT !.delayed = m.delayed, !.overflow = m.overflow])
    BY <1>1, <2>3, <2>4 DEF SameItems, KType
  <2>8. ReadyTasks(m) = ReadyTasks(s) /\ Waiters(m) = Waiters(s)
    BY <2>4 DEF ReadyTasks, Waiters
  <2>9. ListsOK(m)
    BY <1>1, <2>3, <2>4, <2>8
       DEF ItemsOK, ListsOK, OnOneListOnly, ReadyAtPriority, TopIsExact
  <2>10. EventItemsConsistent(m) /\ EventListsOrdered(m)
    BY <1>1, <2>4, <2>8 DEF ItemsOK, EventItemsConsistent, EventListsOrdered
  <2>11. QED
    BY <2>4, <2>5, <2>6, <2>7, <2>9, <2>10 DEF ItemsOK, m, n
<1>6. QED
  BY <1>4, <1>5

(* The wake-up loop wakes exactly the tasks whose wake time is the tick.   *)
LEMMA IncrementTickGood ==
  ASSUME NEW s, Good(s)
  PROVE  LET r == IncrementTick(s)
         IN  /\ Good(r) /\ Listed(r) = Listed(s) /\ Ticked(r, s)
             /\ ReadyTasks(r) = ReadyTasks(s) \cup NextDue(s)
             /\ TopFrom(r, s, NextDue(s))
             /\ DueTasks(AdvanceTick(s)) = NextDue(s)
             /\ r.yieldPending = s.yieldPending
             /\ r.pending \subseteq s.pending
<1> DEFINE m == AdvanceTick(s)
           r == IncrementTick(s)
           D == DueTasks(m)
           w == MakeReady(m, D)
<1>1. s \in KType /\ Ticked(r, s) /\ Ticked(m, s) /\ OnOneListOnly(s)
  BY IncrementTickControl, AdvanceTickControl DEF Good, ItemsOK, ListsOK
<1>2. /\ ItemsOK(m) /\ SameItems(m, [s EXCEPT !.delayed = m.delayed,
                                               !.overflow = m.overflow])
      /\ m.delayed \cup m.overflow = s.delayed \cup s.overflow
      /\ m.wake = s.wake /\ m.tick = (s.tick + 1) % TickMod
      /\ m.yieldPending = s.yieldPending
      /\ \A t \in m.delayed : m.tick <= m.wake[t] /\ m.next <= m.wake[t]
      /\ \A t \in m.overflow : m.wake[t] < m.tick
  BY AdvanceTickItems
<1>3. /\ m.prio = s.prio /\ m.ready = s.ready /\ m.top = s.top
      /\ m.suspended = s.suspended /\ m.dying = s.dying /\ m.pending = s.pending
  BY <1>1, <1>2 DEF SameItems, KType
<1>4. r = IF m.tick >= m.next THEN ResetNextUnblockTime(w) ELSE m
  BY DEF IncrementTick, WakeDueTasks
<1>5. D = IF m.tick >= m.next THEN {t \in m.delayed : m.wake[t] <= m.tick} ELSE {}
  BY DEF DueTasks
<1>6. /\ m \in KType /\ m.tick \in Nat /\ m.next \in Nat
      /\ \A t \in m.delayed \cup m.overflow : t \in Task /\ m.wake[t] \in Nat
  BY <1>1, Constants DEF Ticked, KType, Tick
<1> HIDE DEF m, r, D
<1>7. ReadyTasks(m) = ReadyTasks(s)
  BY <1>3 DEF ReadyTasks
<1>8. Listed(m) = Listed(s)
  BY <1>2, <1>3, <1>7, ListedElements
<1>9. D = {t \in m.delayed \cup m.overflow : m.wake[t] = m.tick}
  <2>1. \A t \in m.overflow : m.wake[t] # m.tick
    BY <1>2, <1>6
  <2>2. \A t \in m.delayed : m.wake[t] <= m.tick <=> m.wake[t] = m.tick
    BY <1>2, <1>6
  <2>3. ~(m.tick >= m.next) => \A t \in m.delayed : m.wake[t] # m.tick
    BY <1>2, <1>6
  <2>4. QED
    BY <1>5, <2>1, <2>2, <2>3
<1>10. D = NextDue(s)
  BY <1>2, <1>9 DEF NextDue
<1>11. D \subseteq m.delayed /\ D \in SUBSET Task /\ D \cap m.dying = {}
  <2>1. D \subseteq m.delayed
    BY <1>5
  <2>2. m.delayed \cap m.dying = {}
    BY <1>2 DEF ItemsOK, ListsOK, OnOneListOnly
  <2>3. QED
    BY <1>6, <2>1, <2>2
<1>12. CASE ~(m.tick >= m.next)
  <2>1. r = m /\ D = {}
    BY <1>4, <1>5, <1>12
  <2>2. TimesConsistent(m)
    BY <1>2, <1>6, <1>12 DEF TimesConsistent
  <2>3. Good(r) /\ TopFrom(r, s, NextDue(s))
    BY <1>2, <1>3, <2>1, <2>2 DEF Good, TopFrom
  <2>4. QED
    BY <1>1, <1>2, <1>3, <1>7, <1>8, <1>10, <2>1, <2>3 DEF r, m, D
<1>13. CASE m.tick >= m.next
  <2>1. r = ResetNextUnblockTime(w)
    BY <1>4, <1>13
  <2>2. /\ w.delayed = m.delayed \ D /\ w.overflow = m.overflow \ D
        /\ w.wake = Forget(m.wake, D) /\ w.tick = m.tick
        /\ w.top = m.top \cup {m.prio[t] : t \in D}
        /\ w.pending = m.pending \ D /\ w.yieldPending = m.yieldPending
    BY <1>6, <1>11, MakeReadyFields
  <2>3. /\ ItemsOK(w) /\ ReadyTasks(w) = ReadyTasks(m) \cup D
        /\ Listed(w) = Listed(m) \cup D
    BY <1>2, <1>11, MakeReadyItems
  <2> HIDE DEF w
  <2>4. \A t \in w.delayed \cup w.overflow : w.wake[t] = m.wake[t] /\ t \notin D
    BY <1>6, <2>2 DEF Forget
  <2>5. /\ \A t \in w.delayed : w.tick < w.wake[t]
        /\ \A t \in w.overflow : w.wake[t] < w.tick
    <3>1. ASSUME NEW t \in w.delayed
          PROVE  w.tick < w.wake[t]
      <4>1. t \in m.delayed /\ m.wake[t] # m.tick
        BY <1>9, <2>2, <2>4
      <4>2. QED
        BY <1>2, <1>6, <2>2, <2>4, <4>1
    <3>2. \A t \in w.overflow : w.wake[t] < w.tick
      BY <1>2, <2>2, <2>4
    <3>3. QED
      BY <3>1, <3>2
  <2>6. /\ Good(r) /\ SameItems(r, w) /\ r.yieldPending = w.yieldPending
    BY <2>1, <2>3, <2>5, ResetNextGood
  <2>7. /\ ReadyTasks(r) = ReadyTasks(w) /\ Listed(r) = Listed(w)
    BY <2>3, <2>6, SameItemsOK
  <2>8. r.top = w.top /\ r.pending = w.pending
    BY <2>6 DEF SameItems
  <2>9. D \subseteq Listed(m)
    BY <1>11, ListedElements
  <2>10. TopFrom(r, s, NextDue(s))
    BY <1>3, <1>10, <2>2, <2>8 DEF TopFrom
  <2>11. ReadyTasks(r) = ReadyTasks(s) \cup NextDue(s) /\ Listed(r) = Listed(s)
    BY <1>7, <1>8, <1>10, <2>3, <2>7, <2>9
  <2>12. r.yieldPending = s.yieldPending /\ r.pending \subseteq s.pending
    BY <1>2, <1>3, <2>2, <2>6, <2>8
  <2>13. QED
    BY <1>1, <1>10, <2>6, <2>10, <2>11, <2>12 DEF r, m, D
<1>14. QED
  BY <1>12, <1>13

(* Unless the tick asks for a context switch, none is owed after it. *)
LEMMA TickOwesNothing ==
  ASSUME NEW s, Good(s), ~TickWantsSwitch(s)
  PROVE  \A p \in IncrementTick(s).top : p \in s.top \/ p <= s.prio[s.cur]
<1> DEFINE D == DueTasks(AdvanceTick(s))
           r == IncrementTick(s)
<1>1. s \in KType
  BY DEF Good, ItemsOK, ListsOK
<1>2. D = NextDue(s) /\ TopFrom(r, s, NextDue(s))
  BY IncrementTickGood
<1>3. ~Preempts(s, D)
  BY DEF TickWantsSwitch
<1>4. NextDue(s) \in SUBSET Task
  BY <1>1 DEF NextDue, KType
<1> HIDE DEF r, D
<1>5. QED
  BY <1>1, <1>2, <1>3, <1>4, NotPreempted DEF r

-----------------------------------------------------------------------------
(* A yield, the end of a suspension and a caught-up tick: what they leave  *)
(* of the lists, and where a context switch that is owed is noted.         *)

LEMMA YieldIfGood ==
  ASSUME NEW s, Good(s), NEW w \in BOOLEAN, NEW r \in YieldIf(w, s)
  PROVE  /\ Good(r) /\ SameLists(r, s) /\ Listed(r) = Listed(s)
         /\ ReadyTasks(r) = ReadyTasks(s) /\ r.base = s.base /\ r.depth = s.depth
         /\ s.depth = 0 /\ (w \/ Highest(s)) => Highest(r)
         /\ s.depth # 0 => r.cur = s.cur /\ (s.yieldPending \/ w => r.yieldPending)
<1>1. CASE w
  <2>1. r \in SwitchContext(s)
    BY <1>1 DEF YieldIf
  <2>2. QED
    BY <2>1, SwitchContextGood
<1>2. CASE ~w
  <2>1. r = s
    BY <1>2 DEF YieldIf
  <2>2. SameLists(r, s)
    BY <2>1 DEF Good, ItemsOK, ListsOK, SameLists, SameItems, SameTimes
  <2>3. QED
    BY <1>2, <2>1, <2>2
<1>3. QED
  BY <1>1, <1>2

(* No more is ready in r than the running task of s may go on before, or   *)
(* the switch is noted.                                                    *)
Noted(r, s) ==
  /\ ReadyTasks(s) \subseteq ReadyTasks(r)
  /\ r.cur = s.cur /\ r.prio = s.prio /\ r.base = s.base
  /\ s.yieldPending => r.yieldPending
  /\ r.yieldPending \/ \A p \in r.top : p \in s.top \/ p <= s.prio[s.cur]

LEMMA DrainPendingGood ==
  ASSUME NEW s, Good(s), s.depth > 0
  PROVE  LET r == DrainPending(s)
         IN  /\ Good(r) /\ Listed(r) = Listed(s) /\ Noted(r, s)
             /\ r.depth = s.depth - 1 /\ r.tick = s.tick /\ r.dying = s.dying
<1> DEFINE r == DrainPending(s)
           down == [s EXCEPT !.depth = s.depth - 1]
           m == MakeReady(down, s.pending)
           n == ResetNextUnblockTime(m)
           y == Preempts(s, s.pending)
<1>1. /\ s \in KType /\ ItemsOK(s) /\ TimesConsistent(s) /\ OnOneListOnly(s)
      /\ ListsOK(s) /\ EventItemsConsistent(s) /\ EventListsOrdered(s)
      /\ s.depth \in Nat /\ s.depth - 1 \in Nat /\ s.pending \in SUBSET Task
      /\ s.prio \in [Task -> Prio]
  BY DEF Good, ItemsOK, ListsOK, KType
<1>2. /\ down \in KType /\ down.depth = s.depth - 1
      /\ down.cur = s.cur /\ down.prio = s.prio /\ down.base = s.base
      /\ down.ready = s.ready /\ down.top = s.top
      /\ down.delayed = s.delayed /\ down.overflow = s.overflow
      /\ down.suspended = s.suspended /\ down.dying = s.dying
      /\ down.pending = s.pending /\ down.waiting = s.waiting
      /\ down.before = s.before /\ down.wake = s.wake /\ down.tick = s.tick
      /\ down.next = s.next /\ down.yieldPending = s.yieldPending
  BY <1>1 DEF KType
<1>3. /\ ReadyTasks(down) = ReadyTasks(s) /\ Waiters(down) = Waiters(s)
  BY <1>2 DEF ReadyTasks, Waiters
<1>4. Listed(down) = Listed(s)
  BY <1>2, <1>3, ListedElements
<1>5. ListsOK(down) /\ EventListsOrdered(down) /\ TimesConsistent(down)
  <2>1. ListsOK(down)
    BY <1>1, <1>2, <1>3 DEF ListsOK, OnOneListOnly, ReadyAtPriority, TopIsExact
  <2>2. EventListsOrdered(down)
    BY <1>1, <1>2 DEF EventListsOrdered
  <2>3. TimesConsistent(down)
    BY <1>1, <1>2 DEF TimesConsistent
  <2>4. QED
    BY <2>1, <2>2, <2>3
<1>6. r = IF down.depth = 0 /\ s.pending # {}
            THEN [n EXCEPT !.yieldPending = n.yieldPending \/ y]
            ELSE down
  BY DEF DrainPending
<1>7. r \in KType /\ r.depth = s.depth - 1 /\ r.cur = s.cur /\ r.prio = s.prio
      /\ r.base = s.base /\ r.tick = s.tick /\ r.dying = s.dying
  BY <1>1, DrainPendingControl
<1> HIDE DEF r, down, y
<1>8. CASE s.pending = {} \/ s.depth # 1
  <2>1. r = down
    BY <1>1, <1>2, <1>6, <1>8
  <2>2. s.pending = {} \/ down.depth > 0
    BY <1>1, <1>2, <1>8
  <2>3. EventItemsConsistent(down)
    BY <1>1, <1>2, <1>3, <2>2 DEF EventItemsConsistent
  <2>4. QED
    BY <1>2, <1>3, <1>4, <1>5, <1>7, <2>1, <2>3 DEF Good, ItemsOK, Noted, r
<1>9. CASE s.pending # {} /\ s.depth = 1
  <2> DEFINE S == s.pending
  <2>1. r = [n EXCEPT !.yieldPending = n.yieldPending \/ y]
    BY <1>1, <1>2, <1>6, <1>9
  <2>2. S \subseteq s.delayed \cup s.overflow \cup s.suspended /\ S \cap s.dying = {}
        /\ S \subseteq Listed(s)
    BY <1>1, ListedElements DEF EventItemsConsistent, OnOneListOnly
  <2>3. /\ m \in KType
        /\ m.delayed = s.delayed \ S /\ m.overflow = s.overflow \ S
        /\ m.suspended = s.suspended \ S
        /\ m.wake = Forget(s.wake, S) /\ m.tick = s.tick
        /\ m.waiting = [o \in Object |-> s.waiting[o] \ S]
        /\ m.pending = {}
        /\ m.top = s.top \cup {s.prio[t] : t \in S}
        /\ m.yieldPending = s.yieldPending
    <3>1. /\ m \in KType
          /\ m.delayed = down.delayed \ S /\ m.overflow = down.overflow \ S
          /\ m.suspended = down.suspended \ S
          /\ m.wake = Forget(down.wake, S) /\ m.tick = down.tick
          /\ m.waiting = [o \in Object |-> down.waiting[o] \ S]
          /\ m.pending = down.pending \ S
          /\ m.top = down.top \cup {down.prio[t] : t \in S}
          /\ m.yieldPending = down.yieldPending
      <4>1. down \in KType /\ S \in SUBSET Task
        BY <1>1, <1>2
      <4>2. QED
        BY <4>1, MakeReadyFields, Zenon
    <3> HIDE DEF m
    <3>2. down.pending \ S = {} /\ {down.prio[t] : t \in S} = {s.prio[t] : t \in S}
      BY <1>2
    <3>3. m.top = s.top \cup {s.prio[t] : t \in S} /\ m.pending = {}
      BY <1>2, <3>1, <3>2
    <3>4. [o \in Object |-> down.waiting[o] \ S] = [o \in Object |-> s.waiting[o] \ S]
      BY <1>2
    <3> HIDE DEF S
    <3>5. QED
      BY <1>2, <3>1, <3>3, <3>4
  <2>4. /\ ListsOK(m) /\ ReadyTasks(m) = ReadyTasks(s) \cup S
        /\ Listed(m) = Listed(s) \cup S
    BY <1>1, <1>2, <1>3, <1>4, <1>5, <2>2, MakeReadyLists
  <2>5. Restricted(m, s, S)
    BY <1>1, <1>2 DEF Restricted, MakeReady, OffEventLists, KType
  <2> HIDE DEF m
  <2>6. EventListsOrdered(m)
    <3>1. s.before \in SUBSET (Task \X Task)
      BY <1>1 DEF KType
    <3>2. QED
      BY <1>1, <2>5, <3>1, RestrictedOrder
  <2>7. Waiters(m) = Waiters(s) \ S
    BY <2>3, WaitersElements
  <2>8. EventItemsConsistent(m)
    BY <1>1, <2>3, <2>7 DEF EventItemsConsistent
  <2>9. /\ \A t \in m.delayed : m.tick < m.wake[t]
        /\ \A t \in m.overflow : m.wake[t] < m.tick
    <3>1. \A t \in Task : t \notin S => m.wake[t] = s.wake[t]
      BY <2>3 DEF Forget
    <3>2. s.delayed \subseteq Task /\ s.overflow \subseteq Task
      BY <1>1 DEF KType
    <3>3. QED
      BY <1>1, <2>3, <3>1, <3>2 DEF TimesConsistent
  <2>10. Good(n) /\ SameItems(n, m) /\ n.yieldPending = s.yieldPending
    BY <2>3, <2>4, <2>6, <2>8, <2>9, ResetNextGood DEF ItemsOK
  <2>11. ReadyTasks(n) = ReadyTasks(m) /\ Listed(n) = Listed(m)
    BY <2>4, <2>6, <2>8, <2>10, SameItemsOK DEF ItemsOK
  <2>12. n \in KType /\ (n.yieldPending \/ y) \in BOOLEAN
    BY <2>10 DEF SameItems, KType, y, Preempts
  <2> HIDE DEF n
  <2>13. SameLists(r, n) /\ r.yieldPending = (s.yieldPending \/ y)
    BY <2>1, <2>10, <2>12 DEF SameLists, SameItems, SameTimes, KType
  <2>14. Good(r) /\ Listed(r) = Listed(n) /\ ReadyTasks(r) = ReadyTasks(n)
    BY <2>10, <2>13, SameListsGood
  <2>15. TopFrom(r, s, S)
    BY <2>3, <2>10, <2>13 DEF TopFrom, SameLists, SameItems
  <2>16. r.yieldPending \/ \A p \in r.top : p \in s.top \/ p <= s.prio[s.cur]
    BY <1>1, <2>13, <2>15, NotPreempted DEF y
  <2>17. Listed(r) = Listed(s) /\ ReadyTasks(s) \subseteq ReadyTasks(r)
    BY <2>2, <2>4, <2>11, <2>14
  <2>18. QED
    BY <1>7, <2>13, <2>14, <2>16, <2>17 DEF Noted, r
<1>10. QED
  BY <1>8, <1>9

LEMMA CatchUpTickGood ==
  ASSUME NEW s, Good(s), s.pended > 0
  PROVE  LET r == CatchUpTick(s)
         IN  /\ Good(r) /\ Listed(r) = Listed(s) /\ Noted(r, s)
             /\ r.tick = (s.tick + 1) % TickMod /\ r.depth = s.depth
             /\ r.dying = s.dying
             /\ ReadyTasks(r) = ReadyTasks(s) \cup NextDue(s)
<1> DEFINE r == CatchUpTick(s)
           i == IncrementTick(s)
           y == TickWantsSwitch(s)
<1>1. s \in KType
  BY DEF Good, ItemsOK, ListsOK
<1>2. /\ Good(i) /\ Listed(i) = Listed(s) /\ Ticked(i, s)
      /\ ReadyTasks(i) = ReadyTasks(s) \cup NextDue(s)
      /\ i.yieldPending = s.yieldPending
  BY IncrementTickGood
<1>3. ~y => \A p \in i.top : p \in s.top \/ p <= s.prio[s.cur]
  BY TickOwesNothing
<1>4. r = [i EXCEPT !.pended = i.pended - 1, !.yieldPending = i.yieldPending \/ y]
  BY DEF CatchUpTick
<1>5. y \in BOOLEAN
  BY DEF TickWantsSwitch
<1> HIDE DEF r, i, y
<1>6. (i.yieldPending \/ y) \in BOOLEAN /\ i.pended - 1 \in Nat /\ i \in KType
  BY <1>2, <1>5 DEF Ticked, KType
<1>7. SameLists(r, i) /\ r.yieldPending = (s.yieldPending \/ y)
  BY <1>2, <1>4, <1>6 DEF SameLists, SameItems, SameTimes, KType
<1>8. r.cur = i.cur /\ r.base = i.base /\ r.depth = i.depth
  BY <1>4, <1>6 DEF KType
<1>9. Good(r) /\ Listed(r) = Listed(i) /\ ReadyTasks(r) = ReadyTasks(i)
  BY <1>2, <1>7, SameListsGood
<1>10. r.top = i.top /\ r.prio = i.prio /\ r.tick = i.tick /\ r.dying = i.dying
  BY <1>7 DEF SameLists, SameItems, SameTimes
<1>11. QED
  BY <1>2, <1>3, <1>7, <1>8, <1>9, <1>10 DEF Noted, Ticked, r

-----------------------------------------------------------------------------
(* Tasks that are suspended or deleted, and changes of priority. *)

(* The tasks of A have joined the suspended ones, those of B the dying. *)
Joins(r, s, A, B) ==
  /\ r \in KType
  /\ r.prio = s.prio /\ r.ready = s.ready /\ r.top = s.top
  /\ r.delayed = s.delayed /\ r.overflow = s.overflow
  /\ r.suspended = s.suspended \cup A /\ r.dying = s.dying \cup B
  /\ r.pending = s.pending /\ r.waiting = s.waiting /\ r.before = s.before
  /\ r.depth = s.depth
  /\ r.wake = s.wake /\ r.tick = s.tick /\ r.next = s.next

LEMMA JoinsGood ==
  ASSUME NEW s, Good(s), NEW A, NEW B, A \cap B = {}, (A \cup B) \cap Listed(s) = {},
         NEW r, Joins(r, s, A, B)
  PROVE  /\ Good(r) /\ Listed(r) = Listed(s) \cup A \cup B
         /\ ReadyTasks(r) = ReadyTasks(s)
<1>1. /\ ReadyTasks(r) = ReadyTasks(s) /\ Waiters(r) = Waiters(s)
  BY DEF Joins, ReadyTasks, Waiters
<1>2. Listed(r) = Listed(s) \cup A \cup B
  BY <1>1, ListedElements DEF Joins
<1>3. (A \cup B) \cap (ReadyTasks(s) \cup s.delayed \cup s.overflow \cup s.suspended
                         \cup s.dying) = {}
  BY ListedElements
<1>4. ListsOK(r)
  <2>1. OnOneListOnly(s) /\ ReadyAtPriority(s) /\ TopIsExact(s)
    BY DEF Good, ItemsOK, ListsOK
  <2>2. OnOneListOnly(r)
    BY <1>1, <1>3, <2>1 DEF Joins, OnOneListOnly
  <2>3. QED
    BY <2>1, <2>2 DEF Joins, ListsOK, ReadyAtPriority, TopIsExact
<1>5. EventItemsConsistent(r) /\ EventListsOrdered(r)
  BY <1>1 DEF Good, ItemsOK, Joins, EventItemsConsistent, EventListsOrdered
<1>6. TimesConsistent(r)
  BY DEF Good, Joins, TimesConsistent
<1>7. QED
  BY <1>1, <1>2, <1>4, <1>5, <1>6 DEF Good, ItemsOK

(* The priorities of tasks that are not ready have changed. *)
Reprioritised(r, s) ==
  /\ r \in KType
  /\ \A u \in ReadyTasks(s) : r.prio[u] = s.prio[u]
  /\ r.ready = s.ready /\ r.top = s.top
  /\ r.delayed = s.delayed /\ r.overflow = s.overflow
  /\ r.suspended = s.suspended /\ r.dying = s.dying
  /\ r.pending = s.pending /\ r.waiting = s.waiting /\ r.before = s.before
  /\ r.depth = s.depth
  /\ r.wake = s.wake /\ r.tick = s.tick /\ r.next = s.next

LEMMA ReprioritisedGood ==
  ASSUME NEW s, Good(s), NEW r, Reprioritised(r, s)
  PROVE  Good(r) /\ Listed(r) = Listed(s) /\ ReadyTasks(r) = ReadyTasks(s)
<1>1. ReadyTasks(r) = ReadyTasks(s) /\ Waiters(r) = Waiters(s)
  BY DEF Reprioritised, ReadyTasks, Waiters
<1>2. Listed(r) = Listed(s)
  BY <1>1, ListedElements DEF Reprioritised
<1>3. ListsOK(r)
  <2>1. OnOneListOnly(s) /\ ReadyAtPriority(s) /\ TopIsExact(s)
    BY DEF Good, ItemsOK, ListsOK
  <2>2. ReadyAtPriority(r)
    BY <2>1, ReadyTasksElements DEF Reprioritised, ReadyAtPriority
  <2>3. QED
    BY <1>1, <2>1, <2>2 DEF Reprioritised, ListsOK, OnOneListOnly, TopIsExact
<1>4. EventItemsConsistent(r) /\ EventListsOrdered(r)
  BY <1>1 DEF Good, ItemsOK, Reprioritised, EventItemsConsistent, EventListsOrdered
<1>5. TimesConsistent(r)
  BY DEF Good, Reprioritised, TimesConsistent
<1>6. QED
  BY <1>1, <1>2, <1>3, <1>4, <1>5 DEF Good, ItemsOK


-----------------------------------------------------------------------------
(* What the objects tasks wait on need of the kernel: that a step which    *)
(* places no task on an event list takes none of the tasks still on one    *)
(* out of its wait.                                                        *)

Eases(r, s) ==
  /\ r \in KType /\ r.cur = s.cur
  /\ \A o \in Object : r.waiting[o] \subseteq s.waiting[o]
  /\ \A t \in ReadyTasks(r) : t \in ReadyTasks(s) \/ t \notin Waiters(r)
  /\ EventListsOrdered(s) => EventListsOrdered(r)

(* The tasks on the event lists are not ready. *)
WaitersBlocked(s) == \A t \in ReadyTasks(s) : t \notin Waiters(s)

LEMMA EasesKeepsBlocked ==
  ASSUME NEW s, NEW r, Eases(r, s), WaitersBlocked(s)
  PROVE  WaitersBlocked(r)
<1>1. \A t : t \in Waiters(r) => t \in Waiters(s)
  BY WaitersElements DEF Eases
<1>2. QED
  BY <1>1 DEF Eases, WaitersBlocked

LEMMA EasesTransitive ==
  ASSUME NEW s, NEW r, NEW q, Eases(r, s), Eases(q, r)
  PROVE  Eases(q, s)
<1>1. \A t : t \in Waiters(q) => t \in Waiters(r)
  BY WaitersElements DEF Eases
<1>2. \A o \in Object : q.waiting[o] \subseteq s.waiting[o]
  BY DEF Eases
<1>3. QED
  BY <1>1, <1>2 DEF Eases

LEMMA SameWaits ==
  ASSUME NEW s, NEW r \in KType, r.cur = s.cur, r.waiting = s.waiting, r.ready = s.ready,
         r.before = s.before
  PROVE  Eases(r, s) /\ ReadyTasks(r) = ReadyTasks(s) /\ Waiters(r) = Waiters(s)
<1>1. ReadyTasks(r) = ReadyTasks(s) /\ Waiters(r) = Waiters(s)
  BY DEF ReadyTasks, Waiters
<1>2. EventListsOrdered(s) => EventListsOrdered(r)
  BY DEF EventListsOrdered
<1>3. QED
  BY <1>1, <1>2 DEF Eases

LEMMA MakeReadyEases ==
  ASSUME NEW s \in KType, NEW S \in SUBSET Task
  PROVE  Eases(MakeReady(s, S), s)
<1> DEFINE r == MakeReady(s, S)
<1>1. /\ r \in KType /\ r.cur = s.cur
      /\ r.ready = [p \in Prio |-> (s.ready[p] \ S) \cup {t \in S : s.prio[t] = p}]
      /\ r.waiting = [o \in Object |-> s.waiting[o] \ S]
  BY MakeReadyFields
<1>2. Restricted(r, s, S) /\ s.before \in SUBSET (Task \X Task)
  BY DEF Restricted, MakeReady, OffEventLists, KType
<1> HIDE DEF r
<1>3. \A t \in ReadyTasks(r) : t \in ReadyTasks(s) \/ t \in S
  BY <1>1, ReadyTasksElements
<1>4. \A t \in S : t \notin Waiters(r)
  <2>1. ASSUME NEW t \in S, t \in Waiters(r)
        PROVE  FALSE
    <3>1. PICK o \in Object : t \in r.waiting[o]
      BY <2>1, WaitersElements
    <3>2. QED
      BY <1>1, <3>1
  <2>2. QED
    BY <2>1
<1>5. \A o \in Object : r.waiting[o] \subseteq s.waiting[o]
  BY <1>1
<1>6. \A t \in ReadyTasks(r) : t \in ReadyTasks(s) \/ t \notin Waiters(r)
  BY <1>3, <1>4
<1>7. EventListsOrdered(s) => EventListsOrdered(r)
  BY <1>2, RestrictedOrder
<1>8. Eases(r, s)
  BY <1>1, <1>5, <1>6, <1>7 DEF Eases
<1>9. QED
  BY <1>8 DEF r

LEMMA ResetNextEases ==
  ASSUME NEW s \in KType
  PROVE  Eases(ResetNextUnblockTime(s), s)
<1> DEFINE r == ResetNextUnblockTime(s)
<1>1. r \in KType /\ r = [s EXCEPT !.next = r.next]
  BY ResetNextUnblockTimeFields
<1> HIDE DEF r
<1>2. /\ r.cur = s.cur /\ r.waiting = s.waiting /\ r.ready = s.ready
      /\ r.before = s.before
  BY <1>1 DEF KType
<1>3. QED
  BY <1>1, <1>2, SameWaits DEF r

LEMMA AdvanceTickEases ==
  ASSUME NEW s \in KType
  PROVE  Eases(AdvanceTick(s), s)
<1> DEFINE m == [s EXCEPT !.tick = (s.tick + 1) % TickMod]
           d == [m EXCEPT !.delayed = m.overflow, !.overflow = m.delayed,
                          !.overflows = (m.overflows + 1) % OvfMod]
<1>1. (s.tick + 1) % TickMod \in Tick
  BY Constants DEF KType, Tick
<1>2. /\ m \in KType /\ m.cur = s.cur /\ m.waiting = s.waiting /\ m.ready = s.ready
      /\ m.before = s.before
  BY <1>1 DEF KType
<1>3. AdvanceTick(s) = IF m.tick = 0 THEN ResetNextUnblockTime(d) ELSE m
  BY DEF AdvanceTick, SwitchDelayedLists
<1> HIDE DEF m
<1>4. (m.overflows + 1) % OvfMod \in 0 .. OvfMod - 1
  BY <1>2, Constants DEF KType
<1>5. /\ d \in KType /\ d.cur = s.cur /\ d.waiting = s.waiting /\ d.ready = s.ready
      /\ d.before = s.before
  BY <1>2, <1>4 DEF KType
<1> HIDE DEF d
<1>6. Eases(ResetNextUnblockTime(d), d) /\ Eases(d, s) /\ Eases(m, s)
  BY <1>2, <1>5, SameWaits, ResetNextEases
<1>7. Eases(ResetNextUnblockTime(d), s)
  BY <1>6, EasesTransitive
<1>8. QED
  BY <1>3, <1>6, <1>7

LEMMA IncrementTickEases ==
  ASSUME NEW s \in KType
  PROVE  Eases(IncrementTick(s), s)
<1> DEFINE m == AdvanceTick(s)
           d == DueTasks(m)
           w == MakeReady(m, d)
           n == ResetNextUnblockTime(w)
<1>1. Eases(m, s)
  BY AdvanceTickEases
<1>2. IncrementTick(s) = IF m.tick >= m.next THEN n ELSE m
  BY DEF IncrementTick, WakeDueTasks
<1>3. m \in KType /\ d \in SUBSET Task
  BY <1>1 DEF DueTasks, Eases, KType
<1> HIDE DEF m, d
<1>4. Eases(w, m)
  BY <1>3, MakeReadyEases
<1> HIDE DEF w
<1>5. Eases(n, w)
  BY <1>4, ResetNextEases DEF Eases
<1> HIDE DEF n
<1>6. Eases(w, s)
  BY <1>1, <1>4, EasesTransitive
<1>7. Eases(n, s)
  BY <1>5, <1>6, EasesTransitive
<1>8. QED
  BY <1>1, <1>2, <1>7

LEMMA DrainPendingEases ==
  ASSUME NEW s \in KType, s.depth > 0
  PROVE  Eases(DrainPending(s), s)
<1> DEFINE down == [s EXCEPT !.depth = s.depth - 1]
           m == MakeReady(down, s.pending)
           n == ResetNextUnblockTime(m)
           y == Preempts(s, s.pending)
           z == [n EXCEPT !.yieldPending = n.yieldPending \/ y]
<1>1. s.depth - 1 \in Nat
  BY DEF KType
<1>2. /\ down \in KType /\ down.cur = s.cur /\ down.waiting = s.waiting
      /\ down.ready = s.ready /\ down.before = s.before
  BY <1>1 DEF KType
<1>3. DrainPending(s) = IF down.depth = 0 /\ s.pending # {} THEN z ELSE down
  BY DEF DrainPending
<1>4. s.pending \in SUBSET Task /\ y \in BOOLEAN
  BY DEF KType, Preempts
<1> HIDE DEF down, y
<1>5. Eases(down, s)
  BY <1>2, SameWaits
<1>6. Eases(m, down)
  BY <1>2, <1>4, MakeReadyEases
<1> HIDE DEF m
<1>7. Eases(n, m)
  BY <1>6, ResetNextEases DEF Eases
<1> HIDE DEF n
<1>8. n \in KType
  BY <1>7 DEF Eases
<1>9. (n.yieldPending \/ y) \in BOOLEAN
  BY <1>8, <1>4 DEF KType
<1>10. /\ z \in KType /\ z.cur = n.cur /\ z.waiting = n.waiting /\ z.ready = n.ready
       /\ z.before = n.before
  BY <1>8, <1>9 DEF KType
<1> HIDE DEF z
<1>11. Eases(z, n)
  BY <1>10, SameWaits
<1>12. Eases(m, s)
  BY <1>5, <1>6, EasesTransitive
<1>13. Eases(n, s)
  BY <1>7, <1>12, EasesTransitive
<1>14. Eases(z, s)
  BY <1>11, <1>13, EasesTransitive
<1>15. QED
  BY <1>3, <1>5, <1>14

LEMMA CatchUpTickEases ==
  ASSUME NEW s \in KType, s.pended > 0
  PROVE  Eases(CatchUpTick(s), s)
<1> DEFINE i == IncrementTick(s)
           y == TickWantsSwitch(s)
           z == [i EXCEPT !.pended = i.pended - 1, !.yieldPending = i.yieldPending \/ y]
<1>1. CatchUpTick(s) = z /\ y \in BOOLEAN
  BY DEF CatchUpTick, TickWantsSwitch, Preempts
<1>2. Eases(i, s) /\ z \in KType
  BY <1>1, IncrementTickEases, CatchUpTickControl
<1>3. i \in KType
  BY <1>2 DEF Eases
<1> HIDE DEF i, y
<1>4. z.cur = i.cur /\ z.waiting = i.waiting /\ z.ready = i.ready /\ z.before = i.before
  BY <1>3 DEF KType
<1> HIDE DEF z
<1>5. Eases(z, i)
  BY <1>2, <1>4, SameWaits
<1>6. QED
  BY <1>1, <1>2, <1>5, EasesTransitive

(* A context switch chooses a ready task, which therefore does not wait. *)
LEMMA SwitchContextWaits ==
  ASSUME NEW s \in KType, s.depth = 0, NEW r \in SwitchContext(s)
  PROVE  /\ r \in KType /\ r.cur \in ReadyTasks(s) /\ r.depth = 0
         /\ r.waiting = s.waiting /\ r.ready = s.ready /\ r.before = s.before
         /\ ReadyTasks(r) = ReadyTasks(s) /\ Waiters(r) = Waiters(s)
<1>1. /\ r \in KType
      /\ r = [s EXCEPT !.yieldPending = r.yieldPending, !.cur = r.cur]
      /\ r.cur \in HighestReady(s)
  BY SwitchContextControl
<1>2. r.waiting = s.waiting /\ r.ready = s.ready /\ r.before = s.before /\ r.depth = 0
  BY <1>1 DEF KType
<1>3. HighestReady(s) \subseteq ReadyTasks(s)
  BY DEF HighestReady, ReadyTasks, KType
<1>4. QED
  BY <1>1, <1>2, <1>3 DEF ReadyTasks, Waiters

(* A task that blocks leaves its ready list, whatever list it joins. *)
LEMMA AddCurrentWaits ==
  ASSUME NEW s \in KType, NEW n \in Tick, NEW i \in BOOLEAN
  PROVE  LET r == AddCurrentToDelayedList(s, n, i)
         IN  /\ r \in KType /\ r.cur = s.cur /\ r.depth = s.depth
             /\ r.waiting = s.waiting /\ r.before = s.before
             /\ r.prio = s.prio /\ r.base = s.base /\ r.key = s.key /\ r.count = s.count
             /\ r.ready = [p \in Prio |-> s.ready[p] \ {s.cur}]
             /\ r.top = IF AloneOnList(s, s.cur) THEN s.top \ {s.prio[s.cur]} ELSE s.top
<1> DEFINE r == AddCurrentToDelayedList(s, n, i)
           t == s.cur
           w == (s.tick + n) % TickMod
           o == OffStateList(s, t)
           T == IF AloneOnList(s, t) THEN s.top \ {s.prio[t]} ELSE s.top
           A == o.aborted \ {t}
           free == [o EXCEPT !.aborted = A, !.top = T]
           v == [free.wake EXCEPT ![t] = w]
           x == IF w < free.next THEN w ELSE free.next
           a == [free EXCEPT !.suspended = free.suspended \cup {t}]
           b == [free EXCEPT !.wake = v, !.overflow = free.overflow \cup {t}]
           c == [free EXCEPT !.wake = v, !.delayed = free.delayed \cup {t}, !.next = x]
           Same(q, f) == /\ q \in KType /\ q.cur = f.cur /\ q.depth = f.depth
                         /\ q.waiting = f.waiting /\ q.before = f.before
                         /\ q.prio = f.prio /\ q.base = f.base /\ q.ready = f.ready
                         /\ q.key = f.key /\ q.count = f.count
<1>1. t \in Task /\ w \in Tick
  BY Constants DEF KType, Tick
<1>2. /\ o \in KType /\ o.cur = s.cur /\ o.depth = s.depth
      /\ o.waiting = s.waiting /\ o.before = s.before
      /\ o.prio = s.prio /\ o.base = s.base /\ o.key = s.key /\ o.top = s.top
      /\ o.count = s.count
      /\ o.ready = [p \in Prio |-> s.ready[p] \ {t}]
  BY <1>1, OffStateListFields
<1>3. r = IF n = MaxDelay /\ i THEN a ELSE IF w < s.tick THEN b ELSE c
  BY <1>2 DEF AddCurrentToDelayedList
<1>4. A \in SUBSET Task /\ T \in SUBSET Prio
  BY <1>2 DEF KType
<1> HIDE DEF o, r, T, A, t
<1>5. Same(free, o) /\ free.top = T
  BY <1>2, <1>4 DEF KType
<1> HIDE DEF free, w
<1>6. /\ v \in [Task -> Tick] /\ x \in Tick
      /\ free.suspended \cup {t} \in SUBSET Task
      /\ free.overflow \cup {t} \in SUBSET Task
      /\ free.delayed \cup {t} \in SUBSET Task
  BY <1>1, <1>5 DEF KType
<1> HIDE DEF v, x
<1>7. Same(a, free) /\ a.top = free.top
  BY <1>5, <1>6 DEF KType
<1>8. Same(b, free) /\ b.top = free.top
  BY <1>5, <1>6 DEF KType
<1>9. Same(c, free) /\ c.top = free.top
  BY <1>5, <1>6 DEF KType
<1> HIDE DEF a, b, c
<1>10. Same(r, o) /\ r.top = T
  BY <1>3, <1>5, <1>7, <1>8, <1>9
<1>11. QED
  BY <1>2, <1>10 DEF r, t, T

(* A task that is taken off all its lists for xTaskAbortDelay *)
LEMMA OffBothEases ==
  ASSUME NEW s \in KType, NEW t \in Task
  PROVE  LET r == OffEventLists(OffStateList(s, t), {t})
         IN  Eases(r, s) /\ r.depth = s.depth /\ t \notin Waiters(r)
<1> DEFINE o == OffStateList(s, t)
           r == OffEventLists(o, {t})
<1>1. /\ o \in KType /\ o.cur = s.cur /\ o.depth = s.depth /\ o.waiting = s.waiting
      /\ o.ready = [p \in Prio |-> s.ready[p] \ {t}] /\ o.before = s.before
  BY OffStateListFields
<1> HIDE DEF o
<1>2. /\ r \in KType /\ r.cur = o.cur /\ r.depth = o.depth /\ r.ready = o.ready
      /\ r.waiting = [q \in Object |-> o.waiting[q] \ {t}]
  BY <1>1, OffEventListsFields
<1>3. Restricted(r, s, {t}) /\ s.before \in SUBSET (Task \X Task)
  BY <1>1 DEF Restricted, OffEventLists, KType
<1> HIDE DEF r
<1>4. \A u \in ReadyTasks(r) : u \in ReadyTasks(s)
  BY <1>1, <1>2, ReadyTasksElements
<1>5. \A q \in Object : r.waiting[q] \subseteq s.waiting[q]
  BY <1>1, <1>2
<1>6. t \notin Waiters(r)
  <2>1. SUFFICES ASSUME t \in Waiters(r) PROVE FALSE
    OBVIOUS
  <2>2. PICK q \in Object : t \in r.waiting[q]
    BY <2>1, WaitersElements
  <2>3. QED
    BY <1>2, <2>2
<1>7. EventListsOrdered(s) => EventListsOrdered(r)
  BY <1>3, RestrictedOrder
<1>8. Eases(r, s)
  BY <1>1, <1>2, <1>4, <1>5, <1>7 DEF Eases
<1>9. QED
  BY <1>1, <1>2, <1>6, <1>8 DEF r, o

LEMMA AddToReadyListEases ==
  ASSUME NEW s \in KType, NEW t \in Task, t \notin Waiters(s)
  PROVE  Eases(AddToReadyList(s, t), s)
<1> DEFINE r == AddToReadyList(s, t)
<1>1. /\ r \in KType /\ r.cur = s.cur /\ r.waiting = s.waiting /\ r.before = s.before
      /\ r.ready = [s.ready EXCEPT ![s.prio[t]] = @ \cup {t}]
  BY AddToReadyListFields
<1> HIDE DEF r
<1>2. \A u \in ReadyTasks(r) : u \in ReadyTasks(s) \/ u = t
  <2>1. s.ready \in [Prio -> SUBSET Task]
    BY DEF KType
  <2>2. QED
    BY <1>1, <2>1, ReadyTasksElements
<1>3. Waiters(r) = Waiters(s)
  BY <1>1 DEF Waiters
<1>4. EventListsOrdered(s) => EventListsOrdered(r)
  BY <1>1 DEF EventListsOrdered
<1>5. Eases(r, s)
  BY <1>1, <1>2, <1>3, <1>4 DEF Eases
<1>6. QED
  BY <1>5 DEF r

-----------------------------------------------------------------------------
(* The head of an event list.                                              *)

(* A finite total order has a least element: a list that is not empty has  *)
(* one first waiter.                                                       *)
LEMMA OneFirstWaiter ==
  ASSUME NEW s \in KType, EventListsOrdered(s), NEW o \in Object, s.waiting[o] # {}
  PROVE  \E t \in s.waiting[o] : FirstWaiters(s, o, 1) = {t}
<1> DEFINE W == s.waiting[o]
           P(t) == {u \in W : <<u, t>> \in s.before}
           N == {Cardinality(P(t)) : t \in W}
<1>1. W \in SUBSET Task /\ W # {}
  BY DEF KType
<1>2. \A t : P(t) \in SUBSET W
  OBVIOUS
<1>3. /\ \A t, u \in W : t # u => (<<t, u>> \in s.before <=> <<u, t>> \notin s.before)
      /\ \A t \in W : <<t, t>> \notin s.before
      /\ \A t, u, w \in W : <<t, u>> \in s.before /\ <<u, w>> \in s.before
                              => <<t, w>> \in s.before
  BY DEF EventListsOrdered
<1>4. FirstWaiters(s, o, 1) = {t \in W : Cardinality(P(t)) < 1}
  BY DEF FirstWaiters
<1>5. \A u, t \in W : u \in P(t) <=> <<u, t>> \in s.before
  OBVIOUS
<1>6. \A t : \A u \in P(t) : <<u, t>> \in s.before
  OBVIOUS
<1> HIDE DEF W, P
<1>7. IsFiniteSet(W)
  BY <1>1, KernelAssumption, FS_Subset
<1>8. \A t : IsFiniteSet(P(t)) /\ Cardinality(P(t)) \in Nat
  BY <1>2, <1>7, FS_Subset, FS_CardinalityType
<1>9. N \in SUBSET Nat /\ N # {}
  BY <1>1, <1>8
<1>10. PICK n \in N : \A x \in N : n <= x
  <2> HIDE DEF N
  <2>1. QED
    BY <1>9, LeastNatural
<1>11. PICK t \in W : \A u \in W : Cardinality(P(t)) <= Cardinality(P(u))
  BY <1>10
<1>12. P(t) = {}
  <2>1. SUFFICES ASSUME NEW u \in P(t) PROVE FALSE
    OBVIOUS
  <2>2. u \in W /\ <<u, t>> \in s.before
    BY <1>2, <1>5
  <2>3. P(u) \in SUBSET P(t) /\ u \notin P(u)
    BY <1>2, <1>3, <1>5, <2>2
  <2>4. Cardinality(P(u)) <= Cardinality(P(t)) /\ Cardinality(P(u)) # Cardinality(P(t))
    BY <1>8, <2>1, <2>3, FS_Subset
  <2>5. QED
    BY <1>8, <1>11, <2>2, <2>4
<1>13. Cardinality(P(t)) < 1
  BY <1>12, FS_EmptySet
<1>14. \A u \in W : Cardinality(P(u)) < 1 => u = t
  <2>1. SUFFICES ASSUME NEW u \in W, Cardinality(P(u)) < 1, u # t PROVE FALSE
    OBVIOUS
  <2>2. P(u) = {}
    BY <1>8, <2>1, FS_EmptySet
  <2>3. QED
    BY <1>3, <1>5, <1>12, <2>1, <2>2
<1>15. QED
  BY <1>4, <1>13, <1>14 DEF W

(* The first n waiters of a list are n tasks, or all that wait.            *)
LEMMA ManyFirstWaiters ==
  ASSUME NEW s \in KType, EventListsOrdered(s), NEW o \in Object, NEW n \in Nat,
         FirstWaiters(s, o, n) # s.waiting[o]
  PROVE  n <= Cardinality(FirstWaiters(s, o, n))
<1> DEFINE W == s.waiting[o]
           P(t) == {u \in W : <<u, t>> \in s.before}
           F == FirstWaiters(s, o, n)
           L == W \ F
           N == {Cardinality(P(t)) : t \in L}
<1>1. W \in SUBSET Task
  BY DEF KType
<1>2. \A t : P(t) \in SUBSET W
  OBVIOUS
<1>3. F = {t \in W : Cardinality(P(t)) < n}
  BY DEF FirstWaiters
<1>4. \A t, u \in W : u \in P(t) => t \notin P(u) /\ u \notin P(u) /\ P(u) \subseteq P(t)
  BY DEF EventListsOrdered
<1>5. \A t \in W : t \notin P(t)
  BY DEF EventListsOrdered
<1> HIDE DEF W, P, F
<1>6. IsFiniteSet(W)
  BY <1>1, KernelAssumption, FS_Subset
<1>7. \A t : IsFiniteSet(P(t)) /\ Cardinality(P(t)) \in Nat
  BY <1>2, <1>6, FS_Subset, FS_CardinalityType
<1>8. N \in SUBSET Nat /\ N # {}
  BY <1>3, <1>7 DEF W, F
<1>9. PICK w \in N : \A x \in N : w <= x
  <2> HIDE DEF N
  <2>1. QED
    BY <1>8, LeastNatural
<1>10. PICK t \in L : w = Cardinality(P(t))
  OBVIOUS
<1>11. \A u \in P(t) : u \in F
  <2>1. SUFFICES ASSUME NEW u \in P(t), u \notin F
                 PROVE  FALSE
    OBVIOUS
  <2>2. u \in L /\ P(u) \subseteq P(t) /\ u \notin P(u)
    BY <1>2, <1>4, <1>10, <2>1
  <2>3. Cardinality(P(u)) < Cardinality(P(t))
    <3>1. Cardinality(P(u)) <= Cardinality(P(t)) /\ P(u) # P(t)
      BY <1>7, <2>1, <2>2, FS_Subset
    <3>2. Cardinality(P(u)) # Cardinality(P(t))
      BY <1>7, <2>2, <3>1, FS_Subset
    <3>3. QED
      BY <1>7, <3>1, <3>2
  <2>4. Cardinality(P(t)) <= Cardinality(P(u))
    BY <1>9, <1>10, <2>2
  <2>5. QED
    BY <1>7, <2>3, <2>4
<1>12. IsFiniteSet(F) /\ Cardinality(F) \in Nat
  BY <1>3, <1>6, FS_Subset, FS_CardinalityType
<1>13. Cardinality(P(t)) <= Cardinality(F)
  BY <1>11, <1>12, FS_Subset
<1>14. n <= Cardinality(P(t))
  BY <1>3, <1>7, <1>10
<1>15. QED
  BY <1>7, <1>12, <1>13, <1>14 DEF F

(* xTaskRemoveFromEventList takes its tasks off the event lists. *)
LEMMA RemoveFromEventListEases ==
  ASSUME NEW s \in KType, NEW S \in SUBSET Task
  PROVE  LET r == RemoveFromEventList(s, S)
         IN  /\ Eases(r, s) /\ SameControl(r, s)
             /\ r.waiting = [o \in Object |-> s.waiting[o] \ S]
<1> DEFINE y == Preempts(s, S)
           a == MakeReady(s, S)
           o == OffEventLists(s, S)
           b == [o EXCEPT !.pending = o.pending \cup S]
           m == IF s.depth = 0 THEN a ELSE b
           r == [m EXCEPT !.yieldPending = m.yieldPending \/ y]
<1>1. RemoveFromEventList(s, S) = r /\ y \in BOOLEAN
  BY DEF RemoveFromEventList, Preempts
<1>2. Eases(a, s) /\ a \in KType /\ a.waiting = [q \in Object |-> s.waiting[q] \ S]
  BY MakeReadyFields, MakeReadyEases
<1>3. /\ o \in KType /\ o.waiting = [q \in Object |-> s.waiting[q] \ S]
      /\ o.cur = s.cur /\ o.ready = s.ready /\ o.pending = s.pending \ S
  BY OffEventListsFields
<1>4. Restricted(o, s, S) /\ s.before \in SUBSET (Task \X Task)
  BY DEF Restricted, OffEventLists, KType
<1> HIDE DEF a, o, y
<1>5. EventListsOrdered(s) => EventListsOrdered(o)
  BY <1>4, RestrictedOrder
<1>6. /\ b \in KType /\ b.waiting = o.waiting /\ b.before = o.before
      /\ b.cur = s.cur /\ b.ready = s.ready
  <2>1. o.pending \cup S \in SUBSET Task
    BY <1>3 DEF KType
  <2>2. QED
    BY <1>3, <2>1 DEF KType
<1> HIDE DEF b
<1>7. Eases(b, s)
  <2>1. EventListsOrdered(o) => EventListsOrdered(b)
    BY <1>6 DEF EventListsOrdered
  <2>2. \A q \in Object : b.waiting[q] \subseteq s.waiting[q]
    BY <1>3, <1>6
  <2>3. ReadyTasks(b) = ReadyTasks(s)
    BY <1>6 DEF ReadyTasks
  <2>4. QED
    BY <1>5, <1>6, <2>1, <2>2, <2>3 DEF Eases
<1>8. Eases(m, s) /\ m \in KType /\ m.waiting = [q \in Object |-> s.waiting[q] \ S]
  BY <1>2, <1>3, <1>6, <1>7
<1> HIDE DEF m
<1>9. (m.yieldPending \/ y) \in BOOLEAN
  BY <1>1, <1>8 DEF KType
<1>10. /\ r \in KType /\ r.cur = m.cur /\ r.waiting = m.waiting
       /\ r.ready = m.ready /\ r.before = m.before
  BY <1>8, <1>9 DEF KType
<1> HIDE DEF r
<1>11. Eases(r, s)
  BY <1>8, <1>10, SameWaits, EasesTransitive
<1>12. QED
  BY <1>1, <1>8, <1>10, <1>11, RemoveFromEventListControl

(* vTaskPlaceOnEventList: the running task is on one more list, and blocks. *)
LEMMA PlaceOnEventListWaits ==
  ASSUME NEW s \in KType, WaitersBlocked(s), EventListsOrdered(s),
         s.cur \notin Waiters(s), NEW o \in Object, NEW n \in Tick,
         \A p, q \in Object : p # q => s.waiting[p] \cap s.waiting[q] = {}
  PROVE  LET r == PlaceOnEventList(s, o, n)
         IN  /\ r \in KType /\ r.cur = s.cur /\ r.depth = s.depth
             /\ r.prio = s.prio /\ r.base = s.base
             /\ r.waiting = [s.waiting EXCEPT ![o] = s.waiting[o] \cup {s.cur}]
             /\ WaitersBlocked(r) /\ EventListsOrdered(r)
<1> DEFINE t == s.cur
           passed == PassedOnInsert(s, o, t)
           W == [s.waiting EXCEPT ![o] = s.waiting[o] \cup {t}]
           B == s.before \cup (passed \X {t}) \cup ({t} \X (s.waiting[o] \ passed))
           m == [s EXCEPT !.waiting = W, !.before = B]
           r == AddCurrentToDelayedList(m, n, TRUE)
<1>1. PlaceOnEventList(s, o, n) = r
  BY DEF PlaceOnEventList
<1>2. /\ t \in Task /\ s.waiting \in [Object -> SUBSET Task]
      /\ s.before \in SUBSET (Task \X Task)
  BY DEF KType
<1>3. passed \in SUBSET Task /\ passed = PassedOnInsert(s, o, t)
  BY <1>2 DEF PassedOnInsert
<1> HIDE DEF passed, t
<1>4. W \in [Object -> SUBSET Task] /\ B \in SUBSET (Task \X Task)
  BY <1>2, <1>3
<1>5. \A u : u \in UNION {W[q] : q \in Object} => u \in Waiters(s) \/ u = t
  BY <1>2 DEF Waiters
<1>6. /\ W = [s.waiting EXCEPT ![o] = @ \cup {t}]
      /\ B = s.before \cup (passed \X {t}) \cup ({t} \X (s.waiting[o] \ passed))
  OBVIOUS
<1> HIDE DEF W, B
<1>7. /\ m \in KType /\ m.cur = t /\ m.depth = s.depth /\ m.waiting = W /\ m.before = B
      /\ m.ready = s.ready /\ m.prio = s.prio /\ m.base = s.base /\ m.key = s.key
  BY <1>4 DEF KType, t
<1> HIDE DEF m
<1>8. /\ r \in KType /\ r.cur = t /\ r.depth = s.depth /\ r.waiting = W /\ r.before = B
      /\ r.prio = s.prio /\ r.base = s.base /\ r.key = s.key
      /\ r.ready = [p \in Prio |-> s.ready[p] \ {t}]
  <2>1. /\ r \in KType /\ r.cur = m.cur /\ r.depth = m.depth
        /\ r.waiting = m.waiting /\ r.before = m.before
        /\ r.prio = m.prio /\ r.base = m.base /\ r.key = m.key
        /\ r.ready = [p \in Prio |-> m.ready[p] \ {m.cur}]
    BY <1>7, AddCurrentWaits
  <2> HIDE DEF r
  <2>2. QED
    BY <1>7, <2>1
<1> HIDE DEF r
<1>9. \A u \in ReadyTasks(r) : u \in ReadyTasks(s) /\ u # t
  BY <1>8, ReadyTasksElements
<1>10. WaitersBlocked(r)
  BY <1>5, <1>8, <1>9 DEF WaitersBlocked, Waiters
<1>11. EventListsOrdered(r)
  <2>1. t \notin Waiters(s)
    BY DEF t
  <2>2. r.waiting = [s.waiting EXCEPT ![o] = @ \cup {t}]
    BY <1>6, <1>8
  <2>3. r.before = s.before \cup (passed \X {t}) \cup ({t} \X (s.waiting[o] \ passed))
    BY <1>6, <1>8
  <2>4. QED
    BY <1>2, <1>3, <2>1, <2>2, <2>3, InsertKeepsOrder
<1>12. QED
  BY <1>1, <1>8, <1>10, <1>11 DEF W, B, passed, t

(* What the insertion into an event list writes: the running task leaves its  *)
(* ready list, the priorities and the keys stay                               *)
LEMMA PlaceOnEventListFields ==
  ASSUME NEW s \in KType, NEW o \in Object, NEW n \in Tick
  PROVE  LET r == PlaceOnEventList(s, o, n)
         IN  /\ r.key = s.key /\ r.count = s.count
             /\ r.ready = [p \in Prio |-> s.ready[p] \ {s.cur}]
             /\ r.before = s.before \cup (PassedOnInsert(s, o, s.cur) \X {s.cur})
                  \cup ({s.cur} \X (s.waiting[o] \ PassedOnInsert(s, o, s.cur)))
<1> DEFINE t == s.cur
           passed == PassedOnInsert(s, o, t)
           W == [s.waiting EXCEPT ![o] = s.waiting[o] \cup {t}]
           B == s.before \cup (passed \X {t}) \cup ({t} \X (s.waiting[o] \ passed))
           m == [s EXCEPT !.waiting = W, !.before = B]
           r == AddCurrentToDelayedList(m, n, TRUE)
<1>1. PlaceOnEventList(s, o, n) = r
  BY DEF PlaceOnEventList
<1>2. /\ t \in Task /\ s.waiting \in [Object -> SUBSET Task]
      /\ s.before \in SUBSET (Task \X Task)
  BY DEF KType
<1>3. passed \in SUBSET Task /\ passed = PassedOnInsert(s, o, t)
  BY <1>2 DEF PassedOnInsert
<1> HIDE DEF passed, t
<1>4. W \in [Object -> SUBSET Task] /\ B \in SUBSET (Task \X Task)
  BY <1>2, <1>3
<1> HIDE DEF W, B
<1>5. /\ m \in KType /\ m.cur = t /\ m.before = B
      /\ m.ready = s.ready /\ m.key = s.key /\ m.count = s.count
  BY <1>4 DEF KType, t
<1> HIDE DEF m
<1>6. /\ r.before = m.before /\ r.key = m.key /\ r.count = m.count
      /\ r.ready = [p \in Prio |-> m.ready[p] \ {m.cur}]
  BY <1>5, AddCurrentWaits
<1> HIDE DEF r
<1>7. QED
  BY <1>1, <1>5, <1>6 DEF B, passed, t

-----------------------------------------------------------------------------
(* The state in which the first task is started *)
LEMMA InitialKernelFacts ==
  ASSUME NEW s \in InitialKernel
  PROVE  /\ s \in KType /\ s.depth = 0
         /\ \A o \in Object : s.waiting[o] = {}
         /\ s.count = Cardinality(Boot)
         /\ s.before = {} /\ s.prio = InitPrio /\ s.base = InitPrio
         /\ s.cur \in Boot /\ s.ready = [p \in Prio |-> {t \in Boot : InitPrio[t] = p}]
         /\ s.top = {InitPrio[t] : t \in Boot}
         /\ s.key = [t \in Task |-> MaxPrio - InitPrio[t]]
<1>1. PICK c \in {t \in Boot : \A u \in Boot : InitPrio[u] <= InitPrio[t]} :
        s = [ cur |-> c, prio |-> InitPrio, base |-> InitPrio,
              ready |-> [p \in Prio |-> {t \in Boot : InitPrio[t] = p}],
              top |-> {InitPrio[t] : t \in Boot},
              delayed |-> {}, overflow |-> {}, suspended |-> {}, dying |-> {},
              wake |-> [t \in Task |-> 0], pending |-> {},
              waiting |-> [o \in Object |-> {}], before |-> {},
              key |-> [t \in Task |-> MaxPrio - InitPrio[t]],
              aborted |-> {}, notify |-> [t \in Task |-> "not_waiting"],
              tick |-> 0, next |-> MaxDelay, overflows |-> 0, pended |-> 0,
              depth |-> 0, yieldPending |-> FALSE,
              count |-> Cardinality(Boot), cleanup |-> 0 ]
  BY DEF InitialKernel
<1> DEFINE R == [p \in Prio |-> {t \in Boot : InitPrio[t] = p}]
           T == {InitPrio[t] : t \in Boot}
           W == [t \in Task |-> 0]
           Q == [o \in Object |-> {}]
           K == [t \in Task |-> MaxPrio - InitPrio[t]]
           N == [t \in Task |-> "not_waiting"]
<1>2. /\ R \in [Prio -> SUBSET Task] /\ T \in SUBSET Prio
      /\ InitPrio \in [Task -> Prio] /\ c \in Task
  BY KernelAssumption
<1>3. W \in [Task -> Tick] /\ Q \in [Object -> SUBSET Task]
  BY Constants
<1>4. K \in [Task -> 1 .. MaxPrio]
  BY KernelAssumption DEF Prio
<1>5. N \in [Task -> NotifyState]
  BY DEF NotifyState
<1>6. 0 \in Tick /\ MaxDelay \in Tick /\ 0 \in 0 .. OvfMod - 1
  BY Constants
<1>7. Cardinality(Boot) \in Nat
  BY KernelAssumption, FS_Subset, FS_CardinalityType
<1> HIDE DEF R, T, W, K, N
<1>8. s \in KType
  <2>1. s = [ cur |-> c, prio |-> InitPrio, base |-> InitPrio, ready |-> R, top |-> T,
              delayed |-> {}, overflow |-> {}, suspended |-> {}, dying |-> {},
              wake |-> W, pending |-> {}, waiting |-> Q, before |-> {}, key |-> K,
              aborted |-> {}, notify |-> N,
              tick |-> 0, next |-> MaxDelay, overflows |-> 0, pended |-> 0,
              depth |-> 0, yieldPending |-> FALSE,
              count |-> Cardinality(Boot), cleanup |-> 0 ]
    BY <1>1 DEF R, T, W, K, N
  <2> HIDE DEF Q
  <2>2. QED
    BY <1>2, <1>3, <1>4, <1>5, <1>6, <1>7, <2>1 DEF KType
<1>9. QED
  BY <1>1, <1>8

-----------------------------------------------------------------------------
(* The task API.                                                           *)

(* xTaskDelayUntil's two-sided comparison of the tick counter with the     *)
(* previous and the next wake time says whether fewer than n ticks have    *)
(* passed since the previous one, for every width of the counter.          *)
LEMMA ShouldDelayExact ==
  ASSUME NEW now \in Tick, NEW prev \in Tick, NEW n \in 1 .. MaxDelay
  PROVE  ShouldDelay(now, prev, n) <=> (now + TickMod - prev) % TickMod < n
<1>1. /\ TickMod \in Nat \ {0} /\ now \in 0 .. TickMod - 1
      /\ prev \in 0 .. TickMod - 1 /\ n \in 1 .. TickMod - 1
  BY KernelAssumption DEF Tick, MaxDelay
<1>2. (prev + n) % TickMod = IF prev + n < TickMod THEN prev + n ELSE prev + n - TickMod
  BY <1>1
<1>3. (now + TickMod - prev) % TickMod
        = IF now < prev THEN now + TickMod - prev ELSE now - prev
  BY <1>1
<1>4. QED
  BY <1>1, <1>2, <1>3 DEF ShouldDelay

-----------------------------------------------------------------------------
(* Who is where: ControlInv.                                               *)

ServiceSections == {"unlock", "block", "abort", "aborted", "catchup", "catchup_block"}

(* What ControlInv says of the variables, with its definitions unfolded. *)
ControlParts ==
  /\ k \in KType /\ pc \in [Task -> Place] /\ arg \in [Task -> Task]
  /\ after = [t \in Task |-> "run"] /\ ticks \in Tick
  /\ \A t \in Task \ {k.cur} : pc[t] \notin ServiceSections
  /\ pc[k.cur] \in {"unlock", "block", "abort", "aborted"} => k.depth = 1
  /\ pc[k.cur] \in {"catchup", "catchup_block"} => k.depth = 0
  /\ (k.tick + k.pended) % TickMod = ticks
  /\ k.count = Cardinality({t \in Task : pc[t] # "gone"})
  /\ k.cleanup = Cardinality(k.dying)
  /\ k.dying = {t \in Task : pc[t] = "exit"}
  /\ pc[Idle] = "run"
  /\ pc[k.cur] = "abort" => pc[arg[k.cur]] \notin {"gone", "exit"}

LEMMA ControlInvUnfolded ==
  (ControlInv <=> ControlParts) /\ (ControlInv' <=> ControlParts')
<1>1. "run" \in Place
  BY DEF Place, BasePlace
<1>2. ControlInv <=> ControlParts
  BY <1>1 DEF ControlInv, ControlParts, TypeOK, SuspendedSectionsExclusive,
              TicksConserved, CountsMatch, Masked, At, Alive, ServiceSections
<1>3. ControlInv' <=> ControlParts'
  BY <1>1 DEF ControlInv, ControlParts, TypeOK, SuspendedSectionsExclusive,
              TicksConserved, CountsMatch, Masked, At, Alive, ServiceSections
<1>4. QED
  BY <1>2, <1>3

LEMMA InitControl ==
  ASSUME Init
  PROVE  ControlInv
<1> DEFINE first == {t \in Boot : \A u \in Boot : InitPrio[u] <= InitPrio[t]}
<1>1. PICK c \in first :
        k = [ cur |-> c, prio |-> InitPrio, base |-> InitPrio,
              ready |-> [p \in Prio |-> {t \in Boot : InitPrio[t] = p}],
              top |-> {InitPrio[t] : t \in Boot},
              delayed |-> {}, overflow |-> {}, suspended |-> {}, dying |-> {},
              wake |-> [t \in Task |-> 0], pending |-> {},
              waiting |-> [o \in Object |-> {}], before |-> {},
              key |-> [t \in Task |-> MaxPrio - InitPrio[t]],
              aborted |-> {}, notify |-> [t \in Task |-> "not_waiting"],
              tick |-> 0, next |-> MaxDelay, overflows |-> 0, pended |-> 0,
              depth |-> 0, yieldPending |-> FALSE,
              count |-> Cardinality(Boot), cleanup |-> 0 ]
  BY DEF Init, DispatchInit, InitialKernel
<1>2. c \in Task /\ Boot \subseteq Task /\ Idle \in Boot /\ IsFiniteSet(Boot)
  BY KernelAssumption, FS_Subset
<1>3. Cardinality(Boot) \in Nat
  BY <1>2, FS_CardinalityType
<1>4. /\ [p \in Prio |-> {t \in Boot : InitPrio[t] = p}] \in [Prio -> SUBSET Task]
      /\ {InitPrio[t] : t \in Boot} \subseteq Prio
      /\ [t \in Task |-> MaxPrio - InitPrio[t]] \in [Task -> 1 .. MaxPrio]
      /\ 0 \in Tick /\ MaxDelay \in Tick /\ 0 \in 0 .. OvfMod - 1
      /\ "not_waiting" \in NotifyState /\ InitPrio \in [Task -> Prio]
  BY <1>2, KernelAssumption, Constants DEF Prio, NotifyState
<1>5. k \in KType
  BY <1>1, <1>2, <1>3, <1>4 DEF KType
<1>6. pc = [t \in Task |-> IF t \in Boot THEN "run" ELSE "gone"]
  BY DEF Init, DispatchInit
<1>7. {t \in Task : pc[t] # "gone"} = Boot /\ {t \in Task : pc[t] = "exit"} = {}
  BY <1>2, <1>6
<1>8. /\ k.cur = c /\ k.dying = {} /\ k.count = Cardinality(Boot) /\ k.cleanup = 0
      /\ k.tick = 0 /\ k.pended = 0 /\ k.depth = 0
  BY <1>1
<1>9. /\ pc \in [Task -> Place] /\ arg \in [Task -> Task]
      /\ after = [t \in Task |-> "run"] /\ ticks = 0
  BY <1>6 DEF Init, DispatchInit, Place, BasePlace
<1>10. (0 + 0) % TickMod = 0
  BY Constants
<1>11. \A t \in Task : pc[t] \in {"run", "gone"} /\ (t \in Boot => pc[t] = "run")
  BY <1>6
<1>12. pc[c] = "run" /\ pc[Idle] = "run"
  BY <1>2, <1>6, <1>1
<1>13. QED
  BY <1>4, <1>5, <1>7, <1>8, <1>9, <1>10, <1>11, <1>12, FS_EmptySet, ControlInvUnfolded
     DEF ControlParts, ServiceSections

-----------------------------------------------------------------------------
(* Two shapes of step.  A step that moves no task in the code may switch   *)
(* tasks unless the scheduler is suspended or interrupts are masked.       *)
LEMMA StayKeepsServices ==
  ASSUME ControlInv, ~ Masked,
         pc' = pc, after' = after, arg' = arg, ticks' \in Tick,
         k' \in KType, k'.dying = k.dying, k'.count = k.count, k'.cleanup = k.cleanup,
         k'.depth = k.depth, k.depth # 0 => k'.cur = k.cur,
         (k'.tick + k'.pended) % TickMod = ticks'
  PROVE  ControlInv'
<1>1. k \in KType /\ k.cur \in Task /\ k'.cur \in Task /\ k.depth \in Nat
  BY ControlInvUnfolded DEF ControlParts, KType
<1>2. CASE k.depth # 0
  <2>1. k'.cur = k.cur
    BY <1>2
  <2>2. QED
    BY <2>1, ControlInvUnfolded DEF ControlParts
<1>3. CASE k.depth = 0
  <2>1. \A t \in Task : pc[t] \notin ServiceSections
    BY <1>1, <1>3, ControlInvUnfolded DEF ControlParts, Masked, ServiceSections
  <2>2. QED
    BY <1>1, <2>1, ControlInvUnfolded DEF ControlParts, ServiceSections
<1>4. QED
  BY <1>2, <1>3

(* The running task moves to the place p.  It may be switched out unless p *)
(* is inside a section with the scheduler suspended.                       *)
LEMMA MoveKeepsServices ==
  ASSUME ControlInv, pc[k.cur] \notin {"gone", "exit"}, k.cur # Idle,
         NEW p \in Place \ {"gone", "exit"},
         pc' = [pc EXCEPT ![k.cur] = p], after' = after,
         arg' \in [Task -> Task], ticks' \in Tick,
         k' \in KType, k'.dying = k.dying, k'.count = k.count, k'.cleanup = k.cleanup,
         p \in ServiceSections => k'.cur = k.cur,
         p \in {"unlock", "block", "abort", "aborted"} => k'.depth = 1,
         p \in {"catchup", "catchup_block"} => k'.depth = 0,
         p = "abort" => pc[arg'[k.cur]] \notin {"gone", "exit"} /\ arg'[k.cur] # k.cur,
         (k'.tick + k'.pended) % TickMod = ticks'
  PROVE  ControlInv'
<1>1. /\ pc \in [Task -> Place] /\ k.cur \in Task /\ k'.cur \in Task /\ Idle \in Task
      /\ k.count = Cardinality({t \in Task : pc[t] # "gone"})
      /\ k.cleanup = Cardinality(k.dying)
      /\ k.dying = {t \in Task : pc[t] = "exit"}
  BY ControlInvUnfolded, KernelAssumption DEF ControlParts, KType
<1>2. /\ pc' \in [Task -> Place] /\ pc'[k.cur] = p
      /\ \A t \in Task \ {k.cur} : pc'[t] = pc[t]
  BY <1>1
<1>3. /\ {t \in Task : pc'[t] # "gone"} = {t \in Task : pc[t] # "gone"}
      /\ {t \in Task : pc'[t] = "exit"} = {t \in Task : pc[t] = "exit"}
  BY <1>1, <1>2
<1>4. \A t \in Task \ {k.cur} : pc'[t] \notin ServiceSections
  BY <1>2, ControlInvUnfolded DEF ControlParts
<1>5. pc'[Idle] = "run" /\ after' = [t \in Task |-> "run"]
  BY <1>1, <1>2, ControlInvUnfolded DEF ControlParts
<1>6. pc'[k'.cur] \in ServiceSections => k'.cur = k.cur
  BY <1>1, <1>2, <1>4
<1>7. \A t \in Task \ {k'.cur} : pc'[t] \notin ServiceSections
  BY <1>1, <1>2, <1>4, <1>6
<1>8. /\ pc'[k'.cur] \in {"unlock", "block", "abort", "aborted"} => k'.depth = 1
      /\ pc'[k'.cur] \in {"catchup", "catchup_block"} => k'.depth = 0
      /\ pc'[k'.cur] = "abort" => pc'[arg'[k'.cur]] \notin {"gone", "exit"}
  BY <1>1, <1>2, <1>6 DEF ServiceSections
<1>9. /\ k'.count = Cardinality({t \in Task : pc'[t] # "gone"})
      /\ k'.cleanup = Cardinality(k'.dying)
      /\ k'.dying = {t \in Task : pc'[t] = "exit"}
  BY <1>1, <1>3
<1>10. QED
  BY <1>2, <1>5, <1>7, <1>8, <1>9, ControlInvUnfolded DEF ControlParts

-----------------------------------------------------------------------------
(* Ticks. *)

LEMMA TicksAdd ==
  ASSUME NEW a \in Tick, NEW p \in Nat, NEW n \in Nat
  PROVE  /\ (a + (p + n)) % TickMod = (((a + p) % TickMod) + n) % TickMod
         /\ (((a + n) % TickMod) + p) % TickMod = (((a + p) % TickMod) + n) % TickMod
<1>1. /\ TickMod \in Nat \ {0} /\ a \in Nat /\ a + p \in Nat /\ a + n \in Nat
      /\ a + (p + n) = (a + p) + n /\ (a + n) + p = (a + p) + n
  BY Constants DEF Tick
<1>2. /\ ((a + p) + n) % TickMod = (((a + p) % TickMod) + n) % TickMod
      /\ ((a + n) + p) % TickMod = (((a + n) % TickMod) + p) % TickMod
  BY <1>1, RemainderOfSum
<1>3. QED
  BY <1>1, <1>2

LEMMA TicksAddOne ==
  ASSUME NEW a \in Tick, NEW p \in Nat
  PROVE  /\ (a + (p + 1)) % TickMod = (((a + p) % TickMod) + 1) % TickMod
         /\ (((a + 1) % TickMod) + p) % TickMod = (((a + p) % TickMod) + 1) % TickMod
<1>1. 1 \in Nat
  OBVIOUS
<1>2. QED
  BY <1>1, TicksAdd, Zenon

LEMMA TicksMoveOne ==
  ASSUME NEW a \in Tick, NEW p \in Nat, p > 0
  PROVE  (((a + 1) % TickMod) + (p - 1)) % TickMod = (a + p) % TickMod
<1>1. PICK q \in Nat : q = p - 1 /\ p = q + 1
  <2>1. p - 1 \in Nat /\ p = (p - 1) + 1
    OBVIOUS
  <2>2. QED
    BY <2>1
<1>2. (((a + 1) % TickMod) + q) % TickMod = (a + (q + 1)) % TickMod
  BY TicksAddOne, Zenon
<1>3. QED
  BY <1>1, <1>2

LEMMA TickInterruptControl ==
  ASSUME ControlInv, TickInterrupt
  PROVE  ControlInv'
<1>1. /\ k \in KType /\ k.tick \in Tick /\ k.pended \in Nat /\ k.depth \in Nat
      /\ (k.tick + k.pended) % TickMod = ticks /\ ticks \in Tick
  BY ControlInvUnfolded DEF ControlParts, KType
<1>2. ticks' = (ticks + 1) % TickMod /\ ticks' \in Tick
  BY <1>1, Constants DEF TickInterrupt, Tick
<1>3. ~ Masked /\ pc' = pc /\ after' = after /\ arg' = arg
  BY DEF TickInterrupt
<1>4. CASE k.depth > 0 /\ k' = [k EXCEPT !.pended = @ + 1]
  <2>1. k.pended + 1 \in Nat
    BY <1>1
  <2>2. /\ k' \in KType /\ k'.dying = k.dying /\ k'.count = k.count
        /\ k'.cleanup = k.cleanup /\ k'.depth = k.depth /\ k'.cur = k.cur
        /\ k'.tick = k.tick /\ k'.pended = k.pended + 1
    BY <1>1, <1>4, <2>1 DEF KType
  <2>3. (k'.tick + k'.pended) % TickMod = ticks'
    BY <1>1, <1>2, <2>2, TicksAddOne
  <2>4. QED
    BY <1>2, <1>3, <2>2, <2>3, StayKeepsServices
<1>5. CASE k.depth = 0 /\ k' \in YieldIf(TickWantsSwitch(k), IncrementTick(k))
  <2> DEFINE m == IncrementTick(k)
             w == TickWantsSwitch(k)
  <2>1. Ticked(m, k) /\ w \in BOOLEAN
    BY <1>1, IncrementTickControl DEF TickWantsSwitch
  <2>2. k' \in YieldIf(w, m)
    BY <1>5
  <2> HIDE DEF m, w
  <2>3. k' \in KType /\ k' = [m EXCEPT !.yieldPending = k'.yieldPending, !.cur = k'.cur]
    BY <2>1, <2>2, YieldIfControl DEF Ticked
  <2>4. /\ k'.dying = k.dying /\ k'.count = k.count /\ k'.cleanup = k.cleanup
        /\ k'.depth = k.depth /\ k'.tick = (k.tick + 1) % TickMod
        /\ k'.pended = k.pended
    BY <2>1, <2>3 DEF Ticked, KType
  <2>5. (k'.tick + k'.pended) % TickMod = ticks'
    BY <1>1, <1>2, <2>4, TicksAddOne
  <2>6. QED
    BY <1>2, <1>3, <1>5, <2>3, <2>4, <2>5, StayKeepsServices
<1>6. QED
  BY <1>4, <1>5 DEF TickInterrupt

LEMMA CatchUpControl ==
  ASSUME ControlInv, CatchUp
  PROVE  ControlInv'
<1>1. /\ k \in KType /\ k.tick \in Tick /\ k.pended \in Nat /\ k.pended > 0
      /\ (k.tick + k.pended) % TickMod = ticks /\ ticks \in Tick
  BY ControlInvUnfolded DEF ControlParts, KType, CatchUp
<1>2. /\ k' \in KType /\ k'.pended = k.pended - 1
      /\ k'.tick = (k.tick + 1) % TickMod /\ k'.depth = k.depth
      /\ k'.cur = k.cur /\ k'.dying = k.dying
      /\ k'.count = k.count /\ k'.cleanup = k.cleanup
  BY <1>1, CatchUpTickControl DEF CatchUp
<1>3. (k'.tick + k'.pended) % TickMod = ticks
  BY <1>1, <1>2, TicksMoveOne
<1>4. QED
  BY <1>2, <1>3, ControlInvUnfolded DEF ControlParts, CatchUp

-----------------------------------------------------------------------------
(* A step of the kernel record that may switch tasks. *)

Switched(r, s) ==
  /\ r \in KType /\ (s.depth # 0 => r.cur = s.cur)
  /\ r.tick = s.tick /\ r.pended = s.pended /\ r.depth = s.depth
  /\ r.dying = s.dying /\ r.count = s.count /\ r.cleanup = s.cleanup

LEMMA YieldIfSwitches ==
  ASSUME NEW s, NEW m, SameControl(m, s), NEW w \in BOOLEAN, NEW r \in YieldIf(w, m)
  PROVE  Switched(r, s)
<1>1. /\ r \in KType
      /\ r = [m EXCEPT !.yieldPending = r.yieldPending, !.cur = r.cur]
      /\ m.depth # 0 => r.cur = m.cur
  BY YieldIfControl DEF SameControl
<1>2. QED
  BY <1>1 DEF SameControl, Switched, KType

LEMMA SwitchContextSwitches ==
  ASSUME NEW s \in KType, NEW r \in SwitchContext(s)
  PROVE  Switched(r, s)
<1>1. SameControl(s, s) /\ r \in YieldIf(TRUE, s)
  BY DEF SameControl, YieldIf
<1>2. QED
  BY <1>1, YieldIfSwitches

LEMMA StaySwitchedControl ==
  ASSUME ControlInv, ~ Masked, Switched(k', k),
         pc' = pc, after' = after, arg' = arg, ticks' = ticks
  PROVE  ControlInv'
BY StayKeepsServices, ControlInvUnfolded DEF Switched, ControlParts

LEMMA MoveSwitchedControl ==
  ASSUME ControlInv, pc[k.cur] \notin {"gone", "exit"}, k.cur # Idle, Switched(k', k),
         NEW p \in Place \ ({"gone", "exit"} \cup ServiceSections),
         pc' = [pc EXCEPT ![k.cur] = p], after' = after, arg' \in [Task -> Task],
         ticks' = ticks
  PROVE  ControlInv'
BY MoveKeepsServices, ControlInvUnfolded DEF Switched, ControlParts, ServiceSections

(* The facts most actions start from. *)
LEMMA ControlFacts ==
  ASSUME ControlInv
  PROVE  /\ k \in KType /\ k.cur \in Task /\ k.depth \in Nat
         /\ pc \in [Task -> Place] /\ arg \in [Task -> Task]
         /\ after[k.cur] = "run" /\ pc[Idle] = "run" /\ SameControl(k, k)
         /\ pc[k.cur] # "run" => k.cur # Idle
         /\ \A t \in Task : t \in k.dying <=> pc[t] = "exit"
BY ControlInvUnfolded DEF ControlParts, KType, SameControl

LEMMA TaskPlaces ==
  /\ {"run", "created", "suspend", "yield"}
        \subseteq Place \ ({"gone", "exit"} \cup ServiceSections)
  /\ ServiceSections \subseteq Place \ {"gone", "exit"}
BY DEF Place, BasePlace, ServiceSections

-----------------------------------------------------------------------------
(* The kernel's own steps. *)

LEMMA UnlockSchedulerControl ==
  ASSUME ControlInv, UnlockScheduler
  PROVE  ControlInv'
<1>1. PICK p \in {"catchup", "catchup_block"} :
        pc' = [pc EXCEPT ![k.cur] = p] /\ pc[k.cur] \in {"unlock", "block"}
  BY DEF UnlockScheduler, Unlock, At, Goto
<1>2. k.depth = 1
  BY <1>1, ControlInvUnfolded DEF ControlParts
<1>3. /\ k' \in KType /\ k'.depth = 0 /\ k'.cur = k.cur /\ k'.dying = k.dying
      /\ k'.tick = k.tick /\ k'.pended = k.pended
      /\ k'.count = k.count /\ k'.cleanup = k.cleanup
  BY <1>2, ControlFacts, DrainPendingControl DEF UnlockScheduler
<1>4. (k'.tick + k'.pended) % TickMod = ticks' /\ ticks' \in Tick
  BY <1>3, ControlInvUnfolded DEF ControlParts, UnlockScheduler
<1>5. after' = after /\ arg' \in [Task -> Task] /\ k.cur # Idle
  BY <1>1, ControlFacts DEF UnlockScheduler
<1>6. QED
  BY <1>1, <1>3, <1>4, <1>5, TaskPlaces, MoveKeepsServices DEF ServiceSections

LEMMA UnlockedControl ==
  ASSUME ControlInv, Unlocked
  PROVE  ControlInv'
<1>1. Switched(k', k)
  <2>1. k.yieldPending \in BOOLEAN /\ SameControl(k, k)
    BY ControlFacts DEF KType
  <2>2. QED
    BY <2>1, YieldIfSwitches DEF Unlocked
<1>2. PICK p \in {"run", "yield"} : pc' = [pc EXCEPT ![k.cur] = p]
  BY ControlFacts DEF Unlocked, Goto
<1>3. /\ pc[k.cur] \in {"catchup", "catchup_block"} /\ k.cur # Idle
      /\ after' = after /\ arg' \in [Task -> Task] /\ ticks' = ticks
  BY ControlFacts DEF Unlocked, Masked
<1>4. QED
  BY <1>1, <1>2, <1>3, TaskPlaces, MoveSwitchedControl

LEMMA YieldControl ==
  ASSUME ControlInv, Yield
  PROVE  ControlInv'
<1>1. Switched(k', k)
  BY ControlFacts, SwitchContextSwitches DEF Yield
<1>2. /\ pc' = [pc EXCEPT ![k.cur] = "run"] /\ pc[k.cur] = "yield" /\ k.cur # Idle
      /\ after' = after /\ arg' \in [Task -> Task] /\ ticks' = ticks
  BY ControlFacts DEF Yield, Goto, At
<1>3. QED
  BY <1>1, <1>2, TaskPlaces, MoveSwitchedControl

LEMMA ExitControl ==
  ASSUME ControlInv, Exit
  PROVE  ControlInv'
<1>1. Switched(k', k)
  BY ControlFacts, SwitchContextSwitches DEF Exit
<1>2. QED
  BY <1>1, StaySwitchedControl DEF Exit, At, Masked

LEMMA CreatedControl ==
  ASSUME ControlInv, Created
  PROVE  ControlInv'
<1>1. Switched(k', k)
  <2>1. Preempts(k, {arg[k.cur]}) \in BOOLEAN /\ SameControl(k, k)
    BY ControlFacts DEF Preempts
  <2>2. QED
    BY <2>1, YieldIfSwitches DEF Created
<1>2. /\ pc' = [pc EXCEPT ![k.cur] = "run"] /\ pc[k.cur] = "created" /\ k.cur # Idle
      /\ after' = after /\ arg' \in [Task -> Task] /\ ticks' = ticks
  BY ControlFacts DEF Created, Goto, At
<1>3. QED
  BY <1>1, <1>2, TaskPlaces, MoveSwitchedControl

LEMMA SuspendedControl ==
  ASSUME ControlInv, Suspended
  PROVE  ControlInv'
<1>1. Switched(k', k)
  BY ControlFacts, ResetNextUnblockTimeControl DEF Suspended, SameControl, Switched
<1>2. PICK p \in {"run", "yield"} : pc' = [pc EXCEPT ![k.cur] = p]
  BY DEF Suspended, Goto
<1>3. /\ pc[k.cur] = "suspend" /\ k.cur # Idle
      /\ after' = after /\ arg' \in [Task -> Task] /\ ticks' = ticks
  BY ControlFacts DEF Suspended, At
<1>4. QED
  BY <1>1, <1>2, <1>3, TaskPlaces, MoveSwitchedControl

LEMMA AbortBlockedControl ==
  ASSUME ControlInv, AbortBlocked
  PROVE  ControlInv'
<1> DEFINE t == arg[k.cur]
           m == OffStateList(k, t)
           off == OffEventLists(m, {t})
<1>1. /\ pc[k.cur] = "abort" /\ k.cur # Idle /\ k.depth = 1
      /\ t \in Task /\ t \notin k.dying
  BY ControlFacts, ControlInvUnfolded DEF AbortBlocked, At, ControlParts
<1>2. SameControl(m, k)
  BY <1>1, ControlFacts, OffStateListControl
<1>3. SameControl(off, k)
  <2> HIDE DEF m, t
  <2>1. SameControl(off, m)
    BY <1>1, <1>2, OffEventListsControl DEF SameControl
  <2>2. QED
    BY <1>2, <2>1 DEF SameControl
<1>4. SameControl(k', k)
  <2>1. k' = off \/ k' = [off EXCEPT !.aborted = off.aborted \cup {t}]
    BY DEF AbortBlocked
  <2> HIDE DEF off, t
  <2>2. QED
    BY <1>1, <1>3, <2>1 DEF SameControl, KType
<1>5. /\ pc' = [pc EXCEPT ![k.cur] = "aborted"]
      /\ after' = after /\ arg' \in [Task -> Task] /\ ticks' = ticks
  BY ControlFacts DEF AbortBlocked, Goto
<1>6. (k'.tick + k'.pended) % TickMod = ticks' /\ ticks' \in Tick
  BY <1>4, <1>5, ControlInvUnfolded DEF ControlParts, SameControl
<1>7. QED
  BY <1>1, <1>4, <1>5, <1>6, TaskPlaces, MoveKeepsServices DEF ServiceSections, SameControl

LEMMA AbortReadyControl ==
  ASSUME ControlInv, AbortReady
  PROVE  ControlInv'
<1> DEFINE t == arg[k.cur]
           m == AddToReadyList(k, t)
           y == Preempts(k, {t})
<1>1. pc[k.cur] = "aborted" /\ k.cur # Idle /\ k.depth = 1 /\ t \in Task
  BY ControlFacts, ControlInvUnfolded DEF AbortReady, At, ControlParts
<1>2. SameControl(m, k)
  BY <1>1, ControlFacts, AddToReadyListControl
<1>3. SameControl(k', k)
  <2>1. k' = [m EXCEPT !.yieldPending = m.yieldPending \/ y]
    BY DEF AbortReady
  <2>2. (m.yieldPending \/ y) \in BOOLEAN
    BY <1>2 DEF SameControl, KType
  <2> HIDE DEF m, y
  <2>3. QED
    BY <1>2, <2>1, <2>2, YieldPendingControl
<1>4. /\ pc' = [pc EXCEPT ![k.cur] = "unlock"]
      /\ after' = after /\ arg' \in [Task -> Task] /\ ticks' = ticks
  BY ControlFacts DEF AbortReady, Goto
<1>5. (k'.tick + k'.pended) % TickMod = ticks' /\ ticks' \in Tick
  BY <1>3, <1>4, ControlInvUnfolded DEF ControlParts, SameControl
<1>6. QED
  BY <1>1, <1>3, <1>4, <1>5, TaskPlaces, MoveKeepsServices DEF ServiceSections, SameControl

-----------------------------------------------------------------------------
(* The number of tasks, and the tasks to be freed. *)

LEMMA FiniteTasks ==
  ASSUME NEW S \in SUBSET Task
  PROVE  IsFiniteSet(S)
BY KernelAssumption, FS_Subset

LEMMA OneMore ==
  ASSUME NEW S \in SUBSET Task, NEW t \in Task \ S
  PROVE  /\ Cardinality(S \cup {t}) = Cardinality(S) + 1
         /\ Cardinality(S) \in Nat
BY FiniteTasks, FS_AddElement, FS_CardinalityType

LEMMA OneLess ==
  ASSUME NEW S \in SUBSET Task, NEW t \in S
  PROVE  /\ Cardinality(S \ {t}) = Cardinality(S) - 1
         /\ Cardinality(S) \in Nat \ {0} /\ Cardinality(S) - 1 \in Nat
<1>1. IsFiniteSet(S) /\ IsFiniteSet(S \ {t})
  BY FiniteTasks
<1>2. /\ Cardinality(S \ {t}) = Cardinality(S) - 1
      /\ Cardinality(S) \in Nat /\ Cardinality(S \ {t}) \in Nat
  BY <1>1, FS_RemoveElement, FS_CardinalityType
<1>3. QED
  BY <1>2

LEMMA CreateControl ==
  ASSUME ControlInv, NEW t \in Task, Create(t)
  PROVE  ControlInv'
<1> DEFINE new == [k EXCEPT !.prio[t] = InitPrio[t], !.base[t] = InitPrio[t],
                            !.key[t] = MaxPrio - InitPrio[t],
                            !.aborted = @ \ {t}, !.notify[t] = "not_waiting",
                            !.count = @ + 1]
           S == {u \in Task : pc[u] # "gone"}
<1>1. /\ k.cur # Idle /\ pc[k.cur] = "run" /\ pc[t] = "gone" /\ t # k.cur /\ t # Idle
  BY ControlFacts DEF Create, Running, At
<1>2. new \in KType
  <2>1. /\ InitPrio[t] \in Prio /\ MaxPrio - InitPrio[t] \in 1 .. MaxPrio
        /\ "not_waiting" \in NotifyState
    BY KernelAssumption DEF Prio, NotifyState
  <2>2. /\ [k.prio EXCEPT ![t] = InitPrio[t]] \in [Task -> Prio]
        /\ [k.base EXCEPT ![t] = InitPrio[t]] \in [Task -> Prio]
        /\ [k.key EXCEPT ![t] = MaxPrio - InitPrio[t]] \in [Task -> 1 .. MaxPrio]
        /\ [k.notify EXCEPT ![t] = "not_waiting"] \in [Task -> NotifyState]
        /\ k.aborted \ {t} \in SUBSET Task /\ k.count + 1 \in Nat
    BY <2>1, ControlFacts DEF KType
  <2>3. QED
    BY <2>2, ControlFacts DEF KType
<1>3. /\ new.cur = k.cur /\ new.tick = k.tick /\ new.pended = k.pended
      /\ new.depth = k.depth /\ new.dying = k.dying /\ new.count = k.count + 1
      /\ new.cleanup = k.cleanup
  BY ControlFacts DEF KType
<1>4. k' = AddToReadyList(new, t)
  BY DEF Create
<1> HIDE DEF new
<1>5. SameControl(k', new)
  BY <1>2, <1>4, AddToReadyListControl
<1>6. /\ pc' = [pc EXCEPT ![t] = "run", ![k.cur] = "created"]
      /\ after' = after /\ arg' \in [Task -> Task] /\ ticks' = ticks
  BY ControlFacts DEF Create
<1>7. /\ pc' \in [Task -> Place] /\ pc'[Idle] = "run" /\ pc'[k.cur] = "created"
      /\ \A u \in Task \ {t, k.cur} : pc'[u] = pc[u]
      /\ pc'[t] = "run"
  BY <1>1, <1>6, ControlFacts, TaskPlaces, KernelAssumption
<1>8. /\ {u \in Task : pc'[u] # "gone"} = S \cup {t}
      /\ {u \in Task : pc'[u] = "exit"} = {u \in Task : pc[u] = "exit"}
  BY <1>1, <1>7, ControlFacts
<1>9. k.count = Cardinality(S) /\ Cardinality(S \cup {t}) = Cardinality(S) + 1
  <2>1. S \in SUBSET Task /\ t \in Task \ S
    BY <1>1
  <2>2. QED
    BY <2>1, OneMore, ControlInvUnfolded DEF ControlParts
<1> HIDE DEF S
<1>10. /\ k'.count = Cardinality({u \in Task : pc'[u] # "gone"})
       /\ k'.dying = {u \in Task : pc'[u] = "exit"}
       /\ k'.cleanup = Cardinality(k'.dying)
  <2>1. k'.count = Cardinality(S \cup {t})
    BY <1>3, <1>5, <1>9 DEF SameControl
  <2>2. k'.count = Cardinality({u \in Task : pc'[u] # "gone"})
    BY <2>1, <1>8, Zenon
  <2>3. /\ k'.dying = {u \in Task : pc'[u] = "exit"}
        /\ k'.cleanup = Cardinality(k'.dying)
    BY <1>3, <1>5, <1>8, ControlInvUnfolded DEF ControlParts, SameControl
  <2>4. QED
    BY <2>2, <2>3
<1>11. \A u \in Task \ {k'.cur} : pc'[u] \notin ServiceSections
  BY <1>3, <1>5, <1>7, ControlInvUnfolded DEF ControlParts, SameControl, ServiceSections
<1>12. QED
  BY <1>3, <1>5, <1>6, <1>7, <1>10, <1>11, ControlInvUnfolded
     DEF ControlParts, SameControl

LEMMA DeleteSelfControl ==
  ASSUME ControlInv, DeleteSelf
  PROVE  ControlInv'
<1> DEFINE off == TakenOff(k, k.cur)
<1>1. k.cur # Idle /\ pc[k.cur] = "run" /\ k.cur \notin k.dying /\ k.cur \in Task
  BY ControlFacts DEF DeleteSelf, Running, At
<1>2. SameControl(off, k)
  BY <1>1, ControlFacts, TakenOffControl
<1>3. k' = [off EXCEPT !.dying = off.dying \cup {k.cur}, !.cleanup = off.cleanup + 1]
  BY DEF DeleteSelf
<1> HIDE DEF off
<1>4. /\ k' \in KType /\ k'.cur = k.cur /\ k'.tick = k.tick /\ k'.pended = k.pended
      /\ k'.depth = k.depth /\ k'.count = k.count
      /\ k'.dying = k.dying \cup {k.cur} /\ k'.cleanup = k.cleanup + 1
  <2>1. off.dying \cup {k.cur} \in SUBSET Task /\ off.cleanup + 1 \in Nat
    BY <1>1, <1>2 DEF SameControl, KType
  <2>2. QED
    BY <1>2, <1>3, <2>1 DEF SameControl, KType
<1>5. /\ pc' = [pc EXCEPT ![k.cur] = "exit"]
      /\ after' = after /\ arg' = arg /\ ticks' = ticks
  BY DEF DeleteSelf, Goto
<1>6. /\ pc' \in [Task -> Place] /\ pc'[Idle] = "run" /\ pc'[k.cur] = "exit"
      /\ \A u \in Task \ {k.cur} : pc'[u] = pc[u]
  BY <1>1, <1>5, ControlFacts, KernelAssumption DEF Place, BasePlace
<1>7. /\ {u \in Task : pc'[u] # "gone"} = {u \in Task : pc[u] # "gone"}
      /\ {u \in Task : pc'[u] = "exit"} = k.dying \cup {k.cur}
  BY <1>1, <1>6, ControlInvUnfolded DEF ControlParts
<1>8. Cardinality(k.dying \cup {k.cur}) = k.cleanup + 1
  <2>1. k.dying \in SUBSET Task /\ k.cur \in Task \ k.dying
    BY <1>1, ControlFacts DEF KType
  <2>2. QED
    BY <2>1, OneMore, ControlInvUnfolded DEF ControlParts
<1>9. QED
  BY <1>1, <1>4, <1>5, <1>6, <1>7, <1>8, ControlInvUnfolded DEF ControlParts, ServiceSections

LEMMA DeleteControl ==
  ASSUME ControlInv, NEW t \in Task, Delete(t)
  PROVE  ControlInv'
<1> DEFINE off == TakenOff(k, t)
           less == [off EXCEPT !.count = off.count - 1]
           S == {u \in Task : pc[u] # "gone"}
<1>1. /\ k.cur # Idle /\ pc[k.cur] = "run" /\ t # k.cur /\ t # Idle
      /\ pc[t] \notin {"gone", "exit"} /\ t \notin k.dying
  BY ControlFacts DEF Delete, Running, At, Alive
<1>2. k.count = Cardinality(S) /\ Cardinality(S \ {t}) = k.count - 1 /\ k.count - 1 \in Nat
  <2>1. S \in SUBSET Task /\ t \in S
    BY <1>1
  <2>2. QED
    BY <2>1, OneLess, ControlInvUnfolded DEF ControlParts
<1>3. SameControl(off, k)
  BY <1>1, ControlFacts, TakenOffControl
<1>4. k' = ResetNextUnblockTime(less)
  BY DEF Delete
<1> HIDE DEF off
<1>5. /\ less \in KType /\ less.cur = k.cur /\ less.tick = k.tick
      /\ less.pended = k.pended /\ less.depth = k.depth /\ less.dying = k.dying
      /\ less.cleanup = k.cleanup /\ less.count = k.count - 1
  BY <1>2, <1>3 DEF SameControl, KType
<1> HIDE DEF less
<1>6. SameControl(k', less)
  BY <1>4, <1>5, ResetNextUnblockTimeControl
<1>7. /\ pc' = [pc EXCEPT ![t] = "gone"]
      /\ after' = after /\ arg' = arg /\ ticks' = ticks
  BY DEF Delete
<1>8. /\ pc' \in [Task -> Place] /\ pc'[Idle] = "run" /\ pc'[k.cur] = "run"
      /\ pc'[t] = "gone" /\ \A u \in Task \ {t} : pc'[u] = pc[u]
  BY <1>1, <1>7, ControlFacts, KernelAssumption DEF Place, BasePlace
<1>9. /\ {u \in Task : pc'[u] # "gone"} = S \ {t}
      /\ {u \in Task : pc'[u] = "exit"} = {u \in Task : pc[u] = "exit"}
  BY <1>1, <1>8
<1> HIDE DEF S
<1>10. /\ k'.count = Cardinality({u \in Task : pc'[u] # "gone"})
       /\ k'.dying = {u \in Task : pc'[u] = "exit"}
       /\ k'.cleanup = Cardinality(k'.dying)
  <2>1. k'.count = Cardinality(S \ {t})
    BY <1>2, <1>5, <1>6 DEF SameControl
  <2>2. k'.count = Cardinality({u \in Task : pc'[u] # "gone"})
    BY <2>1, <1>9, Zenon
  <2>3. /\ k'.dying = {u \in Task : pc'[u] = "exit"}
        /\ k'.cleanup = Cardinality(k'.dying)
    BY <1>5, <1>6, <1>9, ControlInvUnfolded DEF ControlParts, SameControl
  <2>4. QED
    BY <2>2, <2>3
<1>11. \A u \in Task \ {k'.cur} : pc'[u] \notin ServiceSections
  BY <1>5, <1>6, <1>8, ControlInvUnfolded DEF ControlParts, SameControl, ServiceSections
<1>12. QED
  BY <1>5, <1>6, <1>7, <1>8, <1>10, <1>11, ControlInvUnfolded
     DEF ControlParts, SameControl

LEMMA IdleCleanUpControl ==
  ASSUME ControlInv, IdleCleanUp
  PROVE  ControlInv'
<1> DEFINE S == {u \in Task : pc[u] # "gone"}
<1>1. PICK t \in k.dying :
        /\ k' = [OffStateList(k, t) EXCEPT !.count = @ - 1, !.cleanup = @ - 1]
        /\ pc' = [pc EXCEPT ![t] = "gone"]
  BY DEF IdleCleanUp
<1>2. /\ k.cur = Idle /\ pc[Idle] = "run" /\ t \in Task /\ pc[t] = "exit" /\ t # Idle
      /\ after' = after /\ arg' = arg /\ ticks' = ticks
  BY <1>1, ControlFacts DEF IdleCleanUp, KType
<1>3. /\ k.count = Cardinality(S) /\ Cardinality(S \ {t}) = k.count - 1
      /\ k.count - 1 \in Nat
      /\ Cardinality(k.dying \ {t}) = k.cleanup - 1 /\ k.cleanup - 1 \in Nat
  <2>1. S \in SUBSET Task /\ t \in S /\ k.dying \in SUBSET Task
    BY <1>2, ControlFacts DEF KType
  <2>2. k.count = Cardinality(S) /\ k.cleanup = Cardinality(k.dying)
    BY ControlInvUnfolded DEF ControlParts
  <2> HIDE DEF S
  <2>3. Cardinality(S \ {t}) = Cardinality(S) - 1 /\ Cardinality(S) - 1 \in Nat
    BY <2>1, OneLess
  <2>4. /\ Cardinality(k.dying \ {t}) = Cardinality(k.dying) - 1
        /\ Cardinality(k.dying) - 1 \in Nat
    BY <1>1, <2>1, OneLess
  <2>5. QED
    BY <2>2, <2>3, <2>4
<1> DEFINE off == OffStateList(k, t)
<1>4. /\ off \in KType /\ off.cur = k.cur /\ off.tick = k.tick
      /\ off.pended = k.pended /\ off.depth = k.depth /\ off.dying = k.dying \ {t}
      /\ off.count = k.count /\ off.cleanup = k.cleanup
  BY <1>2, ControlFacts, OffStateListFields
<1>5. k' = [off EXCEPT !.count = off.count - 1, !.cleanup = off.cleanup - 1]
  BY <1>1
<1> HIDE DEF off
<1>6. /\ k' \in KType /\ k'.cur = k.cur /\ k'.tick = k.tick
      /\ k'.pended = k.pended /\ k'.depth = k.depth /\ k'.dying = k.dying \ {t}
      /\ k'.count = k.count - 1 /\ k'.cleanup = k.cleanup - 1
  BY <1>3, <1>4, <1>5 DEF KType
<1>7. /\ pc' \in [Task -> Place] /\ pc'[Idle] = "run" /\ pc'[t] = "gone"
      /\ \A u \in Task \ {t} : pc'[u] = pc[u]
  BY <1>1, <1>2, ControlFacts, KernelAssumption DEF Place, BasePlace
<1>8. /\ {u \in Task : pc'[u] # "gone"} = S \ {t}
      /\ {u \in Task : pc'[u] = "exit"} = k.dying \ {t}
  BY <1>2, <1>7, ControlInvUnfolded DEF ControlParts
<1> HIDE DEF S
<1>9. QED
  BY <1>2, <1>3, <1>6, <1>7, <1>8, ControlInvUnfolded DEF ControlParts, ServiceSections

LEMMA IdleYieldControl ==
  ASSUME ControlInv, IdleYield
  PROVE  ControlInv'
<1>1. Switched(k', k)
  BY ControlFacts, SwitchContextSwitches DEF IdleYield
<1>2. ~ Masked
  BY ControlFacts DEF IdleYield, Masked
<1>3. QED
  BY <1>1, <1>2, StaySwitchedControl DEF IdleYield

-----------------------------------------------------------------------------
(* The calls of a task. *)

LEMMA RunningTaskFacts ==
  ASSUME ControlInv, Running
  PROVE  /\ k.cur # Idle /\ pc[k.cur] = "run" /\ k.cur \notin k.dying /\ ~ Masked
         /\ k \in KType /\ k.cur \in Task /\ SameControl(k, k)
         /\ pc \in [Task -> Place] /\ arg \in [Task -> Task]
BY ControlFacts DEF Running, At, Masked

(* A call that suspends the scheduler and goes on inside the section. *)
LEMMA EnterKeepsControl ==
  ASSUME ControlInv, Running, k.depth = 0, SameControl(k', SuspendAll(k)),
         NEW p \in {"block", "unlock", "abort"},
         pc' = [pc EXCEPT ![k.cur] = p], after' = after, arg' \in [Task -> Task],
         ticks' = ticks,
         p = "abort" => pc[arg'[k.cur]] \notin {"gone", "exit"} /\ arg'[k.cur] # k.cur
  PROVE  ControlInv'
<1>1. SuspendAll(k) \in KType /\ SuspendAll(k) = [k EXCEPT !.depth = k.depth + 1]
  BY RunningTaskFacts, SuspendAllControl
<1>2. /\ k' \in KType /\ k'.cur = k.cur /\ k'.depth = 1 /\ k'.dying = k.dying
      /\ k'.tick = k.tick /\ k'.pended = k.pended
      /\ k'.count = k.count /\ k'.cleanup = k.cleanup
  BY <1>1, RunningTaskFacts DEF SameControl, KType
<1>3. (k'.tick + k'.pended) % TickMod = ticks' /\ ticks' \in Tick
  BY <1>2, ControlInvUnfolded DEF ControlParts
<1>4. QED
  BY <1>2, <1>3, RunningTaskFacts, TaskPlaces, MoveKeepsServices DEF ServiceSections

LEMMA SuspendAllIs ==
  ASSUME ControlInv, Running
  PROVE  /\ SuspendAll(k) \in KType /\ SuspendAll(k).cur \notin SuspendAll(k).dying
         /\ SuspendAll(k).pended = k.pended /\ SameControl(SuspendAll(k), SuspendAll(k))
<1>1. SuspendAll(k) \in KType /\ SuspendAll(k) = [k EXCEPT !.depth = k.depth + 1]
  BY RunningTaskFacts, SuspendAllControl
<1>2. /\ SuspendAll(k).cur = k.cur /\ SuspendAll(k).dying = k.dying
      /\ SuspendAll(k).pended = k.pended
  BY <1>1, RunningTaskFacts DEF KType
<1>3. QED
  BY <1>1, <1>2, RunningTaskFacts DEF SameControl

LEMMA DelayControl ==
  ASSUME ControlInv, NEW n \in Delays, Delay(n)
  PROVE  ControlInv'
<1>1. n \in Tick /\ FALSE \in BOOLEAN
  BY SchedulerAssumption
<1>2. SameControl(k', SuspendAll(k))
  BY <1>1, SuspendAllIs, AddCurrentToDelayedListControl DEF Delay
<1>3. QED
  BY <1>2, RunningTaskFacts, EnterKeepsControl DEF Delay, Goto

LEMMA DelayUntilControl ==
  ASSUME ControlInv, NEW n \in Delays, NEW prev \in Tick, DelayUntil(prev, n)
  PROVE  ControlInv'
<1> DEFINE d == (prev + n + TickMod - k.tick) % TickMod
<1>1. d \in Tick
  <2>1. /\ n \in 0 .. TickMod - 1 /\ prev \in 0 .. TickMod - 1
        /\ k.tick \in 0 .. TickMod - 1 /\ TickMod \in Nat \ {0}
    BY SchedulerAssumption, KernelAssumption, ControlFacts DEF Tick, KType
  <2>2. QED
    BY <2>1 DEF Tick
<1>2. SameControl(k', SuspendAll(k))
  <2>1. \/ k' = AddCurrentToDelayedList(SuspendAll(k), d, FALSE)
        \/ k' = SuspendAll(k)
    BY DEF DelayUntil
  <2> HIDE DEF d
  <2>2. QED
    BY <1>1, <2>1, SuspendAllIs, AddCurrentToDelayedListControl DEF DelayUntil
<1>3. QED
  BY <1>2, RunningTaskFacts, EnterKeepsControl DEF DelayUntil, Goto

LEMMA WaitOnControl ==
  ASSUME ControlInv, NEW n \in Delays, NEW o \in Object, WaitOn(o, n)
  PROVE  ControlInv'
<1>1. n \in Tick
  BY SchedulerAssumption
<1>2. SameControl(k', SuspendAll(k))
  BY <1>1, SuspendAllIs, PlaceOnEventListControl DEF WaitOn
<1>3. QED
  BY <1>2, RunningTaskFacts, EnterKeepsControl DEF WaitOn, Goto

LEMMA AbortDelayControl ==
  ASSUME ControlInv, NEW t \in Task, AbortDelay(t)
  PROVE  ControlInv'
<1>1. SameControl(k', SuspendAll(k))
  BY SuspendAllIs DEF AbortDelay
<1>2. arg' \in [Task -> Task]
  BY RunningTaskFacts DEF AbortDelay
<1>3. CASE IsBlocked(t)
  <2>1. t # k.cur /\ pc[t] \notin {"gone", "exit"} /\ arg'[k.cur] = t
    BY <1>3, RunningTaskFacts DEF IsBlocked, AbortDelay, Alive
  <2>2. pc' = [pc EXCEPT ![k.cur] = "abort"]
    BY <1>3 DEF AbortDelay, Goto
  <2>3. QED
    BY <1>1, <1>2, <2>1, <2>2, EnterKeepsControl DEF AbortDelay
<1>4. CASE ~ IsBlocked(t)
  <2>1. pc' = [pc EXCEPT ![k.cur] = "unlock"]
    BY <1>4 DEF AbortDelay, Goto
  <2>2. QED
    BY <1>1, <1>2, <2>1, EnterKeepsControl DEF AbortDelay
<1>5. QED
  BY <1>3, <1>4

LEMMA CatchUpTicksControl ==
  ASSUME ControlInv, NEW n \in Delays, CatchUpTicks(n)
  PROVE  ControlInv'
<1>1. n \in Tick /\ n \in Nat
  BY SchedulerAssumption, KernelAssumption DEF Tick
<1>2. /\ k.tick \in Tick /\ k.pended \in Nat /\ k.depth = 0 /\ Running
      /\ (k.tick + k.pended) % TickMod = ticks /\ ticks \in Tick
  BY ControlInvUnfolded DEF ControlParts, KType, CatchUpTicks
<1>3. /\ k' \in KType /\ k'.cur = k.cur /\ k'.depth = 1 /\ k'.dying = k.dying
      /\ k'.tick = k.tick /\ k'.pended = k.pended + n
      /\ k'.count = k.count /\ k'.cleanup = k.cleanup
  <2> DEFINE m == SuspendAll(k)
  <2>1. m \in KType /\ m = [k EXCEPT !.depth = k.depth + 1]
    BY <1>2, RunningTaskFacts, SuspendAllControl
  <2>2. /\ m.cur = k.cur /\ m.depth = 1 /\ m.dying = k.dying /\ m.tick = k.tick
        /\ m.pended = k.pended /\ m.count = k.count /\ m.cleanup = k.cleanup
    BY <1>2, <2>1, RunningTaskFacts DEF KType
  <2>3. k' = [m EXCEPT !.pended = k.pended + n]
    BY <2>2 DEF CatchUpTicks
  <2>4. k.pended + n \in Nat
    BY <1>1, <1>2
  <2> HIDE DEF m
  <2>5. QED
    BY <2>1, <2>2, <2>3, <2>4 DEF KType
<1>4. ticks' = (ticks + n) % TickMod /\ ticks' \in Tick
  BY <1>1, <1>2, Constants DEF CatchUpTicks, Tick
<1>5. (k'.tick + k'.pended) % TickMod = ticks'
  <2>1. (k.tick + (k.pended + n)) % TickMod = (((k.tick + k.pended) % TickMod) + n) % TickMod
    BY <1>1, <1>2, TicksAdd, Zenon
  <2>2. QED
    BY <1>2, <1>3, <1>4, <2>1
<1>6. /\ pc' = [pc EXCEPT ![k.cur] = "unlock"] /\ after' = after
      /\ arg' \in [Task -> Task]
  BY <1>2, RunningTaskFacts DEF CatchUpTicks, Goto
<1>7. QED
  BY <1>2, <1>3, <1>4, <1>5, <1>6, RunningTaskFacts, TaskPlaces, MoveKeepsServices DEF ServiceSections

LEMMA TaskYieldControl ==
  ASSUME ControlInv, TaskYield
  PROVE  ControlInv'
<1>1. Switched(k', k)
  BY RunningTaskFacts, SwitchContextSwitches DEF TaskYield
<1>2. QED
  BY <1>1, RunningTaskFacts, StaySwitchedControl DEF TaskYield

LEMMA SuspendSchedulerControl ==
  ASSUME ControlInv, SuspendScheduler
  PROVE  ControlInv'
<1>1. Running
  BY DEF SuspendScheduler
<1>2. /\ k' \in KType /\ k'.cur = k.cur /\ k'.dying = k.dying
      /\ k'.tick = k.tick /\ k'.pended = k.pended
      /\ k'.count = k.count /\ k'.cleanup = k.cleanup
  BY <1>1, RunningTaskFacts, SuspendAllControl DEF SuspendScheduler, KType
<1>3. /\ pc' = [pc EXCEPT ![k.cur] = "run"] /\ after' = after
      /\ arg' \in [Task -> Task] /\ ticks' = ticks
  BY <1>1, RunningTaskFacts DEF SuspendScheduler
<1>4. (k'.tick + k'.pended) % TickMod = ticks' /\ ticks' \in Tick
  BY <1>2, <1>3, ControlInvUnfolded DEF ControlParts
<1>5. QED
  BY <1>1, <1>2, <1>3, <1>4, RunningTaskFacts, TaskPlaces, MoveKeepsServices DEF ServiceSections

LEMMA ResumeSchedulerControl ==
  ASSUME ControlInv, ResumeScheduler
  PROVE  ControlInv'
<1>1. Running
  BY DEF ResumeScheduler
<1>2. /\ k' \in KType /\ k'.cur = k.cur /\ k'.depth = k.depth - 1
      /\ k'.dying = k.dying /\ k'.tick = k.tick /\ k'.pended = k.pended
      /\ k'.count = k.count /\ k'.cleanup = k.cleanup
  BY <1>1, RunningTaskFacts, DrainPendingControl DEF ResumeScheduler
<1>3. after' = after /\ arg' \in [Task -> Task] /\ ticks' = ticks
  BY <1>1, RunningTaskFacts DEF ResumeScheduler
<1>4. (k'.tick + k'.pended) % TickMod = ticks' /\ ticks' \in Tick
  BY <1>2, <1>3, ControlInvUnfolded DEF ControlParts
<1>5. PICK p \in {"catchup", "run"} :
        pc' = [pc EXCEPT ![k.cur] = p] /\ (p = "catchup" => k.depth = 1)
  BY DEF ResumeScheduler, Goto
<1>6. p = "catchup" => k'.depth = 0
  BY <1>2, <1>5
<1>7. QED
  BY <1>1, <1>2, <1>3, <1>4, <1>5, <1>6, RunningTaskFacts, TaskPlaces, MoveKeepsServices
     DEF ServiceSections

LEMMA SuspendControl ==
  ASSUME ControlInv, NEW t \in Task, Suspend(t)
  PROVE  ControlInv'
<1> DEFINE off == TakenOff(k, t)
<1>1. Running /\ t \notin k.dying
  BY ControlFacts DEF Suspend, Alive
<1>2. SameControl(off, k)
  BY <1>1, RunningTaskFacts, TakenOffControl
<1>3. k' = [off EXCEPT
              !.suspended = off.suspended \cup {t},
              !.notify[t] = IF off.notify[t] = "waiting" THEN "not_waiting"
                                                         ELSE off.notify[t]]
  BY DEF Suspend
<1> HIDE DEF off
<1>4. SameControl(k', k)
  <2> DEFINE f == [off.notify EXCEPT
                     ![t] = IF off.notify[t] = "waiting" THEN "not_waiting"
                                                         ELSE off.notify[t]]
             S == off.suspended \cup {t}
  <2>1. f \in [Task -> NotifyState] /\ S \in SUBSET Task
    BY <1>2 DEF SameControl, KType, NotifyState
  <2>2. k' = [off EXCEPT !.suspended = S, !.notify = f]
    BY <1>3
  <2> HIDE DEF f, S
  <2>3. QED
    BY <1>2, <2>1, <2>2 DEF SameControl, KType
<1>5. /\ pc' = [pc EXCEPT ![k.cur] = "suspend"] /\ after' = after
      /\ arg' \in [Task -> Task] /\ ticks' = ticks
  BY <1>1, RunningTaskFacts DEF Suspend, Goto
<1>6. Switched(k', k)
  BY <1>4 DEF SameControl, Switched
<1>7. QED
  BY <1>1, <1>5, <1>6, RunningTaskFacts, TaskPlaces, MoveSwitchedControl

LEMMA ResumeControl ==
  ASSUME ControlInv, NEW t \in Task, Resume(t)
  PROVE  ControlInv'
<1>1. Running
  BY DEF Resume
<1>2. SameControl(MakeReady(k, {t}), k) /\ Preempts(k, {t}) \in BOOLEAN
  BY <1>1, RunningTaskFacts, MakeReadyControl DEF Preempts
<1>3. Switched(k', k)
  BY <1>2, YieldIfSwitches DEF Resume
<1>4. QED
  BY <1>1, <1>3, RunningTaskFacts, StaySwitchedControl DEF Resume

LEMMA PrioritySetControl ==
  ASSUME ControlInv, NEW t \in Task, NEW p \in NewPrios, PrioritySet(t, p)
  PROVE  ControlInv'
<1> DEFINE old == k.prio[t]
           np == [k.prio EXCEPT ![t] = IF k.base[t] = old \/ p > old THEN p ELSE old]
           nb == [k.base EXCEPT ![t] = p]
           nk == [k.key EXCEPT ![t] = MaxPrio - p]
           changed == [k EXCEPT !.prio = np, !.base = nb, !.key = nk]
           nr == [k.ready EXCEPT ![old] = k.ready[old] \ {t}]
           nt == IF k.ready[old] = {t} THEN k.top \ {old} ELSE k.top
           moved == [changed EXCEPT !.ready = nr, !.top = nt]
           yield == IF p > k.base[t] THEN t # k.cur /\ p > k.prio[k.cur] ELSE t = k.cur
           m == ChangePriority(t, p)
<1>1. Running /\ p \in Prio /\ k \in KType
  BY SchedulerAssumption, RunningTaskFacts DEF PrioritySet
<1>2. /\ np \in [Task -> Prio] /\ nb \in [Task -> Prio] /\ nk \in [Task -> 1 .. MaxPrio]
      /\ nr \in [Prio -> SUBSET Task] /\ nt \in SUBSET Prio /\ old \in Prio
  BY <1>1, Constants DEF KType, Prio
<1>3. changed = [k EXCEPT !.prio[t] = IF k.base[t] = old \/ p > old THEN p ELSE @,
                          !.base[t] = p, !.key[t] = MaxPrio - p]
  OBVIOUS
<1>4. changed.ready = k.ready /\ changed.top = k.top
  BY <1>1 DEF KType
<1>5. moved = [changed EXCEPT !.ready[old] = @ \ {t},
                              !.top = IF k.ready[old] = {t} THEN @ \ {old} ELSE @]
  BY <1>4
<1>6. m = IF t \in k.ready[old] THEN AddToReadyList(moved, t) ELSE changed
  BY <1>3, <1>5 DEF ChangePriority
<1> HIDE DEF np, nb, nk, nr, nt
<1>7. /\ changed \in KType /\ changed.cur = k.cur /\ changed.tick = k.tick
      /\ changed.pended = k.pended /\ changed.depth = k.depth
      /\ changed.dying = k.dying /\ changed.count = k.count
      /\ changed.cleanup = k.cleanup
  BY <1>1, <1>2 DEF KType
<1> HIDE DEF changed
<1>8. /\ moved \in KType /\ moved.cur = k.cur /\ moved.tick = k.tick
      /\ moved.pended = k.pended /\ moved.depth = k.depth
      /\ moved.dying = k.dying /\ moved.count = k.count
      /\ moved.cleanup = k.cleanup
  BY <1>2, <1>7 DEF KType
<1> HIDE DEF moved
<1>9. SameControl(AddToReadyList(moved, t), moved)
  BY <1>8, AddToReadyListControl
<1>10. /\ m \in KType /\ m.cur = k.cur /\ m.tick = k.tick
       /\ m.pended = k.pended /\ m.depth = k.depth
       /\ m.dying = k.dying /\ m.count = k.count /\ m.cleanup = k.cleanup
  BY <1>6, <1>7, <1>8, <1>9 DEF SameControl
<1>11. Switched(k', k)
  <2>1. SameControl(m, m) /\ yield \in BOOLEAN /\ k' \in YieldIf(yield, m)
    BY <1>10 DEF SameControl, PrioritySet
  <2> HIDE DEF m, yield
  <2>2. Switched(k', m)
    BY <2>1, YieldIfSwitches
  <2>3. QED
    BY <1>10, <2>2 DEF Switched
<1>12. QED
  BY <1>1, <1>11, RunningTaskFacts, StaySwitchedControl DEF PrioritySet

-----------------------------------------------------------------------------
(* The object's event, and interrupts. *)

LEMMA SignalSwitches ==
  ASSUME ControlInv, NEW o \in Object, Signal(o)
  PROVE  Switched(k', k)
<1> DEFINE first == FirstWaiters(k, o, 1)
<1>1. first \in SUBSET Task /\ k \in KType
  BY ControlFacts DEF FirstWaiters, KType
<1>2. k' \in YieldIf(Preempts(k, first), RemoveFromEventList(k, first))
  BY DEF Signal
<1> HIDE DEF first
<1>3. SameControl(RemoveFromEventList(k, first), k) /\ Preempts(k, first) \in BOOLEAN
  BY <1>1, RemoveFromEventListControl DEF Preempts
<1>4. QED
  BY <1>2, <1>3, YieldIfSwitches

LEMMA SignalFromTaskControl ==
  ASSUME ControlInv, NEW o \in Object, SignalFromTask(o)
  PROVE  ControlInv'
BY SignalSwitches, RunningTaskFacts, StaySwitchedControl DEF SignalFromTask, Signal

LEMMA SignalFromISRControl ==
  ASSUME ControlInv, NEW o \in Object, SignalFromISR(o)
  PROVE  ControlInv'
BY SignalSwitches, StaySwitchedControl DEF SignalFromISR, Signal

LEMMA ResumeFromISRControl ==
  ASSUME ControlInv, NEW t \in Task, ResumeFromISR(t)
  PROVE  ControlInv'
<1> DEFINE m == MakeReady(k, {t})
           w == Preempts(k, {t})
<1>1. k \in KType /\ k.depth \in Nat /\ SameControl(m, k) /\ w \in BOOLEAN
  BY ControlFacts, MakeReadyControl DEF Preempts
<1>2. CASE k.depth = 0
  <2> DEFINE n == [m EXCEPT !.yieldPending = m.yieldPending \/ w]
  <2>1. k' \in YieldIf(w, n)
    BY <1>2 DEF ResumeFromISR
  <2>2. (m.yieldPending \/ w) \in BOOLEAN
    BY <1>1 DEF SameControl, KType
  <2> HIDE DEF m, w
  <2>3. SameControl(n, k)
    BY <1>1, <2>2, YieldPendingControl
  <2> HIDE DEF n
  <2>4. Switched(k', k)
    BY <1>1, <2>1, <2>3, YieldIfSwitches
  <2>5. QED
    BY <2>4, StaySwitchedControl DEF ResumeFromISR
<1>3. CASE k.depth # 0
  <2>1. k' = [k EXCEPT !.pending = k.pending \cup {t}]
    BY <1>3 DEF ResumeFromISR
  <2>2. k.pending \cup {t} \in SUBSET Task
    BY <1>1 DEF KType
  <2>3. Switched(k', k)
    BY <1>1, <2>1, <2>2 DEF Switched, KType
  <2>4. QED
    BY <2>3, StaySwitchedControl DEF ResumeFromISR
<1>4. QED
  BY <1>1, <1>2, <1>3

-----------------------------------------------------------------------------
(* The invariant, and the theorems that follow from it. *)

LEMMA StepKeepsControl ==
  ASSUME ControlInv, [Next]_kernelVars
  PROVE  ControlInv'
<1>1. CASE KernelStep
  BY <1>1, UnlockSchedulerControl, CatchUpControl, UnlockedControl, YieldControl,
     ExitControl, CreatedControl, SuspendedControl, AbortBlockedControl,
     AbortReadyControl DEF KernelStep
<1>2. CASE TaskCall
  <2>1. ASSUME NEW t \in Task,
               \/ Create(t) \/ Delete(t) \/ Suspend(t) \/ Resume(t) \/ AbortDelay(t)
               \/ \E p \in NewPrios : PrioritySet(t, p)
        PROVE  ControlInv'
    BY <2>1, CreateControl, DeleteControl, SuspendControl, ResumeControl,
       AbortDelayControl, PrioritySetControl
  <2>2. ASSUME NEW n \in Delays,
               \/ Delay(n) \/ CatchUpTicks(n)
               \/ \E prev \in Tick : DelayUntil(prev, n)
               \/ \E o \in Object : WaitOn(o, n)
        PROVE  ControlInv'
    BY <2>2, DelayControl, CatchUpTicksControl, DelayUntilControl, WaitOnControl
  <2>3. ASSUME NEW o \in Object, SignalFromTask(o)
        PROVE  ControlInv'
    BY <2>3, SignalFromTaskControl
  <2>4. QED
    BY <1>2, <2>1, <2>2, <2>3, DeleteSelfControl, TaskYieldControl,
       SuspendSchedulerControl, ResumeSchedulerControl DEF TaskCall
<1>3. CASE Interrupt
  BY <1>3, TickInterruptControl, ResumeFromISRControl, SignalFromISRControl
     DEF Interrupt
<1>4. CASE IdleCleanUp \/ IdleYield
  BY <1>4, IdleCleanUpControl, IdleYieldControl
<1>5. CASE UNCHANGED kernelVars
  BY <1>5, ControlInvUnfolded DEF ControlParts, kernelVars
<1>6. QED
  BY <1>1, <1>2, <1>3, <1>4, <1>5 DEF Next

(* Every variable keeps its type; sections with the scheduler suspended    *)
(* exclude each other; no tick is lost; the numbers of tasks are those of  *)
(* the lists.                                                              *)
THEOREM ControlInvariant == Spec => []ControlInv
BY InitControl, StepKeepsControl, PTL DEF Spec

(* The kernel's variables keep their types: no counter of tasks, pended    *)
(* ticks or suspensions is ever taken below zero, and the task that runs   *)
(* is always one of the tasks.                                             *)
THEOREM TypeCorrect == Spec => []TypeOK
<1>1. ControlInv => TypeOK
  BY DEF ControlInv
<1>2. QED
  BY <1>1, ControlInvariant, PTL

(* A task in the middle of a kernel function that suspended the scheduler  *)
(* is the running task, no other task is in one, and the suspension count  *)
(* is its own: vTaskSuspendAll is a lock between tasks.                    *)
THEOREM SectionsExclude == Spec => []SuspendedSectionsExclusive
<1>1. ControlInv => SuspendedSectionsExclusive
  BY DEF ControlInv
<1>2. QED
  BY <1>1, ControlInvariant, PTL

(* The tick count and the pended ticks together are the timer interrupts   *)
(* so far: xTaskResumeAll and xTaskCatchUpTicks lose and repeat none.      *)
THEOREM NoTickLost == Spec => []TicksConserved
<1>1. ControlInv => TicksConserved
  BY DEF ControlInv
<1>2. QED
  BY <1>1, ControlInvariant, PTL

(* uxCurrentNumberOfTasks and uxDeletedTasksWaitingCleanUp agree with the  *)
(* tasks that exist: the idle task never takes a TCB from an empty list.   *)
THEOREM CountsExact == Spec => []CountsMatch
<1>1. ControlInv => CountsMatch
  BY DEF ControlInv
<1>2. QED
  BY <1>1, ControlInvariant, PTL

-----------------------------------------------------------------------------
(* The period of xTaskDelayUntil.                                          *)

(* The delay xTaskDelayUntil asks for ends n ticks after prev. *)
LEMMA WakeOfPeriod ==
  ASSUME NEW now \in Tick, NEW prev \in Tick, NEW n \in Tick
  PROVE  (now + ((prev + n + TickMod - now) % TickMod)) % TickMod = (prev + n) % TickMod
<1>1. /\ TickMod \in Nat \ {0} /\ now \in 0 .. TickMod - 1
      /\ prev \in 0 .. TickMod - 1 /\ n \in 0 .. TickMod - 1
  BY KernelAssumption DEF Tick
<1>2. (prev + n) % TickMod = IF prev + n < TickMod THEN prev + n ELSE prev + n - TickMod
  BY <1>1
<1> DEFINE d == prev + n + TickMod - now
<1>3. d % TickMod = IF d < TickMod THEN d
                    ELSE IF d < 2 * TickMod THEN d - TickMod ELSE d - 2 * TickMod
  BY <1>1
<1>4. QED
  BY <1>1, <1>2, <1>3

(* A task that is delayed for a bounded time waits on one of the delayed   *)
(* lists until its wake time.                                              *)
LEMMA DelayedUntilWake ==
  ASSUME NEW s \in KType, NEW n \in Tick
  PROVE  LET r == AddCurrentToDelayedList(s, n, FALSE)
         IN  /\ s.cur \in r.delayed \cup r.overflow
             /\ r.wake[s.cur] = (s.tick + n) % TickMod
<1> DEFINE t == s.cur
           w == (s.tick + n) % TickMod
           o == OffStateList(s, t)
           free == [o EXCEPT !.aborted = @ \ {t},
                             !.top = IF AloneOnList(s, t) THEN @ \ {s.prio[t]} ELSE @]
           early == [free EXCEPT !.wake[t] = w, !.overflow = @ \cup {t}]
           late  == [free EXCEPT !.wake[t] = w, !.delayed = @ \cup {t},
                                 !.next = IF w < @ THEN w ELSE @]
<1>1. t \in Task
  BY DEF KType
<1>2. o \in KType
  BY <1>1, OffStateListFields
<1>3. AddCurrentToDelayedList(s, n, FALSE) = IF w < s.tick THEN early ELSE late
  BY DEF AddCurrentToDelayedList
<1> HIDE DEF o
<1>4. t \in early.overflow /\ t \in late.delayed
  BY <1>2 DEF KType
<1>5. early.wake[t] = w /\ late.wake[t] = w
  <2>1. free.wake = o.wake /\ o.wake \in [Task -> Tick]
    BY <1>2 DEF KType
  <2>2. early.wake = [o.wake EXCEPT ![t] = w] /\ late.wake = [o.wake EXCEPT ![t] = w]
    BY <1>2, <2>1 DEF KType
  <2>3. QED
    BY <1>1, <2>1, <2>2
<1>6. QED
  BY <1>3, <1>4, <1>5

(* A periodic task keeps its period: xTaskDelayUntil waits exactly when    *)
(* the period is not over, and until it is, for every width of the counter.*)
THEOREM PeriodKept == Spec => DelayUntilKeepsPeriod
<1>1. ASSUME ControlInv
      PROVE  PeriodStep
  <2> SUFFICES ASSUME NEW prev \in Tick, NEW n \in Delays, DelayUntil(prev, n)
               PROVE  IF (k.tick + TickMod - prev) % TickMod < n
                        THEN /\ k.cur \in k'.delayed \cup k'.overflow
                             /\ k'.wake[k.cur] = (prev + n) % TickMod
                        ELSE k'.ready = k.ready
    BY DEF PeriodStep
  <2> DEFINE m == SuspendAll(k)
             d == (prev + n + TickMod - k.tick) % TickMod
  <2>1. n \in 1 .. MaxDelay /\ n \in Tick /\ k.tick \in Tick
    BY <1>1, SchedulerAssumption, KernelAssumption, ControlFacts DEF Tick, MaxDelay, KType
  <2>2. ShouldDelay(k.tick, prev, n) <=> (k.tick + TickMod - prev) % TickMod < n
    BY <2>1, ShouldDelayExact
  <2>3. m \in KType /\ m.cur = k.cur /\ m.tick = k.tick /\ m.ready = k.ready
    <3>1. k \in KType
      BY <1>1, ControlFacts
    <3>2. m = [k EXCEPT !.depth = k.depth + 1]
      BY DEF SuspendAll
    <3> HIDE DEF m
    <3>3. QED
      BY <3>1, <3>2 DEF KType
  <2>4. k' = IF ShouldDelay(k.tick, prev, n)
               THEN AddCurrentToDelayedList(m, d, FALSE) ELSE m
    BY DEF DelayUntil
  <2>5. d \in Tick
    <3>1. /\ TickMod \in Nat \ {0} /\ k.tick \in 0 .. TickMod - 1
          /\ prev \in 0 .. TickMod - 1 /\ n \in 0 .. TickMod - 1
      BY <2>1, KernelAssumption DEF Tick
    <3>2. QED
      BY <3>1 DEF Tick
  <2>6. (k.tick + d) % TickMod = (prev + n) % TickMod
    BY <2>1, WakeOfPeriod
  <2> HIDE DEF m, d
  <2>7. CASE ShouldDelay(k.tick, prev, n)
    BY <2>2, <2>3, <2>4, <2>5, <2>6, <2>7, DelayedUntilWake
  <2>8. CASE ~ShouldDelay(k.tick, prev, n)
    BY <2>2, <2>3, <2>4, <2>8
  <2>9. QED
    BY <2>7, <2>8
<1>2. QED
  BY <1>1, ControlInvariant, PTL DEF DelayUntilKeepsPeriod

-----------------------------------------------------------------------------
(* The inductive invariant.                                                *)

(* IInv with the order of the event lists. *)
ListInv == IInv /\ EventListsOrdered(k)

ExistingTasks == {t \in Task : pc[t] # "gone"}

(* What the second layer of ListInv says of the variables. *)
ListParts ==
  /\ Good(k)
  /\ Listed(k) = ExistingTasks \ (IF pc[k.cur] = "aborted" THEN {arg[k.cur]} ELSE {})
  /\ k.depth > 0 => \/ pc[k.cur] \in {"run", "unlock", "block", "abort", "aborted"}
                    \/ pc[k.cur] = "suspend" /\ arg[k.cur] # k.cur
  /\ pc[k.cur] = "abort" => arg[k.cur] \in k.delayed \cup k.overflow \cup k.suspended
  /\ pc[k.cur] = "aborted" => pc[arg[k.cur]] # "gone"
  /\ Idle \in ReadyTasks(k) /\ k.base = k.prio
  /\ (\/ pc[k.cur] \in {"run", "unlock", "catchup", "abort", "aborted"}
      \/ pc[k.cur] = "suspend" /\ arg[k.cur] # k.cur)
     => /\ k.cur \in ReadyTasks(k)
        /\ \/ \A p \in k.top : p <= k.prio[k.cur]
           \/ /\ k.yieldPending
              /\ k.depth > 0 \/ pc[k.cur] \in {"catchup", "catchup_block"}
  /\ pc[k.cur] = "created" =>
       /\ k.cur \in ReadyTasks(k)
       /\ \A p \in k.top : p <= k.prio[k.cur] \/ p <= k.prio[arg[k.cur]]

LEMMA ListInvUnfolded ==
  (ListInv <=> ControlInv /\ ListParts) /\ (ListInv' <=> (ControlInv /\ ListParts)')
<1>1. ListInv <=> ControlInv /\ ListParts
  BY DEF ListInv, IInv, EveryTaskOnItsList, NoOversleep, SuspendedByCurrent, SwitchIsOwed,
         InCode, InTransit, At, Masked, ListParts, ExistingTasks, Good, ItemsOK, ListsOK,
         ControlInv, TypeOK
<1>2. ListInv' <=> (ControlInv /\ ListParts)'
  BY DEF ListInv, IInv, EveryTaskOnItsList, NoOversleep, SuspendedByCurrent, SwitchIsOwed,
         InCode, InTransit, At, Masked, ListParts, ExistingTasks, Good, ItemsOK, ListsOK,
         ControlInv, TypeOK
<1>3. QED
  BY <1>1, <1>2

(* A task of the highest priority runs, and the scheduler is running.      *)
LEMMA HighestRuns ==
  ASSUME ControlInv', Good(k'), Listed(k') = ExistingTasks', k'.depth = 0, Highest(k'),
         Idle \in ReadyTasks(k'), k'.base = k'.prio
  PROVE  ListInv'
<1>1. pc'[k'.cur] \notin {"abort", "aborted"}
  BY ControlInvUnfolded DEF ControlParts
<1>2. ListParts'
  BY <1>1 DEF ListParts, Highest
<1>3. QED
  BY <1>2, ListInvUnfolded

(* The facts most actions start from. *)
LEMMA ListFacts ==
  ASSUME ListInv
  PROVE  /\ ControlInv /\ k \in KType /\ k.cur \in Task /\ k.depth \in Nat
         /\ pc \in [Task -> Place] /\ arg \in [Task -> Task] /\ after[k.cur] = "run"
         /\ Good(k) /\ Idle \in ReadyTasks(k) /\ k.base = k.prio
         /\ pc[Idle] = "run" /\ Idle \in Task
         /\ pc[k.cur] \notin {"abort", "aborted"} => Listed(k) = ExistingTasks
BY ListInvUnfolded, ControlFacts, KernelAssumption DEF ListParts

(* A task in its own code is the one of the highest priority, unless the   *)
(* scheduler is suspended and the switch is noted.                         *)
LEMMA RunningListFacts ==
  ASSUME ListInv, pc[k.cur] = "run"
  PROVE  /\ k.cur \in ReadyTasks(k) /\ Listed(k) = ExistingTasks
         /\ \/ Highest(k)
            \/ k.yieldPending /\ k.depth > 0
         /\ k.depth = 0 => Highest(k)
<1>1. /\ k.cur \in ReadyTasks(k)
      /\ \/ \A p \in k.top : p <= k.prio[k.cur]
         \/ k.yieldPending /\ k.depth > 0
  BY ListInvUnfolded DEF ListParts
<1>2. k.depth \in Nat
  BY ListFacts
<1>3. QED
  BY <1>1, <1>2, ListFacts DEF Highest

(* The running task of k goes on, and what became ready is noted. *)
LEMMA StaysRunning ==
  ASSUME ListInv, ControlInv', pc' = pc, arg' = arg,
         Good(k'), Listed(k') = Listed(k), k'.depth = k.depth,
         ReadyTasks(k) \subseteq ReadyTasks(k'),
         k'.cur = k.cur, k'.prio = k.prio, k'.base = k.base,
         k.yieldPending => k'.yieldPending,
         \/ \A p \in k'.top : p \in k.top \/ p <= k.prio[k.cur]
         \/ k'.yieldPending /\ (k.depth > 0 \/ Masked),
         k.depth > 0 => k'.delayed \cup k'.overflow \cup k'.suspended
                          = k.delayed \cup k.overflow \cup k.suspended
  PROVE  ListInv'
<1>1. /\ k \in KType /\ k.depth \in Nat
      /\ pc[k.cur] = "abort" => k.depth > 0
      /\ pc[k.cur] = "created" => k.depth = 0
      /\ Masked <=> pc[k.cur] \in {"catchup", "catchup_block"}
  <2>1. pc[k.cur] = "created" => ~(k.depth > 0)
    BY ListInvUnfolded DEF ListParts
  <2>2. pc[k.cur] = "abort" => k.depth = 1
    BY ControlInvUnfolded, ListFacts DEF ControlParts
  <2>3. QED
    BY <2>1, <2>2, ListFacts DEF Masked
<1>2. ExistingTasks' = ExistingTasks
  BY DEF ExistingTasks
<1>3. Listed(k') = ExistingTasks' \ (IF pc'[k'.cur] = "aborted" THEN {arg'[k'.cur]} ELSE {})
  BY <1>2, ListInvUnfolded DEF ListParts
<1>4. /\ k'.depth > 0 => \/ pc'[k'.cur] \in {"run", "unlock", "block", "abort", "aborted"}
                         \/ pc'[k'.cur] = "suspend" /\ arg'[k'.cur] # k'.cur
      /\ pc'[k'.cur] = "aborted" => pc'[arg'[k'.cur]] # "gone"
      /\ Idle \in ReadyTasks(k') /\ k'.base = k'.prio
  BY ListInvUnfolded DEF ListParts
<1>5. pc'[k'.cur] = "abort" => arg'[k'.cur] \in k'.delayed \cup k'.overflow \cup k'.suspended
  BY <1>1, ListInvUnfolded DEF ListParts
<1>6. ASSUME \/ pc[k.cur] \in {"run", "unlock", "catchup", "abort", "aborted"}
             \/ pc[k.cur] = "suspend" /\ arg[k.cur] # k.cur
      PROVE  /\ k'.cur \in ReadyTasks(k')
             /\ \/ \A p \in k'.top : p <= k'.prio[k'.cur]
                \/ /\ k'.yieldPending
                   /\ k'.depth > 0 \/ pc'[k'.cur] \in {"catchup", "catchup_block"}
  BY <1>1, <1>6, ListInvUnfolded DEF ListParts
<1>7. ASSUME pc[k.cur] = "created"
      PROVE  /\ k'.cur \in ReadyTasks(k')
             /\ \A p \in k'.top : p <= k'.prio[k'.cur] \/ p <= k'.prio[arg'[k'.cur]]
  BY <1>1, <1>7, ListInvUnfolded DEF ListParts, Masked
<1>8. ListParts'
  BY <1>3, <1>4, <1>5, <1>6, <1>7 DEF ListParts
<1>9. QED
  BY <1>8, ListInvUnfolded

-----------------------------------------------------------------------------
(* The kernel's own steps. *)

LEMMA CatchUpLists ==
  ASSUME ListInv, ControlInv', CatchUp
  PROVE  ListInv'
<1>1. /\ Good(k') /\ Listed(k') = Listed(k) /\ Noted(k', k) /\ k'.depth = k.depth
      /\ pc' = pc /\ arg' = arg /\ Masked
  BY ListFacts, CatchUpTickGood DEF CatchUp
<1>2. ~(k.depth > 0)
  <2>1. k.depth = 0
    BY <1>1, ListFacts, ControlInvUnfolded DEF ControlParts, Masked
  <2>2. QED
    BY <2>1
<1>3. QED
  BY <1>1, <1>2, StaysRunning DEF Noted

LEMMA UnlockSchedulerLists ==
  ASSUME ListInv, ControlInv', UnlockScheduler
  PROVE  ListInv' /\ k'.tick = k.tick
<1>1. PICK p \in {"catchup", "catchup_block"} :
        /\ pc' = [pc EXCEPT ![k.cur] = p] /\ pc[k.cur] \in {"unlock", "block"}
        /\ p = "catchup" => pc[k.cur] = "unlock"
  BY DEF UnlockScheduler, Unlock, At, Goto
<1>2. k.depth = 1 /\ k.depth > 0
  <2>1. k.depth = 1
    BY <1>1, ListFacts, ControlInvUnfolded DEF ControlParts
  <2>2. QED
    BY <2>1
<1>3. /\ Good(k') /\ Listed(k') = Listed(k) /\ Noted(k', k)
      /\ k'.depth = k.depth - 1 /\ k'.tick = k.tick
  BY <1>2, ListFacts, DrainPendingGood DEF UnlockScheduler
<1>4. /\ pc'[k.cur] = p /\ k'.cur = k.cur /\ ~(k'.depth > 0)
      /\ ExistingTasks' = ExistingTasks
  <2>1. pc'[k.cur] = p /\ ExistingTasks' = ExistingTasks
    BY <1>1, ListFacts DEF ExistingTasks
  <2>2. QED
    BY <1>2, <1>3, <2>1 DEF Noted
<1>5. Listed(k') = ExistingTasks' /\ Idle \in ReadyTasks(k') /\ k'.base = k'.prio
  BY <1>1, <1>3, <1>4, ListFacts DEF Noted
<1>6. ASSUME p = "catchup"
      PROVE  /\ k'.cur \in ReadyTasks(k')
             /\ (\A q \in k'.top : q <= k'.prio[k'.cur]) \/ k'.yieldPending
  <2>1. /\ k.cur \in ReadyTasks(k)
        /\ (\A q \in k.top : q <= k.prio[k.cur]) \/ k.yieldPending
    BY <1>1, <1>6, ListInvUnfolded DEF ListParts
  <2>2. QED
    BY <1>3, <2>1 DEF Noted
<1>7. ListParts'
  BY <1>3, <1>4, <1>5, <1>6 DEF ListParts
<1>8. QED
  BY <1>3, <1>7, ListInvUnfolded

(* A step that ends with the choice of the running task. *)
LEMMA YieldIfLists ==
  ASSUME ControlInv', NEW m, Good(m), Listed(m) = ExistingTasks', m.depth = 0,
         Idle \in ReadyTasks(m), m.base = m.prio,
         NEW w \in BOOLEAN, w \/ Highest(m), k' \in YieldIf(w, m)
  PROVE  ListInv' /\ k'.tick = m.tick
<1>1. /\ Good(k') /\ SameLists(k', m) /\ Listed(k') = Listed(m)
      /\ ReadyTasks(k') = ReadyTasks(m) /\ k'.base = m.base /\ k'.depth = m.depth
      /\ Highest(k')
  BY YieldIfGood
<1>2. k'.prio = m.prio /\ k'.tick = m.tick
  BY <1>1 DEF SameLists, SameItems, SameTimes
<1>3. QED
  BY <1>1, <1>2, HighestRuns

(* A step that makes a context switch, or notes it. *)
LEMMA SwitchContextLists ==
  ASSUME ListInv, ControlInv', k' \in SwitchContext(k), ExistingTasks' = ExistingTasks,
         pc[k.cur] \notin {"abort", "aborted"},
         \/ k.depth = 0
         \/ pc' = pc /\ arg' = arg
  PROVE  ListInv' /\ k'.tick = k.tick
<1>1. /\ Good(k') /\ SameLists(k', k) /\ Listed(k') = Listed(k)
      /\ ReadyTasks(k') = ReadyTasks(k) /\ k'.base = k.base /\ k'.depth = k.depth
      /\ k.depth = 0 => Highest(k')
      /\ k.depth # 0 => k'.cur = k.cur /\ k'.yieldPending
  BY ListFacts, SwitchContextGood
<1>2. /\ k'.prio = k.prio /\ k'.tick = k.tick /\ k'.delayed = k.delayed
      /\ k'.overflow = k.overflow /\ k'.suspended = k.suspended /\ k'.top = k.top
  BY <1>1 DEF SameLists, SameItems, SameTimes
<1>3. CASE k.depth = 0
  BY <1>1, <1>2, <1>3, ListFacts, HighestRuns
<1>4. CASE k.depth # 0
  BY <1>1, <1>2, <1>4, ListFacts, StaysRunning
<1>5. QED
  BY <1>2, <1>3, <1>4

LEMMA MovesExisting ==
  ASSUME ListInv, pc[k.cur] # "gone", NEW p, p # "gone", pc' = [pc EXCEPT ![k.cur] = p]
  PROVE  ExistingTasks' = ExistingTasks /\ pc'[k.cur] = p
BY ListFacts DEF ExistingTasks

LEMMA UnlockedLists ==
  ASSUME ListInv, ControlInv', Unlocked
  PROVE  ListInv' /\ k'.tick = k.tick
<1>1. /\ pc[k.cur] \in {"catchup", "catchup_block"} /\ k.depth = 0
      /\ after[k.cur] = "run"
  BY ListFacts, ControlInvUnfolded DEF Unlocked, Masked, ControlParts
<1>2. PICK p \in {"run", "yield"} :
        /\ pc' = [pc EXCEPT ![k.cur] = p]
        /\ ~k.yieldPending => (p = "run" <=> pc[k.cur] = "catchup")
  BY <1>1 DEF Unlocked, Goto, At
<1>3. ExistingTasks' = ExistingTasks /\ Listed(k) = ExistingTasks /\ pc'[k.cur] = p
  BY <1>1, <1>2, ListFacts, MovesExisting
<1>4. CASE k.yieldPending
  <2>1. k' \in YieldIf(TRUE, k)
    BY <1>4 DEF Unlocked, YieldIf
  <2>2. QED
    BY <1>1, <1>3, <2>1, ListFacts, YieldIfLists
<1>5. CASE ~k.yieldPending /\ pc[k.cur] = "catchup"
  <2>1. k' \in YieldIf(FALSE, k)
    BY <1>5 DEF Unlocked, YieldIf
  <2>2. Highest(k)
    BY <1>5, ListInvUnfolded DEF ListParts, Highest
  <2>3. QED
    BY <1>1, <1>3, <2>1, <2>2, ListFacts, YieldIfLists
<1>6. CASE ~k.yieldPending /\ pc[k.cur] = "catchup_block"
  <2>1. k' = k
    BY <1>6 DEF Unlocked, YieldIf
  <2>2. pc'[k'.cur] = "yield" /\ ~(k'.depth > 0)
    BY <1>1, <1>2, <1>3, <1>6, <2>1
  <2>3. ListParts'
    BY <1>3, <2>1, <2>2, ListFacts DEF ListParts
  <2>4. QED
    BY <2>1, <2>3, ListInvUnfolded
<1>7. QED
  BY <1>1, <1>4, <1>5, <1>6

LEMMA NotSuspendedAt ==
  ASSUME ListInv, pc[k.cur] \in {"yield", "exit", "created"}
  PROVE  k.depth = 0
BY ListInvUnfolded, ListFacts DEF ListParts

LEMMA YieldLists ==
  ASSUME ListInv, ControlInv', Yield
  PROVE  ListInv' /\ k'.tick = k.tick
<1>1. pc[k.cur] = "yield" /\ k' \in SwitchContext(k) /\ pc' = [pc EXCEPT ![k.cur] = "run"]
  BY ListFacts DEF Yield, At, Goto
<1>2. ExistingTasks' = ExistingTasks
  BY <1>1, MovesExisting
<1>3. QED
  BY <1>1, <1>2, NotSuspendedAt, SwitchContextLists

LEMMA ExitLists ==
  ASSUME ListInv, ControlInv', Exit
  PROVE  ListInv' /\ k'.tick = k.tick
<1>1. pc[k.cur] = "exit" /\ k' \in SwitchContext(k) /\ pc' = pc
  BY DEF Exit, At
<1>2. ExistingTasks' = ExistingTasks
  BY <1>1 DEF ExistingTasks
<1>3. QED
  BY <1>1, <1>2, NotSuspendedAt, SwitchContextLists

LEMMA CreatedLists ==
  ASSUME ListInv, ControlInv', Created
  PROVE  ListInv' /\ k'.tick = k.tick
<1> DEFINE w == Preempts(k, {arg[k.cur]})
<1>1. /\ pc[k.cur] = "created" /\ k' \in YieldIf(w, k)
      /\ pc' = [pc EXCEPT ![k.cur] = "run"] /\ w \in BOOLEAN
  BY DEF Created, At, Goto, Preempts
<1>2. ExistingTasks' = ExistingTasks /\ Listed(k) = ExistingTasks /\ k.depth = 0
  BY <1>1, MovesExisting, NotSuspendedAt, ListFacts
<1>3. w \/ Highest(k)
  <2>1. /\ k.cur \in ReadyTasks(k)
        /\ \A p \in k.top : p <= k.prio[k.cur] \/ p <= k.prio[arg[k.cur]]
    BY <1>1, ListInvUnfolded DEF ListParts
  <2>2. /\ k.prio[k.cur] \in Nat /\ k.prio[arg[k.cur]] \in Nat
        /\ \A p \in k.top : p \in Nat
    BY ListFacts, KernelAssumption DEF KType, Prio
  <2>3. w \/ k.prio[arg[k.cur]] <= k.prio[k.cur]
    BY <2>2 DEF Preempts
  <2>4. QED
    BY <2>1, <2>2, <2>3 DEF Highest
<1> HIDE DEF w
<1>4. QED
  BY <1>1, <1>2, <1>3, ListFacts, YieldIfLists

LEMMA SuspendedLists ==
  ASSUME ListInv, ControlInv', Suspended
  PROVE  ListInv' /\ k'.tick = k.tick
<1>1. pc[k.cur] = "suspend" /\ k' = ResetNextUnblockTime(k)
  BY DEF Suspended, At
<1>2. /\ Good(k') /\ SameItems(k', k) /\ SameControl(k', k)
      /\ k'.yieldPending = k.yieldPending
  BY <1>1, ListFacts, ResetNextKeeps
<1>3. PICK p \in {"run", "yield"} :
        /\ pc' = [pc EXCEPT ![k.cur] = p]
        /\ p = "yield" <=> arg[k.cur] = k.cur
  BY DEF Suspended, Goto
<1>4. /\ ExistingTasks' = ExistingTasks /\ pc'[k.cur] = p /\ Listed(k) = ExistingTasks
  BY <1>1, <1>3, MovesExisting, ListFacts
<1>5. Listed(k') = Listed(k) /\ ReadyTasks(k') = ReadyTasks(k)
  BY <1>2, ListFacts, SameItemsOK DEF Good
<1>6. /\ k'.cur = k.cur /\ k'.depth = k.depth /\ k'.prio = k.prio /\ k'.base = k.base
      /\ k'.top = k.top /\ k'.tick = k.tick
  BY <1>2 DEF SameItems, SameControl
<1>7. ListParts'
  BY <1>1, <1>2, <1>3, <1>4, <1>5, <1>6, ListFacts, ListInvUnfolded DEF ListParts
<1>8. QED
  BY <1>6, <1>7, ListInvUnfolded

LEMMA AbortBlockedLists ==
  ASSUME ListInv, ControlInv', AbortBlocked
  PROVE  ListInv' /\ k'.tick = k.tick
<1> DEFINE t == arg[k.cur]
           m == OffStateList(k, t)
           off == OffEventLists(m, {t})
<1>1. /\ pc[k.cur] = "abort" /\ k.depth = 1 /\ t \in Task /\ pc[t] \notin {"gone", "exit"}
      /\ t \in k.delayed \cup k.overflow \cup k.suspended
  BY ListFacts, ControlInvUnfolded, ListInvUnfolded
     DEF AbortBlocked, At, ControlParts, ListParts
<1>2. t \notin k.dying
  BY <1>1, ListFacts, ControlFacts
<1>3. /\ Good(off) /\ Listed(off) = Listed(k) \ {t} /\ ReadyTasks(off) = ReadyTasks(k)
      /\ off.top = k.top /\ off.yieldPending = k.yieldPending
  BY <1>1, ListFacts, OffBlockedItems
<1>4. SameControl(off, k)
  <2>1. SameControl(m, k)
    BY <1>1, <1>2, ListFacts, OffStateListControl
  <2> HIDE DEF m, t
  <2>2. SameControl(off, m)
    BY <1>1, <2>1, OffEventListsControl DEF SameControl
  <2>3. QED
    BY <2>1, <2>2 DEF SameControl
<1>5. k' = off \/ k' = [off EXCEPT !.aborted = off.aborted \cup {t}]
  BY DEF AbortBlocked
<1> HIDE DEF off
<1>6. /\ SameLists(k', off) /\ k'.cur = off.cur /\ k'.base = off.base
      /\ k'.depth = off.depth /\ k'.yieldPending = off.yieldPending
  <2>1. off \in KType /\ off.aborted \cup {t} \in SUBSET Task
    BY <1>1, <1>4 DEF SameControl, KType
  <2> HIDE DEF t
  <2>2. QED
    BY <1>5, <2>1 DEF SameLists, SameItems, SameTimes, KType
<1>7. Good(k') /\ Listed(k') = Listed(off) /\ ReadyTasks(k') = ReadyTasks(off)
  BY <1>3, <1>6, SameListsGood
<1>8. /\ k'.cur = k.cur /\ k'.prio = k.prio /\ k'.base = k.base /\ k'.depth = 1
      /\ k'.tick = k.tick /\ k'.top = k.top /\ k'.yieldPending = k.yieldPending
  BY <1>1, <1>3, <1>4, <1>6 DEF SameLists, SameItems, SameTimes, SameControl
<1>9. /\ pc' = [pc EXCEPT ![k.cur] = "aborted"] /\ arg' = arg
  BY DEF AbortBlocked, Goto
<1>10. /\ ExistingTasks' = ExistingTasks /\ pc'[k.cur] = "aborted" /\ pc'[t] # "gone"
  <2>1. ExistingTasks' = ExistingTasks /\ pc'[k.cur] = "aborted"
    BY <1>1, <1>9, MovesExisting
  <2>2. pc'[t] # "gone"
    BY <1>1, <1>9, ListFacts
  <2>3. QED
    BY <2>1, <2>2
<1>11. /\ Listed(k) = ExistingTasks /\ k.cur \in ReadyTasks(k)
       /\ (\A p \in k.top : p <= k.prio[k.cur]) \/ k.yieldPending
  BY <1>1, ListInvUnfolded DEF ListParts
<1>12. ListParts'
  BY <1>3, <1>7, <1>8, <1>9, <1>10, <1>11, ListFacts DEF ListParts
<1>13. QED
  BY <1>8, <1>12, ListInvUnfolded

LEMMA AbortReadyLists ==
  ASSUME ListInv, ControlInv', AbortReady
  PROVE  ListInv' /\ k'.tick = k.tick
<1> DEFINE t == arg[k.cur]
           m == AddToReadyList(k, t)
           y == Preempts(k, {t})
<1>1. /\ pc[k.cur] = "aborted" /\ k.depth = 1 /\ t \in Task /\ t \notin Listed(k)
      /\ pc[t] # "gone" /\ Listed(k) = ExistingTasks \ {t}
      /\ k.cur \in ReadyTasks(k)
      /\ (\A p \in k.top : p <= k.prio[k.cur]) \/ k.yieldPending
  BY ListFacts, ControlInvUnfolded, ListInvUnfolded
     DEF AbortReady, At, ControlParts, ListParts
<1>2. /\ Good(m) /\ ReadyTasks(m) = ReadyTasks(k) \cup {t}
      /\ Listed(m) = Listed(k) \cup {t}
  BY <1>1, ListFacts, AddToReadyListItems
<1>3. /\ m \in KType /\ m.top = k.top \cup {k.prio[t]} /\ m.cur = k.cur
      /\ m.prio = k.prio /\ m.base = k.base /\ m.depth = k.depth /\ m.tick = k.tick
      /\ m.yieldPending = k.yieldPending
  BY <1>1, ListFacts, AddToReadyListFields
<1>4. k' = [m EXCEPT !.yieldPending = m.yieldPending \/ y]
  BY DEF AbortReady
<1>5. (m.yieldPending \/ y) \in BOOLEAN
  BY <1>3 DEF KType, Preempts
<1>6. ~y => k.prio[t] <= k.prio[k.cur]
  BY <1>1, ListFacts, KernelAssumption DEF KType, Prio, Preempts
<1> HIDE DEF m, y
<1>7. /\ SameLists(k', m) /\ k'.cur = m.cur /\ k'.base = m.base /\ k'.depth = m.depth
      /\ k'.yieldPending = (k.yieldPending \/ y)
  BY <1>3, <1>4, <1>5 DEF SameLists, SameItems, SameTimes, KType
<1>8. /\ Good(k') /\ ReadyTasks(k') = ReadyTasks(k) \cup {t}
      /\ Listed(k') = Listed(k) \cup {t}
  BY <1>2, <1>7, SameListsGood
<1>9. /\ k'.cur = k.cur /\ k'.prio = k.prio /\ k'.base = k.base /\ k'.depth = 1
      /\ k'.tick = k.tick /\ k'.top = k.top \cup {k.prio[t]}
  BY <1>1, <1>3, <1>7 DEF SameLists, SameItems, SameTimes
<1>10. pc' = [pc EXCEPT ![k.cur] = "unlock"]
  BY DEF AbortReady, Goto
<1>11. ExistingTasks' = ExistingTasks /\ pc'[k.cur] = "unlock" /\ t \in ExistingTasks
  BY <1>1, <1>10, MovesExisting DEF ExistingTasks
<1>12. Listed(k') = ExistingTasks'
  BY <1>1, <1>8, <1>11
<1>13. (\A p \in k'.top : p <= k'.prio[k'.cur]) \/ k'.yieldPending
  BY <1>1, <1>6, <1>7, <1>9
<1>14. ListParts'
  BY <1>1, <1>8, <1>9, <1>11, <1>12, <1>13, ListFacts DEF ListParts
<1>15. QED
  BY <1>9, <1>14, ListInvUnfolded

-----------------------------------------------------------------------------
(* The idle task. *)

LEMMA IdleYieldLists ==
  ASSUME ListInv, ControlInv', IdleYield
  PROVE  ListInv' /\ k'.tick = k.tick
<1>1. pc[k.cur] = "run" /\ k' \in SwitchContext(k) /\ pc' = pc /\ arg' = arg
  BY ListFacts DEF IdleYield
<1>2. ExistingTasks' = ExistingTasks
  BY <1>1 DEF ExistingTasks
<1>3. QED
  BY <1>1, <1>2, SwitchContextLists

LEMMA IdleCleanUpLists ==
  ASSUME ListInv, ControlInv', IdleCleanUp
  PROVE  ListInv' /\ k'.tick = k.tick
<1>1. PICK t \in k.dying :
        /\ k' = [OffStateList(k, t) EXCEPT !.count = @ - 1, !.cleanup = @ - 1]
        /\ pc' = [pc EXCEPT ![t] = "gone"]
  BY DEF IdleCleanUp
<1>2. /\ k.cur = Idle /\ pc[k.cur] = "run" /\ t \in Task /\ t # k.cur /\ arg' = arg
      /\ pc[t] = "exit"
  BY <1>1, ListFacts, ControlFacts DEF IdleCleanUp, KType
<1> DEFINE m == OffStateList(k, t)
<1>3. /\ Good(m) /\ Listed(m) = Listed(k) \ {t} /\ ReadyTasks(m) = ReadyTasks(k)
      /\ m.top = k.top
  BY ListFacts, OffDyingItems
<1>4. /\ m \in KType /\ m.cur = k.cur /\ m.prio = k.prio /\ m.base = k.base
      /\ m.depth = k.depth /\ m.tick = k.tick /\ m.yieldPending = k.yieldPending
  BY <1>2, ListFacts, OffStateListFields
<1>5. k' = [m EXCEPT !.count = m.count - 1, !.cleanup = m.cleanup - 1]
  BY <1>1
<1>6. k' \in KType
  BY ControlInvUnfolded DEF ControlParts
<1> HIDE DEF m
<1>7. /\ SameLists(k', m) /\ k'.cur = k.cur /\ k'.base = k.base /\ k'.depth = k.depth
      /\ k'.yieldPending = k.yieldPending
  BY <1>4, <1>5, <1>6 DEF SameLists, SameItems, SameTimes, KType
<1>8. /\ Good(k') /\ ReadyTasks(k') = ReadyTasks(k) /\ Listed(k') = Listed(k) \ {t}
  BY <1>3, <1>7, SameListsGood
<1>9. k'.prio = k.prio /\ k'.top = k.top /\ k'.tick = k.tick
  BY <1>3, <1>4, <1>7 DEF SameLists, SameItems, SameTimes
<1>10. ExistingTasks' = ExistingTasks \ {t} /\ pc'[k.cur] = "run"
  BY <1>1, <1>2, ListFacts DEF ExistingTasks
<1>11. /\ Listed(k) = ExistingTasks /\ k.cur \in ReadyTasks(k)
       /\ (\A p \in k.top : p <= k.prio[k.cur]) \/ (k.yieldPending /\ k.depth > 0)
  BY <1>2, ListInvUnfolded DEF ListParts
<1>12. ListParts'
  BY <1>2, <1>7, <1>8, <1>9, <1>10, <1>11, ListFacts DEF ListParts
<1>13. QED
  BY <1>9, <1>12, ListInvUnfolded

-----------------------------------------------------------------------------
(* Tasks come and go. *)

LEMMA CreateLists ==
  ASSUME ListInv, ControlInv', NEW t \in Task, Create(t)
  PROVE  ListInv' /\ k'.tick = k.tick
<1> DEFINE np == [k.prio EXCEPT ![t] = InitPrio[t]]
           nb == [k.base EXCEPT ![t] = InitPrio[t]]
           nk == [k.key EXCEPT ![t] = MaxPrio - InitPrio[t]]
           nn == [k.notify EXCEPT ![t] = "not_waiting"]
           new == [k EXCEPT !.prio = np, !.base = nb, !.key = nk,
                            !.aborted = k.aborted \ {t}, !.notify = nn,
                            !.count = k.count + 1]
<1>1. /\ pc[k.cur] = "run" /\ k.depth = 0 /\ pc[t] = "gone" /\ t # k.cur
      /\ Highest(k) /\ Listed(k) = ExistingTasks
  BY ListFacts, RunningListFacts DEF Create, Running, At
<1>2. t \notin Listed(k) /\ t \notin ReadyTasks(k)
  BY <1>1, ListedElements DEF ExistingTasks
<1>3. /\ np \in [Task -> Prio] /\ nb \in [Task -> Prio] /\ nb = np
      /\ nk \in [Task -> 1 .. MaxPrio] /\ nn \in [Task -> NotifyState]
      /\ k.aborted \ {t} \in SUBSET Task /\ k.count + 1 \in Nat
      /\ np[t] = InitPrio[t] /\ \A u \in Task \ {t} : np[u] = k.prio[u]
  <2>1. /\ InitPrio[t] \in Prio /\ MaxPrio - InitPrio[t] \in 1 .. MaxPrio
        /\ "not_waiting" \in NotifyState
    BY KernelAssumption DEF Prio, NotifyState
  <2>2. QED
    BY <2>1, ListFacts DEF KType
<1>4. k' = AddToReadyList(new, t)
  BY DEF Create
<1> HIDE DEF np, nb, nk, nn
<1>5. /\ new \in KType /\ new.prio = np /\ new.base = nb /\ new.cur = k.cur
      /\ new.ready = k.ready /\ new.top = k.top
      /\ new.delayed = k.delayed /\ new.overflow = k.overflow
      /\ new.suspended = k.suspended /\ new.dying = k.dying
      /\ new.pending = k.pending /\ new.waiting = k.waiting /\ new.before = k.before
      /\ new.depth = k.depth /\ new.wake = k.wake /\ new.tick = k.tick
      /\ new.next = k.next
  BY <1>3, ListFacts DEF KType
<1> HIDE DEF new
<1>6. ReadyTasks(k) \subseteq Task \ {t}
  BY <1>2, ListFacts, ReadyTasksElements DEF KType
<1>7. Good(new) /\ Listed(new) = Listed(k) /\ ReadyTasks(new) = ReadyTasks(k)
  BY <1>3, <1>5, <1>6, ListFacts, ReprioritisedGood DEF Reprioritised
<1>8. /\ Good(k') /\ ReadyTasks(k') = ReadyTasks(k) \cup {t}
      /\ Listed(k') = Listed(k) \cup {t}
  BY <1>2, <1>4, <1>7, AddToReadyListItems
<1>9. /\ k'.top = k.top \cup {np[t]} /\ k'.cur = k.cur /\ k'.prio = np
      /\ k'.base = k'.prio /\ k'.depth = 0 /\ k'.tick = k.tick
  <2>1. /\ k'.top = new.top \cup {new.prio[t]} /\ k'.cur = new.cur /\ k'.prio = new.prio
        /\ k'.base = new.base /\ k'.depth = new.depth /\ k'.tick = new.tick
    BY <1>4, <1>5, AddToReadyListFields
  <2>2. QED
    BY <1>1, <1>3, <1>5, <2>1
<1>10. /\ pc' = [pc EXCEPT ![t] = "run", ![k.cur] = "created"]
       /\ arg' = [arg EXCEPT ![k.cur] = t, ![t] = t]
  BY DEF Create
<1>11. ExistingTasks' = ExistingTasks \cup {t} /\ pc'[k.cur] = "created" /\ arg'[k.cur] = t
  BY <1>1, <1>10, ListFacts DEF ExistingTasks
<1>12. /\ k'.cur \in ReadyTasks(k')
       /\ \A p \in k'.top : p <= k'.prio[k'.cur] \/ p <= k'.prio[arg'[k'.cur]]
  <2>1. np[t] \in Nat /\ np[k.cur] = k.prio[k.cur]
    BY <1>1, <1>3, ListFacts, KernelAssumption DEF Prio
  <2>2. QED
    BY <1>1, <1>8, <1>9, <1>11, <2>1 DEF Highest
<1>13. ListParts'
  BY <1>1, <1>8, <1>9, <1>11, <1>12, ListFacts DEF ListParts
<1>14. QED
  BY <1>9, <1>13, ListInvUnfolded

LEMMA TakenOffKernel ==
  ASSUME ListInv, NEW t \in Task, pc[t] # "exit"
  PROVE  LET r == TakenOff(k, t)
         IN  /\ Good(r) /\ ReadyTasks(r) = ReadyTasks(k) \ {t}
             /\ Listed(r) = Listed(k) \ {t} /\ r.top \subseteq k.top
             /\ SameControl(r, k) /\ r.yieldPending = k.yieldPending
<1>1. k \in KType /\ ItemsOK(k) /\ TimesConsistent(k) /\ t \notin k.dying
  BY ListFacts, ControlFacts DEF Good
<1>2. TakenOff(k, t).yieldPending = k.yieldPending
  BY <1>1, TakenOffFields
<1>3. SameControl(TakenOff(k, t), k)
  BY <1>1, TakenOffControl
<1>4. QED
  BY <1>1, <1>2, <1>3, TakenOffItems DEF Good

LEMMA DeleteSelfLists ==
  ASSUME ListInv, ControlInv', DeleteSelf
  PROVE  ListInv' /\ k'.tick = k.tick
<1> DEFINE off == TakenOff(k, k.cur)
<1>1. /\ pc[k.cur] = "run" /\ k.depth = 0 /\ k.cur # Idle /\ Listed(k) = ExistingTasks
      /\ k.cur \in ExistingTasks
  BY ListFacts DEF DeleteSelf, Running, At, ExistingTasks
<1>2. /\ Good(off) /\ ReadyTasks(off) = ReadyTasks(k) \ {k.cur}
      /\ Listed(off) = Listed(k) \ {k.cur} /\ SameControl(off, k)
  BY <1>1, ListFacts, TakenOffKernel
<1>3. k' = [off EXCEPT !.dying = off.dying \cup {k.cur}, !.cleanup = off.cleanup + 1]
  BY DEF DeleteSelf
<1>4. k' \in KType /\ off \in KType
  BY <1>2, ControlInvUnfolded DEF ControlParts, SameControl
<1> HIDE DEF off
<1>5. /\ Joins(k', off, {}, {k.cur}) /\ k'.cur = k.cur /\ k'.base = k.base
      /\ k'.prio = k.prio /\ k'.depth = 0 /\ k'.tick = k.tick
  BY <1>1, <1>2, <1>3, <1>4 DEF Joins, KType, SameControl
<1>6. /\ Good(k') /\ Listed(k') = Listed(k) /\ ReadyTasks(k') = ReadyTasks(k) \ {k.cur}
  <2>1. ({} \cup {k.cur}) \cap Listed(off) = {} /\ {} \cap {k.cur} = {}
    BY <1>2
  <2>2. /\ Good(k') /\ Listed(k') = Listed(off) \cup {} \cup {k.cur}
        /\ ReadyTasks(k') = ReadyTasks(off)
    BY <1>2, <1>5, <2>1, JoinsGood
  <2>3. QED
    BY <1>1, <1>2, <2>2
<1>7. pc' = [pc EXCEPT ![k.cur] = "exit"]
  BY DEF DeleteSelf, Goto
<1>8. ExistingTasks' = ExistingTasks /\ pc'[k.cur] = "exit"
  BY <1>1, <1>7, MovesExisting
<1>9. ListParts'
  BY <1>1, <1>5, <1>6, <1>8, ListFacts DEF ListParts
<1>10. QED
  BY <1>5, <1>9, ListInvUnfolded

LEMMA DeleteLists ==
  ASSUME ListInv, ControlInv', NEW t \in Task, Delete(t)
  PROVE  ListInv' /\ k'.tick = k.tick
<1> DEFINE off == TakenOff(k, t)
           less == [off EXCEPT !.count = off.count - 1]
<1>1. /\ pc[k.cur] = "run" /\ t # k.cur /\ t # Idle /\ pc[t] \notin {"gone", "exit"}
      /\ Listed(k) = ExistingTasks /\ k.cur \in ReadyTasks(k)
      /\ Highest(k) \/ (k.yieldPending /\ k.depth > 0)
  BY RunningListFacts DEF Delete, Running, At, Alive
<1>2. /\ Good(off) /\ ReadyTasks(off) = ReadyTasks(k) \ {t}
      /\ Listed(off) = Listed(k) \ {t} /\ off.top \subseteq k.top
      /\ SameControl(off, k) /\ off.yieldPending = k.yieldPending
  BY <1>1, TakenOffKernel
<1>3. k' = ResetNextUnblockTime(less)
  BY DEF Delete
<1>4. off.count - 1 \in Nat
  <2>1. /\ {u \in Task : pc[u] # "gone"} \in SUBSET Task
        /\ t \in {u \in Task : pc[u] # "gone"}
    BY <1>1
  <2>2. k.count = Cardinality({u \in Task : pc[u] # "gone"})
    BY ListFacts, ControlInvUnfolded DEF ControlParts
  <2>3. QED
    BY <1>2, <2>1, <2>2, OneLess DEF SameControl
<1> HIDE DEF off
<1>5. /\ SameLists(less, off) /\ less.cur = off.cur /\ less.base = off.base
      /\ less.depth = off.depth /\ less.yieldPending = off.yieldPending
  BY <1>2, <1>4 DEF SameLists, SameItems, SameTimes, SameControl, KType
<1> HIDE DEF less
<1>6. /\ Good(less) /\ Listed(less) = Listed(k) \ {t}
      /\ ReadyTasks(less) = ReadyTasks(k) \ {t} /\ less.top \subseteq k.top
      /\ less.prio = k.prio /\ less.tick = k.tick
  BY <1>2, <1>5, SameListsGood DEF SameLists, SameItems, SameTimes, SameControl
<1>7. /\ Good(k') /\ SameItems(k', less) /\ SameControl(k', less)
      /\ k'.yieldPending = less.yieldPending
  BY <1>3, <1>6, ResetNextKeeps
<1>8. /\ Listed(k') = Listed(k) \ {t} /\ ReadyTasks(k') = ReadyTasks(k) \ {t}
  BY <1>6, <1>7, SameItemsOK DEF Good
<1>9. /\ k'.cur = k.cur /\ k'.depth = k.depth /\ k'.prio = k.prio /\ k'.base = k.base
      /\ k'.top \subseteq k.top /\ k'.tick = k.tick /\ k'.yieldPending = k.yieldPending
  BY <1>2, <1>5, <1>6, <1>7 DEF SameItems, SameControl
<1>10. pc' = [pc EXCEPT ![t] = "gone"] /\ arg' = arg
  BY DEF Delete
<1>11. ExistingTasks' = ExistingTasks \ {t} /\ pc'[k.cur] = "run"
  BY <1>1, <1>10, ListFacts DEF ExistingTasks
<1>12. ListParts'
  BY <1>1, <1>7, <1>8, <1>9, <1>11, ListFacts DEF ListParts, Highest
<1>13. QED
  BY <1>9, <1>12, ListInvUnfolded

-----------------------------------------------------------------------------
(* Suspending and resuming a task. *)

LEMMA SuspendLists ==
  ASSUME ListInv, ControlInv', NEW t \in Task, Suspend(t)
  PROVE  ListInv' /\ k'.tick = k.tick
<1> DEFINE off == TakenOff(k, t)
           nn  == [off.notify EXCEPT
                     ![t] = IF off.notify[t] = "waiting" THEN "not_waiting" ELSE off.notify[t]]
<1>1. /\ pc[k.cur] = "run" /\ t # Idle /\ pc[t] \notin {"gone", "exit"}
      /\ Listed(k) = ExistingTasks /\ k.cur \in ReadyTasks(k)
      /\ Highest(k) \/ (k.yieldPending /\ k.depth > 0)
      /\ t = k.cur => k.depth = 0
  BY RunningListFacts DEF Suspend, Running, At, Alive
<1>2. /\ Good(off) /\ ReadyTasks(off) = ReadyTasks(k) \ {t}
      /\ Listed(off) = Listed(k) \ {t} /\ off.top \subseteq k.top
      /\ SameControl(off, k) /\ off.yieldPending = k.yieldPending
  BY <1>1, TakenOffKernel
<1>3. /\ pc' = [pc EXCEPT ![k.cur] = "suspend"] /\ arg' = [arg EXCEPT ![k.cur] = t]
      /\ k' = [off EXCEPT !.suspended = off.suspended \cup {t}, !.notify = nn]
  BY DEF Suspend, Goto
<1>4. k' \in KType /\ off \in KType
  BY <1>2, ControlInvUnfolded DEF ControlParts, SameControl
<1> HIDE DEF off, nn
<1>5. /\ Joins(k', off, {t}, {}) /\ k'.cur = k.cur /\ k'.base = k.base
      /\ k'.prio = k.prio /\ k'.depth = k.depth /\ k'.tick = k.tick
      /\ k'.top = off.top /\ k'.yieldPending = k.yieldPending
  BY <1>2, <1>3, <1>4 DEF Joins, KType, SameControl
<1>6. /\ Good(k') /\ Listed(k') = Listed(k) /\ ReadyTasks(k') = ReadyTasks(k) \ {t}
  <2>1. /\ ({t} \cup {}) \cap Listed(off) = {} /\ {t} \cap {} = {}
        /\ Good(off) /\ Joins(k', off, {t}, {})
    BY <1>2, <1>5
  <2>2. /\ Good(k') /\ Listed(k') = Listed(off) \cup {t} \cup {}
        /\ ReadyTasks(k') = ReadyTasks(off)
    BY <2>1, JoinsGood, Zenon
  <2>3. t \in Listed(k)
    BY <1>1 DEF ExistingTasks
  <2>4. QED
    BY <1>2, <2>2, <2>3
<1>7. ExistingTasks' = ExistingTasks /\ pc'[k.cur] = "suspend" /\ arg'[k.cur] = t
  <2>1. ExistingTasks' = ExistingTasks /\ pc'[k.cur] = "suspend"
    BY <1>1, <1>3, MovesExisting
  <2>2. QED
    BY <1>3, <2>1, ListFacts
<1>8. k.depth > 0 => t # k.cur
  BY <1>1, ListFacts
<1>9. /\ Idle \in ReadyTasks(k') /\ k'.base = k'.prio
      /\ t # k.cur => /\ k'.cur \in ReadyTasks(k')
                      /\ \/ \A p \in k'.top : p <= k'.prio[k'.cur]
                         \/ k'.yieldPending /\ k'.depth > 0
  BY <1>1, <1>2, <1>5, <1>6, ListFacts DEF Highest
<1>10. ListParts'
  BY <1>1, <1>5, <1>6, <1>7, <1>8, <1>9 DEF ListParts
<1>11. QED
  BY <1>5, <1>10, ListInvUnfolded

(* What MakeReady does to a task that is on the suspended list. *)
LEMMA ResumedKernel ==
  ASSUME ListInv, NEW t \in Task, t \in k.suspended
  PROVE  LET m == MakeReady(k, {t})
         IN  /\ Good(m) /\ Listed(m) = Listed(k) /\ ReadyTasks(m) = ReadyTasks(k) \cup {t}
             /\ SameControl(m, k) /\ m.yieldPending = k.yieldPending
             /\ TopFrom(m, k, {t})
<1> DEFINE m == MakeReady(k, {t})
<1>1. k \in KType /\ ItemsOK(k) /\ TimesConsistent(k) /\ {t} \in SUBSET Task
  BY ListFacts DEF Good
<1>2. {t} \cap k.dying = {}
  BY <1>1 DEF ItemsOK, ListsOK, OnOneListOnly
<1>3. /\ Good(m) /\ ReadyTasks(m) = ReadyTasks(k) \cup {t} /\ Listed(m) = Listed(k) \cup {t}
  BY <1>1, <1>2, MakeReadyItems DEF Good
<1>4. Listed(m) = Listed(k)
  BY <1>3, ListedElements
<1>5. SameControl(m, k)
  BY <1>1, MakeReadyControl
<1>6. m.yieldPending = k.yieldPending /\ m.top = k.top \cup {k.prio[u] : u \in {t}}
  BY <1>1, MakeReadyFields
<1>7. TopFrom(m, k, {t})
  BY <1>6 DEF TopFrom
<1>8. QED
  BY <1>3, <1>4, <1>5, <1>6, <1>7

LEMMA ResumeLists ==
  ASSUME ListInv, ControlInv', NEW t \in Task, Resume(t)
  PROVE  ListInv' /\ k'.tick = k.tick
<1> DEFINE m == MakeReady(k, {t})
           w == Preempts(k, {t})
<1>1. /\ pc[k.cur] = "run" /\ k.depth = 0 /\ t \in k.suspended
      /\ k' \in YieldIf(w, m) /\ pc' = pc /\ w \in BOOLEAN
  BY DEF Resume, Running, At, IsSuspended, Preempts
<1>2. /\ Good(m) /\ Listed(m) = Listed(k) /\ ReadyTasks(m) = ReadyTasks(k) \cup {t}
      /\ SameControl(m, k) /\ TopFrom(m, k, {t})
  BY <1>1, ResumedKernel
<1>3. /\ Highest(k) /\ Listed(k) = ExistingTasks /\ ExistingTasks' = ExistingTasks
  BY <1>1, RunningListFacts DEF ExistingTasks
<1>4. w \/ Highest(m)
  <2>1. ASSUME ~w
        PROVE  \A p \in m.top : p \in k.top \/ p <= k.prio[k.cur]
    <3>1. {t} \in SUBSET Task /\ k \in KType
      BY ListFacts
    <3>2. QED
      BY <1>2, <2>1, <3>1, NotPreempted
  <2>2. QED
    BY <1>2, <1>3, <2>1 DEF Highest, SameControl
<1>5. m.depth = 0 /\ Idle \in ReadyTasks(m) /\ m.base = m.prio /\ m.tick = k.tick
  BY <1>1, <1>2, ListFacts DEF SameControl
<1> HIDE DEF m, w
<1>6. QED
  BY <1>1, <1>2, <1>3, <1>4, <1>5, YieldIfLists

(* A task that is resumed while the scheduler is suspended is pending.     *)
LEMMA PendedKernel ==
  ASSUME ListInv, NEW t \in Task, t \in k.suspended, t \notin Waiters(k), k.depth # 0
  PROVE  LET r == [k EXCEPT !.pending = @ \cup {t}]
         IN  /\ Good(r) /\ Listed(r) = Listed(k) /\ ReadyTasks(r) = ReadyTasks(k)
             /\ r = [k EXCEPT !.pending = k.pending \cup {t}]
<1> DEFINE r == [k EXCEPT !.pending = k.pending \cup {t}]
<1>1. k \in KType /\ Good(k) /\ k.depth > 0
  BY ListFacts
<1>2. /\ r.prio = k.prio /\ r.ready = k.ready /\ r.top = k.top
      /\ r.delayed = k.delayed /\ r.overflow = k.overflow
      /\ r.suspended = k.suspended /\ r.dying = k.dying
      /\ r.pending = k.pending \cup {t} /\ r.waiting = k.waiting /\ r.before = k.before
      /\ r.depth = k.depth /\ r.wake = k.wake /\ r.tick = k.tick /\ r.next = k.next
      /\ r \in KType
  BY <1>1 DEF KType
<1> HIDE DEF r
<1>3. /\ ReadyTasks(r) = ReadyTasks(k) /\ Waiters(r) = Waiters(k) /\ Listed(r) = Listed(k)
  BY <1>2 DEF ReadyTasks, Waiters, Listed, StateLists
<1>4. ListsOK(r)
  BY <1>1, <1>2, <1>3 DEF Good, ItemsOK, ListsOK, OnOneListOnly, ReadyAtPriority, TopIsExact
<1>5. EventItemsConsistent(r)
  <2>1. \A o \in Object : t \notin k.waiting[o]
    BY WaitersElements
  <2>2. EventItemsConsistent(k)
    BY <1>1 DEF Good, ItemsOK
  <2>3. QED
    BY <1>1, <1>2, <1>3, <2>1, <2>2 DEF EventItemsConsistent
<1>6. EventListsOrdered(r)
  BY <1>1, <1>2 DEF Good, ItemsOK, EventListsOrdered
<1>7. TimesConsistent(r)
  BY <1>1, <1>2 DEF Good, TimesConsistent
<1>8. QED
  BY <1>3, <1>4, <1>5, <1>6, <1>7 DEF r, Good, ItemsOK

LEMMA ResumeFromISRLists ==
  ASSUME ListInv, ControlInv', NEW t \in Task, ResumeFromISR(t)
  PROVE  ListInv' /\ k'.tick = k.tick
<1> DEFINE m == MakeReady(k, {t})
           w == Preempts(k, {t})
           n == [m EXCEPT !.yieldPending = m.yieldPending \/ w]
<1>1. /\ t \in k.suspended /\ t \notin Waiters(k) /\ pc' = pc /\ arg' = arg
      /\ w \in BOOLEAN /\ ExistingTasks' = ExistingTasks
      /\ k.depth = 0 => k' \in YieldIf(w, n)
      /\ k.depth # 0 => k' = [k EXCEPT !.pending = @ \cup {t}]
  BY DEF ResumeFromISR, IsSuspended, Preempts, ExistingTasks
<1>2. CASE k.depth = 0
  <2>1. /\ Good(m) /\ Listed(m) = Listed(k) /\ ReadyTasks(m) = ReadyTasks(k) \cup {t}
        /\ SameControl(m, k) /\ TopFrom(m, k, {t}) /\ m.yieldPending = k.yieldPending
    BY <1>1, ResumedKernel
  <2>2. m \in KType /\ m.depth = 0 /\ m.cur = k.cur /\ m.prio = k.prio
        /\ m.base = k.base /\ m.tick = k.tick /\ n \in KType
    <3>1. m \in KType /\ m.depth = 0 /\ m.cur = k.cur /\ m.prio = k.prio
          /\ m.base = k.base /\ m.tick = k.tick
      BY <1>2, <2>1 DEF SameControl
    <3>2. m.yieldPending \/ w \in BOOLEAN
      BY <1>1, <3>1 DEF KType
    <3>3. QED
      BY <3>1, <3>2 DEF KType
  <2>3. ~w => \A p \in m.top : p \in k.top \/ p <= k.prio[k.cur]
    <3>1. {t} \in SUBSET Task /\ k \in KType
      BY ListFacts
    <3>2. QED
      BY <2>1, <3>1, NotPreempted
  <2>4. /\ pc[k.cur] \notin {"abort", "aborted"} /\ Listed(k) = ExistingTasks
    BY <1>2, ListFacts, ControlInvUnfolded DEF ControlParts
  <2> HIDE DEF m, w
  <2>5. /\ SameLists(n, m) /\ n.cur = k.cur /\ n.base = k.base /\ n.depth = 0
        /\ n.yieldPending = (k.yieldPending \/ w)
    BY <2>1, <2>2 DEF SameLists, SameItems, SameTimes, KType
  <2> HIDE DEF n
  <2>6. /\ Good(n) /\ Listed(n) = ExistingTasks' /\ ReadyTasks(n) = ReadyTasks(k) \cup {t}
        /\ n.prio = k.prio /\ n.tick = k.tick /\ n.top = m.top
    BY <1>1, <2>1, <2>2, <2>4, <2>5, SameListsGood DEF SameLists, SameItems, SameTimes
  <2>7. CASE w
    BY <1>1, <1>2, <2>5, <2>6, <2>7, ListFacts, YieldIfLists
  <2>8. CASE ~w
    <3>1. k' = n
      BY <1>1, <1>2, <2>8 DEF YieldIf
    <3>2. ~(k.depth > 0) /\ k'.depth = k.depth
      BY <1>2, <2>5, <3>1
    <3>3. QED
      BY <1>1, <2>3, <2>4, <2>5, <2>6, <2>8, <3>1, <3>2, StaysRunning
  <2>9. QED
    BY <2>7, <2>8
<1>3. CASE k.depth # 0
  <2>1. /\ Good(k') /\ Listed(k') = Listed(k) /\ ReadyTasks(k') = ReadyTasks(k)
        /\ k' = [k EXCEPT !.pending = k.pending \cup {t}]
    BY <1>1, <1>3, PendedKernel
  <2>2. /\ k'.depth = k.depth /\ k'.cur = k.cur /\ k'.prio = k.prio /\ k'.base = k.base
        /\ k'.yieldPending = k.yieldPending /\ k'.top = k.top /\ k'.tick = k.tick
        /\ k'.delayed = k.delayed /\ k'.overflow = k.overflow
        /\ k'.suspended = k.suspended
    BY <2>1, ListFacts DEF KType
  <2>3. QED
    BY <1>1, <2>1, <2>2, StaysRunning
<1>4. QED
  BY <1>2, <1>3

-----------------------------------------------------------------------------
(* An object's event. *)

LEMMA SignalLists ==
  ASSUME ListInv, ControlInv', NEW o \in Object, Signal(o)
  PROVE  ListInv' /\ k'.tick = k.tick
<1> DEFINE S == FirstWaiters(k, o, 1)
           m == RemoveFromEventList(k, S)
           w == Preempts(k, S)
<1>1. /\ k' \in YieldIf(w, m) /\ w \in BOOLEAN /\ pc' = pc /\ arg' = arg
      /\ ExistingTasks' = ExistingTasks
  BY DEF Signal, Preempts, ExistingTasks
<1>2. S \in SUBSET Waiters(k) /\ S \in SUBSET Task
  BY ListFacts, WaitersElements DEF FirstWaiters, KType
<1>3. SameControl(m, k)
  BY <1>2, ListFacts, RemoveFromEventListControl
<1>4. /\ Good(m) /\ Listed(m) = Listed(k)
      /\ ReadyTasks(k) \subseteq ReadyTasks(m) /\ TopFrom(m, k, S)
      /\ k.depth # 0 => m.top = k.top
      /\ k.depth # 0 => m.delayed \cup m.overflow \cup m.suspended
                          = k.delayed \cup k.overflow \cup k.suspended
      /\ m.yieldPending = (k.yieldPending \/ w)
  BY <1>2, ListFacts, RemoveFromEventListGood
<1>5. ~w => \A p \in m.top : p \in k.top \/ p <= k.prio[k.cur]
  BY <1>2, <1>4, ListFacts, NotPreempted
<1> HIDE DEF S, m, w
<1>6. CASE k.depth = 0 /\ w
  <2>1. Listed(k) = ExistingTasks
    BY <1>6, ListFacts, ControlInvUnfolded DEF ControlParts
  <2>2. /\ Listed(m) = ExistingTasks' /\ Idle \in ReadyTasks(m) /\ m.base = m.prio
        /\ m.depth = 0 /\ m.tick = k.tick
    BY <1>1, <1>3, <1>4, <1>6, <2>1, ListFacts DEF SameControl
  <2>3. QED
    BY <1>1, <1>4, <1>6, <2>2, YieldIfLists
<1>7. CASE k.depth = 0 /\ ~w
  <2>1. k' = m /\ ~(k.depth > 0)
    BY <1>1, <1>7 DEF YieldIf
  <2>2. k'.depth = k.depth /\ k'.cur = k.cur /\ k'.prio = k.prio /\ k'.base = k.base
        /\ k'.tick = k.tick
    BY <1>3, <2>1 DEF SameControl
  <2>3. QED
    BY <1>1, <1>4, <1>5, <1>7, <2>1, <2>2, StaysRunning
<1>8. CASE k.depth # 0
  <2>1. m.depth # 0
    BY <1>3, <1>8 DEF SameControl
  <2>2. /\ Good(k') /\ SameLists(k', m) /\ Listed(k') = Listed(m)
        /\ ReadyTasks(k') = ReadyTasks(m) /\ k'.base = m.base /\ k'.depth = m.depth
        /\ k'.cur = m.cur /\ (m.yieldPending \/ w => k'.yieldPending)
    BY <1>1, <1>4, <2>1, YieldIfGood
  <2>3. /\ k'.prio = m.prio /\ k'.top = m.top /\ k'.tick = m.tick
        /\ k'.delayed = m.delayed /\ k'.overflow = m.overflow
        /\ k'.suspended = m.suspended
    BY <2>2 DEF SameLists, SameItems, SameTimes
  <2>4. k'.depth = k.depth /\ k'.cur = k.cur /\ k'.prio = k.prio /\ k'.base = k.base
        /\ k'.tick = k.tick /\ k'.top = k.top
    BY <1>3, <1>4, <1>8, <2>2, <2>3 DEF SameControl
  <2>5. /\ k.yieldPending => k'.yieldPending
        /\ k'.delayed \cup k'.overflow \cup k'.suspended
             = k.delayed \cup k.overflow \cup k.suspended
        /\ Listed(k') = Listed(k) /\ ReadyTasks(k) \subseteq ReadyTasks(k')
    BY <1>4, <1>8, <2>2, <2>3
  <2>6. QED
    BY <1>1, <2>2, <2>4, <2>5, StaysRunning
<1>9. QED
  BY <1>6, <1>7, <1>8

-----------------------------------------------------------------------------
(* Changing a priority. *)

(* A task that leaves its ready list, with a new priority, for another.    *)
Moved(m, s, t, p) ==
  /\ m \in KType /\ t \in s.ready[s.prio[t]]
  /\ m.ready = [s.ready EXCEPT ![s.prio[t]] = s.ready[s.prio[t]] \ {t}]
  /\ m.top = IF s.ready[s.prio[t]] = {t} THEN s.top \ {s.prio[t]} ELSE s.top
  /\ m.prio = [s.prio EXCEPT ![t] = p]
  /\ m.delayed = s.delayed /\ m.overflow = s.overflow
  /\ m.suspended = s.suspended /\ m.dying = s.dying
  /\ m.pending = s.pending /\ m.waiting = s.waiting /\ m.before = s.before
  /\ m.depth = s.depth
  /\ m.wake = s.wake /\ m.tick = s.tick /\ m.next = s.next

LEMMA MovedKernel ==
  ASSUME NEW s, Good(s), NEW t \in Task, NEW p \in Prio, NEW m, Moved(m, s, t, p)
  PROVE  /\ Good(m) /\ ReadyTasks(m) = ReadyTasks(s) \ {t}
         /\ t \in ReadyTasks(s) /\ Listed(m) = Listed(s) \ {t}
<1> DEFINE old == s.prio[t]
<1>1. /\ s \in KType /\ OnOneListOnly(s) /\ ReadyAtPriority(s) /\ TopIsExact(s)
      /\ EventItemsConsistent(s) /\ EventListsOrdered(s) /\ TimesConsistent(s)
  BY DEF Good, ItemsOK, ListsOK
<1> USE DEF Moved
<1>2. /\ old \in Prio /\ \A q \in Prio : t \in s.ready[q] => q = old
      /\ t \in ReadyTasks(s)
  BY <1>1, ReadyAtOwnPriority DEF KType, ReadyAtPriority
<1>3. /\ \A q \in Prio : m.ready[q] = s.ready[q] \ {t}
  BY <1>1, <1>2 DEF KType
<1>4. ReadyTasks(m) = ReadyTasks(s) \ {t}
  <2>1. \A u : u \in ReadyTasks(m) <=> \E q \in Prio : u \in s.ready[q] /\ u # t
    <3>1. \A u : u \in ReadyTasks(m) <=> \E q \in Prio : u \in m.ready[q]
      BY ReadyTasksElements
    <3>2. QED
      BY <1>3, <3>1
  <2>2. \A u : u \in ReadyTasks(s) <=> \E q \in Prio : u \in s.ready[q]
    BY ReadyTasksElements
  <2>3. QED
    BY <2>1, <2>2
<1>5. OnOneListOnly(m)
  BY <1>1, <1>4 DEF OnOneListOnly
<1>6. ReadyAtPriority(m)
  BY <1>1, <1>3 DEF ReadyAtPriority, KType
<1>7. TopIsExact(m)
  <2>1. ASSUME NEW q \in Prio PROVE q \in m.top <=> m.ready[q] # {}
    <3>1. CASE q = old
      BY <1>1, <1>2, <1>3, <3>1 DEF TopIsExact
    <3>2. CASE q # old
      BY <1>1, <1>2, <1>3, <3>2 DEF TopIsExact
    <3>3. QED
      BY <3>1, <3>2
  <2>2. QED
    BY <2>1 DEF TopIsExact
<1>8. t \notin s.delayed \cup s.overflow \cup s.suspended \cup s.dying
  BY <1>1, <1>2 DEF OnOneListOnly
<1>9. Listed(m) = Listed(s) \ {t}
  BY <1>4, <1>8, ListedElements
<1>10. EventItemsConsistent(m)
  BY <1>1 DEF EventItemsConsistent, Waiters
<1>11. EventListsOrdered(m) /\ TimesConsistent(m)
  BY <1>1 DEF EventListsOrdered, TimesConsistent
<1>12. QED
  BY <1>2, <1>4, <1>5, <1>6, <1>7, <1>9, <1>10, <1>11 DEF Good, ItemsOK, ListsOK

LEMMA PrioritySetLists ==
  ASSUME ListInv, ControlInv', NEW t \in Task, NEW p \in NewPrios, PrioritySet(t, p)
  PROVE  ListInv' /\ k'.tick = k.tick
<1> DEFINE old == k.prio[t]
           np == [k.prio EXCEPT ![t] = IF k.base[t] = old \/ p > old THEN p ELSE old]
           nb == [k.base EXCEPT ![t] = p]
           nk == [k.key EXCEPT ![t] = MaxPrio - p]
           changed == [k EXCEPT !.prio = np, !.base = nb, !.key = nk]
           nr == [k.ready EXCEPT ![old] = @ \ {t}]
           nt == IF k.ready[old] = {t} THEN k.top \ {old} ELSE k.top
           moved == [changed EXCEPT !.ready = nr, !.top = nt]
           yield == IF p > k.base[t] THEN t # k.cur /\ p > k.prio[k.cur] ELSE t = k.cur
           m == ChangePriority(t, p)
<1>1. /\ p \in Prio /\ k \in KType /\ k.cur \in Task /\ k.depth = 0
      /\ k.base = k.prio /\ p # old /\ pc' = pc
      /\ k.cur \in ReadyTasks(k) /\ Highest(k) /\ Listed(k) = ExistingTasks
      /\ Idle \in ReadyTasks(k) /\ Good(k) /\ old \in Prio
  BY SchedulerAssumption, ListFacts, RunningListFacts DEF PrioritySet, Running, At, KType
<1>2. /\ np \in [Task -> Prio] /\ nb \in [Task -> Prio] /\ nk \in [Task -> 1 .. MaxPrio]
      /\ nr \in [Prio -> SUBSET Task] /\ nt \in SUBSET Prio
      /\ nb = np /\ np = [k.prio EXCEPT ![t] = p]
      /\ np[t] = p /\ \A u \in Task \ {t} : np[u] = k.prio[u]
  BY <1>1, Constants DEF KType, Prio
<1>3. changed = [k EXCEPT !.prio[t] = IF k.base[t] = old \/ p > old THEN p ELSE @,
                          !.base[t] = p, !.key[t] = MaxPrio - p]
  OBVIOUS
<1>4. changed.ready = k.ready /\ changed.top = k.top
  BY <1>1 DEF KType
<1>5. moved = [changed EXCEPT !.ready[old] = @ \ {t},
                              !.top = IF k.ready[old] = {t} THEN @ \ {old} ELSE @]
  BY <1>4
<1>6. m = IF t \in k.ready[old] THEN AddToReadyList(moved, t) ELSE changed
  BY <1>3, <1>5 DEF ChangePriority
<1>7. k' \in YieldIf(yield, m) /\ yield \in BOOLEAN
  BY DEF PrioritySet
<1>8. k.cur \in k.ready[k.prio[k.cur]] /\ (t \in ReadyTasks(k) <=> t \in k.ready[old])
  BY <1>1, ReadyAtOwnPriority DEF Good, ItemsOK, ListsOK
<1> HIDE DEF np, nb, nk, nr, nt, m
<1>9. /\ changed \in KType /\ changed.cur = k.cur /\ changed.tick = k.tick
      /\ changed.depth = 0 /\ changed.prio = np /\ changed.base = np
      /\ changed.ready = k.ready /\ changed.top = k.top
      /\ changed.delayed = k.delayed /\ changed.overflow = k.overflow
      /\ changed.suspended = k.suspended /\ changed.dying = k.dying
      /\ changed.pending = k.pending /\ changed.waiting = k.waiting
      /\ changed.before = k.before /\ changed.wake = k.wake /\ changed.next = k.next
  <2>1. /\ k \in KType /\ np \in [Task -> Prio] /\ nb \in [Task -> Prio]
        /\ nk \in [Task -> 1 .. MaxPrio]
    BY <1>1, <1>2
  <2>2. /\ changed \in KType /\ changed.cur = k.cur /\ changed.tick = k.tick
        /\ changed.depth = k.depth /\ changed.prio = np /\ changed.base = nb
        /\ changed.ready = k.ready /\ changed.top = k.top
        /\ changed.delayed = k.delayed /\ changed.overflow = k.overflow
        /\ changed.suspended = k.suspended /\ changed.dying = k.dying
        /\ changed.pending = k.pending /\ changed.waiting = k.waiting
        /\ changed.before = k.before /\ changed.wake = k.wake /\ changed.next = k.next
    BY <2>1 DEF KType
  <2>3. QED
    BY <1>1, <1>2, <2>2
<1> HIDE DEF changed
<1>10. /\ moved \in KType /\ moved.cur = k.cur /\ moved.tick = k.tick
       /\ moved.depth = 0 /\ moved.prio = np /\ moved.base = np
       /\ moved.ready = nr /\ moved.top = nt
       /\ moved.delayed = k.delayed /\ moved.overflow = k.overflow
       /\ moved.suspended = k.suspended /\ moved.dying = k.dying
       /\ moved.pending = k.pending /\ moved.waiting = k.waiting
       /\ moved.before = k.before /\ moved.wake = k.wake /\ moved.next = k.next
  BY <1>2, <1>9 DEF KType
<1> HIDE DEF moved
<1>11. /\ Good(m) /\ Listed(m) = Listed(k) /\ ReadyTasks(m) = ReadyTasks(k)
       /\ m.cur = k.cur /\ m.tick = k.tick /\ m.depth = 0 /\ m.prio = np /\ m.base = np
       /\ \A q \in m.top : q \in k.top \/ (q = p /\ t \in ReadyTasks(k))
  <2>1. CASE t \in k.ready[old]
    <3>1. /\ Good(moved) /\ ReadyTasks(moved) = ReadyTasks(k) \ {t}
          /\ t \in ReadyTasks(k) /\ Listed(moved) = Listed(k) \ {t}
      <4>1. /\ nr = [k.ready EXCEPT ![k.prio[t]] = k.ready[k.prio[t]] \ {t}]
            /\ nt = IF k.ready[k.prio[t]] = {t} THEN k.top \ {k.prio[t]} ELSE k.top
            /\ t \in k.ready[k.prio[t]] /\ k.depth = moved.depth
        BY <1>1, <1>10, <2>1 DEF nr, nt
      <4>2. Moved(moved, k, t, p)
        BY <1>2, <1>10, <4>1 DEF Moved
      <4>3. QED
        BY <1>1, <4>2, MovedKernel
    <3>2. m = AddToReadyList(moved, t)
      BY <1>6, <2>1
    <3>3. /\ Good(m) /\ ReadyTasks(m) = ReadyTasks(moved) \cup {t}
          /\ Listed(m) = Listed(moved) \cup {t}
      BY <3>1, <3>2, AddToReadyListItems
    <3>4. t \in Listed(k)
      BY <3>1, ListedElements
    <3>5. /\ m.cur = k.cur /\ m.tick = k.tick /\ m.depth = 0 /\ m.prio = np /\ m.base = np
          /\ m.top = nt \cup {p}
      <4>1. /\ m.cur = moved.cur /\ m.tick = moved.tick /\ m.depth = moved.depth
            /\ m.prio = moved.prio /\ m.base = moved.base
            /\ m.top = moved.top \cup {moved.prio[t]}
        BY <1>10, <3>2, AddToReadyListFields
      <4>2. QED
        BY <1>2, <1>10, <4>1
    <3>6. QED
      BY <3>1, <3>3, <3>4, <3>5 DEF nt
  <2>2. CASE t \notin k.ready[old]
    <3>1. m = changed /\ t \notin ReadyTasks(k)
      BY <1>6, <1>8, <2>2
    <3>2. \A u \in ReadyTasks(k) : np[u] = k.prio[u]
      <4>1. \A u \in ReadyTasks(k) : u \in Task /\ u # t
        BY <1>1, <3>1, ReadyTasksElements DEF KType
      <4>2. QED
        BY <1>2, <4>1
    <3>3. Reprioritised(changed, k)
      BY <1>1, <1>9, <3>2 DEF Reprioritised
    <3>4. QED
      BY <1>1, <1>9, <3>1, <3>3, ReprioritisedGood
  <2>3. QED
    BY <2>1, <2>2
<1>12. yield \/ Highest(m)
  <2>1. /\ \A q \in k.top : q <= k.prio[k.cur] /\ q \in Nat
        /\ k.prio[k.cur] \in Nat /\ p \in Nat /\ old \in Nat /\ k.base[t] = old
    BY <1>1 DEF Highest, KType, Prio
  <2>2. t \in ReadyTasks(k) => old <= k.prio[k.cur]
    BY <1>1, <1>8 DEF Highest, Good, ItemsOK, ListsOK, TopIsExact
  <2>3. ASSUME ~yield
        PROVE  \A q \in m.top : q <= np[k.cur]
    <3>1. CASE t = k.cur
      <4>1. p > old
        BY <1>1, <2>1, <2>3, <3>1
      <4>2. \A q \in k.top : q <= p
        BY <2>1, <3>1, <4>1
      <4>3. QED
        BY <1>2, <1>11, <2>1, <3>1, <4>2
    <3>2. CASE t # k.cur
      <4>1. np[k.cur] = k.prio[k.cur]
        BY <1>1, <1>2, <3>2
      <4>2. t \in ReadyTasks(k) => p <= k.prio[k.cur]
        BY <2>1, <2>2, <2>3, <3>2
      <4>3. QED
        BY <1>11, <2>1, <4>1, <4>2
    <3>3. QED
      BY <3>1, <3>2
  <2>4. QED
    BY <1>1, <1>11, <2>3 DEF Highest
<1>13. ExistingTasks' = ExistingTasks
  BY <1>1 DEF ExistingTasks
<1> HIDE DEF yield
<1>14. QED
  BY <1>1, <1>7, <1>11, <1>12, <1>13, YieldIfLists

-----------------------------------------------------------------------------
(* Calls that suspend the scheduler. *)

LEMMA SuspendAllKeepsGood ==
  ASSUME ListInv
  PROVE  LET s == SuspendAll(k)
         IN  /\ Good(s) /\ Listed(s) = Listed(k) /\ ReadyTasks(s) = ReadyTasks(k)
             /\ s.depth = k.depth + 1 /\ s.cur = k.cur /\ s.prio = k.prio
             /\ s.base = k.base /\ s.tick = k.tick /\ s.yieldPending = k.yieldPending
             /\ s.top = k.top /\ s.delayed = k.delayed /\ s.overflow = k.overflow
             /\ s.suspended = k.suspended
<1> DEFINE s == SuspendAll(k)
<1>1. k \in KType /\ Good(k) /\ k.depth \in Nat
  BY ListFacts
<1>2. s \in KType /\ s = [k EXCEPT !.depth = k.depth + 1]
  BY <1>1, SuspendAllControl
<1> HIDE DEF s
<1>3. k.depth > 0 => k.depth + 1 > 0
  BY <1>1
<1>4. /\ SameLists(s, k) /\ s.depth = k.depth + 1 /\ s.cur = k.cur /\ s.base = k.base
      /\ s.yieldPending = k.yieldPending
  BY <1>1, <1>2, <1>3 DEF SameLists, SameItems, SameTimes, KType
<1>5. QED
  BY <1>1, <1>4, SameListsGood DEF s, SameLists, SameItems, SameTimes

(* The caller goes on with the scheduler suspended, or inside the call of  *)
(* xTaskResumeAll that ends the suspension.                                *)
LEMMA GoesOn ==
  ASSUME ListInv, ControlInv', pc[k.cur] = "run",
         Good(k'), Listed(k') = Listed(k), Noted(k', k),
         NEW p \in {"run", "unlock", "catchup", "abort"},
         pc' = [pc EXCEPT ![k.cur] = p],
         IF p = "catchup" THEN k'.depth = 0 ELSE k'.depth > 0,
         p = "abort" => arg'[k.cur] \in k'.delayed \cup k'.overflow \cup k'.suspended
  PROVE  ListInv'
<1>1. ExistingTasks' = ExistingTasks /\ pc'[k.cur] = p /\ k'.cur = k.cur
  BY MovesExisting DEF Noted
<1>2. /\ Listed(k') = ExistingTasks' /\ Idle \in ReadyTasks(k') /\ k'.base = k'.prio
  BY <1>1, ListFacts DEF Noted
<1>3. /\ k'.cur \in ReadyTasks(k')
      /\ \/ \A q \in k'.top : q <= k'.prio[k'.cur]
         \/ k'.yieldPending
  BY RunningListFacts DEF Noted, Highest
<1>4. k'.depth > 0 \/ p = "catchup"
  OBVIOUS
<1>5. k'.depth = 0 => ~(k'.depth > 0)
  OBVIOUS
<1>6. ListParts'
  BY <1>1, <1>2, <1>3, <1>4, <1>5 DEF ListParts
<1>7. QED
  BY <1>6, ListInvUnfolded

(* The caller is about to resume the scheduler and then to yield.          *)
LEMMA GoesToBlock ==
  ASSUME ListInv, ControlInv', pc[k.cur] = "run", k.cur # Idle,
         Good(k'), Listed(k') = Listed(k), ReadyTasks(k) \ {k.cur} \subseteq ReadyTasks(k'),
         k'.cur = k.cur, k'.base = k.base, k'.prio = k.prio,
         pc' = [pc EXCEPT ![k.cur] = "block"]
  PROVE  ListInv'
<1>1. ExistingTasks' = ExistingTasks /\ pc'[k'.cur] = "block"
  <2>1. pc[k.cur] # "gone" /\ "block" # "gone"
    OBVIOUS
  <2>2. ExistingTasks' = ExistingTasks /\ pc'[k.cur] = "block"
    BY <2>1, MovesExisting
  <2>3. QED
    BY <2>2
<1>2. /\ Listed(k') = ExistingTasks' /\ Idle \in ReadyTasks(k') /\ k'.base = k'.prio
  BY <1>1, ListFacts
<1>3. ListParts'
  BY <1>1, <1>2 DEF ListParts
<1>4. QED
  BY <1>3, ListInvUnfolded

LEMMA SuspendSchedulerLists ==
  ASSUME ListInv, ControlInv', SuspendScheduler
  PROVE  ListInv' /\ k'.tick = k.tick
<1>1. /\ pc[k.cur] = "run" /\ k' = SuspendAll(k) /\ pc' = [pc EXCEPT ![k.cur] = "run"]
  BY ListFacts DEF SuspendScheduler, Running, At
<1>2. /\ Good(k') /\ Listed(k') = Listed(k) /\ Noted(k', k) /\ k'.tick = k.tick
      /\ k'.depth = k.depth + 1 /\ k.depth \in Nat
  BY <1>1, ListFacts, SuspendAllKeepsGood DEF Noted
<1>3. k'.depth > 0
  BY <1>2
<1>4. QED
  BY <1>1, <1>2, <1>3, GoesOn

LEMMA ResumeSchedulerLists ==
  ASSUME ListInv, ControlInv', ResumeScheduler
  PROVE  ListInv' /\ k'.tick = k.tick
<1>1. PICK p \in {"run", "catchup"} :
        /\ pc' = [pc EXCEPT ![k.cur] = p]
        /\ p = "catchup" <=> k.depth = 1
  <2>1. CASE k.depth = 1
    BY <2>1 DEF ResumeScheduler, Goto
  <2>2. CASE k.depth # 1
    BY <2>2 DEF ResumeScheduler, Goto
  <2>3. QED
    BY <2>1, <2>2
<1>2. pc[k.cur] = "run" /\ k' = DrainPending(k) /\ k.depth > 0 /\ k.depth \in Nat
  BY ListFacts DEF ResumeScheduler, Running, At
<1>3. /\ Good(k') /\ Listed(k') = Listed(k) /\ Noted(k', k)
      /\ k'.depth = k.depth - 1 /\ k'.tick = k.tick
  BY <1>2, ListFacts, DrainPendingGood
<1>4. IF p = "catchup" THEN k'.depth = 0 ELSE k'.depth > 0
  BY <1>1, <1>2, <1>3
<1>5. QED
  BY <1>1, <1>2, <1>3, <1>4, GoesOn

LEMMA CatchUpTicksLists ==
  ASSUME ListInv, ControlInv', NEW n \in Delays, CatchUpTicks(n)
  PROVE  ListInv' /\ k'.tick = k.tick
<1> DEFINE s == SuspendAll(k)
<1>1. /\ pc[k.cur] = "run" /\ k.depth = 0 /\ pc' = [pc EXCEPT ![k.cur] = "unlock"]
      /\ k' = [s EXCEPT !.pended = s.pended + n]
  BY DEF CatchUpTicks, Running, At, Goto
<1>2. /\ Good(s) /\ Listed(s) = Listed(k) /\ ReadyTasks(s) = ReadyTasks(k)
      /\ s.depth = 1 /\ s.cur = k.cur /\ s.prio = k.prio
      /\ s.base = k.base /\ s.tick = k.tick /\ s.yieldPending = k.yieldPending
      /\ s.top = k.top
  BY <1>1, SuspendAllKeepsGood
<1>3. k' \in KType /\ s \in KType
  BY <1>2, ControlInvUnfolded DEF ControlParts, Good, ItemsOK, ListsOK
<1> HIDE DEF s
<1>4. /\ SameLists(k', s) /\ k'.cur = k.cur /\ k'.base = k.base
      /\ k'.yieldPending = k.yieldPending /\ k'.depth = 1
  BY <1>1, <1>2, <1>3 DEF SameLists, SameItems, SameTimes, KType
<1>5. /\ Good(k') /\ Listed(k') = Listed(k) /\ ReadyTasks(k') = ReadyTasks(k)
  BY <1>2, <1>4, SameListsGood
<1>6. k'.prio = k.prio /\ k'.tick = k.tick /\ k'.top = k.top
  BY <1>2, <1>4 DEF SameLists, SameItems, SameTimes
<1>7. Noted(k', k)
  BY <1>4, <1>5, <1>6 DEF Noted
<1>8. k'.depth > 0
  BY <1>4
<1>9. QED
  BY <1>1, <1>5, <1>6, <1>7, <1>8, GoesOn

LEMMA AbortDelayLists ==
  ASSUME ListInv, ControlInv', NEW t \in Task, AbortDelay(t)
  PROVE  ListInv' /\ k'.tick = k.tick
<1>1. PICK p \in {"abort", "unlock"} :
        /\ pc' = [pc EXCEPT ![k.cur] = p]
        /\ p = "abort" => IsBlocked(t) /\ arg' = [arg EXCEPT ![k.cur] = t]
  <2>1. CASE IsBlocked(t)
    BY <2>1 DEF AbortDelay, Goto
  <2>2. CASE ~IsBlocked(t)
    BY <2>2 DEF AbortDelay, Goto
  <2>3. QED
    BY <2>1, <2>2
<1>2. pc[k.cur] = "run" /\ k' = SuspendAll(k) /\ k.depth = 0
  BY DEF AbortDelay, Running, At
<1>3. /\ Good(k') /\ Listed(k') = Listed(k) /\ Noted(k', k) /\ k'.tick = k.tick
      /\ k'.depth = 1 /\ k'.delayed = k.delayed /\ k'.overflow = k.overflow
      /\ k'.suspended = k.suspended
  BY <1>2, SuspendAllKeepsGood DEF Noted
<1>4. p = "abort" => arg'[k.cur] \in k'.delayed \cup k'.overflow \cup k'.suspended
  BY <1>1, <1>3, ListFacts DEF IsBlocked
<1>5. k'.depth > 0
  BY <1>3
<1>6. QED
  BY <1>1, <1>2, <1>3, <1>4, <1>5, GoesOn

-----------------------------------------------------------------------------
(* Calls that block the caller. *)

LEMMA SuspendAllBlocks ==
  ASSUME ListInv, pc[k.cur] = "run"
  PROVE  LET s == SuspendAll(k)
         IN  /\ ListsOK(s) /\ TimesConsistent(s) /\ BlockingItems(s)
             /\ s.cur \in ReadyTasks(s) /\ s.cur \notin s.dying
<1>1. /\ Good(SuspendAll(k)) /\ k.cur \in ReadyTasks(SuspendAll(k))
      /\ SuspendAll(k).cur = k.cur
  BY SuspendAllKeepsGood, RunningListFacts
<1>2. k.cur \notin SuspendAll(k).dying
  BY <1>1 DEF Good, ItemsOK, ListsOK, OnOneListOnly
<1>3. BlockingItems(SuspendAll(k))
  <2>1. /\ EventItemsConsistent(SuspendAll(k)) /\ EventListsOrdered(SuspendAll(k))
    BY <1>1 DEF Good, ItemsOK
  <2>2. QED
    BY <2>1 DEF BlockingItems, EventItemsConsistent
<1>4. QED
  BY <1>1, <1>2, <1>3 DEF Good, ItemsOK

(* ... with prvAddCurrentTaskToDelayedList. *)
LEMMA DelayedLists ==
  ASSUME ListInv, ControlInv', Running, NEW n \in Tick, (k.tick + n) % TickMod # k.tick,
         k' = AddCurrentToDelayedList(SuspendAll(k), n, FALSE),
         pc' = [pc EXCEPT ![k.cur] = "block"]
  PROVE  ListInv' /\ k'.tick = k.tick
<1> DEFINE s == SuspendAll(k)
<1>1. /\ pc[k.cur] = "run" /\ k.cur # Idle
  BY DEF Running, At
<1>2. /\ ListsOK(s) /\ TimesConsistent(s) /\ BlockingItems(s)
      /\ s.cur \in ReadyTasks(s) /\ s.cur \notin s.dying /\ s \in KType
  BY <1>1, SuspendAllBlocks DEF ListsOK
<1>3. /\ Listed(s) = Listed(k) /\ ReadyTasks(s) = ReadyTasks(k) /\ s.cur = k.cur
      /\ s.prio = k.prio /\ s.base = k.base /\ s.tick = k.tick
  BY SuspendAllKeepsGood
<1> HIDE DEF s
<1>4. /\ Good(k') /\ Listed(k') = Listed(s) /\ ReadyTasks(k') = ReadyTasks(s) \ {s.cur}
  <2>1. (s.tick + n) % TickMod # s.tick /\ FALSE \in BOOLEAN
    BY <1>3
  <2>2. QED
    BY <1>2, <2>1, AddCurrentToDelayedListGood DEF s
<1>5. SameControl(k', s)
  BY <1>2, AddCurrentToDelayedListControl DEF s
<1>6. QED
  BY <1>1, <1>3, <1>4, <1>5, GoesToBlock DEF SameControl

LEMMA WakesLater ==
  ASSUME NEW n \in Delays, NEW now \in Tick
  PROVE  n \in Tick /\ (now + n) % TickMod # now
<1>1. n \in Tick /\ n # 0 /\ TickMod \in Nat \ {0}
  BY SchedulerAssumption, Constants
<1>2. (now + n) % TickMod = IF now + n < TickMod THEN now + n ELSE now + n - TickMod
  BY <1>1, AddModulo DEF Tick
<1>3. QED
  BY <1>1, <1>2 DEF Tick

LEMMA DelayLists ==
  ASSUME ListInv, ControlInv', NEW n \in Delays, Delay(n)
  PROVE  ListInv' /\ k'.tick = k.tick
<1>1. k.tick \in Tick
  BY ListFacts DEF KType
<1>2. n \in Tick /\ (k.tick + n) % TickMod # k.tick
  BY <1>1, WakesLater
<1>3. QED
  BY <1>2, DelayedLists DEF Delay, Goto

LEMMA DelayUntilLists ==
  ASSUME ListInv, ControlInv', NEW n \in Delays, NEW prev \in Tick, DelayUntil(prev, n)
  PROVE  ListInv' /\ k'.tick = k.tick
<1> DEFINE left == (prev + n + TickMod - k.tick) % TickMod
<1>1. k.tick \in Tick /\ n \in Tick /\ TickMod \in Nat \ {0} /\ Running
  BY ListFacts, WakesLater, Constants DEF KType, DelayUntil
<1>2. CASE ShouldDelay(k.tick, prev, n)
  <2>1. (k.tick + left) % TickMod = (prev + n) % TickMod
    BY <1>1, WakeOfPeriod
  <2>2. (prev + n) % TickMod # k.tick
    <3>1. (prev + n) % TickMod \in Tick
      BY <1>1 DEF Tick
    <3>2. QED
      BY <1>1, <1>2, <3>1 DEF ShouldDelay, Tick
  <2>3. left \in Tick
    BY <1>1 DEF Tick
  <2>4. k' = AddCurrentToDelayedList(SuspendAll(k), left, FALSE)
    BY <1>2 DEF DelayUntil
  <2> HIDE DEF left
  <2>5. QED
    BY <1>1, <2>1, <2>2, <2>3, <2>4, DelayedLists DEF DelayUntil, Goto
<1>3. CASE ~ShouldDelay(k.tick, prev, n)
  <2>1. /\ k' = SuspendAll(k) /\ pc' = [pc EXCEPT ![k.cur] = "block"]
        /\ pc[k.cur] = "run" /\ k.cur # Idle
    BY <1>3 DEF DelayUntil, Goto, Running, At
  <2>2. /\ Good(k') /\ Listed(k') = Listed(k) /\ ReadyTasks(k') = ReadyTasks(k)
        /\ k'.cur = k.cur /\ k'.base = k.base /\ k'.prio = k.prio /\ k'.tick = k.tick
    BY <2>1, SuspendAllKeepsGood
  <2>3. QED
    BY <2>1, <2>2, GoesToBlock
<1>4. QED
  BY <1>2, <1>3

LEMMA WaitOnLists ==
  ASSUME ListInv, ControlInv', NEW n \in Delays, NEW o \in Object, WaitOn(o, n)
  PROVE  ListInv' /\ k'.tick = k.tick
<1> DEFINE s == SuspendAll(k)
<1>1. /\ pc[k.cur] = "run" /\ k.cur # Idle /\ k' = PlaceOnEventList(s, o, n)
      /\ pc' = [pc EXCEPT ![k.cur] = "block"]
  BY DEF WaitOn, Running, At, Goto
<1>2. /\ s.cur \in ReadyTasks(s) /\ s.cur \notin s.dying /\ s \in KType
  BY <1>1, SuspendAllBlocks DEF ListsOK
<1>3. /\ Good(s) /\ Listed(s) = Listed(k) /\ ReadyTasks(s) = ReadyTasks(k)
      /\ s.cur = k.cur /\ s.prio = k.prio /\ s.base = k.base /\ s.tick = k.tick
  BY SuspendAllKeepsGood
<1>4. n \in Tick /\ (s.tick + n) % TickMod # s.tick
  BY <1>2, <1>3, WakesLater DEF KType
<1> HIDE DEF s
<1>5. /\ Good(k') /\ Listed(k') = Listed(s) /\ ReadyTasks(k') = ReadyTasks(s) \ {s.cur}
  BY <1>1, <1>2, <1>3, <1>4, PlaceOnEventListGood
<1>6. SameControl(k', s)
  BY <1>1, <1>2, <1>4, PlaceOnEventListControl
<1>7. QED
  BY <1>1, <1>3, <1>5, <1>6, GoesToBlock DEF SameControl

LEMMA TaskYieldLists ==
  ASSUME ListInv, ControlInv', TaskYield
  PROVE  ListInv' /\ k'.tick = k.tick
<1>1. pc[k.cur] = "run" /\ k.depth = 0 /\ k' \in SwitchContext(k) /\ pc' = pc
  BY DEF TaskYield, Running, At
<1>2. ExistingTasks' = ExistingTasks
  BY <1>1 DEF ExistingTasks
<1>3. QED
  BY <1>1, <1>2, SwitchContextLists

-----------------------------------------------------------------------------
(* The tick. *)

(* What a step that counts a tick does to the delayed tasks. *)
TickStep ==
  /\ k'.tick = (k.tick + 1) % TickMod
  /\ ReadyTasks(k') = ReadyTasks(k) \cup NextDue(k)

LEMMA TickInterruptLists ==
  ASSUME ListInv, ControlInv', TickInterrupt
  PROVE  ListInv' /\ (k'.tick = k.tick \/ TickStep)
<1>1. pc' = pc /\ arg' = arg /\ ExistingTasks' = ExistingTasks
  BY DEF TickInterrupt, ExistingTasks
<1>2. k \in KType /\ Good(k) /\ k.depth \in Nat /\ k' \in KType
  BY ListFacts, ControlInvUnfolded DEF ControlParts
<1>3. CASE k.depth > 0
  <2>1. k' = [k EXCEPT !.pended = k.pended + 1]
    BY <1>2, <1>3 DEF TickInterrupt
  <2>2. /\ SameLists(k', k) /\ k'.cur = k.cur /\ k'.base = k.base
        /\ k'.depth = k.depth /\ k'.yieldPending = k.yieldPending
    BY <1>2, <2>1 DEF SameLists, SameItems, SameTimes, KType
  <2>3. Good(k') /\ Listed(k') = Listed(k) /\ ReadyTasks(k') = ReadyTasks(k)
    BY <1>2, <2>2, SameListsGood
  <2>4. /\ k'.prio = k.prio /\ k'.top = k.top /\ k'.tick = k.tick
        /\ k'.delayed = k.delayed /\ k'.overflow = k.overflow
        /\ k'.suspended = k.suspended
    BY <2>2 DEF SameLists, SameItems, SameTimes
  <2>5. QED
    BY <1>1, <2>2, <2>3, <2>4, StaysRunning
<1>4. CASE ~(k.depth > 0)
  <2> DEFINE m == IncrementTick(k)
             w == TickWantsSwitch(k)
  <2>1. k.depth = 0 /\ k' \in YieldIf(w, m)
    BY <1>2, <1>4 DEF TickInterrupt
  <2>2. w \in BOOLEAN
    <3>1. k.yieldPending \in BOOLEAN
      BY <1>2 DEF KType
    <3>2. QED
      BY <3>1 DEF TickWantsSwitch, Preempts
  <2>3. /\ Good(m) /\ Listed(m) = Listed(k) /\ Ticked(m, k)
        /\ ReadyTasks(m) = ReadyTasks(k) \cup NextDue(k)
        /\ m.yieldPending = k.yieldPending
    BY <1>2, IncrementTickGood
  <2>4. ~w => \A p \in m.top : p \in k.top \/ p <= k.prio[k.cur]
    BY <1>2, TickOwesNothing
  <2>5. /\ m.depth = 0 /\ m.cur = k.cur /\ m.prio = k.prio /\ m.base = k.base
        /\ m.tick = (k.tick + 1) % TickMod
    BY <2>1, <2>3 DEF Ticked
  <2> HIDE DEF m, w
  <2>6. k'.tick = m.tick /\ ReadyTasks(k') = ReadyTasks(m)
    BY <2>1, <2>2, <2>3, YieldIfGood DEF SameLists, SameTimes
  <2>7. ListInv'
    <3>1. CASE w
      <4>1. Listed(k) = ExistingTasks
        BY <2>1, ListFacts, ControlInvUnfolded DEF ControlParts
      <4>2. Listed(m) = ExistingTasks' /\ Idle \in ReadyTasks(m) /\ m.base = m.prio
        BY <1>1, <2>3, <2>5, <4>1, ListFacts
      <4>3. QED
        BY <2>1, <2>2, <2>3, <2>5, <3>1, <4>2, YieldIfLists
    <3>2. CASE ~w
      <4>1. k' = m /\ k'.depth = k.depth
        BY <2>1, <2>5, <3>2 DEF YieldIf
      <4>2. QED
        BY <1>1, <1>4, <2>3, <2>4, <2>5, <3>2, <4>1, StaysRunning
    <3>3. QED
      BY <3>1, <3>2
  <2>8. QED
    BY <2>3, <2>5, <2>6, <2>7 DEF TickStep
<1>5. QED
  BY <1>3, <1>4

-----------------------------------------------------------------------------
(* The inductive invariant holds. *)

LEMMA InitLists ==
  ASSUME Init
  PROVE  ListInv
<1> DEFINE first == {t \in Boot : \A u \in Boot : InitPrio[u] <= InitPrio[t]}
<1>1. PICK c \in first :
        k = [ cur |-> c, prio |-> InitPrio, base |-> InitPrio,
              ready |-> [p \in Prio |-> {t \in Boot : InitPrio[t] = p}],
              top |-> {InitPrio[t] : t \in Boot},
              delayed |-> {}, overflow |-> {}, suspended |-> {}, dying |-> {},
              wake |-> [t \in Task |-> 0], pending |-> {},
              waiting |-> [o \in Object |-> {}], before |-> {},
              key |-> [t \in Task |-> MaxPrio - InitPrio[t]],
              aborted |-> {}, notify |-> [t \in Task |-> "not_waiting"],
              tick |-> 0, next |-> MaxDelay, overflows |-> 0, pended |-> 0,
              depth |-> 0, yieldPending |-> FALSE,
              count |-> Cardinality(Boot), cleanup |-> 0 ]
  BY DEF Init, DispatchInit, InitialKernel
<1>2. /\ k.cur = c /\ k.prio = InitPrio /\ k.base = InitPrio
      /\ \A p \in Prio : k.ready[p] = {t \in Boot : InitPrio[t] = p}
      /\ k.top = {InitPrio[t] : t \in Boot}
      /\ k.delayed = {} /\ k.overflow = {} /\ k.suspended = {} /\ k.dying = {}
      /\ k.pending = {} /\ \A o \in Object : k.waiting[o] = {}
      /\ k.before = {} /\ k.depth = 0
  BY <1>1
<1>3. /\ c \in Task /\ c \in Boot /\ Boot \subseteq Task /\ Idle \in Boot
      /\ \A t \in Boot : InitPrio[t] \in Prio
  BY KernelAssumption
<1>4. ControlInv /\ k \in KType
  BY InitControl, ControlFacts
<1>5. ReadyTasks(k) = Boot /\ Waiters(k) = {}
  <2>1. \A t : t \in ReadyTasks(k) <=> t \in Boot
    BY <1>2, <1>3, ReadyTasksElements
  <2>2. \A t : t \notin Waiters(k)
    BY <1>2, WaitersElements
  <2>3. QED
    BY <2>1, <2>2
<1>6. ListsOK(k)
  BY <1>2, <1>3, <1>4, <1>5 DEF ListsOK, OnOneListOnly, ReadyAtPriority, TopIsExact
<1>7. EventItemsConsistent(k) /\ EventListsOrdered(k) /\ TimesConsistent(k)
  BY <1>2, <1>5 DEF EventItemsConsistent, EventListsOrdered, TimesConsistent
<1>8. Listed(k) = Boot
  BY <1>2, <1>5, ListedElements
<1>9. pc = [t \in Task |-> IF t \in Boot THEN "run" ELSE "gone"]
  BY DEF Init, DispatchInit
<1>10. ExistingTasks = Boot /\ pc[k.cur] = "run"
  BY <1>2, <1>3, <1>9 DEF ExistingTasks
<1>11. \A p \in k.top : p <= k.prio[k.cur]
  BY <1>2
<1>12. ~(k.depth > 0)
  BY <1>2
<1>13. ListParts
  BY <1>2, <1>3, <1>5, <1>6, <1>7, <1>8, <1>10, <1>11, <1>12
     DEF ListParts, Good, ItemsOK
<1>14. QED
  BY <1>4, <1>13, ListInvUnfolded

LEMMA CatchUpTicksOnce ==
  ASSUME ListInv, CatchUp
  PROVE  TickStep
BY ListFacts, CatchUpTickGood DEF CatchUp, TickStep

LEMMA StepKeepsLists ==
  ASSUME ListInv, [Next]_kernelVars
  PROVE  ListInv' /\ (k'.tick = k.tick \/ TickStep)
<1> DEFINE Kept == ListInv' /\ (k'.tick = k.tick \/ TickStep)
<1>1. ControlInv'
  BY ListFacts, StepKeepsControl
<1>2. CASE KernelStep
  BY <1>1, <1>2, UnlockSchedulerLists, CatchUpLists, CatchUpTicksOnce, UnlockedLists,
     YieldLists, ExitLists, CreatedLists, SuspendedLists, AbortBlockedLists,
     AbortReadyLists DEF KernelStep
<1>3. CASE TaskCall
  <2>1. ASSUME NEW t \in Task,
               \/ Create(t) \/ Delete(t) \/ Suspend(t) \/ Resume(t) \/ AbortDelay(t)
               \/ \E p \in NewPrios : PrioritySet(t, p)
        PROVE  Kept
    BY <1>1, <2>1, CreateLists, DeleteLists, SuspendLists, ResumeLists,
       AbortDelayLists, PrioritySetLists
  <2>2. ASSUME NEW n \in Delays,
               \/ Delay(n) \/ CatchUpTicks(n)
               \/ \E prev \in Tick : DelayUntil(prev, n)
               \/ \E o \in Object : WaitOn(o, n)
        PROVE  Kept
    BY <1>1, <2>2, DelayLists, CatchUpTicksLists, DelayUntilLists, WaitOnLists
  <2>3. ASSUME NEW o \in Object, SignalFromTask(o)
        PROVE  Kept
    BY <1>1, <2>3, SignalLists DEF SignalFromTask
  <2>4. QED
    BY <1>1, <1>3, <2>1, <2>2, <2>3, DeleteSelfLists, TaskYieldLists,
       SuspendSchedulerLists, ResumeSchedulerLists DEF TaskCall
<1>4. CASE Interrupt
  BY <1>1, <1>4, TickInterruptLists, ResumeFromISRLists, SignalLists
     DEF Interrupt, SignalFromISR
<1>5. CASE IdleCleanUp \/ IdleYield
  BY <1>1, <1>5, IdleCleanUpLists, IdleYieldLists
<1>6. CASE UNCHANGED kernelVars
  <2>1. k' = k /\ pc' = pc /\ arg' = arg
    BY <1>6 DEF kernelVars
  <2>2. ListParts' <=> ListParts
    BY <2>1 DEF ListParts, ExistingTasks
  <2>3. QED
    BY <1>1, <2>1, <2>2, ListInvUnfolded
<1>7. QED
  BY <1>2, <1>3, <1>4, <1>5, <1>6 DEF Next

-----------------------------------------------------------------------------
(* Theorems. *)

(* What the lists hold and which context switch is owed, in every state    *)
(* the task API, the interrupts and the idle task can reach.               *)
THEOREM ListInvariant == Spec => []ListInv
<1>1. Init => ListInv
  BY InitLists
<1>2. ListInv /\ [Next]_kernelVars => ListInv'
  BY StepKeepsLists
<1>3. QED
  BY <1>1, <1>2, PTL DEF Spec

(* The invariant that a run checks on a small instance is inductive, with  *)
(* the order of the event lists.                                           *)
THEOREM Inductive == Spec => []IInv
<1>1. ListInv => IInv
  BY DEF ListInv
<1>2. QED
  BY <1>1, ListInvariant, PTL

(* Every task that exists is on exactly one list of the kernel, a ready    *)
(* task on that of its priority, and the bit map of the ready priorities   *)
(* is exact: the task to run is never taken from an empty list.            *)
THEOREM NoTaskLost == Spec => []EveryTaskOnItsList
<1>1. ListInv => EveryTaskOnItsList
  BY DEF ListInv, IInv
<1>2. QED
  BY <1>1, ListInvariant, PTL

(* A task whose event item is on a list is blocked, on that list only, and *)
(* the pending list is used only while the scheduler is suspended: no      *)
(* interrupt between two steps of a kernel function undoes this.           *)
THEOREM EventItemsAgree == Spec => []EventItems
<1>1. ListInv => EventItems
  BY DEF ListInv, IInv, EventItems
<1>2. QED
  BY <1>1, ListInvariant, PTL

(* xNextTaskUnblockTime never hides the wake-up of a delayed task, and no  *)
(* task on a delayed list is overdue, wherever the tick count wraps.       *)
THEOREM NoWakeUpHidden == Spec => []NoOversleep
<1>1. ListInv => NoOversleep
  BY DEF ListInv, IInv
<1>2. QED
  BY <1>1, ListInvariant, PTL

(* A task that runs its own code while the scheduler is not suspended has  *)
(* the highest priority of the ready tasks: no call and no interrupt       *)
(* forgets the context switch it owes.                                     *)
THEOREM HighestPriorityRuns == Spec => []RunsHighest
<1>1. ListInv => RunsHighest
  <2> SUFFICES ASSUME ListInv, At("run"), k.depth = 0
               PROVE  /\ k.cur \in k.ready[k.prio[k.cur]]
                      /\ \A p \in k.top : p <= k.prio[k.cur]
    BY DEF RunsHighest
  <2>1. Highest(k) /\ k \in KType /\ ReadyAtPriority(k) /\ k.cur \in Task
    BY RunningListFacts, ListFacts DEF At, Good, ItemsOK, ListsOK
  <2>2. QED
    BY <2>1, ReadyAtOwnPriority DEF Highest
<1>2. QED
  BY <1>1, ListInvariant, PTL

(* A tick makes ready exactly the delayed tasks whose wake time has come,  *)
(* whether an interrupt or xTaskResumeAll counts it, and across the wrap   *)
(* of the counter and the swap of the delayed lists.                       *)
THEOREM TickWakesThoseDue == Spec => TickWakesExactly
<1>1. ASSUME ListInv, [Next]_kernelVars, k'.tick # k.tick
      PROVE  /\ k'.tick = (k.tick + 1) % TickMod
             /\ \A t \in k.delayed \cup k.overflow :
                  t \in ReadyTasks(k') <=> k.wake[t] = k'.tick
  <2>1. TickStep
    BY <1>1, StepKeepsLists
  <2>2. OnOneListOnly(k)
    BY <1>1, ListFacts DEF Good, ItemsOK, ListsOK
  <2>3. ASSUME NEW t \in k.delayed \cup k.overflow
        PROVE  t \in ReadyTasks(k') <=> k.wake[t] = k'.tick
    <3>1. t \notin ReadyTasks(k)
      BY <2>2 DEF OnOneListOnly
    <3>2. QED
      BY <2>1, <3>1 DEF TickStep, NextDue
  <2>4. QED
    BY <2>1, <2>3 DEF TickStep
<1>2. QED
  BY <1>1, ListInvariant, PTL DEF Spec, TickWakesExactly

=============================================================================
