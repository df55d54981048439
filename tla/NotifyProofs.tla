---------------------------- MODULE NotifyProofs ----------------------------
(***************************************************************************)
(* Theorems about task notifications: that no task sleeps on in a wait     *)
(* that a notification has ended, and that a wait without a time limit     *)
(* ends with a notification - for every number of tasks, with interrupts   *)
(* that notify between the critical sections of a wait, with the scheduler *)
(* suspended, time-outs, aborts and suspensions in between.                *)
(***************************************************************************)
EXTENDS TaskNotify, SchedulerProofs

-----------------------------------------------------------------------------
(* Tasks that leave their blocked lists.                                   *)

Blocked(s) == s.delayed \cup s.overflow \cup s.suspended

(* A ready task is on no list of blocked ones, a suspended one not on the  *)
(* delayed lists too.                                                      *)
Apart(s) ==
  /\ ReadyTasks(s) \cap Blocked(s) = {}
  /\ s.suspended \cap (s.delayed \cup s.overflow) = {}

(* The tasks of S leave the lists of blocked tasks, all others stay.       *)
Wakes(r, s, S) ==
  /\ r \in KType /\ r.notify = s.notify
  /\ Blocked(r) = Blocked(s) \ S /\ r.suspended = s.suspended \ S
  /\ r.pending = s.pending \ S
  /\ Apart(s) => Apart(r)

LEMMA WakesTransitive ==
  ASSUME NEW s, NEW r, NEW q, NEW S, NEW T, Wakes(r, s, S), Wakes(q, r, T)
  PROVE  Wakes(q, s, S \cup T)
BY DEF Wakes

LEMMA SameWakes ==
  ASSUME NEW s, NEW r \in KType, r.notify = s.notify, r.ready = s.ready,
         r.delayed \cup r.overflow = s.delayed \cup s.overflow,
         r.suspended = s.suspended, r.pending = s.pending
  PROVE  Wakes(r, s, {})
<1>1. ReadyTasks(r) = ReadyTasks(s) /\ Blocked(r) = Blocked(s)
  BY DEF ReadyTasks, Blocked
<1>2. QED
  BY <1>1 DEF Wakes, Apart

LEMMA MakeReadyWakes ==
  ASSUME NEW s \in KType, NEW S \in SUBSET Task
  PROVE  Wakes(MakeReady(s, S), s, S)
<1> DEFINE r == MakeReady(s, S)
<1>1. /\ r \in KType /\ r.notify = s.notify
      /\ r.ready = [p \in Prio |-> (s.ready[p] \ S) \cup {t \in S : s.prio[t] = p}]
      /\ r.delayed = s.delayed \ S /\ r.overflow = s.overflow \ S
      /\ r.suspended = s.suspended \ S /\ r.pending = s.pending \ S
  BY MakeReadyFields, ZenonT(40)
<1> HIDE DEF r
<1>2. Blocked(r) = Blocked(s) \ S
  BY <1>1 DEF Blocked
<1>3. \A t \in ReadyTasks(r) : t \in ReadyTasks(s) \/ t \in S
  BY <1>1, ReadyTasksElements
<1>4. Apart(s) => Apart(r)
  BY <1>1, <1>2, <1>3 DEF Apart
<1>5. Wakes(r, s, S)
  BY <1>1, <1>2, <1>4 DEF Wakes
<1>6. QED
  BY <1>5 DEF r

LEMMA ResetNextWakes ==
  ASSUME NEW s \in KType
  PROVE  Wakes(ResetNextUnblockTime(s), s, {})
<1> DEFINE r == ResetNextUnblockTime(s)
<1>1. r \in KType /\ r = [s EXCEPT !.next = r.next]
  BY ResetNextUnblockTimeFields
<1> HIDE DEF r
<1>2. /\ r.notify = s.notify /\ r.ready = s.ready /\ r.delayed = s.delayed
      /\ r.overflow = s.overflow /\ r.suspended = s.suspended /\ r.pending = s.pending
  BY <1>1 DEF KType
<1>3. QED
  BY <1>1, <1>2, SameWakes DEF r

LEMMA AdvanceTickWakes ==
  ASSUME NEW s \in KType
  PROVE  Wakes(AdvanceTick(s), s, {})
<1> DEFINE m == [s EXCEPT !.tick = (s.tick + 1) % TickMod]
           d == [m EXCEPT !.delayed = m.overflow, !.overflow = m.delayed,
                          !.overflows = (m.overflows + 1) % OvfMod]
<1>1. (s.tick + 1) % TickMod \in Tick
  BY Constants DEF KType, Tick
<1>2. /\ m \in KType /\ m.notify = s.notify /\ m.ready = s.ready
      /\ m.delayed = s.delayed /\ m.overflow = s.overflow
      /\ m.suspended = s.suspended /\ m.pending = s.pending
  BY <1>1 DEF KType
<1>3. AdvanceTick(s) = IF m.tick = 0 THEN ResetNextUnblockTime(d) ELSE m
  BY DEF AdvanceTick, SwitchDelayedLists
<1> HIDE DEF m
<1>4. (m.overflows + 1) % OvfMod \in 0 .. OvfMod - 1
  BY <1>2, Constants DEF KType
<1>5. /\ d \in KType /\ d.notify = s.notify /\ d.ready = s.ready
      /\ d.delayed \cup d.overflow = s.delayed \cup s.overflow
      /\ d.suspended = s.suspended /\ d.pending = s.pending
  BY <1>2, <1>4 DEF KType
<1> HIDE DEF d
<1>6. Wakes(ResetNextUnblockTime(d), d, {}) /\ Wakes(d, s, {}) /\ Wakes(m, s, {})
  BY <1>2, <1>5, SameWakes, ResetNextWakes
<1>7. Wakes(ResetNextUnblockTime(d), s, {} \cup {})
  BY <1>6, WakesTransitive
<1>8. QED
  BY <1>3, <1>6, <1>7

(* A tick wakes tasks of the delayed lists, none that is suspended. *)
LEMMA IncrementTickWakes ==
  ASSUME NEW s \in KType, Apart(s)
  PROVE  \E S \in SUBSET Task : Wakes(IncrementTick(s), s, S) /\ S \cap s.suspended = {}
<1> DEFINE m == AdvanceTick(s)
           d == DueTasks(m)
           w == MakeReady(m, d)
           n == ResetNextUnblockTime(w)
<1>1. Wakes(m, s, {})
  BY AdvanceTickWakes
<1>2. IncrementTick(s) = IF m.tick >= m.next THEN n ELSE m
  BY DEF IncrementTick, WakeDueTasks
<1>3. m \in KType /\ d \in SUBSET Task /\ d \subseteq m.delayed
  BY <1>1 DEF DueTasks, Wakes, KType
<1>4. d \cap s.suspended = {}
  BY <1>1, <1>3 DEF Wakes, Apart
<1> HIDE DEF m, d
<1>5. Wakes(w, m, d)
  BY <1>3, MakeReadyWakes
<1> HIDE DEF w
<1>6. Wakes(n, w, {})
  BY <1>5, ResetNextWakes DEF Wakes
<1> HIDE DEF n
<1>7. Wakes(w, s, {} \cup d)
  BY <1>1, <1>5, WakesTransitive
<1>8. Wakes(n, s, ({} \cup d) \cup {})
  BY <1>6, <1>7, WakesTransitive
<1>9. ({} \cup d) \cup {} = d /\ {} \in SUBSET Task
  OBVIOUS
<1>10. QED
  BY <1>1, <1>2, <1>3, <1>4, <1>8, <1>9

LEMMA CatchUpTickWakes ==
  ASSUME NEW s \in KType, Apart(s), s.pended > 0
  PROVE  \E S \in SUBSET Task : Wakes(CatchUpTick(s), s, S) /\ S \cap s.suspended = {}
<1> DEFINE i == IncrementTick(s)
           y == TickWantsSwitch(s)
           z == [i EXCEPT !.pended = i.pended - 1, !.yieldPending = i.yieldPending \/ y]
<1>1. CatchUpTick(s) = z
  BY DEF CatchUpTick
<1>2. PICK S \in SUBSET Task : Wakes(i, s, S) /\ S \cap s.suspended = {}
  BY IncrementTickWakes
<1>3. z \in KType /\ i \in KType
  BY <1>1, <1>2, CatchUpTickControl DEF Wakes
<1> HIDE DEF i, y
<1>4. /\ z.notify = i.notify /\ z.ready = i.ready /\ z.delayed = i.delayed
      /\ z.overflow = i.overflow /\ z.suspended = i.suspended /\ z.pending = i.pending
  BY <1>3 DEF KType
<1> HIDE DEF z
<1>5. Wakes(z, i, {})
  BY <1>3, <1>4, SameWakes
<1>6. Wakes(z, s, S \cup {}) /\ S \cup {} = S
  BY <1>2, <1>5, WakesTransitive
<1>7. QED
  BY <1>1, <1>2, <1>6

(* What interrupts left on the pending list is made ready. *)
LEMMA DrainPendingWakes ==
  ASSUME NEW s \in KType, s.depth > 0
  PROVE  \E S \in SUBSET s.pending :
            /\ Wakes(DrainPending(s), s, S)
            /\ s.depth = 1 => DrainPending(s).pending = {}
<1> DEFINE down == [s EXCEPT !.depth = s.depth - 1]
           m == MakeReady(down, s.pending)
           n == ResetNextUnblockTime(m)
           y == Preempts(s, s.pending)
           z == [n EXCEPT !.yieldPending = n.yieldPending \/ y]
<1>1. s.depth - 1 \in Nat
  BY DEF KType
<1>2. /\ down \in KType /\ down.notify = s.notify /\ down.ready = s.ready
      /\ down.delayed = s.delayed /\ down.overflow = s.overflow
      /\ down.suspended = s.suspended /\ down.pending = s.pending
      /\ down.depth = s.depth - 1
  BY <1>1 DEF KType
<1>3. DrainPending(s) = IF down.depth = 0 /\ s.pending # {} THEN z ELSE down
  BY DEF DrainPending
<1>4. s.pending \in SUBSET Task /\ y \in BOOLEAN
  BY DEF KType, Preempts
<1> HIDE DEF down, y
<1>5. Wakes(down, s, {})
  BY <1>2, SameWakes
<1>6. Wakes(m, down, s.pending)
  BY <1>2, <1>4, MakeReadyWakes
<1> HIDE DEF m
<1>7. Wakes(n, m, {})
  BY <1>6, ResetNextWakes DEF Wakes
<1> HIDE DEF n
<1>8. n \in KType
  BY <1>7 DEF Wakes
<1>9. (n.yieldPending \/ y) \in BOOLEAN
  BY <1>8, <1>4 DEF KType
<1>10. /\ z \in KType /\ z.notify = n.notify /\ z.ready = n.ready
       /\ z.delayed = n.delayed /\ z.overflow = n.overflow
       /\ z.suspended = n.suspended /\ z.pending = n.pending
  BY <1>8, <1>9, ZenonT(40) DEF KType
<1> HIDE DEF z
<1>11. Wakes(z, n, {})
  BY <1>10, SameWakes
<1>12. Wakes(m, s, {} \cup s.pending)
  BY <1>5, <1>6, WakesTransitive
<1>13. Wakes(n, s, ({} \cup s.pending) \cup {})
  BY <1>7, <1>12, WakesTransitive
<1>14. Wakes(z, s, (({} \cup s.pending) \cup {}) \cup {})
  BY <1>11, <1>13, WakesTransitive
<1>15. (({} \cup s.pending) \cup {}) \cup {} = s.pending
  OBVIOUS
<1>16. Wakes(z, s, s.pending) /\ z.pending = {}
  BY <1>14, <1>15 DEF Wakes
<1>17. CASE down.depth = 0 /\ s.pending # {}
  BY <1>3, <1>16, <1>17
<1>18. CASE ~(down.depth = 0 /\ s.pending # {})
  <2>1. s.depth = 1 => down.pending = {}
    BY <1>2, <1>18
  <2>2. {} \in SUBSET s.pending
    OBVIOUS
  <2>3. QED
    BY <1>3, <1>5, <1>18, <2>1, <2>2
<1>19. QED
  BY <1>17, <1>18

(* A task that is taken off all its lists is blocked on none. *)
LEMMA OffBothWakes ==
  ASSUME NEW s \in KType, NEW t \in Task
  PROVE  LET r == OffEventLists(OffStateList(s, t), {t})
         IN  /\ Wakes(r, s, {t}) /\ r.cur = s.cur /\ r.depth = s.depth
             /\ t \notin Blocked(r)
<1> DEFINE l == OffStateList(s, t)
           r == OffEventLists(l, {t})
<1>1. /\ l \in KType /\ l.ready = [p \in Prio |-> s.ready[p] \ {t}]
      /\ l.delayed = s.delayed \ {t} /\ l.overflow = s.overflow \ {t}
      /\ l.suspended = s.suspended \ {t} /\ l.pending = s.pending
      /\ l.notify = s.notify /\ l.cur = s.cur /\ l.depth = s.depth
  BY OffStateListFields
<1> HIDE DEF l
<1>2. /\ r \in KType /\ r.ready = l.ready /\ r.delayed = l.delayed
      /\ r.overflow = l.overflow /\ r.suspended = l.suspended
      /\ r.pending = l.pending \ {t} /\ r.notify = l.notify
      /\ r.cur = l.cur /\ r.depth = l.depth
  <2>1. l \in KType /\ {t} \in SUBSET Task
    BY <1>1
  <2>2. QED
    BY <2>1, OffEventListsFields, ZenonT(40)
<1> HIDE DEF r
<1>3. \A u \in ReadyTasks(r) : u \in ReadyTasks(s)
  BY <1>1, <1>2, ReadyTasksElements
<1>4. Wakes(r, s, {t}) /\ t \notin Blocked(r)
  BY <1>1, <1>2, <1>3 DEF Wakes, Blocked, Apart
<1>5. QED
  BY <1>1, <1>2, <1>4 DEF r, l

(* A context switch moves nobody. *)
LEMMA SwitchContextWakes ==
  ASSUME NEW s \in KType, NEW r \in SwitchContext(s)
  PROVE  /\ Wakes(r, s, {}) /\ r.depth = s.depth
         /\ s.depth # 0 => r.cur = s.cur
         /\ s.depth = 0 => r.cur \in ReadyTasks(s) /\ ReadyTasks(r) = ReadyTasks(s)
<1>1. /\ r \in KType
      /\ r = [s EXCEPT !.yieldPending = r.yieldPending, !.cur = r.cur]
      /\ s.depth # 0 => r.cur = s.cur /\ r.yieldPending = TRUE
      /\ s.depth = 0 => r.cur \in HighestReady(s) /\ r.yieldPending = FALSE
  BY SwitchContextControl
<1>2. /\ r.notify = s.notify /\ r.ready = s.ready /\ r.delayed = s.delayed
      /\ r.overflow = s.overflow /\ r.suspended = s.suspended /\ r.pending = s.pending
      /\ r.depth = s.depth
  BY <1>1 DEF KType
<1>3. HighestReady(s) \subseteq ReadyTasks(s)
  BY DEF HighestReady, ReadyTasks, KType
<1>4. ReadyTasks(r) = ReadyTasks(s)
  BY <1>2 DEF ReadyTasks
<1>5. QED
  BY <1>1, <1>2, <1>3, <1>4, SameWakes

-----------------------------------------------------------------------------
(* The inductive invariant.                                                *)

Suspending == {"join", "unlock", "block", "abort", "aborted"}
Sections == Suspending \cup {"catchup", "catchup_block"}

(* The places of a call that waits, xTaskResumeAll and the yield included  *)
CallPlaces == {"join", "unlock", "block", "catchup", "catchup_block", "yield", "waited"}
Places == CallPlaces \cup {"gone", "run", "suspend", "abort", "aborted"}

(* Who is where: only the running task is in a section with the scheduler  *)
(* suspended, and a task waits exactly until its call's last section.      *)
NotifyControl ==
  /\ k \in KType
  /\ pc \in [Task -> Places] /\ after \in [Task -> {"run", "waited"}]
  /\ arg \in [Task -> Task]
  /\ \A t \in Task \ {k.cur} : pc[t] \notin Sections
  /\ pc[k.cur] \in Suspending => k.depth = 1
  /\ pc[k.cur] \notin Suspending \cup {"run", "suspend"} => k.depth = 0
  /\ pc[Idle] = "run"
  /\ \A t \in Task : /\ pc[t] \notin CallPlaces => after[t] = "run"
                     /\ pc[t] \in {"join", "waited"} => after[t] = "waited"
                     /\ pc[t] = "suspend" => arg[t] # t

(* The running task is on a list of blocked ones only between joining it   *)
(* and the yield, and no abort is about a wait that is still undisturbed.  *)
BlockedApart ==
  /\ Apart(k)
  /\ k.depth = 0 => k.pending = {}
  /\ k.cur \in Blocked(k) => pc[k.cur] \in {"block", "catchup_block", "yield"}
  /\ pc[k.cur] = "aborted" => arg[k.cur] \notin Blocked(k)
  /\ pc[k.cur] \in {"abort", "aborted"} /\ after[arg[k.cur]] = "waited"
       => arg[k.cur] \in disturbed

Undisturbed(t) == after[t] = "waited" /\ t \notin disturbed

(* With eNoAction a take is woken though there is nothing to take. *)
TakesAreGiven(t) == call[t].kind = "take" => "none" \notin Actions

(* A task in its wait is either marked as waiting, then with nothing to    *)
(* take, or has been made ready, at once or by way of the pending list; if *)
(* the wait has no limit, it is suspended as long as it is not notified.   *)
CallOK(t) ==
  /\ value[t] \in 0 .. MaxValue /\ call[t] \in Call \cup {NoCall}
  /\ after[t] = "waited" => call[t] \in Call
  /\ k.notify[t] = "waiting" => /\ after[t] = "waited" /\ t \notin k.pending
                                /\ call[t].kind = "take" => value[t] = 0
  /\ Undisturbed(t) /\ (t \in Blocked(k) \/ pc[t] = "join")
       => k.notify[t] = "waiting" \/ t \in k.pending
  /\ Undisturbed(t) /\ call[t].time = MaxDelay /\ ~Notified(t) /\ TakesAreGiven(t)
       => k.notify[t] = "waiting" /\ (pc[t] = "join" \/ t \in k.suspended)

CallsOK ==
  /\ value \in [Task -> Nat] /\ call \in [Task -> Call \cup {NoCall}]
  /\ disturbed \subseteq Task
  /\ \A t \in Task : CallOK(t)

NotifyInv == NotifyControl /\ BlockedApart /\ CallsOK

LEMMA NotifyFacts ==
  ASSUME NotifyInv
  PROVE  /\ k \in KType /\ k.cur \in Task /\ k.depth \in Nat /\ Idle \in Task
         /\ k.notify \in [Task -> NotifyState] /\ k.pending \in SUBSET Task
         /\ pc \in [Task -> Places] /\ after \in [Task -> {"run", "waited"}]
         /\ arg \in [Task -> Task] /\ Apart(k)
         /\ pc[k.cur] # "run" => k.cur # Idle
         /\ pc[k.cur] \in Suspending => k.depth = 1
         /\ pc[k.cur] \notin Suspending \cup {"run", "suspend"} => k.depth = 0
BY KernelAssumption DEF NotifyInv, NotifyControl, BlockedApart, KType

(* What a step leaves true of a task's call, if it leaves the call alone.  *)
LEMMA CallKept ==
  ASSUME NEW t \in Task, CallOK(t),
         value'[t] = value[t], call'[t] = call[t], after'[t] = after[t],
         k'.notify[t] = k.notify[t], t \in disturbed => t \in disturbed',
         t \in k'.pending => t \in k.pending, t \in Blocked(k') => t \in Blocked(k),
         pc'[t] = "join" <=> pc[t] = "join",
         t \in k.pending /\ (t \in Blocked(k') \/ pc[t] = "join") => t \in k'.pending,
         Undisturbed(t) /\ k.notify[t] = "waiting" /\ t \in k.suspended
           => t \in k'.suspended
  PROVE  CallOK(t)'
BY DEF CallOK, Undisturbed, Notified, TakesAreGiven

(* What a step leaves true of a task outside every call.                   *)
LEMMA IdleCallOK ==
  ASSUME NEW t \in Task, value'[t] \in 0 .. MaxValue, call'[t] \in Call \cup {NoCall},
         after'[t] = "run", k'.notify[t] # "waiting"
  PROVE  CallOK(t)'
BY DEF CallOK, Undisturbed

-----------------------------------------------------------------------------
(* Who is where.                                                           *)

LEMMA MoveKeepsControl ==
  ASSUME NotifyInv, k.cur # Idle, NEW p \in Places,
         pc' = [pc EXCEPT ![k.cur] = p], after' \in [Task -> {"run", "waited"}],
         arg' \in [Task -> Task], k' \in KType,
         \A t \in Task \ {k.cur} : after'[t] = after[t],
         p \notin CallPlaces => after'[k.cur] = "run",
         p \in {"join", "waited"} => after'[k.cur] = "waited",
         \A t \in Task \ {k.cur} : arg'[t] = arg[t],
         p = "suspend" => arg'[k.cur] # k.cur,
         p \in Sections \/ k'.depth # 0 => k'.cur = k.cur,
         p \in Suspending => k'.depth = 1,
         p \notin Suspending \cup {"run", "suspend"} => k'.depth = 0
  PROVE  NotifyControl'
<1>1. pc' \in [Task -> Places] /\ pc'[Idle] = "run" /\ pc'[k.cur] = p
  BY NotifyFacts DEF NotifyInv, NotifyControl
<1>2. \A t \in Task \ {k.cur} : pc'[t] = pc[t] /\ pc[t] \notin Sections
  BY NotifyFacts DEF NotifyInv, NotifyControl
<1>3. \A t \in Task \ {k'.cur} : pc'[t] \notin Sections
  BY <1>1, <1>2
<1>4. k'.cur \in Task /\ k.cur \in Task
  BY NotifyFacts DEF KType
<1>5. /\ pc'[k'.cur] \in Suspending => k'.depth = 1
      /\ pc'[k'.cur] \notin Suspending \cup {"run", "suspend"} => k'.depth = 0
  BY <1>1, <1>2, <1>4 DEF Sections
<1>6. \A t \in Task : /\ pc'[t] \notin CallPlaces => after'[t] = "run"
                      /\ pc'[t] \in {"join", "waited"} => after'[t] = "waited"
                      /\ pc'[t] = "suspend" => arg'[t] # t
  BY <1>1, <1>2 DEF NotifyInv, NotifyControl
<1>7. QED
  BY <1>1, <1>3, <1>5, <1>6 DEF NotifyControl

LEMMA StayKeepsControl ==
  ASSUME NotifyInv, pc' = pc, after' = after, arg' = arg, k' \in KType,
         k'.depth = k.depth, pc[k.cur] \in Sections \/ k.depth # 0 => k'.cur = k.cur
  PROVE  NotifyControl'
<1>1. \A t \in Task \ {k'.cur} : pc'[t] \notin Sections
  BY DEF NotifyInv, NotifyControl
<1>2. k'.cur \in Task
  BY DEF KType
<1>3. /\ pc'[k'.cur] \in Suspending => k'.depth = 1
      /\ pc'[k'.cur] \notin Suspending \cup {"run", "suspend"} => k'.depth = 0
  BY <1>2 DEF NotifyInv, NotifyControl, Sections
<1>4. QED
  BY <1>1, <1>3 DEF NotifyInv, NotifyControl

-----------------------------------------------------------------------------
(* Steps of the kernel, which leave the calls as they are.                 *)

(* Those that are made ready were delayed, have been notified or are       *)
(* aborted.                                                                *)
WokenAlright(S) ==
  \A t \in S :
    /\ t \notin k.suspended \/ k.notify[t] # "waiting" \/ ~Undisturbed(t)
    /\ pc[t] # "join"

LEMMA WakesKeepsCalls ==
  ASSUME NotifyInv, UNCHANGED notifyVars, after' = after,
         NEW S, WokenAlright(S), Wakes(k', k, S),
         \A t \in Task : pc'[t] = "join" <=> pc[t] = "join"
  PROVE  CallsOK'
<1>1. value' = value /\ call' = call /\ disturbed' = disturbed
  BY DEF notifyVars
<1>2. ASSUME NEW t \in Task
      PROVE  CallOK(t)'
  <2>1. CallOK(t)
    BY DEF NotifyInv, CallsOK
  <2>2. t \in k.pending /\ (t \in Blocked(k') \/ pc[t] = "join") => t \in k'.pending
    BY DEF Wakes, WokenAlright
  <2>3. Undisturbed(t) /\ k.notify[t] = "waiting" /\ t \in k.suspended
          => t \in k'.suspended
    BY DEF Wakes, WokenAlright
  <2>4. /\ k'.notify[t] = k.notify[t]
        /\ t \in k'.pending => t \in k.pending
        /\ t \in Blocked(k') => t \in Blocked(k)
    BY DEF Wakes
  <2>5. QED
    BY <1>1, <2>1, <2>2, <2>3, <2>4, CallKept
<1>3. QED
  BY <1>1, <1>2 DEF NotifyInv, CallsOK

(* The running task goes on, from pc[k.cur] to p. *)
LEMMA QuietStep ==
  ASSUME NotifyInv, NotifyControl', UNCHANGED notifyVars, after' = after, k'.cur = k.cur,
         NEW p, pc' = [pc EXCEPT ![k.cur] = p], p = "join" <=> pc[k.cur] = "join",
         NEW S, WokenAlright(S), Wakes(k', k, S),
         k'.depth = 0 => k'.pending = {},
         k.cur \in Blocked(k') => p \in {"block", "catchup_block", "yield"},
         p = "aborted" => arg'[k.cur] \notin Blocked(k'),
         p \in {"abort", "aborted"} /\ after[arg'[k.cur]] = "waited"
           => arg'[k.cur] \in disturbed
  PROVE  NotifyInv'
<1>1. pc'[k.cur] = p /\ \A t \in Task \ {k.cur} : pc'[t] = pc[t]
  BY NotifyFacts
<1>2. CallsOK'
  BY <1>1, WakesKeepsCalls
<1>3. BlockedApart'
  BY <1>1 DEF BlockedApart, NotifyInv, Wakes, notifyVars
<1>4. QED
  BY <1>2, <1>3 DEF NotifyInv

(* The running task gives way, at place p, to a ready task. *)
LEMMA SwitchStep ==
  ASSUME NotifyInv, NotifyControl', UNCHANGED notifyVars, after' = after,
         NEW m, NEW S, WokenAlright(S), Wakes(m, k, S), m.depth = 0, m.pending = {},
         k' \in SwitchContext(m), pc[k.cur] # "join",
         NEW p, p \notin Sections, pc' = [pc EXCEPT ![k.cur] = p]
  PROVE  NotifyInv'
<1>1. pc'[k.cur] = p /\ \A t \in Task \ {k.cur} : pc'[t] = pc[t]
  BY NotifyFacts
<1>2. m \in KType /\ Apart(m)
  BY NotifyFacts DEF Wakes
<1>3. /\ Wakes(k', m, {}) /\ k'.depth = 0
      /\ k'.cur \in ReadyTasks(m) /\ ReadyTasks(k') = ReadyTasks(m)
  BY <1>2, SwitchContextWakes
<1>4. Wakes(k', k, S \cup {}) /\ S \cup {} = S
  BY <1>3, WakesTransitive
<1>5. CallsOK'
  BY <1>1, <1>4, WakesKeepsCalls DEF Sections, Suspending
<1>6. Apart(k') /\ k'.cur \notin Blocked(k') /\ k'.pending = {}
  BY <1>2, <1>3 DEF Apart, Wakes
<1>7. k'.cur \in Task
  BY <1>3 DEF Wakes, KType
<1>8. \A t \in Task : pc'[t] \notin {"abort", "aborted"}
  BY <1>1 DEF NotifyInv, NotifyControl, Sections, Suspending
<1>9. BlockedApart'
  BY <1>6, <1>7, <1>8 DEF BlockedApart
<1>10. QED
  BY <1>5, <1>9 DEF NotifyInv


LEMMA NobodyJoins ==
  ASSUME NotifyInv, pc[k.cur] # "join"
  PROVE  \A t \in Task : pc[t] # "join"
BY NotifyFacts DEF NotifyInv, NotifyControl, Sections, Suspending

LEMMA PendingWoken ==
  ASSUME NotifyInv, pc[k.cur] # "join", NEW S \in SUBSET k.pending
  PROVE  WokenAlright(S)
BY NobodyJoins, NotifyFacts DEF WokenAlright, NotifyInv, CallsOK, CallOK

LEMMA DelayedWoken ==
  ASSUME NotifyInv, pc[k.cur] # "join", NEW S \in SUBSET Task, S \cap k.suspended = {}
  PROVE  WokenAlright(S)
BY NobodyJoins DEF WokenAlright

LEMMA UnlockSchedulerKeeps ==
  ASSUME NotifyInv, UnlockScheduler, UNCHANGED notifyVars
  PROVE  NotifyInv'
<1> DEFINE p == IF At("unlock") THEN "catchup" ELSE "catchup_block"
<1>1. /\ pc[k.cur] = IF p = "catchup" THEN "unlock" ELSE "block"
      /\ pc' = [pc EXCEPT ![k.cur] = p] /\ after' = after /\ arg' = arg
      /\ k' = DrainPending(k)
  BY DEF UnlockScheduler, Unlock, At, Goto
<1>2. k.depth = 1 /\ k.cur # Idle /\ pc[k.cur] # "join"
  BY <1>1, NotifyFacts DEF Suspending
<1>3. k' \in KType /\ k'.depth = 0 /\ k'.cur = k.cur
  BY <1>1, <1>2, NotifyFacts, DrainPendingControl
<1>4. PICK S \in SUBSET k.pending : Wakes(k', k, S) /\ k'.pending = {}
  BY <1>1, <1>2, NotifyFacts, DrainPendingWakes
<1>5. WokenAlright(S)
  BY <1>2, PendingWoken
<1>6. /\ p \in Places /\ p \in CallPlaces /\ p \notin Suspending
      /\ p \notin {"join", "waited", "suspend", "abort", "aborted"}
  BY DEF Places, CallPlaces, Suspending
<1>7. k.cur \in Blocked(k') => p \in {"block", "catchup_block", "yield"}
  BY <1>1, <1>4 DEF Wakes, NotifyInv, BlockedApart
<1> HIDE DEF p
<1>8. NotifyControl'
  BY <1>1, <1>2, <1>3, <1>6, NotifyFacts, MoveKeepsControl
<1>9. QED
  BY <1>1, <1>2, <1>3, <1>4, <1>5, <1>6, <1>7, <1>8, QuietStep

LEMMA CatchUpKeeps ==
  ASSUME NotifyInv, CatchUp, UNCHANGED notifyVars
  PROVE  NotifyInv'
<1>1. /\ pc[k.cur] \in {"catchup", "catchup_block"} /\ k.pended > 0
      /\ k' = CatchUpTick(k) /\ pc' = pc /\ after' = after /\ arg' = arg
  BY DEF CatchUp, Masked
<1>2. k'.depth = k.depth /\ k' \in KType /\ k'.cur = k.cur
  BY <1>1, NotifyFacts, CatchUpTickControl
<1>3. PICK S \in SUBSET Task : Wakes(k', k, S) /\ S \cap k.suspended = {}
  BY <1>1, NotifyFacts, CatchUpTickWakes
<1>4. WokenAlright(S)
  BY <1>1, <1>3, DelayedWoken
<1>5. NotifyControl'
  BY <1>1, <1>2, StayKeepsControl
<1>6. pc' = [pc EXCEPT ![k.cur] = pc[k.cur]]
  BY <1>1, NotifyFacts
<1>7. k'.depth = 0 => k'.pending = {}
  BY <1>2, <1>3 DEF Wakes, NotifyInv, BlockedApart
<1>8. k.cur \in Blocked(k') => pc[k.cur] \in {"block", "catchup_block", "yield"}
  BY <1>3 DEF Wakes, NotifyInv, BlockedApart
<1>9. QED
  BY <1>1, <1>2, <1>3, <1>4, <1>5, <1>6, <1>7, <1>8, QuietStep

LEMMA NothingWakes ==
  ASSUME NEW s \in KType
  PROVE  Wakes(s, s, {})
BY SameWakes

LEMMA UnlockedKeeps ==
  ASSUME NotifyInv, Unlocked, UNCHANGED notifyVars
  PROVE  NotifyInv'
<1> DEFINE p == IF At("catchup") \/ k.yieldPending THEN after[k.cur] ELSE "yield"
<1>1. /\ pc[k.cur] \in {"catchup", "catchup_block"} /\ k' \in YieldIf(k.yieldPending, k)
      /\ pc' = [pc EXCEPT ![k.cur] = p] /\ after' = after /\ arg' = arg
  BY DEF Unlocked, Masked, Goto
<1>2. /\ k.cur # Idle /\ k.depth = 0 /\ k.yieldPending \in BOOLEAN
      /\ pc[k.cur] # "join" /\ k.pending = {}
  BY <1>1, NotifyFacts DEF Suspending, KType, NotifyInv, BlockedApart
<1>3. p \in Places /\ p \notin Sections /\ p \notin Suspending
      /\ p \notin {"suspend", "abort", "aborted"}
  BY NotifyFacts DEF Places, CallPlaces, Sections, Suspending
<1>4. /\ p \notin CallPlaces => after[k.cur] = "run"
      /\ p \in {"join", "waited"} => after[k.cur] = "waited"
  BY NotifyFacts DEF CallPlaces
<1>5. k.cur \in Blocked(k) /\ ~k.yieldPending => p = "yield"
  BY <1>1 DEF NotifyInv, BlockedApart, At
<1> HIDE DEF p
<1>6. Wakes(k, k, {}) /\ WokenAlright({})
  BY NotifyFacts, NothingWakes DEF WokenAlright
<1>7. CASE k.yieldPending
  <2>1. k' \in SwitchContext(k)
    BY <1>1, <1>7 DEF YieldIf
  <2>2. k' \in KType /\ k'.depth = 0
    BY <1>2, <2>1, NotifyFacts, SwitchContextWakes DEF Wakes
  <2>3. NotifyControl'
    BY <1>1, <1>2, <1>3, <1>4, <2>2, NotifyFacts, MoveKeepsControl
  <2>4. QED
    BY <1>1, <1>2, <1>3, <1>6, <2>1, <2>3, SwitchStep
<1>8. CASE ~k.yieldPending
  <2>1. k' = k
    BY <1>1, <1>8 DEF YieldIf
  <2>2. NotifyControl'
    BY <1>1, <1>2, <1>3, <1>4, <2>1, NotifyFacts, MoveKeepsControl
  <2>3. p # "join"
    BY <1>3 DEF Suspending
  <2>4. QED
    BY <1>1, <1>2, <1>3, <1>5, <1>6, <1>8, <2>1, <2>2, <2>3, QuietStep
<1>9. QED
  BY <1>7, <1>8

LEMMA YieldKeeps ==
  ASSUME NotifyInv, Yield, UNCHANGED notifyVars
  PROVE  NotifyInv'
<1> DEFINE p == after[k.cur]
<1>1. /\ pc[k.cur] = "yield" /\ k' \in SwitchContext(k)
      /\ pc' = [pc EXCEPT ![k.cur] = p] /\ after' = after /\ arg' = arg
  BY DEF Yield, At, Goto
<1>2. k.cur # Idle /\ k.depth = 0 /\ k.pending = {}
  BY <1>1, NotifyFacts DEF Suspending, NotifyInv, BlockedApart
<1>3. p \in Places /\ p \notin Sections /\ p \notin Suspending
      /\ p \notin {"join", "suspend"}
  BY NotifyFacts DEF Places, CallPlaces, Sections, Suspending
<1>4. /\ p \notin CallPlaces => after[k.cur] = "run"
      /\ p \in {"join", "waited"} => after[k.cur] = "waited"
  BY NotifyFacts DEF CallPlaces
<1> HIDE DEF p
<1>5. k' \in KType /\ k'.depth = 0
  BY <1>1, <1>2, NotifyFacts, SwitchContextWakes DEF Wakes
<1>6. NotifyControl'
  BY <1>1, <1>2, <1>3, <1>4, <1>5, NotifyFacts, MoveKeepsControl
<1>7. Wakes(k, k, {}) /\ WokenAlright({})
  BY NotifyFacts, NothingWakes DEF WokenAlright
<1>8. QED
  BY <1>1, <1>2, <1>3, <1>6, <1>7, SwitchStep

LEMMA IdleYieldKeeps ==
  ASSUME NotifyInv, IdleYield, UNCHANGED notifyVars
  PROVE  NotifyInv'
<1>1. /\ k.cur = Idle /\ k' \in SwitchContext(k)
      /\ pc' = pc /\ after' = after /\ arg' = arg
  BY DEF IdleYield
<1>2. pc[k.cur] = "run" /\ pc' = [pc EXCEPT ![k.cur] = "run"]
  BY <1>1, NotifyFacts DEF NotifyInv, NotifyControl
<1>3. /\ Wakes(k', k, {}) /\ k'.depth = k.depth /\ k' \in KType
      /\ k.depth # 0 => k'.cur = k.cur
  BY <1>1, NotifyFacts, SwitchContextWakes DEF Wakes
<1>4. NotifyControl'
  BY <1>1, <1>2, <1>3, StayKeepsControl DEF Sections, Suspending
<1>5. Wakes(k, k, {}) /\ WokenAlright({})
  BY NotifyFacts, NothingWakes DEF WokenAlright
<1>6. k.cur \notin Blocked(k)
  BY <1>2 DEF NotifyInv, BlockedApart
<1>7. CASE k.depth = 0
  <2>1. k.pending = {} /\ "run" \notin Sections
    BY <1>7 DEF NotifyInv, BlockedApart, Sections, Suspending
  <2>2. QED
    BY <1>1, <1>2, <1>4, <1>5, <1>7, <2>1, SwitchStep
<1>8. CASE k.depth # 0
  <2>1. k.cur \notin Blocked(k')
    BY <1>3, <1>6 DEF Wakes
  <2>2. QED
    BY <1>1, <1>2, <1>3, <1>4, <1>5, <1>8, <2>1, QuietStep
<1>9. QED
  BY <1>7, <1>8


LEMMA TickInterruptKeeps ==
  ASSUME NotifyInv, TickInterrupt, UNCHANGED notifyVars
  PROVE  NotifyInv'
<1>1. /\ pc[k.cur] \notin {"catchup", "catchup_block"}
      /\ pc' = pc /\ after' = after /\ arg' = arg
  BY DEF TickInterrupt, Masked
<1>2. pc' = [pc EXCEPT ![k.cur] = pc[k.cur]]
  BY <1>1, NotifyFacts
<1>3. /\ k.cur \in Blocked(k) => pc[k.cur] \in {"block", "catchup_block", "yield"}
      /\ pc[k.cur] = "aborted" => arg[k.cur] \notin Blocked(k)
      /\ pc[k.cur] \in {"abort", "aborted"} /\ after[arg[k.cur]] = "waited"
           => arg[k.cur] \in disturbed
  BY DEF NotifyInv, BlockedApart
<1>4. CASE k.depth > 0 /\ k' = [k EXCEPT !.pended = k.pended + 1]
  <2>1. k.pended + 1 \in Nat
    BY NotifyFacts DEF KType
  <2>2. /\ k' \in KType /\ k'.cur = k.cur /\ k'.ready = k.ready /\ k'.depth = k.depth
        /\ k'.delayed = k.delayed /\ k'.overflow = k.overflow
        /\ k'.suspended = k.suspended /\ k'.pending = k.pending /\ k'.notify = k.notify
    BY <1>4, <2>1, NotifyFacts DEF KType
  <2>3. Wakes(k', k, {}) /\ WokenAlright({}) /\ NotifyControl'
    BY <1>1, <2>2, SameWakes, StayKeepsControl DEF WokenAlright
  <2>4. Blocked(k') = Blocked(k)
    BY <2>3 DEF Wakes
  <2>5. /\ k'.depth # 0
        /\ k.cur \in Blocked(k') => pc[k.cur] \in {"block", "catchup_block", "yield"}
        /\ pc[k.cur] = "aborted" => arg'[k.cur] \notin Blocked(k')
        /\ pc[k.cur] \in {"abort", "aborted"} /\ after[arg'[k.cur]] = "waited"
             => arg'[k.cur] \in disturbed
    BY <1>1, <1>3, <1>4, <2>2, <2>4
  <2>6. QED
    BY <1>1, <1>2, <2>2, <2>3, <2>5, QuietStep
<1>5. CASE k.depth = 0 /\ k' \in YieldIf(TickWantsSwitch(k), IncrementTick(k))
  <2> DEFINE m == IncrementTick(k)
  <2>1. PICK S \in SUBSET Task : Wakes(m, k, S) /\ S \cap k.suspended = {}
    BY NotifyFacts, IncrementTickWakes
  <2>2. m.depth = 0 /\ m \in KType /\ m.cur = k.cur
    BY <1>5, NotifyFacts, IncrementTickControl DEF Ticked
  <2>3. pc[k.cur] \notin Suspending /\ pc[k.cur] \notin Sections /\ pc[k.cur] # "join"
    BY <1>1, <1>5, NotifyFacts DEF Sections, Suspending
  <2>4. WokenAlright(S)
    BY <2>1, <2>3, DelayedWoken
  <2>5. m.pending = {}
    BY <1>5, <2>1 DEF Wakes, NotifyInv, BlockedApart
  <2> HIDE DEF m
  <2>6. CASE k' \in SwitchContext(m)
    <3>1. k' \in KType /\ k'.depth = 0
      BY <2>2, <2>6, SwitchContextWakes DEF Wakes
    <3>2. NotifyControl'
      BY <1>1, <1>5, <2>3, <3>1, StayKeepsControl
    <3>3. QED
      BY <1>1, <1>2, <2>1, <2>2, <2>3, <2>4, <2>5, <2>6, <3>2, SwitchStep
  <2>7. CASE k' = m
    <3>1. NotifyControl'
      BY <1>1, <1>5, <2>2, <2>7, StayKeepsControl
    <3>2. k.cur \in Blocked(k') => pc[k.cur] \in {"block", "catchup_block", "yield"}
      BY <1>3, <2>1, <2>7 DEF Wakes
    <3>3. QED
      BY <1>1, <1>2, <2>1, <2>2, <2>3, <2>4, <2>5, <2>7, <3>1, <3>2, QuietStep
         DEF Suspending
  <2>8. QED
    BY <1>5, <2>6, <2>7 DEF YieldIf, m
<1>6. QED
  BY <1>4, <1>5 DEF TickInterrupt

(* vTaskSuspendAll and xTaskResumeAll, called by a task *)
LEMMA SuspendSchedulerKeeps ==
  ASSUME NotifyInv, SuspendScheduler, UNCHANGED notifyVars
  PROVE  NotifyInv'
<1>1. /\ pc[k.cur] = "run" /\ k.cur # Idle /\ k' = SuspendAll(k)
      /\ pc' = pc /\ after' = after /\ arg' = arg
  BY DEF SuspendScheduler, Running, At
<1>2. k' \in KType /\ k' = [k EXCEPT !.depth = k.depth + 1]
  BY <1>1, NotifyFacts, SuspendAllControl
<1>3. /\ k'.cur = k.cur /\ k'.ready = k.ready /\ k'.depth = k.depth + 1
      /\ k'.delayed = k.delayed /\ k'.overflow = k.overflow
      /\ k'.suspended = k.suspended /\ k'.pending = k.pending /\ k'.notify = k.notify
  BY <1>2, NotifyFacts DEF KType
<1>4. Wakes(k', k, {}) /\ WokenAlright({})
  BY <1>2, <1>3, SameWakes DEF WokenAlright
<1>5. pc' = [pc EXCEPT ![k.cur] = "run"] /\ k'.depth # 0
  BY <1>1, <1>3, NotifyFacts
<1>6. /\ after'[k.cur] = "run" /\ "run" \in Places
      /\ "run" \notin Suspending /\ "run" \notin Sections
  BY <1>1, NotifyFacts DEF NotifyInv, NotifyControl, CallPlaces, Places, Suspending, Sections
<1>7. NotifyControl'
  BY <1>1, <1>2, <1>3, <1>5, <1>6, NotifyFacts, MoveKeepsControl
<1>8. k.cur \notin Blocked(k')
  BY <1>1, <1>4 DEF Wakes, NotifyInv, BlockedApart
<1>9. QED
  BY <1>1, <1>3, <1>4, <1>5, <1>7, <1>8, QuietStep

LEMMA ResumeSchedulerKeeps ==
  ASSUME NotifyInv, ResumeScheduler, UNCHANGED notifyVars
  PROVE  NotifyInv'
<1> DEFINE p == IF k.depth = 1 THEN "catchup" ELSE "run"
<1>1. /\ pc[k.cur] = "run" /\ k.cur # Idle /\ k.depth > 0 /\ k' = DrainPending(k)
      /\ pc' = [pc EXCEPT ![k.cur] = p] /\ after' = after /\ arg' = arg
  BY DEF ResumeScheduler, Running, At, Goto
<1>2. k' \in KType /\ k'.depth = k.depth - 1 /\ k'.cur = k.cur
  BY <1>1, NotifyFacts, DrainPendingControl
<1>3. PICK S \in SUBSET k.pending :
        Wakes(k', k, S) /\ (k.depth = 1 => k'.pending = {})
  BY <1>1, NotifyFacts, DrainPendingWakes
<1>4. WokenAlright(S)
  BY <1>1, PendingWoken
<1>5. /\ p \in Places /\ p \notin Suspending
      /\ p \notin {"join", "waited", "suspend", "abort", "aborted"}
      /\ p \notin {"run", "suspend"} => k.depth = 1
      /\ k.depth = 1 \/ p = "run"
  BY DEF Places, CallPlaces, Suspending
<1>6. after'[k.cur] = "run"
  BY <1>1, NotifyFacts DEF NotifyInv, NotifyControl, CallPlaces
<1>7. k.cur \notin Blocked(k')
  BY <1>1, <1>3 DEF Wakes, NotifyInv, BlockedApart
<1>8. k'.depth = 0 => k.depth = 1
  BY <1>1, <1>2, NotifyFacts
<1>9. k.depth = 1 => k'.depth = 0
  BY <1>2
<1> HIDE DEF p
<1>10. NotifyControl'
  BY <1>1, <1>2, <1>5, <1>6, <1>9, NotifyFacts, MoveKeepsControl
<1>11. QED
  BY <1>1, <1>2, <1>3, <1>4, <1>5, <1>7, <1>8, <1>10, QuietStep

-----------------------------------------------------------------------------

-----------------------------------------------------------------------------
(* The later steps of vTaskSuspend and xTaskAbortDelay                     *)

LEMMA SuspendedKeeps ==
  ASSUME NotifyInv, Suspended, UNCHANGED notifyVars
  PROVE  NotifyInv'
<1>1. arg' = [arg EXCEPT ![k.cur] = k.cur]
  BY DEF Suspended
<1>2. /\ pc[k.cur] = "suspend" /\ k' = ResetNextUnblockTime(k) /\ arg[k.cur] # k.cur
      /\ pc' = [pc EXCEPT ![k.cur] = "run"] /\ after' = after
  BY NotifyFacts DEF Suspended, At, Goto, NotifyInv, NotifyControl
<1>3. Wakes(k', k, {}) /\ WokenAlright({}) /\ k' \in KType
  BY <1>2, NotifyFacts, ResetNextWakes DEF WokenAlright, Wakes
<1>4. k'.depth = k.depth /\ k'.cur = k.cur /\ k.cur # Idle
  BY <1>2, NotifyFacts, ResetNextUnblockTimeControl DEF SameControl
<1>5. /\ after'[k.cur] = "run" /\ "run" \in Places
      /\ "run" \notin Suspending /\ "run" \notin Sections
  BY <1>2, NotifyFacts DEF NotifyInv, NotifyControl, CallPlaces, Places, Suspending, Sections
<1>6. NotifyControl'
  BY <1>2, <1>1, <1>3, <1>4, <1>5, NotifyFacts, MoveKeepsControl
<1>7. k.cur \notin Blocked(k') /\ (k'.depth = 0 => k'.pending = {})
  BY <1>2, <1>3, <1>4 DEF Wakes, NotifyInv, BlockedApart
<1>8. /\ "run" = "join" <=> pc[k.cur] = "join"
      /\ "run" \notin {"abort", "aborted"}
  BY <1>2
<1>9. QED
  BY <1>2, <1>3, <1>4, <1>6, <1>7, <1>8, QuietStep

LEMMA AbortBlockedKeeps ==
  ASSUME NotifyInv, AbortBlocked, UNCHANGED notifyVars
  PROVE  NotifyInv'
<1> DEFINE t == arg[k.cur]
           off == OffEventLists(OffStateList(k, t), {t})
<1>1. /\ pc[k.cur] = "abort" /\ pc' = [pc EXCEPT ![k.cur] = "aborted"]
      /\ after' = after /\ arg' = arg
      /\ \/ k' = [off EXCEPT !.aborted = off.aborted \cup {t}]
         \/ k' = off
  BY DEF AbortBlocked, At, Goto
<1>2. t \in Task /\ k.cur # Idle /\ k.depth = 1
  BY <1>1, NotifyFacts DEF Suspending
<1>3. /\ Wakes(off, k, {t}) /\ t \notin Blocked(off)
      /\ off.cur = k.cur /\ off.depth = k.depth
  BY <1>2, NotifyFacts, OffBothWakes
<1>4. after[t] = "waited" => t \in disturbed
  BY <1>1 DEF NotifyInv, BlockedApart
<1>5. arg'[k.cur] = t
  BY <1>1
<1> HIDE DEF t, off
<1>6. off \in KType /\ off.aborted \cup {t} \in SUBSET Task
  BY <1>2, <1>3 DEF Wakes, KType
<1>7. /\ k' \in KType /\ k'.ready = off.ready /\ k'.delayed = off.delayed
      /\ k'.overflow = off.overflow /\ k'.suspended = off.suspended
      /\ k'.pending = off.pending /\ k'.notify = off.notify
      /\ k'.cur = k.cur /\ k'.depth = 1
  BY <1>1, <1>2, <1>3, <1>6 DEF KType
<1>8. Wakes(k', off, {})
  BY <1>7, SameWakes
<1>9. Wakes(k', k, {t} \cup {}) /\ {t} \cup {} = {t}
  BY <1>3, <1>8, WakesTransitive
<1>10. t \notin Blocked(k')
  BY <1>3, <1>8 DEF Wakes
<1>11. WokenAlright({t})
  BY <1>1, <1>2, <1>4, NobodyJoins DEF WokenAlright, Undisturbed
<1>12. after'[k.cur] = "run" /\ "aborted" \in Places /\ "aborted" \in Suspending
  BY <1>1, NotifyFacts DEF NotifyInv, NotifyControl, CallPlaces, Places, Suspending
<1>13. NotifyControl'
  BY <1>1, <1>2, <1>7, <1>12, NotifyFacts, MoveKeepsControl
<1>14. k.cur \notin Blocked(k')
  BY <1>1, <1>9 DEF Wakes, NotifyInv, BlockedApart
<1>15. /\ "aborted" = "join" <=> pc[k.cur] = "join"
       /\ k'.depth # 0 /\ Wakes(k', k, {t})
       /\ arg'[k.cur] \notin Blocked(k')
       /\ after[arg'[k.cur]] = "waited" => arg'[k.cur] \in disturbed
  BY <1>1, <1>4, <1>5, <1>7, <1>9, <1>10
<1>16. QED
  BY <1>1, <1>7, <1>11, <1>13, <1>14, <1>15, QuietStep

LEMMA AbortReadyKeeps ==
  ASSUME NotifyInv, AbortReady, UNCHANGED notifyVars
  PROVE  NotifyInv'
<1> DEFINE t == arg[k.cur]
           l == AddToReadyList(k, t)
           y == Preempts(k, {t})
<1>1. arg' = [arg EXCEPT ![k.cur] = k.cur]
  BY DEF AbortReady
<1>2. /\ pc[k.cur] = "aborted" /\ pc' = [pc EXCEPT ![k.cur] = "unlock"]
      /\ after' = after
      /\ k' = [l EXCEPT !.yieldPending = l.yieldPending \/ y]
  BY DEF AbortReady, At, Goto
<1>3. /\ t \in Task /\ k.cur # Idle /\ k.depth = 1 /\ y \in BOOLEAN
      /\ k.cur \in Task /\ k \in KType
  BY <1>2, NotifyFacts DEF Suspending, Preempts
<1>4. t \notin Blocked(k)
  BY <1>2 DEF NotifyInv, BlockedApart
<1> HIDE DEF t, y
<1>5. /\ l \in KType /\ l.ready = [k.ready EXCEPT ![k.prio[t]] = k.ready[k.prio[t]] \cup {t}]
      /\ l.delayed = k.delayed /\ l.overflow = k.overflow
      /\ l.suspended = k.suspended /\ l.pending = k.pending
      /\ l.notify = k.notify /\ l.cur = k.cur /\ l.depth = k.depth
  BY <1>3, AddToReadyListFields
<1> HIDE DEF l
<1>6. (l.yieldPending \/ y) \in BOOLEAN
  BY <1>3, <1>5 DEF KType
<1>7. /\ k' \in KType /\ k'.ready = l.ready /\ k'.delayed = k.delayed
      /\ k'.overflow = k.overflow /\ k'.suspended = k.suspended
      /\ k'.pending = k.pending /\ k'.notify = k.notify /\ k'.cur = k.cur
      /\ k'.depth = k.depth
  BY <1>2, <1>5, <1>6, ZenonT(40) DEF KType
<1>8. \A u \in ReadyTasks(k') : u \in ReadyTasks(k) \/ u = t
  <2>1. k.ready \in [Prio -> SUBSET Task]
    BY <1>3 DEF KType
  <2>2. QED
    BY <1>5, <1>7, <2>1, ReadyTasksElements
<1>9. Wakes(k', k, {}) /\ WokenAlright({})
  BY <1>4, <1>7, <1>8 DEF Wakes, Blocked, Apart, WokenAlright
<1>10. /\ "unlock" \in Places /\ "unlock" \in Suspending /\ "unlock" \in CallPlaces
      /\ after'[k.cur] = "run"
  BY <1>2, <1>3 DEF NotifyInv, NotifyControl, CallPlaces, Places, Suspending
<1>11. NotifyControl'
  BY <1>2, <1>1, <1>3, <1>7, <1>10, NotifyFacts, MoveKeepsControl
<1>12. k.cur \notin Blocked(k')
  BY <1>2, <1>9 DEF Wakes, NotifyInv, BlockedApart
<1>13. /\ "unlock" = "join" <=> pc[k.cur] = "join"
       /\ "unlock" \notin {"abort", "aborted"}
       /\ k'.depth # 0 /\ k'.cur = k.cur
  BY <1>2, <1>3, <1>7
<1>14. WokenAlright({}) /\ Wakes(k', k, {})
  BY <1>9
<1>15. QED
  BY <1>2, <1>11, <1>12, <1>13, <1>14, QuietStep

-----------------------------------------------------------------------------
(* Steps about one task's call.                                            *)

(* What is left to show of a step that moves no other task than u. *)
LEMMA OthersKept ==
  ASSUME NotifyInv, NEW u \in Task, CallOK(u)',
         value' \in [Task -> Nat], call' \in [Task -> Call \cup {NoCall}],
         disturbed' \subseteq Task,
         \A t \in Task \ {u} :
           /\ value'[t] = value[t] /\ call'[t] = call[t] /\ after'[t] = after[t]
           /\ k'.notify[t] = k.notify[t]
           /\ t \in disturbed' <=> t \in disturbed
           /\ pc'[t] = "join" <=> pc[t] = "join"
           /\ t \in Blocked(k') <=> t \in Blocked(k)
           /\ t \in k'.suspended <=> t \in k.suspended
           /\ t \in k'.pending <=> t \in k.pending
  PROVE  CallsOK'
<1>1. ASSUME NEW t \in Task, t # u
      PROVE  CallOK(t)'
  <2>1. CallOK(t)
    BY DEF NotifyInv, CallsOK
  <2>2. QED
    BY <1>1, <2>1, CallKept
<1>2. QED
  BY <1>1 DEF CallsOK

(* Changing the notification state of a task moves nobody. *)
LEMMA SetNotify ==
  ASSUME NEW s \in KType, NEW t \in Task, NEW x \in NotifyState
  PROVE  LET r == [s EXCEPT !.notify[t] = x]
         IN  /\ r \in KType /\ r.notify = [s.notify EXCEPT ![t] = x]
             /\ r.ready = s.ready /\ r.delayed = s.delayed /\ r.overflow = s.overflow
             /\ r.suspended = s.suspended /\ r.pending = s.pending
             /\ r.cur = s.cur /\ r.prio = s.prio /\ r.depth = s.depth
             /\ Blocked(r) = Blocked(s) /\ ReadyTasks(r) = ReadyTasks(s)
             /\ Apart(s) => Apart(r)
<1> DEFINE N == [s.notify EXCEPT ![t] = x]
           r == [s EXCEPT !.notify = N]
<1>1. N \in [Task -> NotifyState]
  BY DEF KType
<1> HIDE DEF N
<1>2. /\ r \in KType /\ r.notify = N
      /\ r.ready = s.ready /\ r.delayed = s.delayed /\ r.overflow = s.overflow
      /\ r.suspended = s.suspended /\ r.pending = s.pending
      /\ r.cur = s.cur /\ r.prio = s.prio /\ r.depth = s.depth
  BY <1>1 DEF KType
<1>3. [s EXCEPT !.notify[t] = x] = r
  BY DEF KType, N
<1> HIDE DEF r
<1>4. Blocked(r) = Blocked(s) /\ ReadyTasks(r) = ReadyTasks(s)
  BY <1>2 DEF Blocked, ReadyTasks
<1>5. Apart(s) => Apart(r)
  BY <1>2, <1>4 DEF Apart
<1>6. QED
  BY <1>2, <1>3, <1>4, <1>5 DEF N

(* ulTaskGenericNotifyTake and xTaskGenericNotifyWait: the first critical  *)
(* section                                                                 *)
LEMMA StartKeeps ==
  ASSUME NotifyAssumption, NotifyInv, NEW c \in Call, Start(c)
  PROVE  NotifyInv'
<1> DEFINE s == SuspendAll(k)
           p == IF MustWait(k.cur, c) /\ c.time > 0 THEN "join" ELSE "unlock"
<1>1. /\ pc[k.cur] = "run" /\ k.cur # Idle /\ k.depth = 0
      /\ call' = [call EXCEPT ![k.cur] = c]
      /\ after' = [after EXCEPT ![k.cur] = "waited"]
      /\ pc' = [pc EXCEPT ![k.cur] = p] /\ arg' = arg /\ disturbed' = disturbed
  BY DEF Start, Running, At, Goto, me
<1>2. /\ s \in KType /\ s = [k EXCEPT !.depth = k.depth + 1]
      /\ k.cur \in Task /\ k.pending = {}
  BY <1>1, NotifyFacts, SuspendAllControl DEF NotifyInv, BlockedApart
<1>3. /\ s.notify = k.notify /\ s.ready = k.ready /\ s.delayed = k.delayed
      /\ s.overflow = k.overflow /\ s.suspended = k.suspended
      /\ s.pending = k.pending /\ s.cur = k.cur /\ s.depth = 1
  BY <1>1, <1>2, NotifyFacts DEF KType
<1>4. /\ MustWait(k.cur, c) =>
           /\ k' = [s EXCEPT !.notify[k.cur] = "waiting"]
           /\ value' = [value EXCEPT ![k.cur] = IF c.entry THEN 0 ELSE value[k.cur]]
      /\ ~MustWait(k.cur, c) => k' = s /\ value' = value
  BY DEF Start, me
<1> HIDE DEF s
<1>5. /\ k' \in KType /\ k'.ready = k.ready /\ k'.delayed = k.delayed
      /\ k'.overflow = k.overflow /\ k'.suspended = k.suspended
      /\ k'.pending = {} /\ k'.cur = k.cur /\ k'.depth = 1
      /\ k'.notify = IF MustWait(k.cur, c)
                       THEN [k.notify EXCEPT ![k.cur] = "waiting"] ELSE k.notify
  <2>1. "waiting" \in NotifyState /\ s \in KType /\ k.cur \in Task
    BY <1>2 DEF NotifyState
  <2>2. CASE MustWait(k.cur, c)
    <3> DEFINE r == [s EXCEPT !.notify[k.cur] = "waiting"]
    <3>1. /\ r \in KType /\ r.notify = [s.notify EXCEPT ![k.cur] = "waiting"]
          /\ r.ready = s.ready /\ r.delayed = s.delayed /\ r.overflow = s.overflow
          /\ r.suspended = s.suspended /\ r.pending = s.pending
          /\ r.cur = s.cur /\ r.depth = s.depth
      BY <2>1, SetNotify
    <3>2. k' = r
      BY <1>4, <2>2
    <3> HIDE DEF r
    <3>3. QED
      BY <1>2, <1>3, <2>2, <3>1, <3>2
  <2>3. CASE ~MustWait(k.cur, c)
    BY <1>2, <1>3, <1>4, <2>3
  <2>4. QED
    BY <2>2, <2>3
<1>6. Blocked(k') = Blocked(k) /\ ReadyTasks(k') = ReadyTasks(k)
  BY <1>5 DEF Blocked, ReadyTasks
<1>7. k.cur \notin Blocked(k) /\ Apart(k)
  BY <1>1 DEF NotifyInv, BlockedApart
<1>8. NotifyControl'
  <2>1. after' \in [Task -> {"run", "waited"}] /\ after'[k.cur] = "waited"
        /\ \A t \in Task \ {k.cur} : after'[t] = after[t]
    BY <1>1, NotifyFacts
  <2>2. p \in Places /\ p \in CallPlaces /\ p \in Suspending /\ p # "suspend"
    BY DEF Places, CallPlaces, Suspending
  <2> HIDE DEF p
  <2>3. QED
    BY <1>1, <1>5, <2>1, <2>2, NotifyFacts, MoveKeepsControl
<1>9. BlockedApart'
  <2>1. pc'[k.cur] \notin {"abort", "aborted"}
    BY <1>1, NotifyFacts
  <2>2. QED
    BY <1>5, <1>6, <1>7, <2>1 DEF BlockedApart, Apart
<1>10. PICK u \in Task : u = k.cur
  BY <1>2
<1>11. CallOK(u) /\ value \in [Task -> Nat] /\ call \in [Task -> Call \cup {NoCall}]
  BY <1>10, <1>2 DEF NotifyInv, CallsOK
<1>12. c.kind = "take" => c.entry = FALSE
  BY DEF Call
<1>13. MaxDelay > 0 /\ 0 \in 0 .. MaxValue
  BY KernelAssumption DEF MaxDelay, NotifyAssumption
<1>14. CallOK(u)'
  <2>1. value'[u] \in 0 .. MaxValue
    BY <1>10, <1>2, <1>4, <1>11, <1>13 DEF CallOK
  <2>2. call'[u] = c /\ after'[u] = "waited" /\ pc'[u] = p
    BY <1>10, <1>1, <1>2, <1>11, NotifyFacts
  <2>3. CASE MustWait(u, c)
    <3>1. k'.notify[u] = "waiting" /\ (c.kind = "take" => value'[u] = 0)
      BY <1>10, <1>2, <1>4, <1>5, <1>11, <1>12, <2>3, NotifyFacts DEF MustWait
    <3>2. c.time = MaxDelay => p = "join"
      BY <1>10, <1>13, <2>3
    <3> HIDE DEF p
    <3>3. QED
      BY <1>10, <1>5, <2>1, <2>2, <3>1, <3>2 DEF CallOK
  <2>4. CASE ~MustWait(u, c)
    <3>1. Notified(u)' /\ k'.notify[u] = k.notify[u]
      BY <1>10, <1>4, <1>5, <2>2, <2>4 DEF Notified, MustWait
    <3>2. k.notify[u] # "waiting"
      BY <1>10, <1>1, <1>2, <1>11 DEF CallOK, NotifyInv, NotifyControl, CallPlaces
    <3>3. p # "join"
      BY <1>10, <2>4
    <3>4. QED
      BY <1>10, <1>6, <1>7, <2>1, <2>2, <3>1, <3>2, <3>3 DEF CallOK
  <2>5. QED
    BY <1>10, <2>3, <2>4
<1>15. CallsOK'
  <2>1. value' \in [Task -> Nat] /\ call' \in [Task -> Call \cup {NoCall}]
    BY <1>10, <1>1, <1>4, <1>11
  <2>2. ASSUME NEW t \in Task \ {u}
        PROVE  /\ value'[t] = value[t] /\ call'[t] = call[t] /\ after'[t] = after[t]
               /\ k'.notify[t] = k.notify[t] /\ pc'[t] = pc[t]
    BY <1>10, <1>1, <1>4, <1>5, <1>11, NotifyFacts
  <2>3. disturbed' \subseteq Task
    BY <1>10, <1>1 DEF NotifyInv, CallsOK
  <2>4. k'.pending = k.pending
    BY <1>10, <1>2, <1>5
  <2>5. QED
    BY <1>10, <1>1, <1>2, <1>5, <1>6, <1>14, <2>1, <2>2, <2>3, <2>4, OthersKept
<1>16. QED
  BY <1>10, <1>8, <1>9, <1>15 DEF NotifyInv

(* Who blocks leaves its ready list and joins one list of blocked tasks,   *)
(* the one of the suspended if it gave no time limit.                      *)
LEMMA AddCurrentApart ==
  ASSUME NEW s \in KType, NEW n \in Tick
  PROVE  LET r == AddCurrentToDelayedList(s, n, TRUE)
         IN  /\ r.notify = s.notify /\ r.pending = s.pending
             /\ Blocked(r) = Blocked(s) \cup {s.cur}
             /\ Apart(s) => Apart(r)
             /\ \A t \in Task \ {s.cur} : t \in r.suspended <=> t \in s.suspended
             /\ n = MaxDelay => s.cur \in r.suspended
<1> DEFINE r == AddCurrentToDelayedList(s, n, TRUE)
           t == s.cur
           w == (s.tick + n) % TickMod
           o == OffStateList(s, t)
           T == IF AloneOnList(s, t) THEN s.top \ {s.prio[t]} ELSE s.top
           A == o.aborted \ {t}
           free == [o EXCEPT !.aborted = A, !.top = T]
           v == [free.wake EXCEPT ![t] = w]
           x == IF w < free.next THEN w ELSE free.next
           a == [free EXCEPT !.suspended = free.suspended \cup {t}]
           b == [free EXCEPT !.wake = v, !.overflow = free.overflow \cup {t}]
           c == [free EXCEPT !.wake = v, !.delayed = free.delayed \cup {t}, !.next = x]
           Off(q) == /\ q.notify = s.notify /\ q.pending = s.pending
                     /\ q.ready = [p \in Prio |-> s.ready[p] \ {t}]
           D == s.delayed \ {t}
           O == s.overflow \ {t}
           U == s.suspended \ {t}
<1>1. t \in Task /\ r \in KType
  BY AddCurrentWaits DEF KType
<1>2. /\ o \in KType /\ Off(o) /\ o.top = s.top
      /\ o.delayed = D /\ o.overflow = O /\ o.suspended = U
  BY <1>1, OffStateListFields
<1>3. r = IF n = MaxDelay THEN a ELSE IF w < s.tick THEN b ELSE c
  BY <1>2 DEF AddCurrentToDelayedList
<1>4. A \in SUBSET Task /\ T \in SUBSET Prio
  BY <1>2 DEF KType
<1> HIDE DEF o, r, T, A, t
<1>5. /\ free \in KType /\ Off(free)
      /\ free.delayed = D /\ free.overflow = O /\ free.suspended = U
  BY <1>2, <1>4 DEF KType
<1> HIDE DEF free, w, v, x
<1>6. Off(a) /\ a.delayed = D /\ a.overflow = O /\ a.suspended = U \cup {t}
  BY <1>5 DEF KType
<1>7. Off(b) /\ b.delayed = D /\ b.overflow = O \cup {t} /\ b.suspended = U
  BY <1>5 DEF KType
<1>8. Off(c) /\ c.delayed = D \cup {t} /\ c.overflow = O /\ c.suspended = U
  BY <1>5 DEF KType
<1> HIDE DEF a, b, c
<1>9. Off(r)
  BY <1>3, <1>6, <1>7, <1>8
<1>10. \/ r.delayed = D /\ r.overflow = O /\ r.suspended = U \cup {t}
       \/ /\ \/ r.delayed = D /\ r.overflow = O \cup {t}
             \/ r.delayed = D \cup {t} /\ r.overflow = O
          /\ r.suspended = U /\ n # MaxDelay
  BY <1>3, <1>6, <1>7, <1>8
<1>11. \A u \in ReadyTasks(r) : u \in ReadyTasks(s) /\ u # t
  BY <1>1, <1>9, ReadyTasksElements
<1>12. Blocked(r) = Blocked(s) \cup {t}
  BY <1>10 DEF Blocked
<1>13. Apart(s) => Apart(r)
  BY <1>10, <1>11, <1>12 DEF Apart
<1>14. QED
  BY <1>9, <1>10, <1>12, <1>13 DEF r, t

(* It blocks whatever interrupts did since: if one notified it, it is on   *)
(* the pending list and stays there.                                       *)
LEMMA JoinKeeps ==
  ASSUME NotifyAssumption, NotifyInv, Join
  PROVE  NotifyInv'
<1> DEFINE n == call[k.cur].time
           r == AddCurrentToDelayedList(k, n, TRUE)
<1>1. /\ pc[k.cur] = "join" /\ k' = r /\ pc' = [pc EXCEPT ![k.cur] = "block"]
      /\ after' = after /\ arg' = arg
      /\ value' = value /\ call' = call /\ disturbed' = disturbed
  BY DEF Join, At, Goto, me, notifyVars
<1>2. PICK u \in Task : u = k.cur
  BY NotifyFacts
<1>3. /\ k.cur # Idle /\ k.depth = 1 /\ after[u] = "waited" /\ CallOK(u)
  BY <1>1, <1>2, NotifyFacts DEF NotifyInv, NotifyControl, CallsOK, Suspending
<1>4. n \in Tick
  BY <1>2, <1>3 DEF CallOK, Call, NotifyAssumption
<1> HIDE DEF n
<1>5. /\ k' \in KType /\ k'.cur = k.cur /\ k'.depth = 1
      /\ k'.notify = k.notify /\ k'.pending = k.pending
      /\ Blocked(k') = Blocked(k) \cup {k.cur} /\ Apart(k')
      /\ \A t \in Task \ {k.cur} : t \in k'.suspended <=> t \in k.suspended
      /\ n = MaxDelay => k.cur \in k'.suspended
  BY <1>1, <1>3, <1>4, NotifyFacts, AddCurrentWaits, AddCurrentApart
<1> HIDE DEF r
<1>6. NotifyControl'
  <2>1. "block" \in Places /\ "block" \in CallPlaces /\ "block" \in Suspending
    BY DEF Places, CallPlaces, Suspending
  <2>2. QED
    BY <1>1, <1>3, <1>5, <2>1, NotifyFacts, MoveKeepsControl
<1>7. pc'[u] = "block" /\ \A t \in Task \ {u} : pc'[t] = pc[t]
  BY <1>1, <1>2, NotifyFacts
<1>8. BlockedApart'
  BY <1>2, <1>5, <1>7 DEF BlockedApart
<1>9. CallOK(u)'
  BY <1>1, <1>2, <1>3, <1>5, <1>7
     DEF CallOK, Undisturbed, Notified, TakesAreGiven, n
<1>10. CallsOK'
  <2>1. /\ value' \in [Task -> Nat] /\ call' \in [Task -> Call \cup {NoCall}]
        /\ disturbed' \subseteq Task
    BY <1>1 DEF NotifyInv, CallsOK
  <2>2. QED
    BY <1>1, <1>2, <1>5, <1>7, <1>9, <2>1, OthersKept
<1>11. QED
  BY <1>6, <1>8, <1>10 DEF NotifyInv

(* The last critical section of the call *)
LEMMA WaitedKeeps ==
  ASSUME NotifyAssumption, NotifyInv, Waited
  PROVE  NotifyInv'
<1>1. /\ pc[k.cur] = "waited" /\ k' = [k EXCEPT !.notify[k.cur] = "not_waiting"]
      /\ pc' = [pc EXCEPT ![k.cur] = "run"] /\ after' = [after EXCEPT ![k.cur] = "run"]
      /\ value' = [value EXCEPT ![k.cur] = ValueLeft(k.cur)]
      /\ call' = [call EXCEPT ![k.cur] = NoCall]
      /\ disturbed' = disturbed \ {k.cur} /\ arg' = arg
  BY DEF Waited, At, Goto, me
<1>2. PICK u \in Task : u = k.cur
  BY NotifyFacts
<1>3. k.cur # Idle /\ k.depth = 0 /\ CallOK(u)
  BY <1>1, <1>2, NotifyFacts DEF NotifyInv, CallsOK, Suspending
<1>4. "not_waiting" \in NotifyState
  BY DEF NotifyState
<1>5. /\ k' \in KType /\ k'.notify = [k.notify EXCEPT ![u] = "not_waiting"]
      /\ k'.suspended = k.suspended /\ k'.pending = k.pending
      /\ k'.cur = k.cur /\ k'.depth = k.depth
      /\ Blocked(k') = Blocked(k) /\ Apart(k')
  <2>1. k \in KType /\ Apart(k)
    BY NotifyFacts
  <2>2. k' = [k EXCEPT !.notify[u] = "not_waiting"]
    BY <1>1, <1>2
  <2>3. QED
    BY <1>4, <2>1, <2>2, SetNotify
<1>6. /\ pc'[u] = "run" /\ after'[u] = "run" /\ call'[u] = NoCall
      /\ k'.notify[u] = "not_waiting" /\ value'[u] = ValueLeft(u)
      /\ \A t \in Task \ {u} :
           /\ pc'[t] = pc[t] /\ after'[t] = after[t] /\ call'[t] = call[t]
           /\ k'.notify[t] = k.notify[t] /\ value'[t] = value[t]
  BY <1>1, <1>2, <1>5, NotifyFacts DEF NotifyInv, CallsOK
<1>7. NotifyControl'
  <2>1. /\ "run" \in Places /\ "run" \notin CallPlaces
        /\ "run" \notin Suspending /\ "run" \notin Sections
    BY DEF Places, CallPlaces, Suspending, Sections
  <2>2. after' \in [Task -> {"run", "waited"}]
    BY <1>1, NotifyFacts
  <2>3. QED
    BY <1>1, <1>2, <1>3, <1>5, <1>6, <2>1, <2>2, NotifyFacts, MoveKeepsControl
<1>8. BlockedApart'
  BY <1>1, <1>2, <1>3, <1>5, <1>6 DEF BlockedApart, NotifyInv
<1>9. ValueLeft(u) \in 0 .. MaxValue
  <2>1. value[u] \in 0 .. MaxValue
    BY <1>3 DEF CallOK
  <2>2. call[u].kind = "take" /\ Notified(u) => value[u] # 0
    BY DEF Notified
  <2>3. QED
    BY <2>1, <2>2 DEF ValueLeft, NotifyAssumption
<1>10. CallOK(u)'
  BY <1>6, <1>9, IdleCallOK
<1>11. CallsOK'
  <2>1. call' \in [Task -> Call \cup {NoCall}] /\ disturbed' \subseteq Task
    BY <1>1 DEF NotifyInv, CallsOK
  <2>2. value' \in [Task -> Nat]
    BY <1>1, <1>2, <1>9 DEF NotifyInv, CallsOK
  <2>3. \A t \in Task \ {u} : t \in disturbed' <=> t \in disturbed
    BY <1>1, <1>2
  <2>4. QED
    BY <1>5, <1>6, <1>10, <2>1, <2>2, <2>3, OthersKept
<1>12. QED
  BY <1>7, <1>8, <1>11 DEF NotifyInv

-----------------------------------------------------------------------------
(* Steps that notify a task.                                               *)

(* A call, or an interrupt, that takes tasks off the lists of blocked ones *)
(* and then gives way to another task if it has to                         *)
LEMMA GivesWay ==
  ASSUME NotifyInv, NEW m \in KType, m.cur = k.cur, m.depth = k.depth,
         Blocked(m) \subseteq Blocked(k), Apart(m), m.depth = 0 => m.pending = {},
         NEW b, k' \in YieldIf(b, m),
         pc' = pc, after' = after, arg' = arg, disturbed \subseteq disturbed', ~Masked
  PROVE  NotifyControl' /\ BlockedApart' /\ Wakes(k', m, {})
<1>1. CASE k' = m
  <2>1. NotifyControl'
    BY <1>1, StayKeepsControl
  <2>2. BlockedApart'
    BY <1>1 DEF NotifyInv, BlockedApart
  <2>3. Wakes(k', m, {})
    BY <1>1, SameWakes
  <2>4. QED
    BY <2>1, <2>2, <2>3
<1>2. CASE k' \in SwitchContext(m)
  <2>1. /\ Wakes(k', m, {}) /\ k'.depth = k.depth
        /\ k.depth # 0 => k'.cur = k.cur
        /\ k.depth = 0 => k'.cur \in ReadyTasks(m) /\ ReadyTasks(k') = ReadyTasks(m)
    BY <1>2, SwitchContextWakes
  <2>2. k' \in KType /\ k'.pending = m.pending /\ Blocked(k') = Blocked(m) /\ Apart(k')
    BY <2>1 DEF Wakes
  <2>3. pc[k.cur] \in Sections => k.depth # 0
    BY NotifyFacts DEF Sections, Masked
  <2>4. NotifyControl'
    BY <2>1, <2>2, <2>3, StayKeepsControl
  <2>5. CASE k.depth # 0
    <3>1. /\ k'.cur = k.cur /\ k'.depth # 0 /\ Blocked(k') \subseteq Blocked(k)
          /\ Apart(k')
      BY <2>1, <2>2, <2>5
    <3>2. BlockedApart'
      BY <3>1 DEF NotifyInv, BlockedApart
    <3>3. QED
      BY <2>1, <2>4, <3>2
  <2>6. CASE k.depth = 0
    <3>1. k'.cur \notin Blocked(k') /\ k'.cur \in Task
      BY <2>1, <2>2, <2>6 DEF Apart, KType
    <3>2. \A t \in Task : pc[t] \notin {"abort", "aborted"}
      BY <2>3, <2>6 DEF NotifyInv, NotifyControl, Sections, Suspending
    <3>3. BlockedApart'
      BY <2>1, <2>2, <2>6, <3>1, <3>2 DEF BlockedApart
    <3>4. QED
      BY <2>1, <2>4, <3>3
  <2>7. QED
    BY <2>5, <2>6
<1>3. QED
  BY <1>1, <1>2 DEF YieldIf

(* What a notification leaves to take: only the action that gives nothing, *)
(* or the one that keeps what was there, may leave nothing.                *)
LEMMA UpdatedGives ==
  ASSUME NEW t \in Task, NEW a \in Action, value[t] \in Nat
  PROVE  /\ Updated(t, a) \in Nat
         /\ Updated(t, a) = 0 => a = "none" \/ (k.notify[t] = "received" /\ value[t] = 0)
BY DEF Updated, Action

(* What is left to show of a step that notifies task t.                    *)
LEMMA NotifiedStep ==
  ASSUME NotifyAssumption, NotifyInv, NEW t \in Task, NEW a \in Actions, Receives(t, a),
         NotifyControl', BlockedApart',
         k'.notify = [k.notify EXCEPT ![t] = "received"],
         \A u \in Task \ {t} : /\ u \in Blocked(k') <=> u \in Blocked(k)
                               /\ u \in k'.suspended <=> u \in k.suspended
                               /\ u \in k'.pending <=> u \in k.pending,
         k.notify[t] = "waiting" =>
           (t \notin Blocked(k') /\ pc[t] # "join") \/ t \in k'.pending,
         k.notify[t] # "waiting" =>
           Blocked(k') \subseteq Blocked(k) /\ k.pending \subseteq k'.pending
  PROVE  NotifyInv'
<1>1. /\ value' = [value EXCEPT ![t] = Updated(t, a)] /\ Updated(t, a) <= MaxValue
      /\ pc' = pc /\ after' = after /\ call' = call /\ disturbed' = disturbed
  BY DEF Receives
<1>2. CallOK(t) /\ value \in [Task -> Nat] /\ a \in Action
  BY DEF NotifyInv, CallsOK, NotifyAssumption
<1>3. /\ Updated(t, a) \in Nat
      /\ Updated(t, a) = 0 => a = "none" \/ (k.notify[t] = "received" /\ value[t] = 0)
  BY <1>2, UpdatedGives
<1>4. value'[t] = Updated(t, a) /\ value'[t] \in 0 .. MaxValue
  BY <1>1, <1>2, <1>3 DEF NotifyAssumption
<1>5. k'.notify[t] = "received"
  BY NotifyFacts
<1>6. Undisturbed(t) /\ (t \in Blocked(k') \/ pc[t] = "join") => t \in k'.pending
  BY <1>2 DEF CallOK
<1>7. Undisturbed(t) /\ call[t].time = MaxDelay /\ TakesAreGiven(t) => Notified(t)'
  <2>1. CASE call[t].kind # "take"
    BY <1>1, <1>5, <2>1 DEF Notified
  <2>2. CASE call[t].kind = "take"
    <3>1. SUFFICES ASSUME Undisturbed(t), call[t].time = MaxDelay, TakesAreGiven(t),
                          Updated(t, a) = 0
                   PROVE  FALSE
      BY <1>1, <1>4, <2>2 DEF Notified
    <3>2. k.notify[t] = "received" /\ value[t] = 0
      BY <1>3, <2>2, <3>1 DEF TakesAreGiven
    <3>3. QED
      BY <1>2, <2>2, <3>1, <3>2 DEF CallOK, Notified
  <2>3. QED
    BY <2>1, <2>2
<1>8. CallOK(t)'
  BY <1>1, <1>2, <1>4, <1>5, <1>6, <1>7 DEF CallOK, Undisturbed, TakesAreGiven
<1>9. CallsOK'
  <2>1. /\ value' \in [Task -> Nat] /\ call' \in [Task -> Call \cup {NoCall}]
        /\ disturbed' \subseteq Task
    BY <1>1, <1>2, <1>3 DEF NotifyInv, CallsOK
  <2>2. \A u \in Task \ {t} : value'[u] = value[u] /\ k'.notify[u] = k.notify[u]
    BY <1>1, <1>2, NotifyFacts
  <2>3. QED
    BY <1>1, <1>8, <2>1, <2>2, OthersKept
<1>10. QED
  BY <1>9 DEF NotifyInv

(* xTaskGenericNotify: the task is made ready at once.                     *)
LEMMA NotifyKeeps ==
  ASSUME NotifyAssumption, NotifyInv, NEW t \in Task, NEW a \in Actions, Notify(t, a)
  PROVE  NotifyInv'
<1> DEFINE s == [k EXCEPT !.notify[t] = "received"]
           m == MakeReady(s, {t})
           b == Preempts(s, {t})
<1>1. /\ pc[k.cur] = "run" /\ Receives(t, a)
      /\ k.notify[t] = "waiting" => k' \in YieldIf(b, m)
      /\ k.notify[t] # "waiting" => k' = s
  BY DEF Notify, Wake, Running, At
<1>2. pc' = pc /\ after' = after /\ arg' = arg /\ disturbed' = disturbed /\ ~Masked
  BY <1>1 DEF Receives, Masked
<1>3. "received" \in NotifyState
  BY DEF NotifyState
<1>4. /\ s \in KType /\ s.notify = [k.notify EXCEPT ![t] = "received"]
      /\ s.suspended = k.suspended /\ s.pending = k.pending
      /\ s.cur = k.cur /\ s.depth = k.depth
      /\ Blocked(s) = Blocked(k) /\ Apart(s)
  <2>1. k \in KType /\ Apart(k)
    BY NotifyFacts
  <2>2. QED
    BY <1>3, <2>1, SetNotify
<1> HIDE DEF s
<1>5. k.depth = 0 => k.pending = {}
  BY DEF NotifyInv, BlockedApart
<1>6. CASE k.notify[t] = "waiting"
  <2>1. Wakes(m, s, {t}) /\ m.cur = k.cur /\ m.depth = k.depth
    <3>1. {t} \in SUBSET Task
      OBVIOUS
    <3>2. Wakes(m, s, {t})
      BY <1>4, <3>1, MakeReadyWakes
    <3>3. m.cur = s.cur /\ m.depth = s.depth
      BY <1>4, <3>1, MakeReadyFields
    <3>4. QED
      BY <1>4, <3>2, <3>3
  <2> HIDE DEF m, b
  <2>2. m \in KType /\ Blocked(m) \subseteq Blocked(k) /\ Apart(m)
        /\ (m.depth = 0 => m.pending = {})
    BY <1>4, <1>5, <2>1 DEF Wakes
  <2>3. k' \in YieldIf(b, m)
    BY <1>1, <1>6
  <2>4. NotifyControl' /\ BlockedApart' /\ Wakes(k', m, {})
    BY <1>2, <2>1, <2>2, <2>3, GivesWay
  <2>5. Wakes(k', s, {t} \cup {}) /\ {t} \cup {} = {t}
    BY <2>1, <2>4, WakesTransitive
  <2>6. pc[t] # "join"
    BY <1>1, NobodyJoins
  <2>7. /\ k'.notify = s.notify /\ Blocked(k') = Blocked(k) \ {t}
        /\ k'.suspended = k.suspended \ {t} /\ k'.pending = k.pending \ {t}
    BY <1>4, <2>5 DEF Wakes
  <2>8. QED
    BY <1>1, <1>4, <1>6, <2>4, <2>6, <2>7, NotifiedStep
<1>7. CASE k.notify[t] # "waiting"
  <2>1. k' = s
    BY <1>1, <1>7
  <2>2. k' \in YieldIf(FALSE, s)
    BY <2>1 DEF YieldIf
  <2>3. NotifyControl' /\ BlockedApart'
    BY <1>2, <1>4, <1>5, <2>2, GivesWay
  <2>4. QED
    BY <1>1, <1>4, <1>7, <2>1, <2>3, NotifiedStep
<1>8. QED
  BY <1>6, <1>7

(* Its event item moves to the pending list, or it is made ready.          *)
LEMMA RemoveWakes ==
  ASSUME NEW s \in KType, NEW t \in Task
  PROVE  LET r == RemoveFromEventList(s, {t})
         IN  /\ r \in KType /\ r.notify = s.notify /\ r.cur = s.cur /\ r.depth = s.depth
             /\ s.depth = 0 => Wakes(r, s, {t})
             /\ s.depth # 0 => /\ Blocked(r) = Blocked(s) /\ r.suspended = s.suspended
                               /\ r.pending = s.pending \cup {t}
                               /\ Apart(s) => Apart(r)
<1> DEFINE m == MakeReady(s, {t})
           o == OffEventLists(s, {t})
           P == o.pending \cup {t}
           p == [o EXCEPT !.pending = P]
           y == Preempts(s, {t})
           z(q) == [q EXCEPT !.yieldPending = q.yieldPending \/ y]
<1>1. RemoveFromEventList(s, {t}) = IF s.depth = 0 THEN z(m) ELSE z(p)
  BY DEF RemoveFromEventList
<1>2. {t} \in SUBSET Task /\ y \in BOOLEAN
  BY DEF Preempts
<1>3. Wakes(m, s, {t}) /\ m \in KType /\ m.cur = s.cur /\ m.depth = s.depth
  <2>1. Wakes(m, s, {t})
    BY <1>2, MakeReadyWakes
  <2>2. m \in KType /\ m.cur = s.cur /\ m.depth = s.depth
    BY <1>2, MakeReadyFields
  <2>3. QED
    BY <2>1, <2>2
<1>4. /\ o \in KType /\ o.ready = s.ready /\ o.delayed = s.delayed
      /\ o.overflow = s.overflow /\ o.suspended = s.suspended
      /\ o.pending = s.pending \ {t} /\ o.notify = s.notify
      /\ o.cur = s.cur /\ o.depth = s.depth
  BY <1>2, OffEventListsFields
<1> HIDE DEF m, o, y
<1>5. P \in SUBSET Task /\ P = s.pending \cup {t}
  BY <1>4 DEF KType
<1> HIDE DEF P
<1>6. /\ p \in KType /\ p.ready = s.ready /\ p.delayed = s.delayed
      /\ p.overflow = s.overflow /\ p.suspended = s.suspended
      /\ p.pending = P /\ p.notify = s.notify /\ p.cur = s.cur /\ p.depth = s.depth
  BY <1>4, <1>5, ZenonT(40) DEF KType
<1> HIDE DEF p
<1>7. ASSUME NEW q \in KType
      PROVE  /\ z(q) \in KType /\ z(q).ready = q.ready /\ z(q).delayed = q.delayed
             /\ z(q).overflow = q.overflow /\ z(q).suspended = q.suspended
             /\ z(q).pending = q.pending /\ z(q).notify = q.notify
             /\ z(q).cur = q.cur /\ z(q).depth = q.depth
  BY <1>2, <1>7, ZenonT(40) DEF KType
<1> HIDE DEF z
<1>8. CASE s.depth = 0
  <2>1. Wakes(z(m), m, {})
    BY <1>3, <1>7, SameWakes
  <2>2. Wakes(z(m), s, {t} \cup {}) /\ {t} \cup {} = {t}
    BY <1>3, <2>1, WakesTransitive
  <2>3. QED
    BY <1>1, <1>3, <1>7, <1>8, <2>2 DEF Wakes
<1>9. CASE s.depth # 0
  <2>1. Blocked(z(p)) = Blocked(s) /\ (Apart(s) => Apart(z(p)))
    BY <1>6, <1>7 DEF Blocked, ReadyTasks, Apart
  <2>2. QED
    BY <1>1, <1>5, <1>6, <1>7, <1>9, <2>1
<1>10. QED
  BY <1>8, <1>9

(* xTaskGenericNotifyFromISR, vTaskGenericNotifyGiveFromISR: with the      *)
(* scheduler suspended it goes on the pending list, which it leaves only   *)
(* to be made ready.                                                       *)
LEMMA NotifyFromISRKeeps ==
  ASSUME NotifyAssumption, NotifyInv, NEW t \in Task, NEW a \in Actions,
         NotifyFromISR(t, a)
  PROVE  NotifyInv'
<1> DEFINE s == [k EXCEPT !.notify[t] = "received"]
           m == RemoveFromEventList(s, {t})
           b == Preempts(k, {t})
<1>1. /\ ~Masked /\ Receives(t, a)
      /\ k.notify[t] = "waiting" => k' \in YieldIf(b, m)
      /\ k.notify[t] # "waiting" => k' = s
  BY DEF NotifyFromISR, WakeFromISR
<1>2. pc' = pc /\ after' = after /\ arg' = arg /\ disturbed' = disturbed
  BY <1>1 DEF Receives
<1>3. "received" \in NotifyState
  BY DEF NotifyState
<1>4. /\ s \in KType /\ s.notify = [k.notify EXCEPT ![t] = "received"]
      /\ s.suspended = k.suspended /\ s.pending = k.pending
      /\ s.cur = k.cur /\ s.depth = k.depth
      /\ Blocked(s) = Blocked(k) /\ Apart(s)
  <2>1. k \in KType /\ Apart(k)
    BY NotifyFacts
  <2>2. QED
    BY <1>3, <2>1, SetNotify
<1> HIDE DEF s
<1>5. k.depth = 0 => k.pending = {}
  BY DEF NotifyInv, BlockedApart
<1>6. CASE k.notify[t] = "waiting"
  <2>1. /\ m \in KType /\ m.notify = s.notify /\ m.cur = s.cur /\ m.depth = s.depth
        /\ s.depth = 0 => Wakes(m, s, {t})
        /\ s.depth # 0 => /\ Blocked(m) = Blocked(s) /\ m.suspended = s.suspended
                          /\ m.pending = s.pending \cup {t}
                          /\ Apart(s) => Apart(m)
    BY <1>4, RemoveWakes
  <2> HIDE DEF m, b
  <2>2. /\ Blocked(m) \subseteq Blocked(k) /\ Apart(m)
        /\ m.depth = 0 => m.pending = {}
    BY <1>4, <1>5, <2>1 DEF Wakes
  <2>3. k' \in YieldIf(b, m)
    BY <1>1, <1>6
  <2>4. NotifyControl' /\ BlockedApart' /\ Wakes(k', m, {})
    BY <1>1, <1>2, <1>4, <2>1, <2>2, <2>3, GivesWay
  <2>5. /\ k'.notify = s.notify /\ Blocked(k') = Blocked(m)
        /\ k'.suspended = m.suspended /\ k'.pending = m.pending
    BY <2>1, <2>4 DEF Wakes
  <2>6. CASE k.depth = 0
    <3>1. pc[t] # "join"
      BY <2>6, NotifyFacts DEF NotifyInv, NotifyControl, Suspending, Sections
    <3>2. /\ Blocked(k') = Blocked(k) \ {t} /\ k'.suspended = k.suspended \ {t}
          /\ k'.pending = k.pending \ {t}
      BY <1>4, <2>1, <2>5, <2>6 DEF Wakes
    <3>3. QED
      BY <1>1, <1>4, <1>6, <2>4, <2>5, <3>1, <3>2, NotifiedStep
  <2>7. CASE k.depth # 0
    BY <1>1, <1>4, <1>6, <2>1, <2>4, <2>5, <2>7, NotifiedStep
  <2>8. QED
    BY <2>6, <2>7
<1>7. CASE k.notify[t] # "waiting"
  <2>1. k' = s
    BY <1>1, <1>7
  <2>2. k' \in YieldIf(FALSE, s)
    BY <2>1 DEF YieldIf
  <2>3. NotifyControl' /\ BlockedApart'
    BY <1>1, <1>2, <1>4, <1>5, <2>2, GivesWay
  <2>4. QED
    BY <1>1, <1>4, <1>7, <2>1, <2>3, NotifiedStep
<1>8. QED
  BY <1>6, <1>7

-----------------------------------------------------------------------------
(* What other tasks do to one that waits.                                  *)

(* A call whose wait another task disturbed promises less.                 *)
LEMMA DisturbedCallOK ==
  ASSUME NEW t \in Task, CallOK(t), value'[t] \in 0 .. MaxValue,
         call'[t] = call[t], after'[t] = after[t],
         after[t] = "waited" => t \in disturbed',
         k'.notify[t] = "waiting" => /\ k.notify[t] = "waiting" /\ t \notin k'.pending
                                     /\ value'[t] \in {value[t], 0}
  PROVE  CallOK(t)'
BY DEF CallOK, Undisturbed

(* xTaskGenericNotifyStateClear                                            *)
LEMMA StateClearKeeps ==
  ASSUME NotifyAssumption, NotifyInv, NEW t \in Task, StateClear(t)
  PROVE  NotifyInv'
<1>1. /\ pc[k.cur] = "run" /\ k.notify[t] = "received"
      /\ k' = [k EXCEPT !.notify[t] = "not_waiting"]
      /\ disturbed' = IF after[t] = "waited" THEN disturbed \cup {t} ELSE disturbed
      /\ pc' = pc /\ after' = after /\ arg' = arg /\ value' = value /\ call' = call
  BY DEF StateClear, Running, At
<1>2. "not_waiting" \in NotifyState
  BY DEF NotifyState
<1>3. /\ k' \in KType /\ k'.notify = [k.notify EXCEPT ![t] = "not_waiting"]
      /\ k'.suspended = k.suspended /\ k'.pending = k.pending
      /\ k'.cur = k.cur /\ k'.depth = k.depth
      /\ Blocked(k') = Blocked(k) /\ Apart(k')
  BY <1>1, <1>2, NotifyFacts, SetNotify
<1>4. NotifyControl'
  BY <1>1, <1>3, StayKeepsControl
<1>5. BlockedApart'
  BY <1>1, <1>3 DEF NotifyInv, BlockedApart
<1>6. /\ CallOK(t) /\ value \in [Task -> Nat] /\ call \in [Task -> Call \cup {NoCall}]
      /\ disturbed' \subseteq Task
  BY <1>1 DEF NotifyInv, CallsOK
<1>7. /\ k'.notify[t] = "not_waiting"
      /\ \A u \in Task \ {t} : k'.notify[u] = k.notify[u]
  BY <1>3, NotifyFacts
<1>8. CallOK(t)'
  BY <1>1, <1>6, <1>7, DisturbedCallOK DEF CallOK
<1>9. CallsOK'
  BY <1>1, <1>3, <1>6, <1>7, <1>8, OthersKept
<1>10. QED
  BY <1>4, <1>5, <1>9 DEF NotifyInv

(* ulTaskGenericNotifyValueClear                                           *)
LEMMA ValueClearKeeps ==
  ASSUME NotifyAssumption, NotifyInv, NEW t \in Task, ValueClear(t)
  PROVE  NotifyInv'
<1>1. /\ value' = [value EXCEPT ![t] = 0]
      /\ disturbed' = IF after[t] = "waited" THEN disturbed \cup {t} ELSE disturbed
      /\ k' = k /\ pc' = pc /\ after' = after /\ arg' = arg /\ call' = call
  BY DEF ValueClear, kernelVars
<1>2. NotifyControl'
  BY <1>1 DEF NotifyInv, NotifyControl
<1>3. BlockedApart'
  BY <1>1 DEF NotifyInv, BlockedApart, Apart
<1>4. /\ CallOK(t) /\ value \in [Task -> Nat] /\ call \in [Task -> Call \cup {NoCall}]
      /\ disturbed' \subseteq Task
  BY <1>1 DEF NotifyInv, CallsOK
<1>5. 0 \in 0 .. MaxValue /\ value'[t] = 0 /\ value' \in [Task -> Nat]
      /\ \A u \in Task \ {t} : value'[u] = value[u]
  BY <1>1, <1>4 DEF NotifyAssumption
<1>6. CallOK(t)'
  <2>1. k.notify[t] = "waiting" => t \notin k.pending
    BY <1>4 DEF CallOK
  <2>2. QED
    BY <1>1, <1>4, <1>5, <2>1, DisturbedCallOK
<1>7. CallsOK'
  BY <1>1, <1>4, <1>5, <1>6, OthersKept
<1>8. QED
  BY <1>2, <1>3, <1>7 DEF NotifyInv

(* vTaskSuspend of a task, waiting or not                                  *)
LEMMA SuspendKeeps ==
  ASSUME NotifyAssumption, NotifyInv, NEW t \in Task, t # k.cur, Suspend(t),
         disturbed' = IF after[t] = "waited" THEN disturbed \cup {t} ELSE disturbed,
         value' = value, call' = call
  PROVE  NotifyInv'
<1> DEFINE r == TakenOff(k, t)
           X == IF r.notify[t] = "waiting" THEN "not_waiting" ELSE r.notify[t]
           N == [r.notify EXCEPT ![t] = X]
           U == r.suspended \cup {t}
<1>1. /\ pc[k.cur] = "run" /\ k.cur # Idle /\ pc' = [pc EXCEPT ![k.cur] = "suspend"]
      /\ after' = after /\ arg' = [arg EXCEPT ![k.cur] = t]
      /\ k' = [r EXCEPT !.suspended = U, !.notify[t] = X]
  BY DEF Suspend, Running, At, Goto
<1>2. /\ r \in KType /\ r.ready = [p \in Prio |-> k.ready[p] \ {t}]
      /\ r.delayed = k.delayed \ {t} /\ r.overflow = k.overflow \ {t}
      /\ r.suspended = k.suspended \ {t} /\ r.pending = k.pending \ {t}
      /\ r.notify = k.notify /\ r.cur = k.cur /\ r.depth = k.depth
  BY NotifyFacts, TakenOffFields
<1> HIDE DEF r
<1>3. X \in NotifyState /\ X # "waiting"
  BY <1>2, NotifyFacts DEF NotifyState
<1>4. N \in [Task -> NotifyState] /\ N[t] # "waiting"
      /\ \A u \in Task \ {t} : N[u] = k.notify[u]
  BY <1>2, <1>3, NotifyFacts
<1>5. k' = [r EXCEPT !.suspended = U, !.notify = N]
  BY <1>1, <1>2 DEF KType
<1>6. U \in SUBSET Task /\ U = (k.suspended \ {t}) \cup {t}
  BY <1>2 DEF KType
<1> HIDE DEF N, U, X
<1>7. /\ k' \in KType /\ k'.ready = r.ready /\ k'.delayed = r.delayed
      /\ k'.overflow = r.overflow /\ k'.suspended = U /\ k'.pending = r.pending
      /\ k'.notify = N /\ k'.cur = k.cur /\ k'.depth = k.depth
  BY <1>2, <1>4, <1>5, <1>6 DEF KType
<1>8. \A u \in ReadyTasks(k') : u \in ReadyTasks(k) /\ u # t
  BY <1>2, <1>7, ReadyTasksElements
<1>9. Blocked(k') = (Blocked(k) \ {t}) \cup {t}
  BY <1>2, <1>6, <1>7 DEF Blocked
<1>10. Apart(k')
  BY <1>2, <1>6, <1>7, <1>8, <1>9, NotifyFacts DEF Apart
<1>11. NotifyControl'
  <2>1. /\ "suspend" \in Places /\ "suspend" \notin CallPlaces
        /\ "suspend" \notin Suspending /\ "suspend" \notin Sections
        /\ after[k.cur] = "run"
    BY <1>1, NotifyFacts
       DEF Places, CallPlaces, Suspending, Sections, NotifyInv, NotifyControl
  <2>2. /\ arg' \in [Task -> Task] /\ arg'[k.cur] = t
        /\ \A u \in Task \ {k.cur} : arg'[u] = arg[u]
    BY <1>1, NotifyFacts
  <2>3. QED
    BY <1>1, <1>7, <2>1, <2>2, NotifyFacts, MoveKeepsControl
<1>12. pc'[k.cur] = "suspend" /\ \A u \in Task \ {k.cur} : pc'[u] = pc[u]
  BY <1>1, NotifyFacts
<1>13. BlockedApart'
  BY <1>1, <1>2, <1>7, <1>9, <1>10, <1>12 DEF NotifyInv, BlockedApart
<1>14. /\ CallOK(t) /\ value \in [Task -> Nat] /\ call \in [Task -> Call \cup {NoCall}]
       /\ disturbed' \subseteq Task
  BY DEF NotifyInv, CallsOK
<1>15. CallOK(t)'
  BY <1>1, <1>4, <1>7, <1>14, DisturbedCallOK DEF CallOK
<1>16. CallsOK'
  <2>1. \A u \in Task \ {t} : /\ u \in Blocked(k') <=> u \in Blocked(k)
                              /\ u \in k'.suspended <=> u \in k.suspended
                              /\ u \in k'.pending <=> u \in k.pending
    BY <1>2, <1>6, <1>7, <1>9
  <2>2. \A u \in Task : pc'[u] = "join" <=> pc[u] = "join"
    BY <1>1, <1>12
  <2>3. QED
    BY <1>1, <1>4, <1>7, <1>14, <1>15, <2>1, <2>2, OthersKept
<1>17. QED
  BY <1>11, <1>13, <1>16 DEF NotifyInv

(* xTaskAbortDelay up to where it has read the task's state                *)
LEMMA AbortDelayKeeps ==
  ASSUME NotifyAssumption, NotifyInv, NEW t \in Task, t # k.cur, AbortDelay(t),
         disturbed' = IF after[t] = "waited" THEN disturbed \cup {t} ELSE disturbed,
         value' = value, call' = call
  PROVE  NotifyInv'
<1> DEFINE p == IF IsBlocked(t) THEN "abort" ELSE "unlock"
           q == IF IsBlocked(t) THEN t ELSE k.cur
<1>1. /\ pc[k.cur] = "run" /\ k.cur # Idle /\ k.depth = 0 /\ k' = SuspendAll(k)
      /\ pc' = [pc EXCEPT ![k.cur] = p] /\ arg' = [arg EXCEPT ![k.cur] = q]
      /\ after' = after
  BY DEF AbortDelay, Running, At, Goto
<1>2. k' \in KType /\ k' = [k EXCEPT !.depth = k.depth + 1]
  BY <1>1, NotifyFacts, SuspendAllControl
<1>3. /\ k'.cur = k.cur /\ k'.depth = 1 /\ k'.notify = k.notify
      /\ k'.ready = k.ready /\ k'.delayed = k.delayed /\ k'.overflow = k.overflow
      /\ k'.suspended = k.suspended /\ k'.pending = k.pending
  BY <1>1, <1>2, NotifyFacts DEF KType
<1>4. Blocked(k') = Blocked(k) /\ ReadyTasks(k') = ReadyTasks(k)
  BY <1>3 DEF Blocked, ReadyTasks
<1>5. p \in {"abort", "unlock"} /\ p \in Places /\ p \in Suspending
      /\ (p \notin CallPlaces => after[k.cur] = "run") /\ q \in Task
      /\ (p = "abort" => q = t)
  BY <1>1, NotifyFacts DEF Places, CallPlaces, Suspending, NotifyInv, NotifyControl
<1> HIDE DEF p, q
<1>6. /\ pc'[k.cur] = p /\ arg'[k.cur] = q /\ arg' \in [Task -> Task]
      /\ \A u \in Task \ {k.cur} : pc'[u] = pc[u] /\ arg'[u] = arg[u]
  BY <1>1, <1>5, NotifyFacts
<1>7. NotifyControl'
  BY <1>1, <1>2, <1>3, <1>5, <1>6, NotifyFacts, MoveKeepsControl
<1>8. BlockedApart'
  <2>1. Apart(k')
    BY <1>3, <1>4, NotifyFacts DEF Apart
  <2>2. k.cur \notin Blocked(k)
    BY <1>1 DEF NotifyInv, BlockedApart
  <2>3. QED
    BY <1>1, <1>3, <1>4, <1>5, <1>6, <2>1, <2>2 DEF BlockedApart
<1>9. /\ CallOK(t) /\ value \in [Task -> Nat] /\ call \in [Task -> Call \cup {NoCall}]
      /\ disturbed' \subseteq Task
  BY DEF NotifyInv, CallsOK
<1>10. CallOK(t)'
  BY <1>1, <1>3, <1>9, DisturbedCallOK DEF CallOK
<1>11. CallsOK'
  <2>1. \A u \in Task : pc'[u] = "join" <=> pc[u] = "join"
    BY <1>1, <1>5, <1>6
  <2>2. QED
    BY <1>1, <1>3, <1>4, <1>9, <1>10, <2>1, OthersKept
<1>12. QED
  BY <1>7, <1>8, <1>11 DEF NotifyInv

(* vTaskResume finds only tasks that vTaskSuspend suspended: the others on *)
(* the list of the suspended wait for a notification.                      *)
LEMMA ResumeKeeps ==
  ASSUME NotifyAssumption, NotifyInv, NEW t \in Task, Resume(t), UNCHANGED notifyVars
  PROVE  NotifyInv'
<1> DEFINE m == MakeReady(k, {t})
           b == Preempts(k, {t})
<1>1. /\ pc[k.cur] = "run" /\ k.notify[t] # "waiting" /\ k' \in YieldIf(b, m)
      /\ pc' = pc /\ after' = after /\ arg' = arg
  BY DEF Resume, IsSuspended, Running, At
<1>2. ~Masked /\ disturbed' = disturbed
  BY <1>1 DEF Masked, notifyVars
<1>3. {t} \in SUBSET Task
  OBVIOUS
<1>4. Wakes(m, k, {t})
  BY <1>3, NotifyFacts, MakeReadyWakes
<1>5. m.cur = k.cur /\ m.depth = k.depth
  BY <1>3, NotifyFacts, MakeReadyFields
<1> HIDE DEF m, b
<1>6. /\ m \in KType /\ Blocked(m) \subseteq Blocked(k) /\ Apart(m)
      /\ m.depth = 0 => m.pending = {}
  BY <1>4, <1>5, NotifyFacts DEF Wakes, NotifyInv, BlockedApart
<1>7. NotifyControl' /\ BlockedApart' /\ Wakes(k', m, {})
  BY <1>1, <1>2, <1>5, <1>6, GivesWay
<1>8. Wakes(k', k, {t} \cup {}) /\ {t} \cup {} = {t}
  BY <1>4, <1>7, WakesTransitive
<1>9. WokenAlright({t})
  BY <1>1, NobodyJoins DEF WokenAlright
<1>10. CallsOK'
  BY <1>1, <1>8, <1>9, WakesKeepsCalls
<1>11. QED
  BY <1>7, <1>10 DEF NotifyInv

-----------------------------------------------------------------------------
(* The invariant and the theorems.                                         *)

LEMMA InitNotify ==
  ASSUME NotifyAssumption, NotifyInit
  PROVE  NotifyInv
<1>1. /\ k \in InitialKernel /\ arg = [t \in Task |-> t]
      /\ pc = [t \in Task |-> IF t \in Boot THEN "run" ELSE "gone"]
      /\ after = [t \in Task |-> "run"]
      /\ value = [t \in Task |-> 0] /\ call = [t \in Task |-> NoCall] /\ disturbed = {}
  BY DEF NotifyInit, DispatchInit
<1>2. k \in KType /\ k.depth = 0 /\ k.cur \in Boot
  BY <1>1, InitialKernelFacts
<1>3. /\ k.delayed = {} /\ k.overflow = {} /\ k.suspended = {} /\ k.pending = {}
      /\ k.notify = [t \in Task |-> "not_waiting"]
  BY <1>1 DEF InitialKernel
<1>4. NotifyControl
  BY <1>1, <1>2, KernelAssumption
     DEF NotifyControl, Places, CallPlaces, Sections, Suspending, KType
<1>5. BlockedApart
  BY <1>1, <1>2, <1>3, KernelAssumption DEF BlockedApart, Apart, Blocked
<1>6. CallsOK
  <2>1. 0 \in 0 .. MaxValue
    BY DEF NotifyAssumption
  <2>2. QED
    BY <1>1, <1>3, <2>1 DEF CallsOK, CallOK, Undisturbed
<1>7. QED
  BY <1>4, <1>5, <1>6 DEF NotifyInv

(* No task creates or deletes itself here.                                 *)
LEMMA KernelStepKeeps ==
  ASSUME NotifyAssumption, NotifyInv, UNCHANGED notifyVars,
         \/ KernelStep \/ TickInterrupt \/ SuspendScheduler \/ ResumeScheduler
         \/ IdleYield
  PROVE  NotifyInv'
<1>1. ~Exit /\ ~Created
  BY NotifyFacts DEF Exit, Created, At, Places, CallPlaces
<1>2. QED
  BY <1>1, UnlockSchedulerKeeps, CatchUpKeeps, UnlockedKeeps, YieldKeeps, SuspendedKeeps,
     AbortBlockedKeeps, AbortReadyKeeps, TickInterruptKeeps, SuspendSchedulerKeeps,
     ResumeSchedulerKeeps, IdleYieldKeeps DEF KernelStep

LEMMA StepKeeps ==
  ASSUME NotifyAssumption, NotifyInv, [NotifyNext]_vars
  PROVE  NotifyInv'
<1>1. CASE UNCHANGED vars
  BY <1>1 DEF vars, kernelVars, notifyVars, NotifyInv, NotifyControl, BlockedApart,
     Apart, CallsOK, CallOK, Undisturbed, Notified, TakesAreGiven
<1>2. CASE NotifyStep
  <2>1. CASE Join
    BY <2>1, JoinKeeps
  <2>2. CASE Waited
    BY <2>2, WaitedKeeps
  <2>3. ASSUME NEW c \in Call, Start(c)
        PROVE  NotifyInv'
    BY <2>3, StartKeeps
  <2>4. ASSUME NEW t \in Receivers, NEW a \in Actions,
               Notify(t, a) \/ NotifyFromISR(t, a)
        PROVE  NotifyInv'
    BY <2>4, NotifyKeeps, NotifyFromISRKeeps DEF Receivers
  <2>5. ASSUME NEW t \in Receivers, StateClear(t) \/ ValueClear(t)
        PROVE  NotifyInv'
    BY <2>5, StateClearKeeps, ValueClearKeeps DEF Receivers
  <2>6. CASE Others
    <3>1. PICK t \in Receivers \ {k.cur} :
            \/ /\ Suspend(t) \/ AbortDelay(t)
               /\ disturbed' = IF after[t] = "waited" THEN disturbed \cup {t} ELSE disturbed
            \/ Resume(t) /\ UNCHANGED disturbed
      BY <2>6 DEF Others, me
    <3>2. value' = value /\ call' = call /\ t \in Task /\ t # k.cur
      BY <2>6 DEF Others, Receivers
    <3>3. CASE Resume(t) /\ UNCHANGED disturbed
      <4>1. UNCHANGED notifyVars
        BY <3>2, <3>3 DEF notifyVars
      <4>2. QED
        BY <3>2, <3>3, <4>1, ResumeKeeps
    <3>4. QED
      BY <3>1, <3>2, <3>3, SuspendKeeps, AbortDelayKeeps
  <2>7. QED
    BY <1>2, <2>1, <2>2, <2>3, <2>4, <2>5, <2>6 DEF NotifyStep
<1>3. CASE /\ \/ KernelStep \/ TickInterrupt \/ SuspendScheduler \/ ResumeScheduler
              \/ IdleYield
           /\ UNCHANGED notifyVars
  BY <1>3, KernelStepKeeps
<1>4. QED
  BY <1>1, <1>2, <1>3 DEF NotifyNext

(* Who is where, what is blocked and what each call waits for stay in step *)
(* through every interleaving of calls, notifications and interrupts.      *)
THEOREM NotifyInvariant ==
  ASSUME NotifyAssumption
  PROVE  NotifySpec => []NotifyInv
<1>1. NotifyInit => NotifyInv
  BY InitNotify
<1>2. NotifyInv /\ [NotifyNext]_vars => NotifyInv'
  BY StepKeeps
<1>3. QED
  BY <1>1, <1>2, PTL DEF NotifySpec

(* Type correctness: the kernel's record, the places and the values *)
THEOREM NotifyTyped ==
  ASSUME NotifyAssumption
  PROVE  NotifySpec => []NotifyTypeOK
<1>1. NotifyInv => NotifyTypeOK
  <2>1. SUFFICES ASSUME NotifyInv
                 PROVE  NotifyTypeOK
    OBVIOUS
  <2>2. k \in KType /\ after \in [Task -> {"run", "waited"}] /\ pc \in [Task -> Places]
    BY <2>1, NotifyFacts
  <2>3. Places \subseteq Place \cup {"join", "waited"}
    BY DEF Places, CallPlaces, Place, BasePlace
  <2>4. ASSUME NEW t \in Task
        PROVE  value[t] \in 0 .. MaxValue
    BY <2>1 DEF NotifyInv, CallsOK, CallOK
  <2>5. /\ value \in [Task -> Nat] /\ disturbed \subseteq Task
        /\ call \in [Task -> Call \cup {NoCall}]
    BY <2>1 DEF NotifyInv, CallsOK
  <2>6. QED
    BY <2>2, <2>3, <2>4, <2>5 DEF NotifyTypeOK
<1>2. QED
  BY <1>1, NotifyInvariant, PTL

(* No task sleeps on that has been notified: one that an interrupt         *)
(* notified before it was on its list, or while the scheduler was          *)
(* suspended, is on the pending list.                                      *)
THEOREM NotifiedTasksWake ==
  ASSUME NotifyAssumption
  PROVE  NotifySpec => []NoneSleepsNotified
<1>1. NotifyInv => NoneSleepsNotified
  <2>1. SUFFICES ASSUME NotifyInv, NEW t \in Receivers,
                        after[t] = "waited", t \notin disturbed,
                        t \in k.delayed \cup k.overflow \cup k.suspended, Notified(t)
                 PROVE  t \in k.pending
    BY DEF NoneSleepsNotified
  <2>2. CallOK(t) /\ Undisturbed(t) /\ t \in Blocked(k)
    BY <2>1 DEF NotifyInv, CallsOK, Receivers, Undisturbed, Blocked
  <2>3. QED
    BY <2>1, <2>2 DEF CallOK, Notified
<1>2. QED
  BY <1>1, NotifyInvariant, PTL

(* A wait without a time limit ends with a notification, or because        *)
(* another task ended it or took the notification away; a take needs       *)
(* something to take, which eNoAction does not give.                       *)
THEOREM WaitsEndNotified ==
  ASSUME NotifyAssumption, "none" \notin Actions
  PROVE  NotifySpec => []WaitReturnsNotified
<1>1. NotifyInv => WaitReturnsNotified
  <2>1. SUFFICES ASSUME NotifyInv, pc[k.cur] = "waited", call[k.cur].time = MaxDelay,
                        ~Notified(k.cur), k.cur \notin disturbed
                 PROVE  FALSE
    BY DEF WaitReturnsNotified, At, me
  <2>2. k.cur \in Task /\ CallOK(k.cur) /\ Undisturbed(k.cur) /\ TakesAreGiven(k.cur)
    BY <2>1, NotifyFacts DEF NotifyInv, NotifyControl, CallsOK, Undisturbed, TakesAreGiven
  <2>3. k.cur \in k.suspended
    BY <2>1, <2>2 DEF CallOK
  <2>4. QED
    BY <2>1, <2>3 DEF NotifyInv, BlockedApart, Blocked
<1>2. QED
  BY <1>1, NotifyInvariant, PTL

=============================================================================
