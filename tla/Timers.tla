------------------------------- MODULE Timers -------------------------------
(***************************************************************************)
(* The software timers of timers.c: the timer task (the daemon), its two   *)
(* lists and its command queue.                                            *)
(*                                                                         *)
(* The lists belong to the daemon alone.  What it shares with the rest is  *)
(* the tick count, the command queue and each timer's reload mode; a step  *)
(* of the daemon reads the tick count or the queue once.  The kernel       *)
(* beneath is reduced to what the daemon uses: it sleeps until a message   *)
(* arrives or its time has come.                                           *)
(***************************************************************************)
EXTENDS Integers, Sequences, FiniteSets

CONSTANTS
  Timer,        \* the timers created
  TickMod,      \* 2 ^ (width of TickType_t)
  Periods,      \* the periods timers are given, in ticks
  QueueLength,  \* configTIMER_QUEUE_LENGTH
  MaxLag,       \* bound: ticks between two turns of the daemon's loop
  MaxAge        \* bound: ticks between reading the time and sending a command

(* The daemon sees that the counter has wrapped by comparing two readings, *)
(* so between them it must not go round: a period and the daemon's lag     *)
(* together are less than a round.  (A round is 2^32 ticks on the target.) *)
TimersAssumption ==
  /\ TickMod \in Nat \ {0, 1} /\ Periods \subseteq 1 .. TickMod - 1
  /\ QueueLength \in Nat \ {0} /\ MaxLag \in Nat /\ MaxAge \in Nat
  /\ \A p \in Periods : p + MaxLag < TickMod

VARIABLES
  now,      \* history: the time, in rounds of Era ticks
  d,        \* the daemon's data
  period,   \* xTimerPeriodInTicks
  reload,   \* the timers with tmrSTATUS_IS_AUTORELOAD
  queue,    \* xTimerQueue
  daemon,   \* where the daemon is
  wakeAt,   \* the time the daemon sleeps until
  lag       \* ticks since the daemon last looked at its lists

vars == <<now, d, period, reload, queue, daemon, wakeAt, lag>>

Era == 2 * TickMod
Tick == 0 .. TickMod - 1
MaxTime == TickMod - 1     \* tmrMAX_TIME_BEFORE_OVERFLOW

tick == now % TickMod      \* xTickCount

(* How far ahead of the present the time x is; negative if x is past. *)
Ahead(x) ==
  LET distance == (x - now) % Era
  IN  IF distance < Era \div 2 THEN distance ELSE distance - Era

Forever == -1

Command ==
  [id : {"start", "stop", "change", "function"}, timer : Timer,
   at : 0 .. Era - 1, period : Periods]

TimersTypeOK ==
  /\ now \in 0 .. Era - 1
  /\ d \in [ current  : SUBSET Timer,              \* *pxCurrentTimerList
             overflow : SUBSET Timer,              \* *pxOverflowTimerList
             expiry   : [Timer -> Tick],           \* value of xTimerListItem
             active   : SUBSET Timer,              \* tmrSTATUS_IS_ACTIVE
             last     : Tick,                      \* xLastTime
             due      : [Timer -> 0 .. Era - 1],   \* history: when it is due
             calls    : SUBSET [timer : Timer, due : 0 .. Era - 1] ]
                          \* history: the callbacks of the last step
  /\ period \in [Timer -> Periods] /\ reload \subseteq Timer
  /\ queue \in Seq(Command) /\ Len(queue) <= QueueLength
  /\ daemon \in {"loop", "commands", "asleep"}
  /\ wakeAt \in 0 .. Era - 1 \cup {Forever}
  /\ lag \in 0 .. MaxLag

TimersInit ==
  /\ now = 0
  /\ d = [current |-> {}, overflow |-> {}, expiry |-> [t \in Timer |-> 0],
          active |-> {}, last |-> 0, due |-> [t \in Timer |-> 0], calls |-> {}]
  /\ period \in [Timer -> Periods] /\ reload \in SUBSET Timer
  /\ queue = <<>>
  /\ daemon = "loop" /\ wakeAt = Forever /\ lag = 0

-----------------------------------------------------------------------------
(* The daemon's functions on its data. *)

(* Faulty: a command given before the counter wrapped is not recognised *)
Placement_NoWrap(next, at, given, p) ==
  IF next <= at
    THEN IF (at - given) % TickMod >= p THEN "expired" ELSE "overflow"
    ELSE "current"

(* Faulty: an expiry time that wraps is taken for one that has passed *)
Placement_NoOverflow(next, at, given, p) ==
  IF next <= at \/ (at < given /\ next >= given) THEN "expired" ELSE "current"

(* prvInsertTimerInActiveList: where a timer goes that is to expire at     *)
(* next, by a command given at "given" and carried out at "at"             *)
Placement(next, at, given, p) ==
  IF next <= at
    THEN IF (at - given) % TickMod >= p THEN "expired" ELSE "overflow"
    ELSE IF at < given /\ next >= given THEN "expired" ELSE "current"

OffLists(s, t) == [s EXCEPT !.current = @ \ {t}, !.overflow = @ \ {t}]

OnList(s, t, place, next) ==
  [s EXCEPT !.expiry[t] = next,
            !.current = IF place = "current" THEN @ \cup {t} ELSE @,
            !.overflow = IF place = "overflow" THEN @ \cup {t} ELSE @]

Call(s, t) ==
  [s EXCEPT !.calls = @ \cup {[timer |-> t, due |-> s.due[t]]}]

(* The time n periods after time x of the counter *)
After(x, t, n) == (x + n * period[t]) % TickMod

(* Faulty: periods that have passed since are skipped *)
Reload_Skips(s, t, expired, at) ==
  LET place(n) == Placement(After(expired, t, n), at, After(expired, t, n - 1), period[t])
      n == CHOOSE m \in 1 .. TickMod :
             place(m) # "expired" /\ \A i \in 1 .. m - 1 : place(i) = "expired"
  IN  [OnList(s, t, place(n), After(expired, t, n)) EXCEPT
         !.due[t] = (@ + n * period[t]) % Era,
         !.calls = @ \cup {[timer |-> t, due |-> s.due[t]]}]

(* prvReloadTimer, and the callback its caller makes: one callback for     *)
(* each period that is over, then the timer is back on a list              *)
Reload(s, t, expired, at) ==
  LET place(n) == Placement(After(expired, t, n), at, After(expired, t, n - 1), period[t])
      n == CHOOSE m \in 1 .. TickMod :
             place(m) # "expired" /\ \A i \in 1 .. m - 1 : place(i) = "expired"
  IN  [OnList(s, t, place(n), After(expired, t, n)) EXCEPT
         !.due[t] = (@ + n * period[t]) % Era,
         !.calls = @ \cup {[timer |-> t, due |-> (s.due[t] + i * period[t]) % Era]
                             : i \in 0 .. n - 1}]

(* The item of a timer on no list keeps its value, which nothing reads; it *)
(* is 0 here.                                                              *)
Stopped(s, t) == [s EXCEPT !.active = @ \ {t}, !.due[t] = 0, !.expiry[t] = 0]

(* A timer that has expired is reloaded, or stops. *)
Expire(s, t, expired, at) ==
  IF t \in reload
    THEN Reload(s, t, expired, at)
    ELSE Stopped(Call(s, t), t)

(* prvProcessExpiredTimer *)
ProcessExpired(s, t, at) == Expire(OffLists(s, t), t, s.expiry[t], at)

(* The first timers of the list, in any order among equals *)
Heads(s) == {t \in s.current : \A u \in s.current : s.expiry[t] <= s.expiry[u]}

(* Faulty: what is left on the current list is forgotten *)
SwitchLists_Drops(s) == [s EXCEPT !.current = s.overflow, !.overflow = {}]

(* prvSwitchTimerLists: all timers on the current list have expired.  With *)
(* the last time before the wrap as the present none of them can return to *)
(* that list, so each is processed once.                                   *)
SwitchLists(s) ==
  LET f[S \in SUBSET s.current] ==
        IF S = {} THEN s
          ELSE LET t == CHOOSE u \in S : \A v \in S : s.expiry[u] >= s.expiry[v]
               IN  ProcessExpired(f[S \ {t}], t, MaxTime)
      left == f[s.current]
  IN  [left EXCEPT !.current = left.overflow, !.overflow = left.current]

(* prvSampleTimeNow *)
Wrapped == tick < d.last
Sample(s) == [(IF Wrapped THEN SwitchLists(s) ELSE s) EXCEPT !.last = tick]

Quiet(s) == [s EXCEPT !.calls = {}]

-----------------------------------------------------------------------------
(* Commands, given by tasks and interrupts at any time. *)

(* Faulty: the queue is not asked for room *)
Send_Overflows(command) ==
  /\ queue' = Append(queue, command)
  /\ daemon' = IF daemon = "asleep" THEN "commands" ELSE daemon
  /\ wakeAt' = Forever
  /\ d' = Quiet(d)
  /\ UNCHANGED <<now, period, reload, lag>>

(* xTimerGenericCommandFromTask and ...FromISR, when the queue has room.   *)
(* The time of a start was read before the call.                           *)
Send(command) ==
  /\ Len(queue) < QueueLength
  /\ queue' = Append(queue, command)
  /\ daemon' = IF daemon = "asleep" THEN "commands" ELSE daemon
  /\ wakeAt' = Forever
  /\ d' = Quiet(d)
  /\ UNCHANGED <<now, period, reload, lag>>

SendStart ==
  \E t \in Timer, age \in 0 .. MaxAge :
    Send([id |-> "start", timer |-> t, at |-> (now - age) % Era, period |-> period[t]])

SendChange ==
  \E t \in Timer, p \in Periods :
    Send([id |-> "change", timer |-> t, at |-> 0, period |-> p])

SendOther ==
  \E t \in Timer, i \in {"stop", "function"} :
    Send([id |-> i, timer |-> t, at |-> 0, period |-> CHOOSE p \in Periods : TRUE])

(* vTimerSetReloadMode *)
SetReloadMode ==
  /\ \E t \in Timer : reload' \in {reload \cup {t}, reload \ {t}}
  /\ d' = Quiet(d)
  /\ UNCHANGED <<now, period, queue, daemon, wakeAt, lag>>

-----------------------------------------------------------------------------
(* The daemon's loop. *)

(* prvProcessTimerOrBlockTask finds that the counter has wrapped, *)
LoopSwitches ==
  /\ daemon = "loop" /\ Wrapped
  /\ d' = Sample(Quiet(d))
  /\ daemon' = "commands" /\ lag' = 0
  /\ UNCHANGED <<now, period, reload, queue, wakeAt>>

(* ... or that the first timer has expired, *)
LoopExpires ==
  /\ daemon = "loop" /\ ~Wrapped
  /\ \E t \in Heads(d) :
       /\ d.expiry[t] <= tick
       /\ d' = ProcessExpired(Sample(Quiet(d)), t, tick)
  /\ daemon' = "commands" /\ lag' = 0
  /\ UNCHANGED <<now, period, reload, queue, wakeAt>>

(* When the next timer expires; if only the overflow list has timers, when *)
(* the counter wraps.                                                      *)
SleepTime ==
  IF d.current = {} /\ d.overflow = {} THEN Forever
  ELSE LET next == IF d.current = {} THEN 0 ELSE d.expiry[CHOOSE t \in Heads(d) : TRUE]
       IN  (now + ((next - tick) % TickMod)) % Era

(* ... or sleeps, unless there is a message (vQueueWaitForMessageRestricted). *)
LoopSleeps ==
  /\ daemon = "loop" /\ ~Wrapped
  /\ \A t \in Heads(d) : d.expiry[t] > tick
  /\ d' = Sample(Quiet(d))
  /\ IF queue = <<>>
       THEN daemon' = "asleep" /\ wakeAt' = SleepTime
       ELSE daemon' = "commands" /\ UNCHANGED wakeAt
  /\ lag' = 0
  /\ UNCHANGED <<now, period, reload, queue>>

(* prvProcessReceivedCommands: no message is left, ... *)
CommandsDone ==
  /\ daemon = "commands" /\ queue = <<>>
  /\ daemon' = "loop" /\ d' = Quiet(d)
  /\ UNCHANGED <<now, period, reload, queue, wakeAt, lag>>

(* ... or the first is taken and carried out.  The timer leaves its list,  *)
(* then the time is read.                                                  *)
Started(s, t, given) ==
  LET next  == After(given, t, 1)
      place == Placement(next, tick, given % TickMod, period[t])
      begun == [s EXCEPT !.active = @ \cup {t}, !.due[t] = (given + period[t]) % Era]
  IN  IF place = "expired" THEN Expire(begun, t, next, tick)
                           ELSE OnList(begun, t, place, next)

Changed(s, t, p) ==
  LET next == (tick + p) % TickMod
  IN  OnList([s EXCEPT !.active = @ \cup {t}, !.due[t] = (now + p) % Era],
             t, Placement(next, tick, tick, p), next)

Receive ==
  /\ daemon = "commands" /\ queue # <<>>
  /\ queue' = Tail(queue)
  /\ LET command == Head(queue)
         t == command.timer
         s == Sample(OffLists(Quiet(d), t))
     IN  \/ command.id = "start" /\ d' = Started(s, t, command.at) /\ UNCHANGED period
         \/ /\ command.id = "stop" /\ d' = Stopped(s, t)
            /\ UNCHANGED period
         \/ /\ command.id = "change" /\ d' = Changed(s, t, command.period)
            /\ period' = [period EXCEPT ![t] = command.period]
         \/ command.id = "function" /\ d' = Quiet(d) /\ UNCHANGED period
  /\ UNCHANGED <<now, reload, daemon, wakeAt, lag>>

DaemonStep == LoopSwitches \/ LoopExpires \/ LoopSleeps \/ CommandsDone \/ Receive

-----------------------------------------------------------------------------
(* The tick interrupt.  It wakes the daemon when its time has come. *)
TickInterrupt ==
  /\ daemon # "asleep" => lag < MaxLag
  /\ now' = (now + 1) % Era
  /\ IF daemon = "asleep" /\ wakeAt = now'
       THEN daemon' = "commands" /\ wakeAt' = Forever
       ELSE UNCHANGED <<daemon, wakeAt>>
  /\ lag' = IF daemon = "asleep" THEN 0 ELSE lag + 1
  /\ d' = Quiet(d)
  /\ UNCHANGED <<period, reload, queue>>

TimersNext ==
  DaemonStep \/ TickInterrupt \/ SendStart \/ SendChange \/ SendOther \/ SetReloadMode

TimersSpec == TimersInit /\ [][TimersNext]_vars

-----------------------------------------------------------------------------
(* Properties. *)

(* A timer is active exactly while it is on one of the lists, with the     *)
(* time it is due; on the overflow list are the timers due in the next     *)
(* round of the counter as the daemon has seen it.                         *)
ListsMatchTimers ==
  /\ d.current \cap d.overflow = {}
  /\ d.active = d.current \cup d.overflow
  /\ \A t \in d.active : d.expiry[t] = d.due[t] % TickMod

(* No callback is made before its timer is due, wherever the counter       *)
(* wrapped between the start, the command's turn and the expiry.           *)
NeverEarly == \A call \in d.calls : Ahead(call.due) <= 0

(* The daemon sleeps no longer than until the next timer is due: no timer  *)
(* is overdue while it sleeps, and no period is left without its callback. *)
NeverSleepsTooLong ==
  daemon = "asleep" =>
    \A t \in d.active :
      wakeAt # Forever /\ 0 < Ahead(wakeAt) /\ Ahead(wakeAt) <= Ahead(d.due[t])

(* One callback is made for every period that ends, on time or late: as    *)
(* long as no command concerns a timer, its due time moves on by exactly   *)
(* the periods it was called back for, and it stops after one callback.    *)
NoPeriodSkippedStep ==
  \A t \in d.active :
    LET called == {call.due : call \in {x \in d'.calls : x.timer = t}}
    IN  \/ queue # <<>> /\ queue' = Tail(queue) /\ Head(queue).timer = t
        \/ t \notin d'.active /\ called = {d.due[t]}
        \/ /\ t \in d'.active
           /\ d'.due[t] = (d.due[t] + Cardinality(called) * period[t]) % Era
           /\ called = {(d.due[t] + i * period[t]) % Era
                           : i \in 0 .. Cardinality(called) - 1}

NoPeriodSkipped == [][NoPeriodSkippedStep]_vars

(* Time goes on, the daemon gets its turns, and the commands run out again *)
(* and again (the daemon takes them faster than tasks of lower priority    *)
(* can send them).                                                         *)
FairTimersSpec ==
  /\ TimersSpec
  /\ SF_vars(TickInterrupt) /\ WF_vars(DaemonStep) /\ SF_vars(CommandsDone)

(* An active timer expires, unless a command stops it or starts it again.  *)
TimersExpire ==
  \A t \in Timer :
    []<>(t \notin d.active) \/ []<><<d'.due[t] # d.due[t]>>_vars

=============================================================================
