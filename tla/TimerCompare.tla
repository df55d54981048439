----------------------------- MODULE TimerCompare -----------------------------
(***************************************************************************)
(* The machine timer that makes the tick.  mtime and its compare register  *)
(* are 64 bits wide and are reached 32 bits at a time: mtime is read high, *)
(* low, high until the two high words agree, the compare register gets its *)
(* new value in three stores.  Time passes between any two accesses, and   *)
(* the interrupt is pending as long as the compare value is not later than *)
(* the time.                                                               *)
(***************************************************************************)
EXTENDS Naturals

CONSTANTS
  Half,      \* a word holds 0 .. Half - 1
  Increment, \* uxTimerIncrementsForOneTick
  MaxTime    \* bound on mtime

VARIABLES
  time,    \* mtime
  compare, \* mtimecmp: [high, low]
  next,    \* ullNextTime: [high, low]
  high, low, \* ulCurrentTimeHigh, ulCurrentTimeLow
  step,    \* where the program is: the set-up, the tasks, the tick interrupt
  begun,   \* the time when the set-up began
  ticks    \* how often xTaskIncrementTick was called

compareVars == <<time, compare, next, high, low, step, begun, ticks>>

TimerCompareAssumption ==
  /\ Half \in Nat \ {0, 1} /\ Increment \in 1 .. Half - 1
  /\ MaxTime \in 0 .. Half * Half - 1 - 2 * Increment

Words(n) == [high |-> n \div Half, low |-> n % Half]
Value(w) == w.high * Half + w.low
Pending == Value(compare) <= time

(* ullNextTime plus one tick, low word first, then the carry *)
Advanced(w) ==
  LET sum == (w.low + Increment) % Half
  IN  [high |-> w.high + (IF sum < w.low THEN 1 ELSE 0), low |-> sum]

CompareInit ==
  /\ time \in 0 .. Half /\ begun = time
  /\ compare \in [high : {0}, low : 0 .. Half - 1] /\ next = Words(0)
  /\ high = 0 /\ low = 0 /\ step = "read_high" /\ ticks = 0

Tock ==
  /\ time < MaxTime /\ time' = time + 1
  /\ UNCHANGED <<compare, next, high, low, step, begun, ticks>>

Goes(from, to) == step = from /\ step' = to

-----------------------------------------------------------------------------
(* vPortSetupTimerInterrupt, before the interrupt is enabled *)
ReadHigh ==
  /\ Goes("read_high", "read_low") /\ high' = Words(time).high
  /\ UNCHANGED <<time, compare, next, low, begun, ticks>>

ReadLow ==
  /\ Goes("read_low", "read_again") /\ low' = Words(time).low
  /\ UNCHANGED <<time, compare, next, high, begun, ticks>>

(* Faulty: the high word is not read again. *)
Agrees_Unread == TRUE

Agrees == high = Words(time).high

ReadAgain ==
  /\ step = "read_again"
  /\ IF Agrees
     THEN /\ next' = Words(Value([high |-> high, low |-> low]) + Increment)
          /\ step' \in {"set_low", "set_high"}
     ELSE /\ step' = "read_high" /\ UNCHANGED next
  /\ UNCHANGED <<time, compare, high, low, begun, ticks>>

(* One assignment of 64 bits, which the compiler splits in either order *)
SetFirst ==
  /\ \/ /\ Goes("set_low", "then_high") /\ compare' = [compare EXCEPT !.low = next.low]
     \/ /\ Goes("set_high", "then_low") /\ compare' = [compare EXCEPT !.high = next.high]
  /\ UNCHANGED <<time, next, high, low, begun, ticks>>

SetSecond ==
  /\ step \in {"then_high", "then_low"} /\ step' = "tasks"
  /\ compare' = next /\ next' = Advanced(next)
  /\ UNCHANGED <<time, high, low, begun, ticks>>

-----------------------------------------------------------------------------
(* portUPDATE_MTIMER_COMPARE_REGISTER and the call that follows it *)
Interrupt ==
  /\ Pending /\ Goes("tasks", "raise_low")
  /\ UNCHANGED <<time, compare, next, high, low, begun, ticks>>

(* Faulty: the new low word is stored at once. *)
RaiseLow_NewWord ==
  /\ Goes("raise_low", "store_high") /\ compare' = [compare EXCEPT !.low = next.low]
  /\ UNCHANGED <<time, next, high, low, begun, ticks>>

RaiseLow ==
  /\ Goes("raise_low", "store_high") /\ compare' = [compare EXCEPT !.low = Half - 1]
  /\ UNCHANGED <<time, next, high, low, begun, ticks>>

StoreHigh ==
  /\ Goes("store_high", "store_low") /\ compare' = [compare EXCEPT !.high = next.high]
  /\ UNCHANGED <<time, next, high, low, begun, ticks>>

StoreLow ==
  /\ Goes("store_low", "tasks") /\ compare' = [compare EXCEPT !.low = next.low]
  /\ next' = Advanced(next) /\ ticks' = ticks + 1
  /\ UNCHANGED <<time, high, low, begun>>

CompareNext ==
  \/ Tock \/ ReadHigh \/ ReadLow \/ ReadAgain \/ SetFirst \/ SetSecond
  \/ Interrupt \/ RaiseLow \/ StoreHigh \/ StoreLow

CompareSpec == CompareInit /\ [][CompareNext]_compareVars

-----------------------------------------------------------------------------
(* No tick comes before its time, counted from when the timer was set up,  *)
(* and none is lost or put off for good: however late an interrupt is      *)
(* served, the next one is due one period after the one before.            *)
TicksKeepPeriod ==
  /\ begun + ticks * Increment <= time
  /\ step = "tasks" => Value(next) = Value(compare) + Increment

(* While the compare register holds a value half old and half new it never *)
(* makes an interrupt pending that is not due: it is no smaller than the   *)
(* old value and then no smaller than the new one, as the comments say     *)
(* (portASM.S:110-111).                                                    *)
NoTickFromHalfValue ==
  /\ step = "store_high" => Value(compare) + Increment >= Value(next)
  /\ step = "store_low" => Value(compare) >= Value(next)
=============================================================================
