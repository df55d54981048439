---------------------------- MODULE PartsProofs -----------------------------
(***************************************************************************)
(* Theorems about the parts beside the kernel, for all values of their     *)
(* constants.                                                              *)
(***************************************************************************)
EXTENDS Parts, FiniteSetTheorems, SequenceTheorems, WellFoundedInduction, TLAPS

-----------------------------------------------------------------------------
(* The MPU wrappers, version 1: privilege.                                 *)

Frame == [kind : {"create", "hook", "call"}, raised : BOOLEAN]

PrivilegeTypeOK ==
  /\ privileged \subseteq Thread /\ own \in [Thread -> BOOLEAN]
  /\ frames \in [Thread -> Seq(Frame)] /\ maker \in [Thread -> Thread \cup {Nobody}]

(* Of the calls a task is in, one inside the other, the outermost raised   *)
(* its privilege if it was created without, and no other did.              *)
OutermostRaises ==
  \A t \in Thread : \A i \in 1 .. Len(frames[t]) : frames[t][i].raised <=> ~own[t] /\ i = 1

(* A task that was not created yet is in no call and has no privilege.     *)
NotYetCreated ==
  \A t \in Thread : ~Privilege!Alive(t) => frames[t] = <<>> /\ ~own[t] /\ t \notin privileged

PrivilegeInv ==
  /\ PrivilegeTypeOK /\ OutermostRaises /\ NotYetCreated
  /\ Privilege!PrivilegeKept /\ Privilege!NoneOutranksItsMaker

LEMMA FrontOfFrames ==
  ASSUME NEW S, NEW s \in Seq(S), s # <<>>
  PROVE  /\ SubSeq(s, 1, Len(s) - 1) \in Seq(S)
         /\ Len(SubSeq(s, 1, Len(s) - 1)) = Len(s) - 1
         /\ \A i \in 1 .. Len(s) - 1 : SubSeq(s, 1, Len(s) - 1)[i] = s[i]
         /\ SubSeq(s, 1, Len(s) - 1) = <<>> <=> Len(s) = 1
<1>1. Len(s) \in Nat \ {0} /\ \A i \in 1 .. Len(s) : s[i] \in S
  BY EmptySeq, LenProperties
<1>2. SubSeq(s, 1, Len(s) - 1) \in Seq(S) /\ Len(SubSeq(s, 1, Len(s) - 1)) = Len(s) - 1
  BY <1>1, SubSeqProperties
<1>3. \A i \in 1 .. Len(s) - 1 : SubSeq(s, 1, Len(s) - 1)[i] = s[i]
  BY <1>1, SubSeqProperties
<1>4. SubSeq(s, 1, Len(s) - 1) = <<>> <=> Len(SubSeq(s, 1, Len(s) - 1)) = 0
  BY <1>2, EmptySeq
<1>5. QED
  BY <1>1, <1>2, <1>3, <1>4

LEMMA PrivilegeStarts ==
  ASSUME Privilege!MpuPrivilegeAssumption, Privilege!Init
  PROVE  PrivilegeInv
  BY DEF Privilege!MpuPrivilegeAssumption, Privilege!Init, PrivilegeInv, PrivilegeTypeOK,
     OutermostRaises, NotYetCreated, Privilege!Alive, Privilege!PrivilegeKept,
     Privilege!NoneOutranksItsMaker, Privilege!Calling

LEMMA EnterKeepsPrivilege ==
  ASSUME Privilege!MpuPrivilegeAssumption, PrivilegeInv, NEW t \in Thread,
         NEW kind \in {"create", "hook", "call"}, Privilege!Enter(t, kind)
  PROVE  PrivilegeInv'
<1> DEFINE f == [kind |-> kind, raised |-> t \notin privileged]
<1>1. /\ frames[t] \in Seq(Frame) /\ f \in Frame /\ Len(frames[t]) \in Nat
      /\ frames' = [frames EXCEPT ![t] = Append(@, f)]
      /\ privileged' = privileged \cup {t} /\ own' = own /\ maker' = maker
      /\ Privilege!Alive(t)
  BY DEF PrivilegeInv, PrivilegeTypeOK, Privilege!Enter, Privilege!InApplication, Frame
<1>2. /\ frames'[t] \in Seq(Frame) /\ Len(frames'[t]) = Len(frames[t]) + 1
      /\ \A i \in 1 .. Len(frames[t]) : frames'[t][i] = frames[t][i]
      /\ frames'[t][Len(frames[t]) + 1] = f /\ frames'[t] # <<>>
      /\ \A u \in Thread \ {t} : frames'[u] = frames[u]
  <2>1. frames'[t] = Append(frames[t], f) /\ \A u \in Thread \ {t} : frames'[u] = frames[u]
    BY <1>1 DEF PrivilegeInv, PrivilegeTypeOK
  <2>2. QED
    BY <1>1, <2>1, AppendProperties
<1>3. t \notin privileged <=> ~own[t] /\ Len(frames[t]) + 1 = 1
  BY <1>1, EmptySeq DEF PrivilegeInv, Privilege!PrivilegeKept, Privilege!Calling, PrivilegeTypeOK
<1>4. PrivilegeTypeOK'
  BY <1>1, <1>2 DEF PrivilegeInv, PrivilegeTypeOK
<1>5. OutermostRaises'
  <2> SUFFICES ASSUME NEW u \in Thread, NEW i \in 1 .. Len(frames'[u])
               PROVE  frames'[u][i].raised <=> ~own[u] /\ i = 1
    BY <1>1 DEF OutermostRaises
  <2>1. CASE u = t /\ i = Len(frames[t]) + 1
    <3>1. frames'[u][i].raised = (t \notin privileged)
      BY <1>2, <2>1
    <3>2. QED
      BY <1>3, <2>1, <3>1
  <2>2. CASE u = t /\ i \in 1 .. Len(frames[t])
    BY <1>2, <2>2 DEF PrivilegeInv, OutermostRaises
  <2>3. CASE u # t
    BY <1>2, <2>3 DEF PrivilegeInv, OutermostRaises
  <2>4. QED
    BY <1>1, <1>2, <2>1, <2>2, <2>3
<1>6. NotYetCreated' /\ Privilege!PrivilegeKept' /\ Privilege!NoneOutranksItsMaker'
  BY <1>1, <1>2 DEF PrivilegeInv, NotYetCreated, Privilege!PrivilegeKept, Privilege!Calling,
     Privilege!NoneOutranksItsMaker, Privilege!Alive
<1>7. QED
  BY <1>4, <1>5, <1>6 DEF PrivilegeInv

LEMMA LeaveKeepsPrivilege ==
  ASSUME Privilege!MpuPrivilegeAssumption, PrivilegeInv, NEW t \in Thread, Privilege!Leave(t)
  PROVE  PrivilegeInv'
<1> DEFINE n == Len(frames[t])
<1>1. /\ frames[t] \in Seq(Frame) /\ n \in Nat \ {0} /\ own' = own /\ maker' = maker
      /\ frames' = [frames EXCEPT ![t] = SubSeq(frames[t], 1, n - 1)]
      /\ privileged' = IF frames[t][n].raised THEN privileged \ {t} ELSE privileged
  BY EmptySeq, LenProperties DEF PrivilegeInv, PrivilegeTypeOK, Privilege!Leave, Privilege!Calling,
     Privilege!Top, Privilege!Front
<1>2. /\ frames'[t] \in Seq(Frame) /\ Len(frames'[t]) = n - 1
      /\ \A i \in 1 .. n - 1 : frames'[t][i] = frames[t][i]
      /\ frames'[t] = <<>> <=> n = 1
      /\ \A u \in Thread \ {t} : frames'[u] = frames[u]
  <2>1. /\ frames'[t] = SubSeq(frames[t], 1, n - 1)
        /\ \A u \in Thread \ {t} : frames'[u] = frames[u]
    BY <1>1 DEF PrivilegeInv, PrivilegeTypeOK
  <2>2. QED
    BY <1>1, <2>1, EmptySeq, FrontOfFrames
<1>3. frames[t][n].raised <=> ~own[t] /\ n = 1
  <2>1. n \in 1 .. Len(frames[t])
    BY <1>1
  <2>2. \A i \in 1 .. Len(frames[t]) : frames[t][i].raised <=> ~own[t] /\ i = 1
    BY DEF PrivilegeInv, OutermostRaises
  <2> HIDE DEF n
  <2>3. QED
    BY <2>1, <2>2
<1>4. Privilege!Alive(t) /\ t \in privileged
  BY <1>1, EmptySeq DEF PrivilegeInv, NotYetCreated, Privilege!PrivilegeKept, Privilege!Calling
<1>5. PrivilegeTypeOK'
  BY <1>1, <1>2 DEF PrivilegeInv, PrivilegeTypeOK
<1>6. OutermostRaises'
  <2> SUFFICES ASSUME NEW u \in Thread, NEW i \in 1 .. Len(frames'[u])
               PROVE  frames'[u][i].raised <=> ~own[u] /\ i = 1
    BY <1>1 DEF OutermostRaises
  <2>1. frames'[u][i] = frames[u][i] /\ i \in 1 .. Len(frames[u])
    BY <1>1, <1>2
  <2>2. QED
    BY <2>1 DEF PrivilegeInv, OutermostRaises
<1>7. NotYetCreated' /\ Privilege!PrivilegeKept' /\ Privilege!NoneOutranksItsMaker'
  BY <1>1, <1>2, <1>3, <1>4 DEF PrivilegeInv, NotYetCreated, Privilege!PrivilegeKept,
     Privilege!Calling, Privilege!NoneOutranksItsMaker, Privilege!Alive
<1>8. QED
  BY <1>5, <1>6, <1>7 DEF PrivilegeInv

LEMMA CreateKeepsPrivilege ==
  ASSUME Privilege!MpuPrivilegeAssumption, PrivilegeInv, NEW t \in Thread, NEW child \in Thread,
         NEW bit \in BOOLEAN, Privilege!CreateTask(t, child, bit)
  PROVE  PrivilegeInv'
<1> DEFINE f == [frames[t][1] EXCEPT !.kind = "call"]
           given_ == Privilege!Masked(t, bit)
<1>1. /\ frames[t] \in Seq(Frame) /\ Len(frames[t]) = 1 /\ frames[t] # <<>>
      /\ frames[t][1] \in Frame /\ f \in Frame /\ f.raised = frames[t][1].raised
  <2>1. frames[t] \in Seq(Frame) /\ Len(frames[t]) = 1 /\ frames[t] # <<>>
    BY DEF PrivilegeInv, PrivilegeTypeOK, Privilege!CreateTask, Privilege!Calling
  <2>2. frames[t][1] \in Frame
    BY <2>1
  <2>3. QED
    BY <2>1, <2>2 DEF Frame
<1>2. /\ frames' = [frames EXCEPT ![t] = <<f>>] /\ own' = [own EXCEPT ![child] = given_]
      /\ privileged' = IF given_ THEN privileged \cup {child} ELSE privileged
      /\ maker' = [maker EXCEPT ![child] = t] /\ ~Privilege!Alive(child)
  BY DEF Privilege!CreateTask
<1>3. Privilege!Alive(t) /\ child # t /\ frames[child] = <<>> /\ child \notin privileged
  BY <1>1, <1>2 DEF PrivilegeInv, NotYetCreated
<1>4. given_ \in BOOLEAN /\ (given_ => own[t])
  <2>1. frames[t][1].raised <=> ~own[t]
    BY <1>1 DEF PrivilegeInv, OutermostRaises
  <2>2. QED
    BY <1>1, <2>1 DEF Privilege!Masked, Privilege!Top
<1>5. /\ frames'[t] = <<f>> /\ \A u \in Thread \ {t} : frames'[u] = frames[u]
      /\ own'[child] = given_ /\ \A u \in Thread \ {child} : own'[u] = own[u]
      /\ maker'[child] = t /\ \A u \in Thread \ {child} : maker'[u] = maker[u]
  BY <1>2 DEF PrivilegeInv, PrivilegeTypeOK
<1>6. PrivilegeTypeOK'
  <2>1. <<f>> \in Seq(Frame)
    BY <1>1
  <2>2. QED
    BY <1>2, <1>4, <2>1 DEF PrivilegeInv, PrivilegeTypeOK
<1>7. OutermostRaises'
  <2> SUFFICES ASSUME NEW u \in Thread, NEW i \in 1 .. Len(frames'[u])
               PROVE  frames'[u][i].raised <=> ~own'[u] /\ i = 1
    BY DEF OutermostRaises
  <2>1. CASE u = t
    <3>1. i = 1 /\ frames'[u][i] = f /\ own'[u] = own[u]
      BY <1>3, <1>5, <2>1
    <3>2. frames[t][1].raised <=> ~own[t]
      BY <1>1 DEF PrivilegeInv, OutermostRaises
    <3>3. QED
      BY <1>1, <2>1, <3>1, <3>2
  <2>2. CASE u = child
    BY <1>3, <1>5, <2>2, EmptySeq
  <2>3. CASE u \notin {t, child}
    BY <1>5, <2>3 DEF PrivilegeInv, OutermostRaises
  <2>4. QED
    BY <2>1, <2>2, <2>3
<1>8. Nobody # t
  BY DEF Privilege!MpuPrivilegeAssumption
<1>9. NotYetCreated'
  BY <1>1, <1>2, <1>3, <1>5, <1>8 DEF PrivilegeInv, NotYetCreated, Privilege!Alive
<1>10. Privilege!PrivilegeKept'
  BY <1>1, <1>2, <1>3, <1>4, <1>5, <1>8 DEF PrivilegeInv, Privilege!PrivilegeKept,
     Privilege!Calling, Privilege!Alive
<1>11. Privilege!NoneOutranksItsMaker'
  BY <1>2, <1>3, <1>4, <1>5, <1>8 DEF PrivilegeInv, Privilege!NoneOutranksItsMaker,
     Privilege!Alive, NotYetCreated
<1>12. QED
  BY <1>6, <1>7, <1>9, <1>10, <1>11 DEF PrivilegeInv

LEMMA StepKeepsPrivilege ==
  ASSUME Privilege!MpuPrivilegeAssumption, PrivilegeInv, [Privilege!Next]_privilegeVars
  PROVE  PrivilegeInv'
<1>1. CASE UNCHANGED privilegeVars
  BY <1>1 DEF privilegeVars, PrivilegeInv, PrivilegeTypeOK, OutermostRaises, NotYetCreated,
     Privilege!PrivilegeKept, Privilege!NoneOutranksItsMaker, Privilege!Calling, Privilege!Alive
<1>2. ASSUME NEW t \in Thread, NEW kind \in {Privilege!Kind(f) : f \in Privilege!Calls},
             Privilege!Enter(t, kind)
      PROVE  PrivilegeInv'
  <2>1. kind \in {"create", "hook", "call"}
    BY <1>2 DEF Privilege!Kind
  <2>2. QED
    BY <1>2, <2>1, EnterKeepsPrivilege
<1>3. QED
  BY <1>1, <1>2, LeaveKeepsPrivilege, CreateKeepsPrivilege DEF Privilege!Next

-----------------------------------------------------------------------------
(* The machine timer.                                                      *)

Value(w) == w.high * Half + w.low
Word == [high : Nat, low : 0 .. Half - 1]

CompareTypeOK ==
  /\ mtime \in Nat /\ begun \in 0 .. mtime /\ ticks \in Nat
  /\ compare \in Word /\ next \in Word /\ high \in Nat /\ low \in 0 .. Half - 1
  /\ step \in {"read_high", "read_low", "read_again", "set_low", "set_high", "then_high",
               "then_low", "tasks", "raise_low", "store_high", "store_low"}

SetUp == {"read_high", "read_low", "read_again", "set_low", "set_high", "then_high", "then_low"}

(* The two words that the set-up has read are those of two times, one not  *)
(* before the other: if the high word has not changed since, they are one  *)
(* time.                                                                   *)
WordsRead ==
  /\ step = "read_low" => \E m \in begun .. mtime : high = m \div Half
  /\ step = "read_again" =>
       \E m \in begun .. mtime : \E n \in m .. mtime : high = m \div Half /\ low = n % Half

(* When the next tick is due, and the one after.                           *)
TicksDue ==
  /\ step \in SetUp => ticks = 0
  /\ step \in {"set_low", "set_high", "then_high", "then_low"} =>
       begun + Increment <= Value(next)
  /\ step \in {"tasks", "raise_low"} =>
       /\ Value(next) = Value(compare) + Increment
       /\ begun + (ticks + 1) * Increment <= Value(compare)
  /\ step = "raise_low" => Value(compare) <= mtime
  /\ step \in {"store_high", "store_low"} =>
       /\ compare.low = Half - 1
       /\ begun + (ticks + 1) * Increment <= mtime
       /\ begun + (ticks + 2) * Increment <= Value(next)
  /\ step = "store_high" => Value(compare) + Increment >= Value(next)
  /\ step = "store_low" => compare.high = next.high
  /\ begun + ticks * Increment <= mtime

CompareInv == CompareTypeOK /\ WordsRead /\ TicksDue

LEMMA HalfIsPositive ==
  ASSUME Compare!TimerCompareAssumption
  PROVE  Half \in Nat \ {0, 1} /\ Increment \in Nat \ {0} /\ Increment < Half
  BY DEF Compare!TimerCompareAssumption

LEMMA DividedExactly ==
  ASSUME NEW M \in Nat \ {0}, NEW a \in Nat
  PROVE  \E q \in Nat, r \in 0 .. M - 1 :
            q = a \div M /\ r = a % M /\ q * M + r = a
<1> DEFINE q == a \div M
           r == a % M
<1>1. r \in 0 .. M - 1 /\ q \in Nat
  BY SMT
<1>2. a = (M * q) + r
  BY SMT
<1>3. q = a \div M /\ r = a % M
  OBVIOUS
<1> HIDE DEF q, r
<1>4. q * M + r = a
  BY <1>1, <1>2
<1>5. QED
  BY <1>1, <1>3, <1>4

LEMMA SmallerQuotient ==
  ASSUME NEW M \in Nat \ {0}, NEW p \in Nat, NEW q \in Nat, NEW x \in 0 .. M - 1,
         NEW y \in 0 .. M - 1, p * M + x <= q * M + y
  PROVE  p <= q
<1> SUFFICES ASSUME q + 1 <= p PROVE FALSE
  OBVIOUS
<1>1. (p - q - 1) * M >= 0
  OBVIOUS
<1>2. (p - q - 1) * M = p * M - q * M - M
  OBVIOUS
<1>3. p * M \in Int /\ q * M \in Int
  OBVIOUS
<1>4. QED
  BY <1>1, <1>2, <1>3

(* The two words of a number, put together again.                          *)
LEMMA WordsOfNumber ==
  ASSUME Compare!TimerCompareAssumption, NEW n \in Nat
  PROVE  /\ \E q \in Nat, r \in 0 .. Half - 1 :
              q = n \div Half /\ r = n % Half /\ q * Half + r = n
         /\ Compare!Words(n) \in Word /\ Value(Compare!Words(n)) = n
<1>1. PICK q \in Nat, r \in 0 .. Half - 1 : q = n \div Half /\ r = n % Half /\ q * Half + r = n
  BY HalfIsPositive, DividedExactly
<1>2. Compare!Words(n) = [high |-> q, low |-> r]
  BY <1>1 DEF Compare!Words
<1>3. Compare!Words(n) \in Word /\ Value(Compare!Words(n)) = n
  <2>1. q * Half + r = n
    BY <1>1
  <2>2. QED
    BY <1>2, <2>1 DEF Word, Value
<1>4. QED
  BY <1>1, <1>3

(* The carry of the low word makes the sum right.                          *)
LEMMA AdvancedByATick ==
  ASSUME Compare!TimerCompareAssumption, NEW w \in Word
  PROVE  Compare!Advanced(w) \in Word /\ Value(Compare!Advanced(w)) = Value(w) + Increment
<1> DEFINE sum == (w.low + Increment) % Half
           carry == IF sum < w.low THEN 1 ELSE 0
<1>1. w.high \in Nat /\ w.low \in 0 .. Half - 1
  BY DEF Word
<1>2. sum \in 0 .. Half - 1
      /\ sum + carry * Half = w.low + Increment /\ carry \in {0, 1}
  <2>1. CASE w.low + Increment < Half
    <3>1. sum = w.low + Increment
      BY <1>1, <2>1, HalfIsPositive
    <3>2. QED
      BY <1>1, <2>1, <3>1, HalfIsPositive
  <2>2. CASE w.low + Increment >= Half
    <3>1. sum = w.low + Increment - Half
      BY <1>1, <2>2, HalfIsPositive
    <3>2. QED
      BY <1>1, <2>2, <3>1, HalfIsPositive
  <2>3. QED
    BY <1>1, <2>1, <2>2, HalfIsPositive
<1>3. Compare!Advanced(w) = [high |-> w.high + carry, low |-> sum]
  BY DEF Compare!Advanced
<1> HIDE DEF sum, carry
<1>4. (w.high + carry) * Half = w.high * Half + carry * Half
  BY <1>1, <1>2, HalfIsPositive
<1>5. QED
  BY <1>1, <1>2, <1>3, <1>4, HalfIsPositive DEF Word, Value

LEMMA CompareStarts ==
  ASSUME Compare!TimerCompareAssumption, Compare!CompareInit
  PROVE  CompareInv
<1>1. Compare!Words(0) \in Word
  BY WordsOfNumber
<1>2. CompareTypeOK
  BY <1>1, HalfIsPositive DEF Compare!CompareInit, CompareTypeOK, Word
<1>3. QED
  BY <1>2, HalfIsPositive DEF Compare!CompareInit, CompareInv, CompareTypeOK, WordsRead, TicksDue, SetUp

LEMMA TockKeepsCompare ==
  ASSUME Compare!TimerCompareAssumption, CompareInv, Compare!Tock
  PROVE  CompareInv'
<1>1. /\ mtime' = mtime + 1 /\ mtime \in Nat /\ begun \in 0 .. mtime
      /\ UNCHANGED <<compare, next, high, low, step, begun, ticks>>
  BY DEF Compare!Tock, CompareInv, CompareTypeOK
<1>2. CompareTypeOK'
  BY <1>1 DEF CompareInv, CompareTypeOK
<1>3. WordsRead'
  <2>1. begun .. mtime \subseteq begun' .. mtime' /\ \A m \in Int : m .. mtime \subseteq m .. mtime'
    BY <1>1
  <2>2. ASSUME step = "read_low"
        PROVE  \E m \in begun' .. mtime' : high' = m \div Half
    BY <1>1, <2>1, <2>2 DEF CompareInv, WordsRead
  <2>3. ASSUME step = "read_again"
        PROVE  \E m \in begun' .. mtime' : \E n \in m .. mtime' : high' = m \div Half /\ low' = n % Half
    <3>1. PICK m \in begun .. mtime : \E n \in m .. mtime : high = m \div Half /\ low = n % Half
      BY <2>3 DEF CompareInv, WordsRead
    <3>2. PICK n \in m .. mtime : high = m \div Half /\ low = n % Half
      BY <3>1
    <3>3. m \in begun' .. mtime' /\ n \in m .. mtime'
      BY <1>1, <3>1, <3>2
    <3>4. QED
      BY <1>1, <3>2, <3>3
  <2>4. QED
    BY <1>1, <2>2, <2>3 DEF WordsRead
<1>4. TicksDue'
  <2>1. begun + ticks * Increment <= mtime + 1
        /\ (Value(compare) <= mtime => Value(compare) <= mtime + 1)
        /\ (begun + (ticks + 1) * Increment <= mtime => begun + (ticks + 1) * Increment <= mtime + 1)
    <3>1. Value(compare) \in Int /\ ticks * Increment \in Int /\ (ticks + 1) * Increment \in Int
      BY <1>1, HalfIsPositive DEF CompareInv, CompareTypeOK, Word, Value
    <3>2. QED
      BY <1>1, <3>1 DEF CompareInv, TicksDue
  <2>2. Value(compare') = Value(compare) /\ Value(next') = Value(next)
    BY <1>1
  <2>3. QED
    BY <1>1, <2>1, <2>2 DEF CompareInv, TicksDue
<1>5. QED
  BY <1>2, <1>3, <1>4 DEF CompareInv

LEMMA ReadKeepsCompare ==
  ASSUME Compare!TimerCompareAssumption, CompareInv,
         Compare!ReadHigh \/ Compare!ReadLow
  PROVE  CompareInv'
<1>1. mtime \in Nat /\ begun \in 0 .. mtime /\ low \in 0 .. Half - 1 /\ high \in Nat
  BY DEF CompareInv, CompareTypeOK
<1>2. Compare!Words(mtime).high = mtime \div Half /\ Compare!Words(mtime).low = mtime % Half
  BY DEF Compare!Words
<1>3. CASE Compare!ReadHigh
  <2>1. /\ step = "read_high" /\ step' = "read_low" /\ high' = mtime \div Half
        /\ UNCHANGED <<mtime, compare, next, low, begun, ticks>>
    BY <1>2, <1>3 DEF Compare!ReadHigh, Compare!Goes
  <2>2. CompareTypeOK' /\ WordsRead'
    BY <1>1, <2>1, WordsOfNumber DEF CompareInv, CompareTypeOK, WordsRead
  <2>3. TicksDue'
    BY <2>1 DEF CompareInv, TicksDue, SetUp
  <2>4. QED
    BY <2>2, <2>3 DEF CompareInv
<1>4. CASE Compare!ReadLow
  <2>1. /\ step = "read_low" /\ step' = "read_again" /\ low' = mtime % Half
        /\ UNCHANGED <<mtime, compare, next, high, begun, ticks>>
    BY <1>2, <1>4 DEF Compare!ReadLow, Compare!Goes
  <2>2. CompareTypeOK'
    BY <1>1, <2>1, WordsOfNumber DEF CompareInv, CompareTypeOK
  <2>3. WordsRead'
    <3>1. PICK m \in begun .. mtime : high = m \div Half
      BY <2>1 DEF CompareInv, WordsRead
    <3>2. mtime \in m .. mtime
      BY <1>1, <3>1
    <3>3. QED
      BY <2>1, <3>1, <3>2 DEF WordsRead
  <2>4. TicksDue'
    BY <2>1 DEF CompareInv, TicksDue, SetUp
  <2>5. QED
    BY <2>2, <2>3, <2>4 DEF CompareInv
<1>5. QED
  BY <1>3, <1>4

(* If the high word has not changed, the two words are those of the time   *)
(* at which the low one was read.                                          *)
LEMMA ReadAgainKeepsCompare ==
  ASSUME Compare!TimerCompareAssumption, CompareInv, Compare!ReadAgain
  PROVE  CompareInv'
<1> DEFINE now == high * Half + low
<1>1. /\ mtime \in Nat /\ begun \in 0 .. mtime /\ low \in 0 .. Half - 1 /\ high \in Nat
      /\ ticks \in Nat /\ step = "read_again" /\ ticks = 0
      /\ UNCHANGED <<mtime, compare, high, low, begun, ticks>>
  BY DEF CompareInv, CompareTypeOK, Compare!ReadAgain, TicksDue, SetUp
<1>2. CASE Compare!Agrees
  <2>1. PICK m \in begun .. mtime : \E n \in m .. mtime : high = m \div Half /\ low = n % Half
    BY <1>1 DEF CompareInv, WordsRead
  <2>2. PICK n \in m .. mtime : high = m \div Half /\ low = n % Half
    BY <2>1
  <2>3. high = mtime \div Half
    BY <1>2 DEF Compare!Agrees, Compare!Words
  <2>4. m \in Nat /\ n \in Nat /\ m <= n /\ n <= mtime /\ begun <= m
    BY <1>1, <2>1, <2>2
  <2>5. n \div Half = high
    <3>1. PICK q \in Nat, x \in 0 .. Half - 1 : q = n \div Half /\ x = n % Half /\ q * Half + x = n
      BY <2>4, WordsOfNumber
    <3>2. PICK y \in 0 .. Half - 1 : high * Half + y = m
      <4>1. PICK p \in Nat, y \in 0 .. Half - 1 : p = m \div Half /\ y = m % Half /\ p * Half + y = m
        BY <2>4, WordsOfNumber
      <4>2. p = high
        BY <2>2, <4>1
      <4>3. p * Half + y = m
        BY <4>1
      <4>4. QED
        BY <4>2, <4>3
    <3>3. PICK z \in 0 .. Half - 1 : high * Half + z = mtime
      <4>1. PICK p \in Nat, z \in 0 .. Half - 1 : p = mtime \div Half /\ z = mtime % Half /\ p * Half + z = mtime
        BY <1>1, WordsOfNumber
      <4>2. p = high
        BY <2>3, <4>1
      <4>3. p * Half + z = mtime
        BY <4>1
      <4>4. QED
        BY <4>2, <4>3
    <3>4. q * Half + x = n
      BY <3>1
    <3>5. high * Half + y <= q * Half + x /\ q * Half + x <= high * Half + z
      BY <2>4, <3>2, <3>3, <3>4
    <3>6. high <= q /\ q <= high
      BY <1>1, <3>5, HalfIsPositive, SmallerQuotient
    <3>7. q = high
      BY <1>1, <3>6
    <3>8. QED
      BY <3>1, <3>7
  <2>6. now = n
    <3>1. PICK q \in Nat, x \in 0 .. Half - 1 : q = n \div Half /\ x = n % Half /\ q * Half + x = n
      BY <2>4, WordsOfNumber
    <3>2. q = high /\ x = low
      BY <2>2, <2>5, <3>1
    <3>3. q * Half + x = n
      BY <3>1
    <3>4. QED
      BY <3>2, <3>3
  <2>7. /\ step' \in {"set_low", "set_high"} /\ next' = Compare!Words(n + Increment)
    <3>1. Compare!Value([high |-> high, low |-> low]) = now
      BY DEF Compare!Value
    <3>2. QED
      BY <1>2, <2>6, <3>1 DEF Compare!ReadAgain
  <2>8. next' \in Word /\ Value(next') = n + Increment
    BY <2>4, <2>7, WordsOfNumber, HalfIsPositive
  <2>9. CompareTypeOK' /\ WordsRead'
    BY <1>1, <2>7, <2>8 DEF CompareInv, CompareTypeOK, WordsRead
  <2>10. begun + Increment <= Value(next')
    BY <1>1, <2>4, <2>8, HalfIsPositive
  <2>11. TicksDue'
    BY <1>1, <2>7, <2>10, HalfIsPositive DEF TicksDue, SetUp
  <2>12. QED
    BY <2>9, <2>11 DEF CompareInv
<1>3. CASE ~Compare!Agrees
  <2>1. step' = "read_high" /\ next' = next
    BY <1>3 DEF Compare!ReadAgain
  <2>2. QED
    BY <1>1, <2>1, HalfIsPositive DEF CompareInv, CompareTypeOK, WordsRead, TicksDue, SetUp
<1>4. QED
  BY <1>2, <1>3

LEMMA SetKeepsCompare ==
  ASSUME Compare!TimerCompareAssumption, CompareInv, Compare!SetFirst \/ Compare!SetSecond
  PROVE  CompareInv'
<1>1. /\ mtime \in Nat /\ begun \in 0 .. mtime /\ ticks = 0 /\ next \in Word /\ compare \in Word
      /\ begun + Increment <= Value(next)
      /\ UNCHANGED <<mtime, high, low, begun, ticks>>
  BY DEF CompareInv, CompareTypeOK, Compare!SetFirst, Compare!SetSecond, Compare!Goes, TicksDue, SetUp
<1>2. CASE Compare!SetFirst
  <2>1. step' \in {"then_high", "then_low"} /\ next' = next /\ compare' \in Word
    BY <1>1, <1>2 DEF Compare!SetFirst, Compare!Goes, Word
  <2>2. QED
    BY <1>1, <2>1, HalfIsPositive DEF CompareInv, CompareTypeOK, WordsRead, TicksDue, SetUp
<1>3. CASE Compare!SetSecond
  <2>1. step' = "tasks" /\ compare' = next /\ next' = Compare!Advanced(next)
    BY <1>3 DEF Compare!SetSecond
  <2>2. next' \in Word /\ Value(next') = Value(compare') + Increment
    BY <1>1, <2>1, AdvancedByATick
  <2>3. begun + (ticks' + 1) * Increment <= Value(compare') /\ begun + ticks' * Increment <= mtime
    BY <1>1, <2>1, HalfIsPositive
  <2>4. CompareTypeOK' /\ WordsRead'
    BY <1>1, <2>1, <2>2 DEF CompareInv, CompareTypeOK, WordsRead
  <2>5. TicksDue'
    BY <1>1, <2>1, <2>2, <2>3 DEF TicksDue, SetUp
  <2>6. QED
    BY <2>4, <2>5 DEF CompareInv
<1>4. QED
  BY <1>2, <1>3

LEMMA InterruptKeepsCompare ==
  ASSUME Compare!TimerCompareAssumption, CompareInv,
         Compare!Interrupt \/ Compare!RaiseLow \/ Compare!StoreHigh \/ Compare!StoreLow
  PROVE  CompareInv'
<1>1. /\ mtime \in Nat /\ begun \in 0 .. mtime /\ ticks \in Nat
      /\ next \in Word /\ compare \in Word
      /\ UNCHANGED <<mtime, high, low, begun>> /\ step \notin SetUp /\ step' \notin SetUp
  BY DEF CompareInv, CompareTypeOK, Compare!Interrupt, Compare!RaiseLow, Compare!StoreHigh,
     Compare!StoreLow, Compare!Goes, SetUp
<1>2. /\ next.high \in Nat /\ compare.high \in Nat
      /\ next.low \in 0 .. Half - 1 /\ compare.low \in 0 .. Half - 1
      /\ next.high * Half \in Nat /\ compare.high * Half \in Nat
      /\ Value(next) \in Nat /\ Value(compare) \in Nat
      /\ ticks * Increment \in Nat
      /\ (ticks + 1) * Increment = ticks * Increment + Increment
      /\ (ticks + 2) * Increment = ticks * Increment + Increment + Increment
      /\ (ticks + 1 + 1) * Increment = ticks * Increment + Increment + Increment
  BY <1>1, HalfIsPositive DEF Word, Value
<1>3. CASE Compare!Interrupt
  <2>1. /\ step = "tasks" /\ step' = "raise_low" /\ UNCHANGED <<compare, next, ticks>>
        /\ Value(compare) <= mtime
    BY <1>3 DEF Compare!Interrupt, Compare!Goes, Compare!Pending, Compare!Value, Value
  <2>2. CompareTypeOK' /\ WordsRead'
    BY <1>1, <2>1 DEF CompareInv, CompareTypeOK, WordsRead
  <2>3. TicksDue'
    BY <1>1, <2>1 DEF CompareInv, TicksDue, SetUp
  <2>4. QED
    BY <2>2, <2>3 DEF CompareInv
<1>4. CASE Compare!RaiseLow
  <2>1. /\ step = "raise_low" /\ step' = "store_high" /\ UNCHANGED <<next, ticks>>
        /\ compare' = [compare EXCEPT !.low = Half - 1]
    BY <1>4 DEF Compare!RaiseLow, Compare!Goes
  <2>2. compare' \in Word /\ compare'.low = Half - 1 /\ Value(compare) <= Value(compare')
    BY <1>1, <1>2, <2>1, HalfIsPositive DEF Word, Value
  <2>3. CompareTypeOK' /\ WordsRead'
    BY <1>1, <2>1, <2>2 DEF CompareInv, CompareTypeOK, WordsRead
  <2>4. /\ Value(next) = Value(compare) + Increment /\ Value(compare) <= mtime
        /\ begun + (ticks + 1) * Increment <= Value(compare)
        /\ begun + ticks * Increment <= mtime
    BY <2>1 DEF CompareInv, TicksDue
  <2>5. /\ begun + (ticks + 1) * Increment <= mtime
        /\ begun + (ticks + 2) * Increment <= Value(next)
        /\ Value(compare') + Increment >= Value(next)
    <3>1. Value(compare') \in Nat
      BY <1>2, <2>2, HalfIsPositive DEF Value, Word
    <3>2. QED
      BY <1>1, <1>2, <2>2, <2>4, <3>1, HalfIsPositive
  <2>6. TicksDue'
    BY <1>1, <2>1, <2>2, <2>4, <2>5 DEF TicksDue, SetUp
  <2>7. QED
    BY <2>3, <2>6 DEF CompareInv
<1>5. CASE Compare!StoreHigh
  <2>1. /\ step = "store_high" /\ step' = "store_low" /\ UNCHANGED <<next, ticks>>
        /\ compare' = [compare EXCEPT !.high = next.high]
    BY <1>5 DEF Compare!StoreHigh, Compare!Goes
  <2>2. compare' \in Word /\ compare'.low = compare.low /\ compare'.high = next'.high
    BY <1>1, <1>2, <2>1 DEF Word
  <2>3. CompareTypeOK' /\ WordsRead'
    BY <1>1, <2>1, <2>2 DEF CompareInv, CompareTypeOK, WordsRead
  <2>4. TicksDue'
    BY <1>1, <2>1, <2>2 DEF CompareInv, TicksDue, SetUp
  <2>5. QED
    BY <2>3, <2>4 DEF CompareInv
<1>6. CASE Compare!StoreLow
  <2>1. /\ step = "store_low" /\ step' = "tasks" /\ ticks' = ticks + 1
        /\ compare' = [compare EXCEPT !.low = next.low] /\ next' = Compare!Advanced(next)
    BY <1>6 DEF Compare!StoreLow, Compare!Goes
  <2>2. /\ compare.high = next.high /\ begun + (ticks + 1) * Increment <= mtime
        /\ begun + (ticks + 2) * Increment <= Value(next)
    BY <2>1 DEF CompareInv, TicksDue
  <2>3. compare' \in Word /\ Value(compare') = Value(next)
    BY <1>1, <1>2, <2>1, <2>2 DEF Word, Value
  <2>4. next' \in Word /\ Value(next') = Value(compare') + Increment
    BY <1>1, <2>1, <2>3, AdvancedByATick
  <2>5. CompareTypeOK' /\ WordsRead'
    BY <1>1, <2>1, <2>3, <2>4 DEF CompareInv, CompareTypeOK, WordsRead
  <2>6. begun + (ticks' + 1) * Increment <= Value(compare') /\ begun + ticks' * Increment <= mtime
    BY <1>2, <2>1, <2>2, <2>3
  <2>7. TicksDue'
    BY <1>1, <2>1, <2>4, <2>6 DEF TicksDue, SetUp
  <2>8. QED
    BY <2>5, <2>7 DEF CompareInv
<1>7. QED
  BY <1>3, <1>4, <1>5, <1>6

LEMMA StepKeepsCompare ==
  ASSUME Compare!TimerCompareAssumption, CompareInv, [Compare!CompareNext]_compareVars
  PROVE  CompareInv'
<1>1. CASE UNCHANGED compareVars
  BY <1>1 DEF compareVars, CompareInv, CompareTypeOK, WordsRead, TicksDue, Value, Word
<1>2. QED
  BY <1>1, TockKeepsCompare, ReadKeepsCompare, ReadAgainKeepsCompare, SetKeepsCompare,
     InterruptKeepsCompare DEF Compare!CompareNext

(* Ticks keep their period, and no half-written value is due too early.    *)
LEMMA CompareInvImplies ==
  ASSUME Compare!TimerCompareAssumption, CompareInv
  PROVE  Compare!TicksKeepPeriod /\ Compare!NoTickFromHalfValue
<1>1. \A w : Compare!Value(w) = Value(w)
  BY DEF Compare!Value, Value
<1>2. /\ next.high \in Nat /\ compare.high \in Nat /\ next.low \in 0 .. Half - 1
      /\ compare.low \in 0 .. Half - 1
  BY DEF CompareInv, CompareTypeOK, Word
<1>3. step = "store_low" => Value(compare) >= Value(next)
  <2>1. step = "store_low" => compare.low = Half - 1 /\ compare.high = next.high
    BY DEF CompareInv, TicksDue
  <2>2. next.high * Half \in Nat
    BY <1>2, HalfIsPositive
  <2>3. QED
    BY <1>2, <2>1, <2>2, HalfIsPositive DEF Value
<1>4. QED
  BY <1>1, <1>3 DEF CompareInv, TicksDue, Compare!TicksKeepPeriod, Compare!NoTickFromHalfValue

-----------------------------------------------------------------------------
(* The MPU wrappers, version 2: the pool of kernel objects.                *)

Slot == 1 .. Slots
NoObject == "invalid"

(* What a call has yet to do.                                              *)
Done == <<>>
ToMake == <<"make", "store_handle", "store_type">>
ToStore == <<"store_handle", "store_type">>
ToType == <<"store_type">>
ToFree == <<"free">>
ToDelete == <<"delete">>
FreeThenDelete == <<"free", "delete">>
DeleteThenFree == <<"delete", "free">>
ToCall == <<"call">>

Todo == {Done, ToMake, ToStore, ToType, ToFree, ToDelete, FreeThenDelete, DeleteThenFree, ToCall}
Holding == {ToMake, ToStore, ToType, ToFree, FreeThenDelete, DeleteThenFree}
Owning == {ToStore, ToType, ToDelete, FreeThenDelete, DeleteThenFree}

WrappersTyped ==
  /\ pool \in [Slot -> [handle : Block \cup {Nil, Reserved}, type : Types \cup {NoObject}]]
  /\ kernel \in [Block -> Types \cup {NoObject}]
  /\ given \in [Slot -> Block \cup {Nil, Gone}]
  /\ call = [t \in Caller |-> call[t]]
  /\ \A t \in Caller :
       call[t] \in [todo : Todo, slot : Slot \cup {0}, object : Block \cup {Nil},
                    type : Types \cup {NoObject}, args : {call[t].args}]

(* A slot is free, or the application has its index, or a deleted timer    *)
(* has left it behind, or it is in the hands of one call.                  *)
SlotOK(s) ==
  /\ given[s] \in Block =>
       /\ kernel[given[s]] \in Types
       /\ pool[s].handle = given[s] /\ pool[s].type = kernel[given[s]]
  /\ given[s] = Gone => pool[s].handle # Nil /\ pool[s].type = "timer"
  /\ given[s] = Nil /\ pool[s].handle # Nil =>
       \E t \in Caller : call[t].todo \in Holding /\ call[t].slot = s
  /\ pool[s].handle = Nil => pool[s].type = NoObject

(* A call that has yet to use its slot or its object finds it as it left   *)
(* it, and the objects that a call is about to use are those it looked up. *)
CallOK(t) ==
  /\ call[t].todo \in Holding =>
       call[t].slot \in Slot /\ given[call[t].slot] = Nil /\ pool[call[t].slot].handle # Nil
  /\ call[t].todo \in {ToMake, ToStore, ToType} =>
       call[t].type \in Types /\ pool[call[t].slot].type = NoObject
  /\ call[t].todo \in Owning =>
       call[t].object \in Block /\ call[t].type \in Types /\ kernel[call[t].object] = call[t].type
  /\ call[t].todo \in {ToType, FreeThenDelete, DeleteThenFree} =>
       pool[call[t].slot].handle = call[t].object
  /\ call[t].todo = FreeThenDelete => call[t].type = "task"
  /\ call[t].todo \in {DeleteThenFree, ToFree} => pool[call[t].slot].type # "task"
  /\ call[t].todo = DeleteThenFree => call[t].type # "task"
  /\ \A i \in DOMAIN call[t].args : LET a == call[t].args[i] IN
       /\ a.slot \in Slot /\ a.object \in Block
       /\ kernel[a.object] = a.type /\ a.type \in Types /\ given[a.slot] = a.object

(* Nothing is in two hands.                                                *)
Exclusive ==
  /\ \A s, u \in Slot : given[s] \in Block /\ given[s] = given[u] => s = u
  /\ \A t, u \in Caller :
       call[t].todo \in Holding /\ call[u].todo \in Holding /\ call[t].slot = call[u].slot => t = u
  /\ \A t, u \in Caller :
       call[t].todo \in Owning /\ call[u].todo \in Owning /\ call[t].object = call[u].object => t = u
  /\ \A t \in Caller, s \in Slot : call[t].todo \in Owning => given[s] # call[t].object

WrappersInv ==
  /\ WrappersTyped /\ Exclusive
  /\ \A s \in Slot : SlotOK(s)
  /\ \A t \in Caller : CallOK(t)

LEMMA TodoApart ==
  /\ Done \notin Holding \cup Owning /\ ToCall \notin Holding \cup Owning
  /\ ToMake \notin Owning /\ ToFree \notin Owning /\ ToDelete \notin Holding
  /\ ToStore # ToMake /\ ToType # ToMake /\ ToFree # ToMake /\ ToDelete # ToMake
  /\ FreeThenDelete # ToMake /\ DeleteThenFree # ToMake
  /\ ToType # ToStore /\ ToFree # ToStore /\ ToDelete # ToStore
  /\ FreeThenDelete # ToStore /\ DeleteThenFree # ToStore
  /\ ToFree # ToType /\ ToDelete # ToType /\ FreeThenDelete # ToType /\ DeleteThenFree # ToType
  /\ ToDelete # ToFree /\ FreeThenDelete # ToFree /\ DeleteThenFree # ToFree
  /\ FreeThenDelete # ToDelete /\ DeleteThenFree # ToDelete /\ FreeThenDelete # DeleteThenFree
  /\ \A x \in Todo : x \in Holding \cup Owning \cup {Done, ToCall}
  BY DEF Todo, Holding, Owning, Done, ToMake, ToStore, ToType, ToFree, ToDelete, FreeThenDelete,
     DeleteThenFree, ToCall

LEMMA TodoHeads ==
  /\ ToMake # Done /\ Head(ToMake) = "make" /\ Len(ToMake) # 1 /\ Tail(ToMake) = ToStore
  /\ ToStore # Done /\ Head(ToStore) = "store_handle" /\ Len(ToStore) # 1 /\ Tail(ToStore) = ToType
  /\ ToType # Done /\ Head(ToType) = "store_type" /\ Len(ToType) = 1
  /\ ToFree # Done /\ Head(ToFree) = "free" /\ Len(ToFree) = 1
  /\ ToDelete # Done /\ Head(ToDelete) = "delete" /\ Len(ToDelete) = 1
  /\ ToCall # Done /\ Head(ToCall) = "call" /\ Len(ToCall) = 1
  /\ FreeThenDelete # Done /\ Head(FreeThenDelete) = "free" /\ Len(FreeThenDelete) # 1
  /\ Tail(FreeThenDelete) = ToDelete
  /\ DeleteThenFree # Done /\ Head(DeleteThenFree) = "delete" /\ Len(DeleteThenFree) # 1
  /\ Tail(DeleteThenFree) = ToFree
<1>1. ToMake # Done /\ Head(ToMake) = "make" /\ Len(ToMake) = 3
  BY DEF ToMake, Done
<1>2. Tail(ToMake) = ToStore
  BY DEF ToMake, ToStore
<1>3. ToStore # Done /\ Head(ToStore) = "store_handle" /\ Len(ToStore) = 2
  BY DEF ToStore, Done
<1>4. Tail(ToStore) = ToType
  BY DEF ToStore, ToType
<1>5. ToType # Done /\ Head(ToType) = "store_type" /\ Len(ToType) = 1
  BY DEF ToType, Done
<1>6. ToFree # Done /\ Head(ToFree) = "free" /\ Len(ToFree) = 1
  BY DEF ToFree, Done
<1>7. ToDelete # Done /\ Head(ToDelete) = "delete" /\ Len(ToDelete) = 1
  BY DEF ToDelete, Done
<1>8. ToCall # Done /\ Head(ToCall) = "call" /\ Len(ToCall) = 1
  BY DEF ToCall, Done
<1>9. FreeThenDelete # Done /\ Head(FreeThenDelete) = "free" /\ Len(FreeThenDelete) = 2
  BY DEF FreeThenDelete, Done
<1>10. DeleteThenFree # Done /\ Head(DeleteThenFree) = "delete" /\ Len(DeleteThenFree) = 2
  BY DEF DeleteThenFree, Done
<1>11. Tail(FreeThenDelete) = ToDelete /\ Tail(DeleteThenFree) = ToFree
  BY DEF FreeThenDelete, DeleteThenFree, ToDelete, ToFree
<1>12. QED
  BY <1>1, <1>2, <1>3, <1>4, <1>5, <1>6, <1>7, <1>8, <1>9, <1>10, <1>11

(* The step a call is at, and what is left after it.                       *)
LEMMA StepOf ==
  ASSUME WrappersTyped, NEW t \in Caller
  PROVE  /\ Wrappers!Busy(t) <=> call[t].todo # Done
         /\ Wrappers!Step(t, "make") => call[t].todo = ToMake
         /\ Wrappers!Step(t, "store_handle") => call[t].todo = ToStore
         /\ Wrappers!Step(t, "store_type") => call[t].todo = ToType
         /\ Wrappers!Step(t, "call") => call[t].todo = ToCall
         /\ Wrappers!Step(t, "delete") => call[t].todo \in {ToDelete, DeleteThenFree}
         /\ Wrappers!Step(t, "free") => call[t].todo \in {ToFree, FreeThenDelete}
<1>1. call[t].todo \in Todo
  BY DEF WrappersTyped
<1>2. Wrappers!Busy(t) <=> call[t].todo # Done
  BY DEF Wrappers!Busy, Done
<1>3. \A name : Wrappers!Step(t, name) <=> call[t].todo # Done /\ Head(call[t].todo) = name
  BY <1>2 DEF Wrappers!Step
<1>4. QED
  BY <1>1, <1>2, <1>3, TodoHeads DEF Todo

LEMMA ContinueOf ==
  ASSUME WrappersTyped, NEW t \in Caller
  PROVE  /\ call[t].todo \in {ToType, ToCall, ToFree, ToDelete} => Wrappers!Continue(t) = Wrappers!Idle
         /\ call[t].todo = ToMake => Wrappers!Continue(t) = [call[t] EXCEPT !.todo = ToStore]
         /\ call[t].todo = ToStore => Wrappers!Continue(t) = [call[t] EXCEPT !.todo = ToType]
         /\ call[t].todo = DeleteThenFree => Wrappers!Continue(t) = [call[t] EXCEPT !.todo = ToFree]
         /\ call[t].todo = FreeThenDelete => Wrappers!Continue(t) = [call[t] EXCEPT !.todo = ToDelete]
<1>1. Wrappers!Continue(t) = IF Len(call[t].todo) = 1 THEN Wrappers!Idle
                                  ELSE [call[t] EXCEPT !.todo = Tail(call[t].todo)]
  BY DEF Wrappers!Continue
<1>2. QED
  BY <1>1, TodoHeads

LEMMA NatOrder ==
  \A x, y \in Nat : <<x, y>> \in OpToRel(<, Nat) <=> x < y
BY Zenon DEF OpToRel

LEMMA LeastNatural ==
  ASSUME NEW T \in SUBSET Nat, T # {}
  PROVE  \E w \in T : \A x \in T : w <= x
<1>1. \E w \in T : \A x \in T : ~ (<<x, w>> \in OpToRel(<, Nat))
  BY NatLessThanWellFounded, WFMin, Zenon
<1>2. \E w \in T : \A x \in T : ~ (x < w)
  BY <1>1, NatOrder, Zenon
<1>3. QED
  BY <1>2

(* The first slot of some.                                                 *)
LEMMA FirstOfSlots ==
  ASSUME Slots \in Nat, NEW S, S \subseteq Slot
  PROVE  /\ S = {} => Wrappers!FirstSlot(S) = 0
         /\ S # {} => Wrappers!FirstSlot(S) \in S /\ \A s \in S : Wrappers!FirstSlot(S) <= s
<1>1. CASE S = {}
  BY <1>1 DEF Wrappers!FirstSlot, Wrappers!NoSlot
<1>2. CASE S # {}
  <2>1. \E s \in S : \A r \in S : s <= r
    <3>1. S \in SUBSET Nat
      BY DEF Slot
    <3>2. QED
      BY <1>2, <3>1, LeastNatural
  <2>2. Wrappers!FirstSlot(S) = CHOOSE s \in S : \A r \in S : s <= r
    BY <1>2 DEF Wrappers!FirstSlot, Wrappers!Min
  <2>3. QED
    BY <1>2, <2>1, <2>2
<1>3. QED
  BY <1>1, <1>2

LEMMA NamesApart ==
  ASSUME Wrappers!KernelObjectsAssumption
  PROVE  /\ Slots \in Nat \ {0} /\ 0 \notin Slot
         /\ Nil \notin Block /\ Reserved \notin Block /\ Gone \notin Block
         /\ Nil # Reserved /\ Nil # Gone
         /\ NoObject \notin Types /\ Wrappers!Slot = Slot /\ Wrappers!Invalid = NoObject
         /\ Wrappers!Task = "task" /\ Wrappers!Timer = "timer"
         /\ Types \subseteq {"task", "queue", "stream_buffer", "event_group", "timer"}
  BY DEF Wrappers!KernelObjectsAssumption, Slot, Wrappers!Slot, NoObject, Wrappers!Invalid,
     Wrappers!Task, Wrappers!Queue, Wrappers!StreamBuffer, Wrappers!EventGroup, Wrappers!Timer

LEMMA NoArgs == DOMAIN <<>> = {}
  OBVIOUS

LEMMA IdleCall ==
  Wrappers!Idle = [todo |-> Done, slot |-> 0, object |-> Nil, type |-> NoObject, args |-> <<>>]
  BY DEF Wrappers!Idle, Done, Wrappers!NoSlot, NoObject, Wrappers!Invalid

LEMMA OneCallChanges ==
  ASSUME WrappersTyped, NEW t \in Caller, NEW c, call' = [call EXCEPT ![t] = c]
  PROVE  /\ call'[t] = c /\ call' = [u \in Caller |-> call'[u]]
         /\ \A u \in Caller \ {t} : call'[u] = call[u]
<1>1. call = [u \in Caller |-> call[u]]
  BY DEF WrappersTyped
<1>2. QED
  BY <1>1

LEMMA BeginOf ==
  ASSUME WrappersTyped, NEW t \in Caller, NEW type, NEW s, NEW object, NEW todo,
         Wrappers!Begins(t, type, s, object, todo)
  PROVE  /\ call'[t] \in [todo : {todo}, slot : {s}, object : {object}, type : {type}, args : {<<>>}]
         /\ call'[t].todo = todo /\ call'[t].slot = s /\ call'[t].object = object
         /\ call'[t].type = type /\ call'[t].args = <<>>
         /\ call' = [u \in Caller |-> call'[u]]
         /\ \A u \in Caller \ {t} : call'[u] = call[u]
<1> DEFINE c == [Wrappers!Idle EXCEPT !.todo = todo, !.slot = s, !.object = object, !.type = type]
<1>1. call' = [call EXCEPT ![t] = c]
  BY DEF Wrappers!Begins
<1>2. c \in [todo : {todo}, slot : {s}, object : {object}, type : {type}, args : {<<>>}]
  BY IdleCall
<1> HIDE DEF c
<1>3. /\ c.todo = todo /\ c.slot = s /\ c.object = object /\ c.type = type /\ c.args = <<>>
  BY <1>2
<1>4. QED
  BY <1>1, <1>2, <1>3, OneCallChanges

(* A slot that is free is in no hands.                                     *)
LEMMA FreeSlotUnused ==
  ASSUME Wrappers!KernelObjectsAssumption, WrappersInv, Wrappers!FreeIndex # 0
  PROVE  /\ Wrappers!FreeIndex \in Slot
         /\ pool[Wrappers!FreeIndex].handle = Nil /\ pool[Wrappers!FreeIndex].type = NoObject
         /\ given[Wrappers!FreeIndex] = Nil
         /\ \A u \in Caller : call[u].todo \in Holding => call[u].slot # Wrappers!FreeIndex
<1> DEFINE free == {s \in Slot : pool[s].handle = Nil}
           first == Wrappers!FreeIndex
<1>1. first = Wrappers!FirstSlot(free)
  BY NamesApart DEF Wrappers!FreeIndex
<1>2. first \in free
  BY <1>1, FirstOfSlots, NamesApart
<1>3. first \in Slot /\ pool[first].handle = Nil
  BY <1>2
<1> HIDE DEF first
<1>4. pool[first].type = NoObject /\ given[first] = Nil
  <2>1. SlotOK(first) /\ given[first] \in Block \cup {Nil, Gone}
    BY <1>3 DEF WrappersInv, WrappersTyped
  <2>2. QED
    BY <1>3, <2>1, NamesApart DEF SlotOK
<1>5. \A u \in Caller : call[u].todo \in Holding => call[u].slot # first
  BY <1>3 DEF WrappersInv, CallOK
<1>6. QED
  BY <1>3, <1>4, <1>5 DEF first

(* A step changes one call, one slot and one object at most: what is said  *)
(* of the others stays true, if they have nothing to do with these.        *)
ChangesOnly(t, s, b) ==
  /\ \A u \in Caller \ {t} : call'[u] = call[u]
  /\ \A r \in Slot \ {s} : pool'[r] = pool[r] /\ given'[r] = given[r]
  /\ \A x \in Block \ {b} : kernel'[x] = kernel[x]
  /\ call[t].todo \in Holding => call[t].slot = s
  /\ b \in Block =>
       /\ \A r \in Slot \ {s} : given[r] # b
       /\ \A u \in Caller \ {t} : call[u].todo \in Owning => call[u].object # b
       /\ \A u \in Caller \ {t} : \A i \in DOMAIN call[u].args : call[u].args[i].object # b
  /\ \A u \in Caller \ {t} : call[u].todo \in Holding => call[u].slot # s
  /\ given'[s] = given[s] \/
       \A u \in Caller \ {t} : \A i \in DOMAIN call[u].args : call[u].args[i].slot # s

LEMMA OthersStayOK ==
  ASSUME WrappersInv, NEW t \in Caller, NEW s, NEW b, ChangesOnly(t, s, b)
  PROVE  (\A r \in Slot \ {s} : SlotOK(r)') /\ (\A u \in Caller \ {t} : CallOK(u)')
<1>1. ASSUME NEW r \in Slot \ {s} PROVE SlotOK(r)'
  <2>1. SlotOK(r) /\ pool'[r] = pool[r] /\ given'[r] = given[r]
        /\ (given[r] \in Block => kernel'[given[r]] = kernel[given[r]])
    BY DEF WrappersInv, ChangesOnly
  <2>2. (\E u \in Caller : call[u].todo \in Holding /\ call[u].slot = r)
          => \E u \in Caller : call'[u].todo \in Holding /\ call'[u].slot = r
    BY DEF ChangesOnly
  <2>3. QED
    BY <2>1, <2>2 DEF SlotOK
<1>2. ASSUME NEW u \in Caller \ {t} PROVE CallOK(u)'
  <2>1. CallOK(u) /\ call'[u] = call[u]
    BY DEF WrappersInv, ChangesOnly
  <2>2. call[u].todo \in Holding =>
          pool'[call[u].slot] = pool[call[u].slot] /\ given'[call[u].slot] = given[call[u].slot]
    BY <2>1 DEF CallOK, ChangesOnly
  <2>3. call[u].todo \in Owning => kernel'[call[u].object] = kernel[call[u].object]
    BY <2>1 DEF CallOK, ChangesOnly
  <2>4. \A i \in DOMAIN call[u].args : LET a == call[u].args[i] IN
          kernel'[a.object] = kernel[a.object] /\ given'[a.slot] = given[a.slot]
    BY <2>1 DEF CallOK, ChangesOnly
  <2>5. QED
    BY <2>1, <2>2, <2>3, <2>4 DEF CallOK, Holding
<1>3. QED
  BY <1>1, <1>2

LEMMA CreateKeepsWrappers ==
  ASSUME Wrappers!KernelObjectsAssumption, WrappersInv, NEW t \in Caller,
         NEW f \in DOMAIN Wrappers!Makers, Wrappers!Create(t, f)
  PROVE  WrappersInv'
<1>1. PICK s \in Slot, type \in Types :
      /\ s = Wrappers!FreeIndex /\ type = Wrappers!Makers[f]
      /\ pool[s].handle = Nil /\ pool[s].type = NoObject
      /\ given[s] = Nil /\ \A u \in Caller : call[u].todo \in Holding => call[u].slot # s
  BY FreeSlotUnused DEF Wrappers!Create, Wrappers!NoSlot
<1>2. /\ pool' = [pool EXCEPT ![s].handle = Reserved] /\ kernel' = kernel /\ given' = given
      /\ Wrappers!Begins(t, type, s, Nil, ToMake)
  BY <1>1 DEF Wrappers!Create, ToMake
<1>3. WrappersTyped
  BY DEF WrappersInv
<1>4. /\ call'[t] \in [todo : {ToMake}, slot : {s}, object : {Nil}, type : {type}, args : {<<>>}]
      /\ call'[t].todo = ToMake /\ call'[t].slot = s /\ call'[t].object = Nil
      /\ call'[t].type = type /\ call'[t].args = <<>>
      /\ call' = [u \in Caller |-> call'[u]]
      /\ \A u \in Caller \ {t} : call'[u] = call[u]
  BY <1>2, <1>3, BeginOf
<1>5. /\ pool'[s].handle = Reserved /\ pool'[s].type = NoObject
      /\ \A r \in Slot \ {s} : pool'[r] = pool[r]
      /\ pool' \in [Slot -> [handle : Block \cup {Nil, Reserved}, type : Types \cup {NoObject}]]
  BY <1>1, <1>2, <1>3 DEF WrappersTyped
<1>6. /\ ToMake \in Todo /\ ToMake \in Holding /\ ToMake \notin Owning
      /\ call[t].todo \notin Holding
  BY <1>3, StepOf, TodoApart DEF Todo, Holding, Wrappers!Create
<1>7. WrappersTyped'
  BY <1>1, <1>2, <1>3, <1>4, <1>5, <1>6 DEF WrappersTyped
<1>8. Exclusive'
  BY <1>1, <1>2, <1>4, <1>6 DEF WrappersInv, Exclusive
<1>9. (\A r \in Slot \ {s} : SlotOK(r)') /\ (\A u \in Caller \ {t} : CallOK(u)')
  <2>1. ChangesOnly(t, s, Nil)
    BY <1>1, <1>2, <1>4, <1>5, <1>6, NamesApart DEF ChangesOnly
  <2>2. QED
    BY <2>1, OthersStayOK
<1>10. SlotOK(s)'
  BY <1>1, <1>2, <1>4, <1>5, <1>6, NamesApart DEF SlotOK
<1>11. CallOK(t)'
  BY <1>1, <1>2, <1>4, <1>5, <1>6, NamesApart, NoArgs, TodoApart DEF CallOK
<1>12. QED
  BY <1>1, <1>7, <1>8, <1>9, <1>10, <1>11 DEF WrappersInv

LEMMA MakeKeepsWrappers ==
  ASSUME Wrappers!KernelObjectsAssumption, WrappersInv, NEW t \in Caller, Wrappers!Make(t)
  PROVE  WrappersInv'
<1>1. WrappersTyped /\ call[t].todo = ToMake /\ pool' = pool /\ given' = given
  BY StepOf DEF WrappersInv, Wrappers!Make
<1>3. PICK s \in Slot, type \in Types :
      /\ s = call[t].slot /\ type = call[t].type
      /\ given[s] = Nil /\ pool[s].handle # Nil /\ pool[s].type = NoObject
      /\ CallOK(t) /\ SlotOK(s)
  BY <1>1 DEF WrappersInv, CallOK, Holding
<1>2. PICK b \in Block :
        /\ kernel[b] = NoObject /\ kernel' = [kernel EXCEPT ![b] = type]
        /\ call' = [call EXCEPT ![t] = [Wrappers!Continue(t) EXCEPT !.object = b]]
  BY <1>3, NamesApart DEF Wrappers!Make
<1>4. Wrappers!Continue(t) = [call[t] EXCEPT !.todo = ToStore]
  BY <1>1, ContinueOf
<1>5. /\ call'[t] \in [todo : {ToStore}, slot : {s}, object : {b}, type : {type}, args : {call[t].args}]
      /\ call'[t].todo = ToStore /\ call'[t].slot = s /\ call'[t].object = b
      /\ call'[t].type = type /\ call'[t].args = call[t].args
      /\ call' = [u \in Caller |-> call'[u]]
      /\ \A u \in Caller \ {t} : call'[u] = call[u]
  <2> DEFINE c == [Wrappers!Continue(t) EXCEPT !.object = b]
  <2>1. call[t] \in [todo : {ToMake}, slot : {s}, object : Block \cup {Nil}, type : {type},
                     args : {call[t].args}]
    BY <1>1, <1>3 DEF WrappersTyped
  <2>2. c \in [todo : {ToStore}, slot : {s}, object : {b}, type : {type}, args : {call[t].args}]
    BY <1>4, <2>1
  <2> HIDE DEF c
  <2>3. /\ c.todo = ToStore /\ c.slot = s /\ c.object = b /\ c.type = type /\ c.args = call[t].args
    BY <2>2
  <2>4. call' = [call EXCEPT ![t] = c]
    BY <1>2 DEF c
  <2>5. QED
    BY <1>1, <2>2, <2>3, <2>4, OneCallChanges
<1>6. ToStore \in Todo /\ ToStore \in Holding /\ ToStore \in Owning /\ ToMake \in Holding
  BY DEF Todo, Holding, Owning
<1>7. kernel'[b] = type /\ \A x \in Block \ {b} : kernel'[x] = kernel[x]
  BY <1>1, <1>2 DEF WrappersTyped
<1>8. /\ \A r \in Slot : given[r] # b
      /\ \A u \in Caller : call[u].todo \in Owning => call[u].object # b
      /\ \A u \in Caller : \A i \in DOMAIN call[u].args : call[u].args[i].object # b
  BY <1>2, NamesApart DEF WrappersInv, SlotOK, CallOK
<1>9. \A u \in Caller \ {t} : call[u].todo \in Holding => call[u].slot # s
  BY <1>1, <1>3, <1>6 DEF WrappersInv, Exclusive
<1>10. WrappersTyped'
  BY <1>1, <1>2, <1>3, <1>5, <1>6 DEF WrappersTyped
<1>11. Exclusive'
  BY <1>1, <1>3, <1>5, <1>6, <1>8, <1>9 DEF WrappersInv, Exclusive
<1>12. (\A r \in Slot \ {s} : SlotOK(r)') /\ (\A u \in Caller \ {t} : CallOK(u)')
  <2>1. ChangesOnly(t, s, b)
    BY <1>1, <1>3, <1>5, <1>7, <1>8, <1>9 DEF ChangesOnly
  <2>2. QED
    BY <2>1, OthersStayOK
<1>13. SlotOK(s)'
  BY <1>1, <1>3, <1>5, <1>6, NamesApart DEF SlotOK
<1>14. CallOK(t)'
  BY <1>1, <1>3, <1>5, <1>6, <1>7, <1>8, TodoApart DEF CallOK
<1>15. QED
  BY <1>3, <1>10, <1>11, <1>12, <1>13, <1>14 DEF WrappersInv

(* A call goes on to its next step, ...                                    *)
LEMMA GoesOn ==
  ASSUME WrappersTyped, NEW t \in Caller, NEW y,
         call' = [call EXCEPT ![t] = [call[t] EXCEPT !.todo = y]]
  PROVE  /\ call'[t] \in [todo : {y}, slot : {call[t].slot}, object : {call[t].object},
                          type : {call[t].type}, args : {call[t].args}]
         /\ call'[t].todo = y /\ call'[t].slot = call[t].slot /\ call'[t].object = call[t].object
         /\ call'[t].type = call[t].type /\ call'[t].args = call[t].args
         /\ call' = [u \in Caller |-> call'[u]]
         /\ \A u \in Caller \ {t} : call'[u] = call[u]
<1> DEFINE c == [call[t] EXCEPT !.todo = y]
<1>1. call[t] \in [todo : Todo, slot : {call[t].slot}, object : {call[t].object},
                   type : {call[t].type}, args : {call[t].args}]
  BY DEF WrappersTyped
<1>2. c \in [todo : {y}, slot : {call[t].slot}, object : {call[t].object},
             type : {call[t].type}, args : {call[t].args}]
  BY <1>1
<1>3. call' = [call EXCEPT ![t] = c]
  OBVIOUS
<1> HIDE DEF c
<1>4. /\ c.todo = y /\ c.slot = call[t].slot /\ c.object = call[t].object
      /\ c.type = call[t].type /\ c.args = call[t].args
  BY <1>2
<1>5. QED
  BY <1>2, <1>3, <1>4, OneCallChanges

(* ... or ends.                                                            *)
LEMMA CallEnds ==
  ASSUME WrappersTyped, NEW t \in Caller, call' = [call EXCEPT ![t] = Wrappers!Idle]
  PROVE  /\ call'[t] \in [todo : {Done}, slot : {0}, object : {Nil}, type : {NoObject}, args : {<<>>}]
         /\ call'[t].todo = Done /\ call'[t].args = <<>>
         /\ call' = [u \in Caller |-> call'[u]]
         /\ \A u \in Caller \ {t} : call'[u] = call[u]
<1>1. /\ call'[t] = [todo |-> Done, slot |-> 0, object |-> Nil, type |-> NoObject, args |-> <<>>]
      /\ call' = [u \in Caller |-> call'[u]]
      /\ \A u \in Caller \ {t} : call'[u] = call[u]
  BY IdleCall, OneCallChanges
<1>2. QED
  BY <1>1

(* Nothing is said of a call that is over.                                 *)
LEMMA NothingToDo ==
  ASSUME NEW t \in Caller, call'[t].todo = Done, call'[t].args = <<>>
  PROVE  CallOK(t)'
<1>1. call'[t].todo \notin Holding /\ call'[t].todo \notin Owning
  BY TodoApart
<1>2. call'[t].todo \notin {ToMake, ToStore, ToType, FreeThenDelete, DeleteThenFree, ToFree}
  BY <1>1 DEF Holding
<1>3. DOMAIN call'[t].args = {}
  BY NoArgs
<1>4. QED
  BY <1>1, <1>2, <1>3 DEF CallOK

LEMMA MakeFailsKeepsWrappers ==
  ASSUME Wrappers!KernelObjectsAssumption, WrappersInv, NEW t \in Caller, Wrappers!MakeFails(t)
  PROVE  WrappersInv'
<1>1. /\ WrappersTyped /\ call[t].todo = ToMake /\ pool' = pool /\ given' = given /\ kernel' = kernel
      /\ call' = [call EXCEPT ![t] = [call[t] EXCEPT !.todo = ToFree]]
  <2>1. call' = [call EXCEPT ![t].todo = ToFree]
    BY DEF Wrappers!MakeFails, ToFree
  <2>2. QED
    BY <2>1, StepOf DEF WrappersInv, Wrappers!MakeFails
<1>2. PICK s \in Slot :
      /\ s = call[t].slot /\ given[s] = Nil /\ pool[s].handle # Nil /\ pool[s].type = NoObject
      /\ CallOK(t) /\ SlotOK(s)
  BY <1>1 DEF WrappersInv, CallOK, Holding
<1>3. /\ call'[t] \in [todo : {ToFree}, slot : {call[t].slot}, object : {call[t].object},
                       type : {call[t].type}, args : {call[t].args}]
      /\ call'[t].todo = ToFree /\ call'[t].slot = s /\ call'[t].args = call[t].args
      /\ call' = [u \in Caller |-> call'[u]]
      /\ \A u \in Caller \ {t} : call'[u] = call[u]
  BY <1>1, <1>2, GoesOn
<1>4. ToFree \in Todo /\ ToFree \in Holding /\ ToFree \notin Owning /\ ToMake \in Holding
  BY TodoApart DEF Todo, Holding
<1>5. \A u \in Caller \ {t} : call[u].todo \in Holding => call[u].slot # s
  BY <1>1, <1>2, <1>4 DEF WrappersInv, Exclusive
<1>6. WrappersTyped'
  BY <1>1, <1>3, <1>4 DEF WrappersTyped
<1>7. Exclusive'
  BY <1>1, <1>2, <1>3, <1>4, <1>5 DEF WrappersInv, Exclusive
<1>8. ChangesOnly(t, s, Nil)
  BY <1>1, <1>2, <1>3, <1>5, NamesApart DEF ChangesOnly
<1>9. SlotOK(s)'
  BY <1>1, <1>2, <1>3, <1>4, NamesApart DEF SlotOK
<1>10. CallOK(t)'
  BY <1>1, <1>2, <1>3, <1>4, TodoApart, NamesApart DEF CallOK, NoObject
<1>11. QED
  BY <1>6, <1>7, <1>8, <1>9, <1>10, OthersStayOK DEF WrappersInv

LEMMA StoreHandleKeepsWrappers ==
  ASSUME Wrappers!KernelObjectsAssumption, WrappersInv, NEW t \in Caller, Wrappers!StoreHandle(t)
  PROVE  WrappersInv'
<1>1. /\ WrappersTyped /\ call[t].todo = ToStore /\ given' = given /\ kernel' = kernel
      /\ pool' = [pool EXCEPT ![call[t].slot].handle = call[t].object]
      /\ call' = [call EXCEPT ![t] = [call[t] EXCEPT !.todo = ToType]]
  BY StepOf, ContinueOf DEF WrappersInv, Wrappers!StoreHandle, Wrappers!Continues
<1>2. PICK s \in Slot, b \in Block :
      /\ s = call[t].slot /\ b = call[t].object
      /\ given[s] = Nil /\ pool[s].handle # Nil /\ pool[s].type = NoObject
      /\ CallOK(t) /\ SlotOK(s)
  BY <1>1 DEF WrappersInv, CallOK, Holding, Owning
<1>3. /\ call'[t] \in [todo : {ToType}, slot : {call[t].slot}, object : {call[t].object},
                       type : {call[t].type}, args : {call[t].args}]
      /\ call'[t].todo = ToType /\ call'[t].slot = s /\ call'[t].object = b
      /\ call'[t].type = call[t].type /\ call'[t].args = call[t].args
      /\ call' = [u \in Caller |-> call'[u]]
      /\ \A u \in Caller \ {t} : call'[u] = call[u]
  BY <1>1, <1>2, GoesOn
<1>4. /\ pool'[s].handle = b /\ pool'[s].type = NoObject
      /\ \A r \in Slot \ {s} : pool'[r] = pool[r]
      /\ pool' \in [Slot -> [handle : Block \cup {Nil, Reserved}, type : Types \cup {NoObject}]]
  BY <1>1, <1>2 DEF WrappersTyped
<1>5. /\ ToType \in Todo /\ ToType \in Holding /\ ToType \in Owning
      /\ ToStore \in Holding /\ ToStore \in Owning
  BY DEF Todo, Holding, Owning
<1>6. \A u \in Caller \ {t} : call[u].todo \in Holding => call[u].slot # s
  BY <1>1, <1>2, <1>5 DEF WrappersInv, Exclusive
<1>7. WrappersTyped'
  BY <1>1, <1>3, <1>4, <1>5 DEF WrappersTyped
<1>8. Exclusive'
  BY <1>1, <1>2, <1>3, <1>5, <1>6 DEF WrappersInv, Exclusive
<1>9. ChangesOnly(t, s, Nil)
  BY <1>1, <1>2, <1>3, <1>4, <1>6, NamesApart DEF ChangesOnly
<1>10. SlotOK(s)'
  BY <1>1, <1>2, <1>3, <1>4, <1>5, NamesApart DEF SlotOK
<1>11. CallOK(t)'
  BY <1>1, <1>2, <1>3, <1>4, <1>5, TodoApart, NamesApart DEF CallOK
<1>12. QED
  BY <1>7, <1>8, <1>9, <1>10, <1>11, OthersStayOK DEF WrappersInv

LEMMA StoreTypeKeepsWrappers ==
  ASSUME Wrappers!KernelObjectsAssumption, WrappersInv, NEW t \in Caller, Wrappers!StoreType(t)
  PROVE  WrappersInv'
<1>1. /\ WrappersTyped /\ call[t].todo = ToType /\ kernel' = kernel
      /\ pool' = [pool EXCEPT ![call[t].slot].type = call[t].type]
      /\ given' = [given EXCEPT ![call[t].slot] = call[t].object]
      /\ call' = [call EXCEPT ![t] = Wrappers!Idle]
  BY StepOf, ContinueOf DEF WrappersInv, Wrappers!StoreType, Wrappers!Continues
<1>2. PICK s \in Slot, b \in Block, type \in Types :
      /\ s = call[t].slot /\ b = call[t].object /\ type = call[t].type
      /\ given[s] = Nil /\ pool[s].handle = b /\ pool[s].type = NoObject /\ kernel[b] = type
      /\ CallOK(t) /\ SlotOK(s)
  BY <1>1 DEF WrappersInv, CallOK, Holding, Owning
<1>3. /\ call'[t] \in [todo : {Done}, slot : {0}, object : {Nil}, type : {NoObject}, args : {<<>>}]
      /\ call'[t].todo = Done /\ call'[t].args = <<>>
      /\ call' = [u \in Caller |-> call'[u]]
      /\ \A u \in Caller \ {t} : call'[u] = call[u]
  BY <1>1, CallEnds
<1>4. /\ pool'[s].handle = b /\ pool'[s].type = type /\ given'[s] = b
      /\ \A r \in Slot \ {s} : pool'[r] = pool[r] /\ given'[r] = given[r]
      /\ pool' \in [Slot -> [handle : Block \cup {Nil, Reserved}, type : Types \cup {NoObject}]]
      /\ given' \in [Slot -> Block \cup {Nil, Gone}]
  BY <1>1, <1>2 DEF WrappersTyped
<1>5. /\ Done \in Todo /\ Done \notin Holding /\ Done \notin Owning
      /\ ToType \in Holding /\ ToType \in Owning
  BY TodoApart DEF Todo, Holding, Owning
<1>6. /\ \A u \in Caller \ {t} : call[u].todo \in Holding => call[u].slot # s
      /\ \A u \in Caller \ {t} : call[u].todo \in Owning => call[u].object # b
      /\ \A r \in Slot : given[r] # b
      /\ \A u \in Caller : \A i \in DOMAIN call[u].args : call[u].args[i].slot # s
  <2>1. \A u \in Caller : \A i \in DOMAIN call[u].args : call[u].args[i].slot # s
    BY <1>2, NamesApart DEF WrappersInv, CallOK
  <2>2. QED
    BY <1>1, <1>2, <1>5, <2>1 DEF WrappersInv, Exclusive
<1>7. WrappersTyped'
  BY <1>1, <1>3, <1>4, <1>5 DEF WrappersTyped
<1>8. Exclusive'
  BY <1>1, <1>2, <1>3, <1>4, <1>5, <1>6 DEF WrappersInv, Exclusive
<1>9. ChangesOnly(t, s, Nil)
  BY <1>1, <1>2, <1>3, <1>4, <1>6, NamesApart DEF ChangesOnly
<1>10. SlotOK(s)'
  BY <1>1, <1>2, <1>4, NamesApart DEF SlotOK
<1>11. CallOK(t)'
  BY <1>3, NothingToDo
<1>12. QED
  BY <1>7, <1>8, <1>9, <1>10, <1>11, OthersStayOK DEF WrappersInv

LEMMA CallKeepsWrappers ==
  ASSUME Wrappers!KernelObjectsAssumption, WrappersInv, NEW t \in Caller, Wrappers!Call(t)
  PROVE  WrappersInv'
<1>1. /\ WrappersTyped /\ call[t].todo = ToCall /\ kernel' = kernel /\ pool' = pool /\ given' = given
      /\ call' = [call EXCEPT ![t] = Wrappers!Idle]
  BY StepOf, ContinueOf DEF WrappersInv, Wrappers!Call, Wrappers!Continues
<1>2. /\ call'[t] \in [todo : {Done}, slot : {0}, object : {Nil}, type : {NoObject}, args : {<<>>}]
      /\ call'[t].todo = Done /\ call'[t].args = <<>>
      /\ call' = [u \in Caller |-> call'[u]]
      /\ \A u \in Caller \ {t} : call'[u] = call[u]
  BY <1>1, CallEnds
<1>3. /\ Done \in Todo /\ Done \notin Holding /\ Done \notin Owning
      /\ ToCall \notin Holding /\ ToCall \notin Owning
  BY TodoApart DEF Todo
<1>4. WrappersTyped'
  BY <1>1, <1>2, <1>3 DEF WrappersTyped
<1>5. Exclusive'
  BY <1>1, <1>2, <1>3 DEF WrappersInv, Exclusive
<1>6. 0 \notin Slot
  BY NamesApart
<1>7. ChangesOnly(t, 0, Nil)
  BY <1>1, <1>2, <1>3, <1>6, NamesApart DEF ChangesOnly, WrappersInv, CallOK
<1>8. CallOK(t)'
  BY <1>2, NothingToDo
<1>9. QED
  BY <1>4, <1>5, <1>6, <1>7, <1>8, OthersStayOK DEF WrappersInv

LEMMA UseKeepsWrappers ==
  ASSUME Wrappers!KernelObjectsAssumption, WrappersInv, NEW t \in Caller,
         NEW w, NEW s \in [1 .. Len(w.takes) -> Slot], Wrappers!Use(t, w, s)
  PROVE  WrappersInv'
<1> DEFINE args == [i \in DOMAIN s |-> [slot |-> s[i], object |-> Wrappers!HandleAtIndex(s[i], w.takes[i]),
                                        type |-> w.takes[i]]]
<1>1. /\ WrappersTyped /\ call[t].todo = Done /\ kernel' = kernel /\ pool' = pool /\ given' = given
      /\ call' = [call EXCEPT ![t] = [Wrappers!Idle EXCEPT !.todo = ToCall, !.args = args]]
      /\ \A i \in DOMAIN s : Wrappers!Known(s[i]) /\ Wrappers!HandleAtIndex(s[i], w.takes[i]) # Nil
  BY StepOf DEF WrappersInv, Wrappers!Use, ToCall
<1>2. \A i \in DOMAIN s : LET a == args[i] IN
        /\ a.slot \in Slot /\ a.object \in Block /\ kernel[a.object] = a.type /\ a.type \in Types
        /\ given[a.slot] = a.object
  <2> SUFFICES ASSUME NEW i \in DOMAIN s
               PROVE  LET a == args[i] IN
                      /\ a.slot \in Slot /\ a.object \in Block /\ kernel[a.object] = a.type
                      /\ a.type \in Types /\ given[a.slot] = a.object
    OBVIOUS
  <2>1. s[i] \in Slot /\ given[s[i]] \in Block
    BY <1>1 DEF Wrappers!Known
  <2>2. SlotOK(s[i])
    BY <2>1 DEF WrappersInv
  <2>3. pool[s[i]].type = w.takes[i] /\ Wrappers!HandleAtIndex(s[i], w.takes[i]) = pool[s[i]].handle
    BY <1>1 DEF Wrappers!HandleAtIndex
  <2>4. args[i] = [slot |-> s[i], object |-> pool[s[i]].handle, type |-> w.takes[i]]
    BY <2>3
  <2> HIDE DEF args
  <2>5. QED
    BY <2>1, <2>2, <2>3, <2>4 DEF SlotOK
<1>3. DOMAIN args = DOMAIN s
  OBVIOUS
<1> HIDE DEF args
<1>4. /\ call'[t] \in [todo : {ToCall}, slot : {0}, object : {Nil}, type : {NoObject}, args : {args}]
      /\ call'[t].todo = ToCall /\ call'[t].args = args
      /\ call' = [u \in Caller |-> call'[u]]
      /\ \A u \in Caller \ {t} : call'[u] = call[u]
  <2> DEFINE c == [Wrappers!Idle EXCEPT !.todo = ToCall, !.args = args]
  <2>1. c \in [todo : {ToCall}, slot : {0}, object : {Nil}, type : {NoObject}, args : {args}]
    BY IdleCall
  <2>2. call' = [call EXCEPT ![t] = c]
    BY <1>1
  <2> HIDE DEF c
  <2>3. c.todo = ToCall /\ c.args = args
    BY <2>1
  <2>4. QED
    BY <1>1, <2>1, <2>2, <2>3, OneCallChanges
<1>5. /\ ToCall \in Todo /\ Done \notin Holding /\ Done \notin Owning
      /\ ToCall \notin Holding /\ ToCall \notin Owning
  BY TodoApart DEF Todo
<1>6. WrappersTyped'
  BY <1>1, <1>4, <1>5 DEF WrappersTyped
<1>7. Exclusive'
  BY <1>1, <1>4, <1>5 DEF WrappersInv, Exclusive
<1>8. 0 \notin Slot
  BY NamesApart
<1>9. ChangesOnly(t, 0, Nil)
  BY <1>1, <1>4, <1>5, <1>8, NamesApart DEF ChangesOnly, WrappersInv, CallOK
<1>10. CallOK(t)'
  <2>1. \A i \in DOMAIN call'[t].args : LET a == call'[t].args[i] IN
          /\ a.slot \in Slot /\ a.object \in Block
          /\ kernel'[a.object] = a.type /\ a.type \in Types /\ given'[a.slot] = a.object
    BY <1>1, <1>2, <1>3, <1>4
  <2>2. call'[t].todo \notin {ToMake, ToStore, ToType, FreeThenDelete, DeleteThenFree, ToFree}
    BY <1>4, <1>5 DEF Holding
  <2>3. QED
    BY <1>4, <1>5, <2>1, <2>2 DEF CallOK
<1>11. QED
  BY <1>6, <1>7, <1>8, <1>9, <1>10, OthersStayOK DEF WrappersInv

(* The application gives up the index of an object: what is left of it is  *)
(* in the hands of the call that deletes it.                               *)
LEMMA GivenUp ==
  ASSUME Wrappers!KernelObjectsAssumption, WrappersInv, NEW t \in Caller, NEW s \in Slot,
         NEW b \in Block, NEW todo, given[s] = b, ~ Wrappers!InUse(s), ~ Wrappers!Busy(t),
         \/ todo = FreeThenDelete /\ kernel[b] = "task"
         \/ todo = DeleteThenFree /\ kernel[b] \notin {"task", "timer"}
         \/ todo = ToDelete /\ kernel[b] = "timer",
         Wrappers!Begins(t, kernel[b], s, b, todo), pool' = pool, kernel' = kernel,
         given' = [given EXCEPT ![s] = IF kernel[b] = "timer" THEN Gone ELSE Nil]
  PROVE  WrappersInv'
<1>1. WrappersTyped /\ call[t].todo = Done /\ SlotOK(s)
  BY StepOf DEF WrappersInv
<1>2. PICK type \in Types :
        type = kernel[b] /\ pool[s].handle = b /\ pool[s].type = type
  BY <1>1 DEF SlotOK
<1>3. /\ call'[t] \in [todo : {todo}, slot : {s}, object : {b}, type : {type}, args : {<<>>}]
      /\ call'[t].todo = todo /\ call'[t].slot = s /\ call'[t].object = b
      /\ call'[t].type = type /\ call'[t].args = <<>>
      /\ call' = [u \in Caller |-> call'[u]]
      /\ \A u \in Caller \ {t} : call'[u] = call[u]
  BY <1>1, <1>2, BeginOf
<1>4. /\ todo \in Todo /\ todo \in Owning /\ todo \in {FreeThenDelete, DeleteThenFree, ToDelete}
      /\ type # "timer" => todo \in Holding
      /\ todo \in Holding => type # "timer"
      /\ Done \notin Holding /\ Done \notin Owning
  BY <1>2, TodoApart DEF Todo, Holding, Owning
<1>5. /\ given'[s] \in {Nil, Gone} /\ (type = "timer" <=> given'[s] = Gone)
      /\ (type # "timer" <=> given'[s] = Nil)
      /\ \A r \in Slot \ {s} : given'[r] = given[r]
      /\ given' \in [Slot -> Block \cup {Nil, Gone}]
  BY <1>1, <1>2, NamesApart DEF WrappersTyped
<1>6. /\ \A u \in Caller : call[u].todo \in Holding => call[u].slot # s
      /\ \A u \in Caller : call[u].todo \in Owning => call[u].object # b
      /\ \A u \in Caller : \A i \in DOMAIN call[u].args : call[u].args[i].slot # s
      /\ \A r \in Slot \ {s} : given[r] # b
  <2>1. \A u \in Caller : call[u].todo \in Holding => call[u].slot # s
    BY NamesApart DEF WrappersInv, CallOK
  <2>2. \A u \in Caller : \A i \in DOMAIN call[u].args : call[u].args[i].slot # s
    BY DEF Wrappers!InUse, Wrappers!ToSet
  <2>3. QED
    BY <2>1, <2>2 DEF WrappersInv, Exclusive
<1>7. WrappersTyped'
  BY <1>1, <1>3, <1>4, <1>5 DEF WrappersTyped
<1>8. Exclusive'
  <2>1. given'[s] \notin Block /\ \A r \in Slot : given'[r] \in Block => r # s /\ given'[r] = given[r]
    BY <1>5, NamesApart
  <2>2. \A r, u \in Slot : given'[r] \in Block /\ given'[r] = given'[u] => r = u
    BY <2>1 DEF WrappersInv, Exclusive
  <2>3. \A u, v \in Caller : call'[u].todo \in Holding /\ call'[v].todo \in Holding
                            /\ call'[u].slot = call'[v].slot => u = v
    BY <1>3, <1>6 DEF WrappersInv, Exclusive
  <2>4. \A u, v \in Caller : call'[u].todo \in Owning /\ call'[v].todo \in Owning
                            /\ call'[u].object = call'[v].object => u = v
    BY <1>3, <1>6 DEF WrappersInv, Exclusive
  <2>5. \A u \in Caller, r \in Slot : call'[u].todo \in Owning => given'[r] # call'[u].object
    <3>1. \A u \in Caller : call'[u].todo \in Owning => call'[u].object \in Block
      BY <1>3 DEF WrappersInv, CallOK
    <3>2. \A u \in Caller, r \in Slot \ {s} : call'[u].todo \in Owning => given[r] # call'[u].object
      BY <1>3, <1>6 DEF WrappersInv, Exclusive
    <3>3. QED
      BY <2>1, <3>1, <3>2
  <2>6. QED
    BY <2>2, <2>3, <2>4, <2>5 DEF Exclusive
<1>9. ChangesOnly(t, s, Nil)
  BY <1>1, <1>3, <1>4, <1>5, <1>6, NamesApart DEF ChangesOnly
<1>10. SlotOK(s)'
  BY <1>1, <1>2, <1>3, <1>4, <1>5, NamesApart DEF SlotOK
<1>11. CallOK(t)'
  <2>1. call'[t].todo \notin {ToMake, ToStore, ToType, ToFree}
    BY <1>3, <1>4, TodoApart
  <2>2. DOMAIN call'[t].args = {}
    BY <1>3, NoArgs
  <2>3. /\ call'[t].todo = FreeThenDelete => type = "task"
        /\ call'[t].todo = DeleteThenFree => type # "task"
    BY <1>2, <1>3, TodoApart
  <2>4. QED
    BY <1>1, <1>2, <1>3, <1>4, <1>5, <2>1, <2>2, <2>3, NamesApart DEF CallOK
<1>12. QED
  BY <1>7, <1>8, <1>9, <1>10, <1>11, OthersStayOK DEF WrappersInv

LEMMA DeleteKeepsWrappers ==
  ASSUME Wrappers!KernelObjectsAssumption, WrappersInv, NEW t \in Caller, NEW s \in Slot,
         Wrappers!Delete(t, s)
  PROVE  WrappersInv'
<1>1. PICK b \in Block : b = given[s]
  BY DEF Wrappers!Delete, Wrappers!Known
<1>2. kernel[b] \in Types /\ pool[s].handle = b /\ pool[s].type = kernel[b]
  BY <1>1 DEF WrappersInv, SlotOK
<1>3. PICK todo : todo = Wrappers!Deletion(kernel[b])
  OBVIOUS
<1>4. kernel[b] \in {"task", "queue", "stream_buffer", "event_group", "timer"}
  BY <1>2, NamesApart
<1>5. \/ todo = FreeThenDelete /\ kernel[b] = "task"
      \/ todo = DeleteThenFree /\ kernel[b] \notin {"task", "timer"}
      \/ todo = ToDelete /\ kernel[b] = "timer"
  BY <1>3, <1>4 DEF Wrappers!Deletion, Wrappers!Task, Wrappers!Queue, Wrappers!StreamBuffer,
     Wrappers!EventGroup, Wrappers!Timer, Wrappers!TaskDeletion, Wrappers!QueueDeletion,
     Wrappers!GroupDeletion, Wrappers!StreamDeletion, Wrappers!TimerDeletion,
     FreeThenDelete, DeleteThenFree, ToDelete
<1>6. /\ ~ Wrappers!Busy(t) /\ ~ Wrappers!InUse(s) /\ pool' = pool /\ kernel' = kernel
      /\ Wrappers!Begins(t, kernel[b], s, b, todo)
      /\ given' = [given EXCEPT ![s] = IF kernel[b] = "timer" THEN Gone ELSE Nil]
  BY <1>1, <1>2, <1>3 DEF Wrappers!Delete, Wrappers!HandleAtIndex, Wrappers!Timer
<1>7. QED
  BY <1>1, <1>5, <1>6, GivenUp

LEMMA DeleteSelfKeepsWrappers ==
  ASSUME Wrappers!KernelObjectsAssumption, ~ Eager, WrappersInv, NEW t \in Caller,
         NEW b \in Block, Wrappers!DeleteSelf(t, b)
  PROVE  WrappersInv'
<1>1. PICK s : s = Wrappers!IndexForHandle(b, Wrappers!Task)
  OBVIOUS
<1>2. /\ s # 0 /\ given[s] = b /\ ~ Wrappers!InUse(s) /\ ~ Wrappers!Busy(t) /\ kernel[b] = "task"
      /\ Wrappers!Begins(t, kernel[b], s, b, FreeThenDelete)
      /\ given' = [u \in Slot |-> IF u = s THEN Nil ELSE given[u]]
      /\ pool' = pool /\ kernel' = kernel
  BY <1>1, NamesApart DEF Wrappers!DeleteSelf, Wrappers!NoSlot, Wrappers!Task, Wrappers!TaskDeletion,
     FreeThenDelete
<1>3. s \in Slot
  <2> DEFINE found == {r \in Slot : pool[r] = [handle |-> b, type |-> Wrappers!Task]}
  <2>1. s = Wrappers!FirstSlot(found)
    BY <1>1, NamesApart DEF Wrappers!IndexForHandle
  <2>2. found \subseteq Slot
    OBVIOUS
  <2> HIDE DEF found
  <2>3. QED
    BY <1>2, <2>1, <2>2, FirstOfSlots, NamesApart
<1>4. given' = [given EXCEPT ![s] = IF kernel[b] = "timer" THEN Gone ELSE Nil]
  BY <1>2, <1>3 DEF WrappersInv, WrappersTyped
<1>5. QED
  BY <1>2, <1>3, <1>4, GivenUp

LEMMA DeleteObjectKeepsWrappers ==
  ASSUME Wrappers!KernelObjectsAssumption, WrappersInv, NEW t \in Caller, Wrappers!DeleteObject(t)
  PROVE  WrappersInv'
<1>1. /\ WrappersTyped /\ call[t].todo \in {ToDelete, DeleteThenFree} /\ pool' = pool
      /\ given' = given /\ kernel' = [kernel EXCEPT ![call[t].object] = NoObject]
      /\ call' = [call EXCEPT ![t] = Wrappers!Continue(t)]
  BY StepOf, NamesApart DEF WrappersInv, Wrappers!DeleteObject, Wrappers!Continues
<1>2. /\ ToDelete \in Owning /\ DeleteThenFree \in Owning /\ DeleteThenFree \in Holding
      /\ ToDelete \notin Holding /\ ToFree \in Todo /\ ToFree \in Holding /\ ToFree \notin Owning
      /\ Done \in Todo /\ Done \notin Holding /\ Done \notin Owning
  BY TodoApart DEF Todo, Holding, Owning
<1>3. PICK b \in Block : b = call[t].object /\ CallOK(t)
  BY <1>1, <1>2 DEF WrappersInv, CallOK
<1>4. /\ kernel'[b] = NoObject /\ \A x \in Block \ {b} : kernel'[x] = kernel[x]
      /\ kernel' \in [Block -> Types \cup {NoObject}]
  BY <1>1, <1>3 DEF WrappersTyped
<1>5. /\ \A r \in Slot : given[r] # b
      /\ \A u \in Caller \ {t} : call[u].todo \in Owning => call[u].object # b
      /\ \A u \in Caller : \A i \in DOMAIN call[u].args : call[u].args[i].object # b
  <2>1. \A r \in Slot : given[r] # b
    BY <1>1, <1>2, <1>3 DEF WrappersInv, Exclusive
  <2>2. \A u \in Caller \ {t} : call[u].todo \in Owning => call[u].object # b
    BY <1>1, <1>2, <1>3 DEF WrappersInv, Exclusive
  <2>3. \A u \in Caller : \A i \in DOMAIN call[u].args : call[u].args[i].object # b
    BY <2>1 DEF WrappersInv, CallOK
  <2>4. QED
    BY <2>1, <2>2, <2>3
<1>6. CASE call[t].todo = ToDelete
  <2>1. call' = [call EXCEPT ![t] = Wrappers!Idle]
    BY <1>1, <1>6, ContinueOf
  <2>2. /\ call'[t] \in [todo : {Done}, slot : {0}, object : {Nil}, type : {NoObject}, args : {<<>>}]
        /\ call'[t].todo = Done /\ call'[t].args = <<>>
        /\ call' = [u \in Caller |-> call'[u]]
        /\ \A u \in Caller \ {t} : call'[u] = call[u]
    BY <1>1, <2>1, CallEnds
  <2>3. WrappersTyped'
    BY <1>1, <1>2, <1>4, <2>2 DEF WrappersTyped
  <2>4. Exclusive'
    BY <1>1, <1>2, <2>2 DEF WrappersInv, Exclusive
  <2>5. \A u \in Caller \ {t} : call[u].todo \in Holding => call[u].slot # 0
    BY NamesApart DEF WrappersInv, CallOK
  <2>6. ChangesOnly(t, 0, b)
    BY <1>1, <1>2, <1>4, <1>5, <1>6, <2>2, <2>5 DEF ChangesOnly
  <2>7. (\A r \in Slot : SlotOK(r)') /\ (\A u \in Caller \ {t} : CallOK(u)')
    BY <2>6, OthersStayOK, NamesApart
  <2>8. CallOK(t)'
    BY <2>2, NothingToDo
  <2>9. QED
    BY <2>3, <2>4, <2>7, <2>8 DEF WrappersInv
<1>7. CASE call[t].todo = DeleteThenFree
  <2>1. call' = [call EXCEPT ![t] = [call[t] EXCEPT !.todo = ToFree]]
    BY <1>1, <1>7, ContinueOf
  <2>2. PICK s \in Slot :
          /\ s = call[t].slot /\ given[s] = Nil /\ pool[s].handle # Nil
          /\ pool[s].type # "task" /\ SlotOK(s)
    BY <1>2, <1>3, <1>7 DEF WrappersInv, CallOK
  <2>3. /\ call'[t] \in [todo : {ToFree}, slot : {call[t].slot}, object : {call[t].object},
                         type : {call[t].type}, args : {call[t].args}]
        /\ call'[t].todo = ToFree /\ call'[t].slot = s /\ call'[t].args = call[t].args
        /\ call' = [u \in Caller |-> call'[u]]
        /\ \A u \in Caller \ {t} : call'[u] = call[u]
    <3>1. /\ call'[t] \in [todo : {ToFree}, slot : {call[t].slot}, object : {call[t].object},
                           type : {call[t].type}, args : {call[t].args}]
          /\ call'[t].todo = ToFree /\ call'[t].slot = call[t].slot
          /\ call'[t].args = call[t].args
          /\ call' = [u \in Caller |-> call'[u]]
          /\ \A u \in Caller \ {t} : call'[u] = call[u]
      BY <1>1, <2>1, GoesOn
    <3>2. call'[t].slot = s
      BY <2>2, <3>1
    <3>3. QED
      BY <3>1, <3>2
  <2>4. WrappersTyped'
    BY <1>1, <1>2, <1>4, <2>3 DEF WrappersTyped
  <2>5. \A u \in Caller \ {t} : call[u].todo \in Holding => call[u].slot # s
    BY <1>2, <1>7, <2>2 DEF WrappersInv, Exclusive
  <2>6. Exclusive'
    BY <1>1, <1>2, <2>2, <2>3, <2>5 DEF WrappersInv, Exclusive
  <2>7. ChangesOnly(t, s, b)
    BY <1>1, <1>4, <1>5, <2>2, <2>3, <2>5 DEF ChangesOnly
  <2>8. (\A r \in Slot \ {s} : SlotOK(r)') /\ (\A u \in Caller \ {t} : CallOK(u)')
    BY <2>7, OthersStayOK
  <2>9. SlotOK(s)'
    BY <1>1, <1>2, <2>2, <2>3, NamesApart DEF SlotOK
  <2>10. CallOK(t)'
    <3>1. \A i \in DOMAIN call'[t].args : LET a == call'[t].args[i] IN
            /\ a.slot \in Slot /\ a.object \in Block
            /\ kernel'[a.object] = a.type /\ a.type \in Types /\ given'[a.slot] = a.object
      BY <1>1, <1>3, <1>4, <1>5, <2>3 DEF CallOK
    <3>2. call'[t].todo \notin {ToMake, ToStore, ToType, FreeThenDelete, DeleteThenFree}
      BY <2>3, TodoApart
    <3>3. QED
      BY <1>1, <1>2, <2>2, <2>3, <3>1, <3>2 DEF CallOK
  <2>11. QED
    BY <2>4, <2>6, <2>8, <2>9, <2>10 DEF WrappersInv
<1>8. QED
  BY <1>1, <1>6, <1>7

LEMMA SetIndexFreeKeepsWrappers ==
  ASSUME Wrappers!KernelObjectsAssumption, WrappersInv, NEW t \in Caller, Wrappers!SetIndexFree(t)
  PROVE  WrappersInv'
<1>1. /\ WrappersTyped /\ call[t].todo \in {ToFree, FreeThenDelete} /\ kernel' = kernel
      /\ given' = given /\ pool' = [pool EXCEPT ![call[t].slot] = Wrappers!FreeSlot]
      /\ call' = [call EXCEPT ![t] = Wrappers!Continue(t)]
  BY StepOf DEF WrappersInv, Wrappers!SetIndexFree, Wrappers!Continues
<1>2. /\ ToFree \in Holding /\ FreeThenDelete \in Holding /\ FreeThenDelete \in Owning
      /\ ToDelete \in Todo /\ ToDelete \in Owning /\ ToDelete \notin Holding
      /\ Done \in Todo /\ Done \notin Holding /\ Done \notin Owning
  BY TodoApart DEF Todo, Holding, Owning
<1>3. PICK s \in Slot : s = call[t].slot /\ given[s] = Nil /\ CallOK(t) /\ SlotOK(s)
  BY <1>1, <1>2 DEF WrappersInv, CallOK
<1>4. /\ pool'[s].handle = Nil /\ pool'[s].type = NoObject
      /\ \A r \in Slot \ {s} : pool'[r] = pool[r]
      /\ pool' \in [Slot -> [handle : Block \cup {Nil, Reserved}, type : Types \cup {NoObject}]]
  <2>1. Wrappers!FreeSlot \in [handle : {Nil}, type : {NoObject}]
    BY NamesApart DEF Wrappers!FreeSlot
  <2> HIDE DEF Wrappers!FreeSlot
  <2>2. pool'[s] = Wrappers!FreeSlot /\ \A r \in Slot \ {s} : pool'[r] = pool[r]
    BY <1>1, <1>3 DEF WrappersTyped
  <2>3. QED
    BY <1>1, <1>3, <2>1, <2>2 DEF WrappersTyped
<1>5. \A u \in Caller \ {t} : call[u].todo \in Holding => call[u].slot # s
  BY <1>1, <1>2, <1>3 DEF WrappersInv, Exclusive
<1>6. CASE call[t].todo = ToFree
  <2>1. call' = [call EXCEPT ![t] = Wrappers!Idle]
    BY <1>1, <1>6, ContinueOf
  <2>2. /\ call'[t] \in [todo : {Done}, slot : {0}, object : {Nil}, type : {NoObject}, args : {<<>>}]
        /\ call'[t].todo = Done /\ call'[t].args = <<>>
        /\ call' = [u \in Caller |-> call'[u]]
        /\ \A u \in Caller \ {t} : call'[u] = call[u]
    BY <1>1, <2>1, CallEnds
  <2>3. WrappersTyped'
    BY <1>1, <1>2, <1>4, <2>2 DEF WrappersTyped
  <2>4. Exclusive'
    BY <1>1, <1>2, <2>2 DEF WrappersInv, Exclusive
  <2>5. ChangesOnly(t, s, Nil)
    BY <1>1, <1>3, <1>4, <1>5, <2>2, NamesApart DEF ChangesOnly
  <2>6. SlotOK(s)'
    BY <1>1, <1>3, <1>4, NamesApart DEF SlotOK
  <2>7. CallOK(t)'
    BY <2>2, NothingToDo
  <2>8. QED
    BY <2>3, <2>4, <2>5, <2>6, <2>7, OthersStayOK DEF WrappersInv
<1>7. CASE call[t].todo = FreeThenDelete
  <2>1. call' = [call EXCEPT ![t] = [call[t] EXCEPT !.todo = ToDelete]]
    BY <1>1, <1>7, ContinueOf
  <2>2. PICK b \in Block, type \in Types : b = call[t].object /\ type = call[t].type /\ kernel[b] = type
    BY <1>2, <1>3, <1>7 DEF CallOK
  <2>3. /\ call'[t] \in [todo : {ToDelete}, slot : {call[t].slot}, object : {call[t].object},
                         type : {call[t].type}, args : {call[t].args}]
        /\ call'[t].todo = ToDelete /\ call'[t].object = b /\ call'[t].type = type
        /\ call'[t].args = call[t].args
        /\ call' = [u \in Caller |-> call'[u]]
        /\ \A u \in Caller \ {t} : call'[u] = call[u]
    BY <1>1, <2>1, <2>2, GoesOn
  <2>4. WrappersTyped'
    BY <1>1, <1>2, <1>4, <2>3 DEF WrappersTyped
  <2>5. Exclusive'
    BY <1>1, <1>2, <1>7, <2>2, <2>3 DEF WrappersInv, Exclusive
  <2>6. ChangesOnly(t, s, Nil)
    BY <1>1, <1>3, <1>4, <1>5, <2>3, NamesApart DEF ChangesOnly
  <2>7. SlotOK(s)'
    BY <1>1, <1>3, <1>4, NamesApart DEF SlotOK
  <2>8. CallOK(t)'
    <3>1. \A i \in DOMAIN call'[t].args : LET a == call'[t].args[i] IN
            /\ a.slot \in Slot /\ a.object \in Block
            /\ kernel'[a.object] = a.type /\ a.type \in Types /\ given'[a.slot] = a.object
      BY <1>1, <1>3, <2>3 DEF CallOK
    <3>2. call'[t].todo \notin {ToMake, ToStore, ToType, FreeThenDelete, DeleteThenFree, ToFree}
      BY <2>3, TodoApart
    <3>3. QED
      BY <1>1, <1>2, <2>2, <2>3, <3>1, <3>2 DEF CallOK
  <2>9. QED
    BY <2>4, <2>5, <2>6, <2>7, <2>8, OthersStayOK DEF WrappersInv
<1>8. QED
  BY <1>1, <1>6, <1>7

LEMMA WrappersStart ==
  ASSUME Wrappers!KernelObjectsAssumption, Wrappers!Init
  PROVE  WrappersInv
<1>1. /\ pool = [s \in Slot |-> Wrappers!FreeSlot] /\ kernel = [b \in Block |-> NoObject]
      /\ given = [s \in Slot |-> Nil] /\ call = [t \in Caller |-> Wrappers!Idle]
  BY NamesApart DEF Wrappers!Init
<1>2. /\ Wrappers!FreeSlot \in [handle : {Nil}, type : {NoObject}]
      /\ Wrappers!Idle \in [todo : {Done}, slot : {0}, object : {Nil}, type : {NoObject}, args : {<<>>}]
  BY NamesApart, IdleCall DEF Wrappers!FreeSlot
<1> HIDE DEF Wrappers!FreeSlot, Wrappers!Idle
<1>3. \A t \in Caller :
        /\ call[t] \in [todo : {Done}, slot : {0}, object : {Nil}, type : {NoObject}, args : {<<>>}]
        /\ call[t].todo = Done /\ call[t].args = <<>>
  BY <1>1, <1>2
<1>4. \A s \in Slot : /\ pool[s] \in [handle : {Nil}, type : {NoObject}] /\ given[s] = Nil
                      /\ pool[s].handle = Nil /\ pool[s].type = NoObject
  BY <1>1, <1>2
<1>5. Done \in Todo /\ Done \notin Holding /\ Done \notin Owning /\ DOMAIN <<>> = {}
      /\ Done \notin {ToMake, ToStore, ToType, FreeThenDelete, DeleteThenFree, ToFree}
  BY TodoApart, NoArgs DEF Todo, Holding
<1>6. WrappersTyped
  <2>1. /\ pool \in [Slot -> [handle : Block \cup {Nil, Reserved}, type : Types \cup {NoObject}]]
        /\ kernel \in [Block -> Types \cup {NoObject}] /\ given \in [Slot -> Block \cup {Nil, Gone}]
    BY <1>1, <1>2
  <2>2. call = [t \in Caller |-> call[t]]
    BY <1>1
  <2>3. ASSUME NEW t \in Caller
        PROVE  call[t] \in [todo : Todo, slot : Slot \cup {0}, object : Block \cup {Nil},
                            type : Types \cup {NoObject}, args : {call[t].args}]
    BY <1>3, <1>5
  <2>4. QED
    BY <2>1, <2>2, <2>3 DEF WrappersTyped
<1>7. Exclusive
  BY <1>3, <1>4, <1>5, NamesApart DEF Exclusive
<1>8. \A s \in Slot : SlotOK(s)
  BY <1>4, NamesApart DEF SlotOK
<1>9. \A t \in Caller : CallOK(t)
  BY <1>3, <1>5 DEF CallOK
<1>10. QED
  BY <1>6, <1>7, <1>8, <1>9 DEF WrappersInv

LEMMA StepKeepsWrappers ==
  ASSUME Wrappers!KernelObjectsAssumption, ~ Eager, WrappersInv, Wrappers!Next
  PROVE  WrappersInv'
<1>1. PICK t \in Caller :
  \/ \E f \in DOMAIN Wrappers!Makers : Wrappers!Create(t, f)
  \/ Wrappers!Make(t) \/ Wrappers!MakeFails(t) \/ Wrappers!StoreHandle(t) \/ Wrappers!StoreType(t)
  \/ \E w \in Wrappers!Conversions : \E s \in [1..Len(w.takes) -> Slot] : Wrappers!Use(t, w, s)
  \/ Wrappers!Call(t)
  \/ \E s \in Slot : Wrappers!Delete(t, s)
  \/ \E b \in Block : Wrappers!DeleteSelf(t, b)
  \/ Wrappers!DeleteObject(t) \/ Wrappers!SetIndexFree(t)
  BY NamesApart DEF Wrappers!Next
<1>2. CASE \E f \in DOMAIN Wrappers!Makers : Wrappers!Create(t, f)
  BY <1>2, CreateKeepsWrappers
<1>3. CASE Wrappers!Make(t) \/ Wrappers!MakeFails(t)
  BY <1>3, MakeKeepsWrappers, MakeFailsKeepsWrappers
<1>4. CASE Wrappers!StoreHandle(t) \/ Wrappers!StoreType(t)
  BY <1>4, StoreHandleKeepsWrappers, StoreTypeKeepsWrappers
<1>5. CASE \E w \in Wrappers!Conversions : \E s \in [1..Len(w.takes) -> Slot] : Wrappers!Use(t, w, s)
  BY <1>5, UseKeepsWrappers
<1>6. CASE Wrappers!Call(t)
  BY <1>6, CallKeepsWrappers
<1>7. CASE \E s \in Slot : Wrappers!Delete(t, s)
  BY <1>7, DeleteKeepsWrappers
<1>8. CASE \E b \in Block : Wrappers!DeleteSelf(t, b)
  BY <1>8, DeleteSelfKeepsWrappers
<1>9. CASE Wrappers!DeleteObject(t) \/ Wrappers!SetIndexFree(t)
  BY <1>9, DeleteObjectKeepsWrappers, SetIndexFreeKeepsWrappers
<1>10. QED
  BY <1>1, <1>2, <1>3, <1>4, <1>5, <1>6, <1>7, <1>8, <1>9

LEMMA WrappersCount ==
  ASSUME NEW S
  PROVE  Wrappers!Cardinality(S) = Cardinality(S)
  BY Zenon DEF Wrappers!Cardinality, Cardinality

(* The calls that have yet to use a slot are those the model says hold it. *)
LEMMA HoldsSlot ==
  ASSUME WrappersTyped, NEW t \in Caller, NEW s
  PROVE  Wrappers!Holds(t, s) <=> call[t].todo \in Holding /\ call[t].slot = s
<1> DEFINE names == {"store_handle", "store_type", "free"}
           Names(q) == Wrappers!ToSet(q)
<1>1. \A q : Names(q) = {q[i] : i \in DOMAIN q}
  BY DEF Wrappers!ToSet
<1>2. /\ Names(Done) \cap names = {} /\ Names(ToDelete) \cap names = {} /\ Names(ToCall) \cap names = {}
  <2>1. DOMAIN Done = {} /\ DOMAIN ToDelete = {1} /\ DOMAIN ToCall = {1}
        /\ ToDelete[1] = "delete" /\ ToCall[1] = "call"
    BY DEF Done, ToDelete, ToCall
  <2>2. QED
    BY <1>1, <2>1
<1>3. /\ "store_type" \in Names(ToMake) /\ "store_type" \in Names(ToStore) /\ "store_type" \in Names(ToType)
      /\ "free" \in Names(ToFree) /\ "free" \in Names(FreeThenDelete) /\ "free" \in Names(DeleteThenFree)
  <2>1. /\ 3 \in DOMAIN ToMake /\ ToMake[3] = "store_type" /\ 2 \in DOMAIN ToStore /\ ToStore[2] = "store_type"
        /\ 1 \in DOMAIN ToType /\ ToType[1] = "store_type"
    BY DEF ToMake, ToStore, ToType
  <2>2. /\ 1 \in DOMAIN ToFree /\ ToFree[1] = "free" /\ 1 \in DOMAIN FreeThenDelete /\ FreeThenDelete[1] = "free"
        /\ 2 \in DOMAIN DeleteThenFree /\ DeleteThenFree[2] = "free"
    BY DEF ToFree, FreeThenDelete, DeleteThenFree
  <2>3. QED
    BY <1>1, <2>1, <2>2
<1> HIDE DEF Names
<1>4. call[t].todo \in Todo
  BY DEF WrappersTyped
<1>5. Names(call[t].todo) \cap names # {} <=> call[t].todo \in Holding
  BY <1>2, <1>3, <1>4, TodoApart DEF Todo, Holding
<1>6. Wrappers!Holds(t, s) <=> call[t].slot = s /\ Names(call[t].todo) \cap names # {}
  BY DEF Wrappers!Holds, Names
<1>7. QED
  BY <1>5, <1>6

(* Every call reaches its object, every slot is accounted for, and every   *)
(* handle is translated back.                                              *)
LEMMA WrappersInvImplies ==
  ASSUME Wrappers!KernelObjectsAssumption, Traced \subseteq {"task"}, WrappersInv
  PROVE  Wrappers!CallsReachTheirObject /\ Wrappers!EverySlotAccounted /\ Wrappers!TranslatesBack
<1>1. WrappersTyped
  BY DEF WrappersInv
<1>2. Wrappers!CallsReachTheirObject
  <2> SUFFICES ASSUME NEW t \in Caller, NEW a \in Wrappers!ToSet(call[t].args)
               PROVE  kernel[a.object] = a.type /\ given[a.slot] = a.object
    BY DEF Wrappers!CallsReachTheirObject
  <2>1. PICK i \in DOMAIN call[t].args : a = call[t].args[i]
    BY DEF Wrappers!ToSet
  <2>2. QED
    BY <2>1 DEF WrappersInv, CallOK
<1>3. Wrappers!EverySlotAccounted
  <2> SUFFICES ASSUME NEW s \in Slot
               PROVE  LET holders == {t \in Caller : Wrappers!Holds(t, s)} IN
                      /\ pool[s].handle # Nil <=> given[s] # Nil \/ holders # {}
                      /\ Wrappers!Cardinality(holders) <= (IF Wrappers!Known(s) THEN 0 ELSE 1)
    BY NamesApart DEF Wrappers!EverySlotAccounted
  <2> DEFINE holders == {t \in Caller : Wrappers!Holds(t, s)}
  <2>1. holders = {t \in Caller : call[t].todo \in Holding /\ call[t].slot = s}
    BY <1>1, HoldsSlot
  <2> HIDE DEF holders
  <2>2. \A t \in holders : given[s] = Nil /\ pool[s].handle # Nil
    BY <2>1 DEF WrappersInv, CallOK
  <2>3. \A t, u \in holders : t = u
    BY <2>1 DEF WrappersInv, Exclusive
  <2>4. pool[s].handle # Nil <=> given[s] # Nil \/ holders # {}
    <3>1. SlotOK(s) /\ given[s] \in Block \cup {Nil, Gone}
      BY <1>1 DEF WrappersInv, WrappersTyped
    <3>2. pool[s].handle # Nil /\ given[s] = Nil => holders # {}
      BY <2>1, <3>1 DEF SlotOK
    <3>3. given[s] # Nil => pool[s].handle # Nil
      BY <3>1, NamesApart DEF SlotOK
    <3>4. QED
      BY <2>2, <3>2, <3>3
  <2>5. Wrappers!Known(s) => holders = {}
    BY <2>2, NamesApart DEF Wrappers!Known
  <2>6. holders = {} \/ \E t : holders = {t}
    <3>1. ASSUME NEW t \in holders PROVE holders = {t}
      BY <2>3
    <3>2. QED
      BY <3>1
  <2>7. Wrappers!Cardinality(holders) <= (IF Wrappers!Known(s) THEN 0 ELSE 1)
    <3>1. holders = {} => Cardinality(holders) = 0
      BY FS_EmptySet
    <3>2. (\E t : holders = {t}) => Cardinality(holders) = 1
      BY FS_Singleton
    <3>3. QED
      BY <2>5, <2>6, <3>1, <3>2, WrappersCount
  <2>8. QED
    BY <2>4, <2>7 DEF holders
<1>4. Wrappers!TranslatesBack
  <2> SUFFICES ASSUME NEW s \in Slot, Wrappers!Known(s), kernel[given[s]] \in Traced
               PROVE  Wrappers!IndexForHandle(given[s], kernel[given[s]]) = s
    BY NamesApart DEF Wrappers!TranslatesBack
  <2>1. PICK b \in Block : b = given[s] /\ kernel[b] = "task"
    BY DEF Wrappers!Known
  <2> DEFINE found == {r \in Slot : pool[r] = [handle |-> b, type |-> "task"]}
  <2>2. Wrappers!IndexForHandle(given[s], kernel[given[s]]) = Wrappers!FirstSlot(found)
    BY <2>1, NamesApart DEF Wrappers!IndexForHandle
  <2>3. s \in found
    <3>1. pool[s].handle = b /\ pool[s].type = "task"
      BY <2>1 DEF WrappersInv, SlotOK
    <3>2. pool[s] = [handle |-> pool[s].handle, type |-> pool[s].type]
      BY <1>1 DEF WrappersTyped
    <3>3. QED
      BY <3>1, <3>2
  <2>4. ASSUME NEW r \in found PROVE r = s
    <3>1. r \in Slot /\ pool[r].handle = b /\ pool[r].type = "task" /\ b # Nil
      BY NamesApart
    <3>2. SlotOK(r) /\ given[r] \in Block \cup {Nil, Gone}
      BY <1>1, <3>1 DEF WrappersInv, WrappersTyped
    <3>3. CASE given[r] \in Block
      BY <2>1, <3>1, <3>2, <3>3 DEF SlotOK, WrappersInv, Exclusive
    <3>4. CASE given[r] = Gone
      BY <3>1, <3>2, <3>4 DEF SlotOK
    <3>5. CASE given[r] = Nil
      <4>1. PICK u \in Caller : call[u].todo \in Holding /\ call[u].slot = r
        BY <3>1, <3>2, <3>5 DEF SlotOK
      <4>2. CallOK(u) /\ (call[u].todo \in Owning => call[u].object # b)
        BY <2>1 DEF WrappersInv, Exclusive
      <4>3. call[u].todo \notin {ToMake, ToStore, ToType}
        BY <3>1, <4>1, <4>2 DEF CallOK, NoObject
      <4>4. call[u].todo \notin {DeleteThenFree, ToFree}
        BY <3>1, <4>1, <4>2 DEF CallOK
      <4>5. call[u].todo # FreeThenDelete
        BY <3>1, <4>1, <4>2 DEF CallOK, Owning
      <4>6. QED
        BY <4>1, <4>3, <4>4, <4>5 DEF Holding
    <3>6. QED
      BY <3>2, <3>3, <3>4, <3>5
  <2>5. found \subseteq Slot
    OBVIOUS
  <2> HIDE DEF found
  <2>6. QED
    BY <2>2, <2>3, <2>4, <2>5, FirstOfSlots, NamesApart
<1>5. QED
  BY <1>2, <1>3, <1>4

-----------------------------------------------------------------------------
(* Co-routines.                                                            *)

Ticks == 0 .. TickMod - 1
Calls == {"send", "receive"}

CoTyped ==
  /\ ready \subseteq CoRoutine /\ delayed \subseteq CoRoutine /\ overflow \subseteq CoRoutine
  /\ wake \in [CoRoutine -> Ticks] /\ event \in [CoRoutine -> {"none", "pending"} \cup Calls]
  /\ top \in Nat /\ time \in [tick : Ticks, now : Ticks, last : Ticks]
  /\ messages \in 0 .. Length /\ passed \in Nat
  /\ at \in {"idle", "pending", "delayed", "run", "block"} \cup Calls
  /\ chosen \subseteq CoRoutine /\ resumes \in [CoRoutine -> {"start", "go_on"} \cup Calls]
  /\ remaining \in [CoRoutine -> Nat] /\ late \in BOOLEAN

(* The co-routine that runs is the only one and is ready; between the      *)
(* sections of a call it is past the point where it would call again, and  *)
(* one about to block makes its call for the first time.  One that waits   *)
(* for the queue will make the same call again.                            *)
Turns ==
  /\ \A c, d \in chosen : c = d
  /\ at \in {"run", "block"} \cup Calls => chosen \subseteq ready
  /\ at = "block" => \A c \in chosen : resumes[c] \in {"start", "go_on"}
  /\ at \in Calls => \A c \in chosen : resumes[c] = "go_on"
  /\ \A c \in CoRoutine : event[c] \in Calls => resumes[c] = event[c]
  /\ \A c \in CoRoutine : c \notin Crs!Created => remaining[c] = 0

(* How many messages, or how much room, one that waits would find ...      *)
Lacks(side) == IF side = "send" THEN Length - messages ELSE messages

(* ... is no more than the number of those that will come for it, from the *)
(* moment one has decided to block, unless an interrupt made room then.    *)
Waits(side) == Crs!Waiting(side) # {} \/ (side = "send" /\ at = "block")
Excused(side) == side = "send" /\ late

AllServed(side) ==
  Waits(side) /\ ~ Excused(side) => Lacks(side) <= Cardinality(Crs!OnItsWay(side))

CoInv ==
  /\ CoTyped /\ Turns /\ Crs!BlocksExactly /\ Crs!ItemsAgree
  /\ \A side \in Calls : AllServed(side)

CoAssumption ==
  /\ Crs!CoRoutinesAssumption /\ IsFiniteSet(CoRoutine) /\ TRUE \notin Woken

LEMMA CoCount ==
  ASSUME NEW S
  PROVE  Crs!Cardinality(S) = Cardinality(S)
  BY Zenon DEF Crs!Cardinality, Cardinality

LEMMA RemainderWraps ==
  ASSUME NEW n \in Nat \ {0}, NEW a \in 0 .. 2 * n
  PROVE  /\ a % n \in 0 .. n - 1
         /\ a < n => a % n = a
         /\ a >= n /\ a < 2 * n => a % n = a - n
         /\ a = 2 * n => a % n = 0
OBVIOUS

LEMMA CoConstants ==
  ASSUME CoAssumption
  PROVE  /\ TickMod \in Nat \ {0} /\ Length \in Nat \ {0} /\ Priority \in [CoRoutine -> Nat]
         /\ Delays \subseteq Ticks
  BY DEF CoAssumption, Crs!CoRoutinesAssumption, Ticks

(* Those on their way, and those that wait.                                *)
LEMMA WhoComes ==
  ASSUME NEW side
  PROVE  /\ \A c : c \in Crs!Waiting(side) <=> c \in CoRoutine /\ event[c] = side
         /\ \A c : c \in Crs!OnItsWay(side) <=>
              /\ c \in ready \cup delayed \cup overflow
              /\ (resumes[c] = side /\ event[c] # side) \/ (at = side /\ c \in chosen)
  BY DEF Crs!Waiting, Crs!OnItsWay, Crs!Created

LEMMA WhoComesNext ==
  ASSUME NEW side
  PROVE  /\ \A c : c \in Crs!Waiting(side)' <=> c \in CoRoutine /\ event'[c] = side
         /\ \A c : c \in Crs!OnItsWay(side)' <=>
              /\ c \in ready' \cup delayed' \cup overflow'
              /\ (resumes'[c] = side /\ event'[c] # side) \/ (at' = side /\ c \in chosen')
  BY DEF Crs!Waiting, Crs!OnItsWay, Crs!Created

LEMMA ComingIsFinite ==
  ASSUME CoAssumption, CoTyped, NEW side
  PROVE  IsFiniteSet(Crs!OnItsWay(side)) /\ Cardinality(Crs!OnItsWay(side)) \in Nat
<1>1. Crs!OnItsWay(side) \subseteq CoRoutine
  BY DEF CoTyped, Crs!OnItsWay, Crs!Created
<1>2. QED
  BY <1>1, FS_Subset, FS_CardinalityType DEF CoAssumption

(* When no more is there to be had and none that comes goes away, none     *)
(* waits in vain.                                                          *)
LEMMA StillServed ==
  ASSUME CoAssumption, CoTyped, CoTyped', NEW side, AllServed(side),
         Waits(side)' => Waits(side), Excused(side) => Excused(side)',
         Lacks(side)' <= Lacks(side), Lacks(side) \in Int, Lacks(side)' \in Int,
         Crs!OnItsWay(side) \subseteq Crs!OnItsWay(side)'
  PROVE  AllServed(side)'
<1>1. /\ IsFiniteSet(Crs!OnItsWay(side)') /\ Cardinality(Crs!OnItsWay(side)') \in Nat
      /\ Cardinality(Crs!OnItsWay(side)) \in Nat
  <2>1. Crs!OnItsWay(side)' \subseteq CoRoutine
    BY DEF CoTyped, Crs!OnItsWay, Crs!Created
  <2>2. QED
    BY <2>1, FS_Subset, FS_CardinalityType, ComingIsFinite DEF CoAssumption
<1>2. Cardinality(Crs!OnItsWay(side)) <= Cardinality(Crs!OnItsWay(side)')
  BY <1>1, FS_Subset
<1>3. QED
  BY <1>1, <1>2 DEF AllServed

(* Steps that leave the queue and the calls under way alone.               *)
LEMMA CalmKeepsServed ==
  ASSUME CoAssumption, CoInv, CoTyped', messages' = messages, resumes' = resumes, late' = late,
         ready \cup delayed \cup overflow \subseteq ready' \cup delayed' \cup overflow',
         \A c \in CoRoutine : event'[c] \in {event[c], "none", "pending"},
         at \in Calls => at' = at /\ chosen' = chosen, at' = "block" => at = "block"
  PROVE  \A side \in Calls : AllServed(side)'
<1> SUFFICES ASSUME NEW side \in Calls
             PROVE  AllServed(side)'
  OBVIOUS
<1>1. CoTyped /\ AllServed(side) /\ side \notin {"none", "pending"}
  BY DEF CoInv, Calls
<1>2. Lacks(side)' <= Lacks(side) /\ Lacks(side) \in Int /\ Lacks(side)' \in Int
  BY <1>1, CoConstants DEF Lacks, CoTyped
<1>3. (Waits(side)' => Waits(side)) /\ (Excused(side) => Excused(side)')
  <2>1. Crs!Waiting(side)' \subseteq Crs!Waiting(side)
    BY <1>1, WhoComes, WhoComesNext
  <2>2. QED
    BY <2>1 DEF Waits, Excused
<1>4. Crs!OnItsWay(side) \subseteq Crs!OnItsWay(side)'
  <2> SUFFICES ASSUME NEW c \in Crs!OnItsWay(side)
               PROVE  c \in Crs!OnItsWay(side)'
    OBVIOUS
  <2>1. /\ c \in ready \cup delayed \cup overflow
        /\ (resumes[c] = side /\ event[c] # side) \/ (at = side /\ c \in chosen)
    BY WhoComes
  <2>2. c \in CoRoutine
    BY <1>1, <2>1 DEF CoTyped
  <2>3. QED
    BY <1>1, <2>1, <2>2, WhoComesNext
<1>5. QED
  BY <1>1, <1>2, <1>3, <1>4, StillServed

LEMMA CoStarts ==
  ASSUME CoAssumption, Crs!CoInit
  PROVE  CoInv
<1>1. /\ TickMod \in Nat \ {0} /\ Length \in Nat \ {0} /\ 0 \in Ticks
  BY CoConstants DEF Ticks
<1>2. CoTyped
  <2>1. late \in BOOLEAN
    BY Zenon DEF Crs!CoInit
  <2>2. QED
    BY <1>1, <2>1 DEF Crs!CoInit, CoTyped
<1>3. Turns
  BY DEF Crs!CoInit, Turns, Calls
<1>4. Crs!BlocksExactly /\ Crs!ItemsAgree
  BY DEF Crs!CoInit, Crs!BlocksExactly, Crs!ItemsAgree, Crs!Created
<1>5. \A side \in Calls : Crs!Waiting(side) = {}
  BY DEF Crs!CoInit, Crs!Waiting, Calls
<1>6. QED
  BY <1>2, <1>3, <1>4, <1>5 DEF CoInv, AllServed, Waits, Crs!CoInit

(* A co-routine becomes ready: no ready one is above the top.              *)
LEMMA ReadyIsSeen ==
  ASSUME CoAssumption, CoInv, NEW c \in CoRoutine, Crs!AddToReadyQueue(c)
  PROVE  /\ ready' = ready \cup {c} /\ ready' \subseteq CoRoutine /\ top' \in Nat
         /\ \A d \in ready' : Priority[d] <= top'
<1>1. top \in Nat /\ Priority \in [CoRoutine -> Nat] /\ ready \subseteq CoRoutine
      /\ \A d \in ready : Priority[d] <= top
  BY CoConstants DEF CoInv, CoTyped, Crs!ItemsAgree
<1>2. ready' = ready \cup {c} /\ top' = IF Priority[c] > top THEN Priority[c] ELSE top
  BY DEF Crs!AddToReadyQueue
<1>3. QED
  BY <1>1, <1>2

LEMMA CreateKeepsCo ==
  ASSUME CoAssumption, CoInv, NEW c \in CoRoutine, Crs!Create(c)
  PROVE  CoInv'
<1>1. /\ at \in {"idle", "run"} /\ c \notin ready \cup delayed \cup overflow
      /\ chosen' = IF chosen = {} THEN {c} ELSE chosen
      /\ Crs!AddToReadyQueue(c)
      /\ UNCHANGED <<delayed, overflow, wake, event, time, messages, at, passed, resumes, remaining, late>>
  BY DEF Crs!Create, Crs!Created
<1>2. /\ ready' = ready \cup {c} /\ ready' \subseteq CoRoutine /\ top' \in Nat
      /\ \A d \in ready' : Priority[d] <= top'
  BY <1>1, ReadyIsSeen
<1>3. CoTyped'
  BY <1>1, <1>2 DEF CoInv, CoTyped
<1>4. Turns'
  BY <1>1, <1>2 DEF CoInv, Turns, Calls, Crs!Created
<1>5. remaining[c] = 0
  BY <1>1 DEF CoInv, Turns, Crs!Created
<1>6. Crs!BlocksExactly'
  BY <1>1, <1>2, <1>5 DEF CoInv, Crs!BlocksExactly, Crs!Created, Crs!Due
<1>7. Crs!ItemsAgree'
  BY <1>1, <1>2 DEF CoInv, Crs!ItemsAgree
<1>8. \A side \in Calls : AllServed(side)'
  BY <1>1, <1>2, <1>3, CalmKeepsServed DEF Calls
<1>9. QED
  BY <1>3, <1>4, <1>6, <1>7, <1>8 DEF CoInv

LEMMA ScheduleKeepsCo ==
  ASSUME CoAssumption, CoInv, Crs!Schedule
  PROVE  CoInv'
<1>1. /\ at = "idle" /\ at' = "pending"
      /\ UNCHANGED <<ready, delayed, overflow, wake, event, top, time, messages, passed, chosen,
                     resumes, remaining, late>>
  BY DEF Crs!Schedule
<1>2. CoTyped' /\ Turns'
  BY <1>1 DEF CoInv, CoTyped, Turns, Crs!Created, Calls
<1>3. Crs!BlocksExactly' /\ Crs!ItemsAgree'
  BY <1>1 DEF CoInv, Crs!BlocksExactly, Crs!ItemsAgree, Crs!Created, Crs!Due
<1>4. \A side \in Calls : AllServed(side)'
  BY <1>1, <1>2, CalmKeepsServed DEF Calls
<1>5. QED
  BY <1>2, <1>3, <1>4 DEF CoInv

LEMMA CheckPendingKeepsCo ==
  ASSUME CoAssumption, CoInv, Crs!CheckPendingReadyList
  PROVE  CoInv'
<1>1. PICK c \in CoRoutine :
        /\ event' = [event EXCEPT ![c] = "none"]
        /\ delayed' = delayed \ {c} /\ overflow' = overflow \ {c}
        /\ Crs!AddToReadyQueue(c) /\ remaining' = [remaining EXCEPT ![c] = 0]
        /\ event[c] = "pending"
  BY DEF Crs!CheckPendingReadyList, Crs!Pending, Crs!Waiting
<1>2. at = "pending" /\ UNCHANGED <<wake, time, messages, at, passed, chosen, resumes, late>>
  BY DEF Crs!CheckPendingReadyList
<1>3. /\ ready' = ready \cup {c} /\ ready' \subseteq CoRoutine /\ top' \in Nat
      /\ \A d \in ready' : Priority[d] <= top'
  BY <1>1, ReadyIsSeen
<1>4. /\ CoTyped /\ Turns /\ Crs!BlocksExactly /\ Crs!ItemsAgree
  BY DEF CoInv
<1>5. CoTyped'
  BY <1>1, <1>2, <1>3, <1>4 DEF CoTyped
<1>6. /\ event'[c] = "none" /\ \A d \in CoRoutine \ {c} : event'[d] = event[d]
      /\ remaining'[c] = 0 /\ \A d \in CoRoutine \ {c} : remaining'[d] = remaining[d]
  BY <1>1, <1>4 DEF CoTyped
<1>7. c \in delayed \cup overflow
  BY <1>1, <1>4 DEF Crs!ItemsAgree
<1>8. Turns'
  BY <1>1, <1>2, <1>3, <1>4, <1>6, <1>7 DEF Turns, Crs!Created, Calls
<1>9. Crs!BlocksExactly'
  BY <1>1, <1>2, <1>3, <1>4, <1>6, <1>7 DEF CoTyped, Crs!BlocksExactly, Crs!Created, Crs!Due
<1>10. Crs!ItemsAgree'
  BY <1>1, <1>2, <1>3, <1>4, <1>6 DEF Crs!ItemsAgree
<1>11. \A side \in Calls : AllServed(side)'
  BY <1>1, <1>2, <1>3, <1>5, <1>6, CalmKeepsServed DEF Calls
<1>12. QED
  BY <1>5, <1>8, <1>9, <1>10, <1>11 DEF CoInv

LEMMA CheckDelayedKeepsCo ==
  ASSUME CoAssumption, CoInv, Crs!CheckDelayedList
  PROVE  CoInv'
<1>1. /\ at = "pending" /\ at' = "delayed" /\ passed' = (time.tick + TickMod - time.last) % TickMod
      /\ UNCHANGED <<ready, delayed, overflow, wake, event, top, time, messages, chosen, resumes,
                     remaining, late>>
  BY DEF Crs!CheckDelayedList
<1>2. passed' \in Nat
  <2>1. TickMod \in Nat \ {0} /\ time.tick \in Ticks /\ time.last \in Ticks
    BY CoConstants DEF CoInv, CoTyped
  <2> DEFINE a == time.tick + TickMod - time.last
  <2>2. a \in 0 .. 2 * TickMod
    BY <2>1 DEF Ticks
  <2> HIDE DEF a
  <2>3. a % TickMod \in 0 .. TickMod - 1
    BY <2>1, <2>2, RemainderWraps
  <2>4. passed' = a % TickMod
    BY <1>1 DEF a
  <2>5. QED
    BY <2>1, <2>3, <2>4
<1>3. CoTyped' /\ Turns'
  BY <1>1, <1>2 DEF CoInv, CoTyped, Turns, Crs!Created, Calls
<1>4. Crs!BlocksExactly' /\ Crs!ItemsAgree'
  BY <1>1 DEF CoInv, Crs!BlocksExactly, Crs!ItemsAgree, Crs!Created, Crs!Due
<1>5. \A side \in Calls : AllServed(side)'
  BY <1>1, <1>3, CalmKeepsServed DEF Calls
<1>6. QED
  BY <1>3, <1>4, <1>5 DEF CoInv

LEMMA PassTickKeepsCo ==
  ASSUME CoAssumption, CoInv, Crs!PassTick
  PROVE  CoInv'
<1>1. /\ at = "delayed" /\ Crs!Due = {} /\ passed > 0 /\ passed' = passed - 1
      /\ time' = [time EXCEPT !.now = (time.now + 1) % TickMod]
      /\ IF time'.now = 0 THEN delayed' = overflow /\ overflow' = delayed
                          ELSE UNCHANGED <<delayed, overflow>>
      /\ remaining' = [c \in CoRoutine |-> IF c \in delayed \cup overflow THEN remaining[c] - 1
                                                                          ELSE remaining[c]]
      /\ UNCHANGED <<ready, wake, event, top, messages, at, chosen, resumes, late>>
  BY DEF Crs!PassTick
<1>2. CoTyped /\ Turns /\ Crs!BlocksExactly /\ Crs!ItemsAgree
  BY DEF CoInv
<1>3. TickMod \in Nat \ {0} /\ time \in [tick : Ticks, now : Ticks, last : Ticks]
  BY <1>2, CoConstants DEF CoTyped
<1>4. PICK n \in Ticks : n = time.now
  BY <1>3
<1>5. PICK m \in Ticks : /\ m = (n + 1) % TickMod
                        /\ (n + 1 < TickMod => m = n + 1) /\ (n + 1 = TickMod => m = 0)
  <2> DEFINE a == n + 1
  <2>1. a \in 0 .. 2 * TickMod /\ a < 2 * TickMod
    BY <1>3, <1>4 DEF Ticks
  <2> HIDE DEF a
  <2>2. a % TickMod \in 0 .. TickMod - 1 /\ (a < TickMod => a % TickMod = a)
        /\ (a >= TickMod => a % TickMod = a - TickMod)
    BY <1>3, <2>1, RemainderWraps
  <2>3. QED
    BY <1>3, <1>4, <2>2 DEF a, Ticks
<1>6. time' \in [tick : {time.tick}, now : {m}, last : {time.last}]
  BY <1>1, <1>3, <1>4, <1>5
<1>7. time'.now = m /\ time' \in [tick : Ticks, now : Ticks, last : Ticks]
  BY <1>3, <1>5, <1>6
<1>8. \A c \in delayed : wake[c] = n + remaining[c] /\ n < wake[c] /\ wake[c] \in Ticks
  <2> SUFFICES ASSUME NEW c \in delayed
               PROVE  wake[c] = n + remaining[c] /\ n < wake[c] /\ wake[c] \in Ticks
    OBVIOUS
  <2>1. c \in CoRoutine /\ wake[c] \in Ticks
    BY <1>2 DEF CoTyped
  <2>2. wake[c] = n + remaining[c]
    BY <1>2, <1>4 DEF Crs!BlocksExactly, Crs!Created
  <2>3. ~ (n >= wake[c])
    BY <1>1, <1>4 DEF Crs!Due
  <2>4. QED
    BY <1>3, <1>4, <2>1, <2>2, <2>3 DEF Ticks
<1>9. \A c \in overflow : wake[c] + TickMod = n + remaining[c] /\ wake[c] \in Ticks
  BY <1>2, <1>4 DEF Crs!BlocksExactly, Crs!Created, CoTyped
<1>10. \A c \in CoRoutine : remaining[c] \in Nat
  BY <1>2 DEF CoTyped
<1>11. \A c \in delayed \cup overflow : c \in CoRoutine /\ remaining[c] > 0 /\ remaining'[c] = remaining[c] - 1
  BY <1>1, <1>2, <1>3, <1>4, <1>8, <1>9, <1>10 DEF CoTyped, Ticks
<1>12. \A c \in CoRoutine \ (delayed \cup overflow) : remaining'[c] = remaining[c]
  BY <1>1
<1>13. CoTyped'
  <2>1. remaining' \in [CoRoutine -> Nat]
    <3>1. \A c \in CoRoutine : remaining'[c] \in Nat
      BY <1>10, <1>11, <1>12
    <3>2. QED
      BY <1>1, <3>1
  <2>2. passed' \in Nat /\ delayed' \subseteq CoRoutine /\ overflow' \subseteq CoRoutine
    BY <1>1, <1>2 DEF CoTyped
  <2>3. QED
    BY <1>1, <1>2, <1>7, <2>1, <2>2 DEF CoTyped
<1>14. delayed' \cup overflow' = delayed \cup overflow
  BY <1>1
<1>15. Turns'
  BY <1>1, <1>2, <1>12, <1>14 DEF Turns, Crs!Created, Calls
<1>16. Crs!ItemsAgree'
  BY <1>1, <1>2, <1>14 DEF Crs!ItemsAgree
<1>17. Crs!BlocksExactly'
  <2> SUFFICES ASSUME NEW c, c \in ready \cup delayed \cup overflow
               PROVE  /\ c \in ready' => remaining'[c] = 0
                      /\ c \notin ready' => remaining'[c] > 0 \/ (c \in delayed' /\ time'.now >= wake'[c])
                      /\ c \in delayed' => wake'[c] = time'.now + remaining'[c]
                      /\ c \in overflow' => wake'[c] + TickMod = time'.now + remaining'[c]
    BY <1>1, <1>14 DEF Crs!BlocksExactly, Crs!Created, Crs!Due
  <2>1. c \in CoRoutine
    BY <1>2 DEF CoTyped
  <2>2. CASE c \in ready
    BY <1>1, <1>2, <1>12, <1>14, <2>1, <2>2 DEF Crs!BlocksExactly, Crs!ItemsAgree, Crs!Created
  <2>3. CASE c \in delayed
    <3>1. m = n + 1
      BY <1>3, <1>4, <1>5, <1>8, <2>3 DEF Ticks
    <3>2. m # 0 /\ c \in delayed' /\ c \notin overflow' /\ c \notin ready'
      BY <1>1, <1>2, <1>4, <1>7, <2>3, <3>1 DEF Crs!ItemsAgree, Ticks
    <3>3. wake'[c] = wake[c] /\ remaining'[c] = remaining[c] - 1 /\ wake[c] = n + remaining[c]
      BY <1>1, <1>8, <1>11, <2>3
    <3>4. QED
      BY <1>3, <1>4, <1>5, <1>7, <1>8, <1>10, <1>11, <2>1, <2>3, <3>1, <3>2, <3>3 DEF Ticks
  <2>4. CASE c \in overflow
    <3>1. wake'[c] = wake[c] /\ remaining'[c] = remaining[c] - 1 /\ wake[c] + TickMod = n + remaining[c]
          /\ c \notin ready' /\ wake[c] \in Ticks /\ c \notin delayed
      BY <1>1, <1>2, <1>9, <1>11, <2>4 DEF Crs!ItemsAgree
    <3>2. CASE m = 0
      <4>1. n + 1 = TickMod
        BY <1>3, <1>4, <1>5, <3>2 DEF Ticks
      <4>2. c \in delayed' /\ c \notin overflow'
        BY <1>1, <1>7, <2>4, <3>1, <3>2
      <4>3. QED
        BY <1>3, <1>4, <1>7, <1>10, <2>1, <3>1, <3>2, <4>1, <4>2 DEF Ticks
    <3>3. CASE m # 0
      <4>1. m = n + 1 /\ c \in overflow' /\ c \notin delayed'
        BY <1>1, <1>3, <1>4, <1>5, <1>7, <2>4, <3>1, <3>3 DEF Ticks
      <4>2. QED
        BY <1>3, <1>4, <1>5, <1>7, <1>10, <2>1, <3>1, <4>1 DEF Ticks
    <3>4. QED
      BY <3>2, <3>3
  <2>5. QED
    BY <2>2, <2>3, <2>4
<1>18. \A side \in Calls : AllServed(side)'
  BY <1>1, <1>13, <1>14, CalmKeepsServed DEF Calls
<1>19. QED
  BY <1>13, <1>15, <1>16, <1>17, <1>18 DEF CoInv

LEMMA TimeOutKeepsCo ==
  ASSUME CoAssumption, CoInv, Crs!TimeOut
  PROVE  CoInv'
<1>1. PICK c \in Crs!Due :
        /\ delayed' = delayed \ {c} /\ event' = [event EXCEPT ![c] = "none"]
        /\ Crs!AddToReadyQueue(c)
  BY DEF Crs!TimeOut
<1>2. /\ at = "delayed"
      /\ UNCHANGED <<overflow, wake, time, messages, at, passed, chosen, resumes, remaining, late>>
  BY DEF Crs!TimeOut
<1>3. CoTyped /\ Turns /\ Crs!BlocksExactly /\ Crs!ItemsAgree
  BY DEF CoInv
<1>4. c \in CoRoutine /\ c \in delayed /\ c \notin ready /\ c \notin overflow
  BY <1>1, <1>3 DEF Crs!Due, CoTyped, Crs!ItemsAgree
<1>5. remaining[c] = 0
  <2>1. wake[c] = time.now + remaining[c] /\ time.now >= wake[c]
    BY <1>1, <1>3, <1>4 DEF Crs!Due, Crs!BlocksExactly, Crs!Created
  <2>2. remaining[c] \in Nat /\ time.now \in Nat
    BY <1>3, <1>4 DEF CoTyped, Ticks
  <2>3. QED
    BY <2>1, <2>2
<1>6. /\ ready' = ready \cup {c} /\ ready' \subseteq CoRoutine /\ top' \in Nat
      /\ \A d \in ready' : Priority[d] <= top'
  BY <1>1, <1>4, ReadyIsSeen
<1>7. CoTyped'
  BY <1>1, <1>2, <1>3, <1>4, <1>6 DEF CoTyped
<1>8. event'[c] = "none" /\ \A d \in CoRoutine \ {c} : event'[d] = event[d]
  BY <1>1, <1>3, <1>4 DEF CoTyped
<1>9. Turns'
  BY <1>1, <1>2, <1>3, <1>4, <1>6, <1>8 DEF Turns, Crs!Created, Calls
<1>10. Crs!BlocksExactly'
  BY <1>1, <1>2, <1>3, <1>4, <1>5, <1>6 DEF Crs!BlocksExactly, Crs!Created, Crs!Due
<1>11. Crs!ItemsAgree'
  BY <1>1, <1>2, <1>3, <1>4, <1>6, <1>8 DEF Crs!ItemsAgree
<1>12. \A side \in Calls : AllServed(side)'
  BY <1>1, <1>2, <1>4, <1>6, <1>7, <1>8, CalmKeepsServed DEF Calls
<1>13. QED
  BY <1>7, <1>9, <1>10, <1>11, <1>12 DEF CoInv

(* A ready co-routine of the highest priority is found from the top down.  *)
LEMMA HighestIsFound ==
  ASSUME CoAssumption, CoInv
  PROVE  /\ Crs!HighestReady = {} => ready = {}
         /\ \A c \in Crs!HighestReady : c \in ready /\ \A d \in ready : Priority[d] <= Priority[c]
<1>1. /\ ready \subseteq CoRoutine /\ top \in Nat /\ Priority \in [CoRoutine -> Nat]
      /\ \A c \in ready : Priority[c] <= top
  BY CoConstants DEF CoInv, CoTyped, Crs!ItemsAgree
<1>2. \A c \in Crs!HighestReady : c \in ready /\ \A d \in ready : Priority[d] <= Priority[c]
  BY <1>1 DEF Crs!HighestReady
<1>3. ASSUME ready # {} PROVE Crs!HighestReady # {}
  <2> DEFINE below == {top - Priority[c] : c \in ready}
  <2>1. below \in SUBSET Nat
    BY <1>1
  <2>2. below # {}
    BY <1>3
  <2>3. PICK w \in below : \A x \in below : w <= x
    BY <2>1, <2>2, LeastNatural
  <2>4. PICK c \in ready : w = top - Priority[c]
    BY <2>3
  <2>5. \A d \in ready : Priority[d] <= Priority[c]
    <3>1. \A d \in ready : top - Priority[c] <= top - Priority[d]
      BY <2>3, <2>4
    <3>2. QED
      BY <1>1, <3>1
  <2>6. QED
    BY <1>1, <2>5 DEF Crs!HighestReady
<1>4. QED
  BY <1>2, <1>3

LEMMA SelectKeepsCo ==
  ASSUME CoAssumption, CoInv, Crs!Select
  PROVE  CoInv'
<1>1. /\ at = "delayed" /\ Crs!Due = {} /\ time' = [time EXCEPT !.last = time.now]
      /\ UNCHANGED <<ready, delayed, overflow, wake, event, messages, passed, resumes, remaining, late>>
  BY DEF Crs!Select
<1>2. \/ ready = {} /\ top' = 0 /\ at' = "idle" /\ chosen' = chosen
      \/ \E c \in ready : /\ chosen' = {c} /\ top' = Priority[c] /\ at' = "run"
                          /\ \A d \in ready : Priority[d] <= Priority[c]
  BY HighestIsFound DEF Crs!Select
<1>3. CoTyped /\ Turns /\ Crs!BlocksExactly /\ Crs!ItemsAgree
  BY DEF CoInv
<1>4. time'.now = time.now /\ time' \in [tick : Ticks, now : Ticks, last : Ticks]
  <2>1. time \in [tick : Ticks, now : Ticks, last : Ticks]
    BY <1>3 DEF CoTyped
  <2>2. PICK n \in Ticks : n = time.now
    BY <2>1
  <2>3. time' \in [tick : {time.tick}, now : {n}, last : {n}]
    BY <1>1, <2>1, <2>2
  <2>4. QED
    BY <2>1, <2>2, <2>3
<1>5. top' \in Nat /\ (\A c \in ready : Priority[c] <= top') /\ chosen' \subseteq CoRoutine
      /\ at' \in {"idle", "run"} /\ (at' = "run" => chosen' \subseteq ready)
      /\ \A c, d \in chosen' : c = d
  BY <1>2, <1>3, CoConstants DEF CoTyped, Turns
<1>6. CoTyped'
  BY <1>1, <1>3, <1>4, <1>5 DEF CoTyped
<1>7. Turns'
  BY <1>1, <1>3, <1>5 DEF Turns, Crs!Created, Calls
<1>8. Crs!BlocksExactly'
  BY <1>1, <1>3, <1>4, <1>5 DEF Crs!BlocksExactly, Crs!Created, Crs!Due
<1>9. Crs!ItemsAgree'
  BY <1>1, <1>3, <1>5 DEF Crs!ItemsAgree
<1>10. \A side \in Calls : AllServed(side)'
  BY <1>1, <1>5, <1>6, CalmKeepsServed DEF Calls
<1>11. QED
  BY <1>6, <1>7, <1>8, <1>9, <1>10 DEF CoInv

LEMMA TickKeepsCo ==
  ASSUME CoAssumption, CoInv, Crs!TickInterrupt
  PROVE  CoInv'
<1>1. /\ time' = [time EXCEPT !.tick = (time.tick + 1) % TickMod]
      /\ UNCHANGED <<ready, delayed, overflow, wake, event, top, messages, at, passed, chosen,
                     resumes, remaining, late>>
  BY DEF Crs!TickInterrupt
<1>2. TickMod \in Nat \ {0} /\ time \in [tick : Ticks, now : Ticks, last : Ticks]
  BY CoConstants DEF CoInv, CoTyped
<1>3. PICK n : n = time.tick + 1
  OBVIOUS
<1>4. n \in 0 .. 2 * TickMod
  BY <1>2, <1>3 DEF Ticks
<1>5. PICK m \in Ticks : m = n % TickMod
  BY <1>2, <1>4, RemainderWraps DEF Ticks
<1>6. time' \in [tick : {m}, now : {time.now}, last : {time.last}]
  BY <1>1, <1>2, <1>3, <1>5
<1>7. time'.now = time.now /\ time' \in [tick : Ticks, now : Ticks, last : Ticks]
  BY <1>2, <1>5, <1>6
<1>8. CoTyped' /\ Turns'
  BY <1>1, <1>7 DEF CoInv, CoTyped, Turns, Crs!Created, Calls
<1>9. Crs!BlocksExactly' /\ Crs!ItemsAgree'
  BY <1>1, <1>7 DEF CoInv, Crs!BlocksExactly, Crs!ItemsAgree, Crs!Created, Crs!Due
<1>10. \A side \in Calls : AllServed(side)'
  BY <1>1, <1>8, CalmKeepsServed DEF Calls
<1>11. QED
  BY <1>8, <1>9, <1>10 DEF CoInv

(* A co-routine that blocks is on one of the lists, by the time it is due. *)
Blocked(c, n, list) ==
  /\ ready' = ready \ {c}
  /\ wake' \in [CoRoutine -> Ticks] /\ \A d \in CoRoutine \ {c} : wake'[d] = wake[d]
  /\ event' = [event EXCEPT ![c] = list] /\ event'[c] = list
  /\ \A d \in CoRoutine \ {c} : event'[d] = event[d]
  /\ remaining' \in [CoRoutine -> Nat] /\ remaining'[c] = n
  /\ \A d \in CoRoutine \ {c} : remaining'[d] = remaining[d]
  /\ \/ delayed' = delayed \cup {c} /\ overflow' = overflow /\ wake'[c] = time.now + n
     \/ overflow' = overflow \cup {c} /\ delayed' = delayed /\ wake'[c] + TickMod = time.now + n

LEMMA AddIsBlocked ==
  ASSUME CoAssumption, CoInv, NEW c \in CoRoutine, NEW n \in Ticks, NEW list,
         Crs!AddToDelayedList(c, n, list)
  PROVE  Blocked(c, n, list)
<1>1. PICK now \in Ticks : now = time.now
  BY DEF CoInv, CoTyped
<1>2. TickMod \in Nat \ {0}
  BY CoConstants
<1> DEFINE w == (now + n) % TickMod
<1>3. /\ w \in Ticks
      /\ now + n < TickMod => w = now + n
      /\ now + n >= TickMod => w = now + n - TickMod
  <2> DEFINE a == now + n
  <2>1. a \in 0 .. 2 * TickMod /\ a < 2 * TickMod
    BY <1>2 DEF Ticks
  <2> HIDE DEF a
  <2>2. a % TickMod \in 0 .. TickMod - 1 /\ (a < TickMod => a % TickMod = a)
        /\ (a >= TickMod => a % TickMod = a - TickMod)
    BY <1>2, <2>1, RemainderWraps
  <2>3. QED
    BY <1>2, <2>2 DEF a, Ticks
<1>4. /\ ready' = ready \ {c} /\ wake' = [wake EXCEPT ![c] = w]
      /\ IF w < now THEN overflow' = overflow \cup {c} /\ delayed' = delayed
                     ELSE delayed' = delayed \cup {c} /\ overflow' = overflow
      /\ event' = [event EXCEPT ![c] = list] /\ remaining' = [remaining EXCEPT ![c] = n]
  BY <1>1 DEF Crs!AddToDelayedList
<1> HIDE DEF w
<1>5. /\ wake \in [CoRoutine -> Ticks] /\ remaining \in [CoRoutine -> Nat] /\ n \in Nat
      /\ event \in [CoRoutine -> {"none", "pending"} \cup Calls]
  BY <1>2 DEF CoInv, CoTyped, Ticks
<1>6. w < now <=> w + TickMod = now + n
  BY <1>2, <1>3 DEF Ticks
<1>7. ~ (w < now) <=> w = now + n
  BY <1>2, <1>3 DEF Ticks
<1>8. wake'[c] = w
  BY <1>4, <1>5
<1>9. \/ delayed' = delayed \cup {c} /\ overflow' = overflow /\ wake'[c] = time.now + n
      \/ overflow' = overflow \cup {c} /\ delayed' = delayed /\ wake'[c] + TickMod = time.now + n
  BY <1>1, <1>4, <1>6, <1>7, <1>8
<1>10. wake' \in [CoRoutine -> Ticks] /\ \A d \in CoRoutine \ {c} : wake'[d] = wake[d]
  BY <1>3, <1>4, <1>5
<1>11. event'[c] = list /\ \A d \in CoRoutine \ {c} : event'[d] = event[d]
  BY <1>4, <1>5
<1>12. /\ remaining' \in [CoRoutine -> Nat] /\ remaining'[c] = n
       /\ \A d \in CoRoutine \ {c} : remaining'[d] = remaining[d]
  BY <1>4, <1>5
<1>13. QED
  BY <1>4, <1>9, <1>10, <1>11, <1>12 DEF Blocked

LEMMA BlockedAgree ==
  ASSUME CoAssumption, CoInv, NEW c \in ready, NEW n \in Ticks \ {0}, NEW list, at \notin {"delayed"},
         Blocked(c, n, list), time' = time, top' = top
  PROVE  Crs!BlocksExactly' /\ Crs!ItemsAgree'
<1>1. CoTyped /\ Crs!BlocksExactly /\ Crs!ItemsAgree /\ c \in CoRoutine
  BY DEF CoInv, CoTyped
<1>2. n > 0
  BY CoConstants DEF Ticks
<1>3. /\ delayed' \cup overflow' = delayed \cup overflow \cup {c} /\ delayed' \cap overflow' = {}
      /\ c \notin ready' /\ ready' \cap (delayed' \cup overflow') = {}
      /\ \A d \in CoRoutine \ {c} :
           (d \in ready' <=> d \in ready) /\ (d \in delayed' <=> d \in delayed)
           /\ (d \in overflow' <=> d \in overflow)
  BY <1>1 DEF Blocked, Crs!ItemsAgree
<1>4. Crs!ItemsAgree'
  BY <1>1, <1>3 DEF Crs!ItemsAgree, Blocked
<1>5. Crs!BlocksExactly'
  <2> SUFFICES ASSUME NEW d, d \in ready' \cup delayed' \cup overflow'
               PROVE  /\ d \in ready' => remaining'[d] = 0
                      /\ d \notin ready' => remaining'[d] > 0
                      /\ d \in delayed' => wake'[d] = time.now + remaining'[d]
                      /\ d \in overflow' => wake'[d] + TickMod = time.now + remaining'[d]
    BY DEF Crs!BlocksExactly, Crs!Created, Crs!Due
  <2>1. CASE d = c
    BY <1>1, <1>2, <1>3, <2>1 DEF Blocked, Crs!ItemsAgree
  <2>2. CASE d # c
    <3>1. d \in ready \cup delayed \cup overflow /\ d \in CoRoutine
      BY <1>1, <1>3, <2>2 DEF Blocked, CoTyped
    <3>2. wake'[d] = wake[d] /\ remaining'[d] = remaining[d]
      BY <2>2, <3>1 DEF Blocked
    <3>3. QED
      BY <1>1, <1>3, <2>2, <3>1, <3>2 DEF Crs!BlocksExactly, Crs!Created
  <2>3. QED
    BY <2>1, <2>2
<1>6. QED
  BY <1>4, <1>5

LEMMA BlockedTyped ==
  ASSUME CoAssumption, CoInv, NEW c \in ready, NEW n \in Ticks, NEW list \in {"none"} \cup Calls,
         Blocked(c, n, list), UNCHANGED <<top, time, messages, passed, chosen>>,
         at' \in {"idle", "run"}, resumes' \in [CoRoutine -> {"start", "go_on"} \cup Calls],
         late' = late
  PROVE  CoTyped'
<1>1. CoTyped /\ c \in CoRoutine
  BY DEF CoInv, CoTyped
<1>2. event' \in [CoRoutine -> {"none", "pending"} \cup Calls]
  BY <1>1 DEF CoTyped, Blocked
<1>3. /\ ready' \subseteq CoRoutine /\ delayed' \subseteq CoRoutine /\ overflow' \subseteq CoRoutine
  BY <1>1 DEF CoTyped, Blocked
<1>4. QED
  BY <1>1, <1>2, <1>3 DEF CoTyped, Blocked

(* What one co-routine does while it runs leaves the others served, ...    *)
LEMMA RunKeepsServed ==
  ASSUME CoAssumption, CoInv, CoTyped', NEW c \in ready, at \in {"run", "block"}, NEW side \in Calls,
         messages' = messages, event'[c] # side \/ Waits(side),
         side = "send" => late' = late /\ (at' = "block" => at = "block"),
         ready \cup delayed \cup overflow \subseteq ready' \cup delayed' \cup overflow',
         \A d \in CoRoutine \ {c} : resumes'[d] = resumes[d] /\ event'[d] = event[d],
         resumes[c] # side \/ c \in Crs!OnItsWay(side)'
  PROVE  AllServed(side)'
<1>1. CoTyped /\ AllServed(side) /\ side \notin {"none", "pending", "run", "block"} /\ c \in CoRoutine
  BY DEF CoInv, Calls, CoTyped
<1>2. Lacks(side)' <= Lacks(side) /\ Lacks(side) \in Int /\ Lacks(side)' \in Int
  BY <1>1, CoConstants DEF Lacks, CoTyped
<1>3. (Waits(side)' => Waits(side)) /\ (Excused(side) => Excused(side)')
  <2>1. Waits(side) \/ Crs!Waiting(side)' \subseteq Crs!Waiting(side)
    BY <1>1, WhoComes, WhoComesNext
  <2>2. QED
    BY <2>1 DEF Waits, Excused
<1>4. ASSUME NEW d \in Crs!OnItsWay(side) PROVE d \in Crs!OnItsWay(side)'
  <2>1. d \in ready \cup delayed \cup overflow /\ resumes[d] = side /\ event[d] # side
    BY <1>1, WhoComes
  <2>2. d \in CoRoutine
    BY <1>1, <2>1 DEF CoTyped
  <2>3. CASE d = c
    BY <2>1, <2>3
  <2>4. CASE d # c
    BY <2>1, <2>2, <2>4, WhoComesNext
  <2>5. QED
    BY <2>3, <2>4
<1>5. QED
  BY <1>1, <1>2, <1>3, <1>4, StillServed

(* ... and one that finds nothing to be had leaves nobody in vain.         *)
LEMMA NothingToBeHad ==
  ASSUME CoAssumption, CoInv, CoTyped', NEW side \in Calls, ~ Crs!Ready(side), messages' = messages
  PROVE  AllServed(side)'
<1>1. messages \in 0 .. Length /\ Length \in Nat
  BY CoConstants DEF CoInv, CoTyped
<1>2. Lacks(side)' = 0
  BY <1>1 DEF Lacks, Crs!Ready, Crs!CanSend, Crs!CanReceive, Calls
<1>3. Cardinality(Crs!OnItsWay(side)') \in Nat
  <2>1. Crs!OnItsWay(side)' \subseteq CoRoutine
    BY DEF CoTyped, Crs!OnItsWay, Crs!Created
  <2>2. QED
    BY <2>1, FS_Subset, FS_CardinalityType DEF CoAssumption
<1>4. QED
  BY <1>2, <1>3 DEF AllServed

(* The co-routine that runs is ready and waits for nothing.                *)
LEMMA RunningIsReady ==
  ASSUME CoInv, NEW c \in chosen, at \in {"run", "block"} \cup Calls
  PROVE  /\ c \in ready /\ c \in CoRoutine /\ chosen = {c} /\ event[c] = "none" /\ remaining[c] = 0
         /\ c \notin delayed \cup overflow
<1>1. c \in ready /\ c \in CoRoutine /\ chosen = {c}
  BY DEF CoInv, CoTyped, Turns
<1>2. c \notin delayed \cup overflow
  BY <1>1 DEF CoInv, Crs!ItemsAgree
<1>3. QED
  BY <1>1, <1>2 DEF CoInv, Crs!ItemsAgree, Crs!BlocksExactly, Crs!Created

LEMMA DelayKeepsCo ==
  ASSUME CoAssumption, CoInv, NEW c \in chosen, NEW n \in Delays, Crs!Delay(c, n)
  PROVE  CoInv'
<1>1. /\ at = "run" /\ resumes[c] \in {"start", "go_on"} /\ at' = "idle"
      /\ resumes' = [resumes EXCEPT ![c] = "go_on"]
      /\ UNCHANGED <<top, time, messages, passed, chosen, late>>
  BY DEF Crs!Delay, Crs!Return
<1>2. n \in Ticks /\ n \in Nat
  BY CoConstants DEF Ticks
<1>3. CoTyped /\ Turns /\ Crs!BlocksExactly /\ Crs!ItemsAgree
  BY DEF CoInv
<1>4. /\ c \in ready /\ c \in CoRoutine /\ event[c] = "none" /\ chosen = {c}
  BY <1>1, RunningIsReady
<1>5. /\ resumes' \in [CoRoutine -> {"start", "go_on"} \cup Calls] /\ resumes'[c] = "go_on"
      /\ \A d \in CoRoutine \ {c} : resumes'[d] = resumes[d]
  BY <1>1, <1>3, <1>4 DEF CoTyped
<1>6. CASE n > 0
  <2>1. Blocked(c, n, "none")
    BY <1>1, <1>2, <1>4, <1>6, AddIsBlocked DEF Crs!Delay
  <2>2. CoTyped'
    BY <1>1, <1>2, <1>4, <1>5, <2>1, BlockedTyped
  <2>3. Crs!BlocksExactly' /\ Crs!ItemsAgree'
    BY <1>1, <1>2, <1>4, <1>6, <2>1, BlockedAgree
  <2>4. ready \cup delayed \cup overflow \subseteq ready' \cup delayed' \cup overflow'
    BY <2>1 DEF Blocked
  <2>5. Turns'
    BY <1>1, <1>3, <1>4, <1>5, <2>1, <2>4 DEF Turns, Blocked, Crs!Created, Calls
  <2>6. \A side \in Calls : AllServed(side)'
    BY <1>1, <1>4, <1>5, <2>1, <2>2, <2>4, RunKeepsServed DEF Blocked, Calls
  <2>7. QED
    BY <2>2, <2>3, <2>5, <2>6 DEF CoInv
<1>7. CASE ~ (n > 0)
  <2>1. UNCHANGED <<ready, delayed, overflow, wake, event, remaining>>
    BY <1>7 DEF Crs!Delay
  <2>2. CoTyped'
    BY <1>1, <1>3, <1>5, <2>1 DEF CoTyped
  <2>3. Crs!BlocksExactly' /\ Crs!ItemsAgree'
    BY <1>1, <1>3, <2>1 DEF Crs!BlocksExactly, Crs!ItemsAgree, Crs!Created, Crs!Due
  <2>4. Turns'
    BY <1>1, <1>3, <1>4, <1>5, <2>1 DEF Turns, Crs!Created, Calls
  <2>5. \A side \in Calls : AllServed(side)'
    BY <1>1, <1>4, <1>5, <2>1, <2>2, RunKeepsServed DEF Calls
  <2>6. QED
    BY <2>2, <2>3, <2>4, <2>5 DEF CoInv
<1>8. QED
  BY <1>6, <1>7

LEMMA BeginKeepsCo ==
  ASSUME CoAssumption, CoInv, NEW c \in chosen, NEW side \in Calls, NEW n \in Delays \cup {0},
         Crs!Begin(c, side, n)
  PROVE  CoInv'
<1>1. /\ at = "run" /\ (resumes[c] \in {"start", "go_on"} \/ (resumes[c] = side /\ n = 0))
      /\ UNCHANGED <<top, time, messages, passed, chosen>>
  BY DEF Crs!Begin
<1>2. n \in Ticks /\ n \in Nat
  BY CoConstants DEF Ticks
<1>3. CoTyped /\ Turns /\ Crs!BlocksExactly /\ Crs!ItemsAgree
  BY DEF CoInv
<1>4. /\ at = "run" /\ c \in ready /\ c \in CoRoutine /\ event[c] = "none" /\ chosen = {c}
  BY <1>1, RunningIsReady DEF Crs!Begin
<1>5. \A other \in Calls : other # side => resumes[c] # other
  BY <1>1 DEF Calls
<1>6. CASE ~ Crs!Ready(side) /\ n > 0 /\ side = "receive"
  <2>1. /\ Crs!AddToDelayedList(c, n, side) /\ at' = "idle" /\ late' = late
        /\ resumes' = [resumes EXCEPT ![c] = side]
    BY <1>6 DEF Crs!Begin, Crs!Return
  <2>2. Blocked(c, n, side)
    BY <1>2, <1>4, <2>1, AddIsBlocked
  <2>3. /\ resumes' \in [CoRoutine -> {"start", "go_on"} \cup Calls] /\ resumes'[c] = side
        /\ \A d \in CoRoutine \ {c} : resumes'[d] = resumes[d]
    BY <1>3, <1>4, <2>1 DEF CoTyped
  <2>4. CoTyped'
    BY <1>1, <1>2, <1>4, <2>1, <2>2, <2>3, BlockedTyped
  <2>5. Crs!BlocksExactly' /\ Crs!ItemsAgree'
    BY <1>1, <1>2, <1>4, <1>6, <2>2, BlockedAgree
  <2>6. ready \cup delayed \cup overflow \subseteq ready' \cup delayed' \cup overflow'
    BY <2>2 DEF Blocked
  <2>7. Turns'
    BY <1>1, <1>3, <1>4, <2>1, <2>2, <2>3, <2>6 DEF Turns, Blocked, Crs!Created, Calls
  <2>8. \A other \in Calls : other # side => AllServed(other)'
    BY <1>1, <1>4, <1>5, <2>1, <2>2, <2>3, <2>4, <2>6, RunKeepsServed DEF Blocked
  <2>9. AllServed(side)'
    BY <1>1, <1>6, <2>4, NothingToBeHad
  <2>10. QED
    BY <2>4, <2>5, <2>7, <2>8, <2>9 DEF CoInv
<1>7. CASE ~ Crs!Ready(side) /\ n > 0 /\ side # "receive"
  <2>1. /\ at' = "block" /\ late' = FALSE /\ side = "send"
        /\ UNCHANGED <<ready, delayed, overflow, wake, event, remaining, resumes>>
    BY <1>2, <1>7 DEF Crs!Begin, Calls
  <2>2. resumes[c] \in {"start", "go_on"}
    BY <1>1, <1>2, <1>7
  <2>3. CoTyped'
    BY <1>1, <1>3, <2>1 DEF CoTyped
  <2>4. Crs!BlocksExactly' /\ Crs!ItemsAgree'
    BY <1>1, <1>3, <2>1 DEF Crs!BlocksExactly, Crs!ItemsAgree, Crs!Created, Crs!Due
  <2>5. Turns'
    BY <1>1, <1>3, <1>4, <2>1, <2>2 DEF Turns, Crs!Created, Calls
  <2>6. \A other \in Calls : other # side => AllServed(other)'
    BY <1>1, <1>4, <1>5, <2>1, <2>3, RunKeepsServed DEF Calls
  <2>7. AllServed(side)'
    BY <1>1, <1>7, <2>3, NothingToBeHad
  <2>8. QED
    BY <2>3, <2>4, <2>5, <2>6, <2>7 DEF CoInv
<1>8. CASE Crs!Ready(side) \/ ~ (n > 0)
  <2>1. /\ resumes' = [resumes EXCEPT ![c] = "go_on"]
        /\ UNCHANGED <<ready, delayed, overflow, wake, event, remaining, late>>
        /\ IF Crs!Ready(side) THEN at' = side ELSE at' = at
    BY <1>2, <1>8 DEF Crs!Begin
  <2>2. /\ resumes' \in [CoRoutine -> {"start", "go_on"} \cup Calls] /\ resumes'[c] = "go_on"
        /\ \A d \in CoRoutine \ {c} : resumes'[d] = resumes[d]
    BY <1>3, <1>4, <2>1 DEF CoTyped
  <2>3. at' \in {"run"} \cup Calls
    BY <1>4, <2>1
  <2>4. CoTyped'
    BY <1>1, <1>3, <2>1, <2>2, <2>3 DEF CoTyped
  <2>5. Crs!BlocksExactly' /\ Crs!ItemsAgree'
    BY <1>1, <1>3, <1>4, <2>1 DEF Crs!BlocksExactly, Crs!ItemsAgree, Crs!Created, Crs!Due
  <2>6. Turns'
    BY <1>1, <1>3, <1>4, <2>1, <2>2 DEF Turns, Crs!Created, Calls
  <2>7. \A other \in Calls : other # side => AllServed(other)'
    BY <1>1, <1>4, <1>5, <2>1, <2>2, <2>4, RunKeepsServed DEF Calls
  <2>8. AllServed(side)'
    <3>1. CASE ~ Crs!Ready(side)
      BY <1>1, <2>4, <3>1, NothingToBeHad
    <3>2. CASE Crs!Ready(side)
      <4>1. c \in Crs!OnItsWay(side)'
        BY <1>1, <1>4, <2>1, <3>2, WhoComesNext
      <4>2. event'[c] # side
        BY <1>4, <2>1 DEF Calls
      <4>3. QED
        BY <1>1, <1>4, <2>1, <2>2, <2>4, <4>1, <4>2, RunKeepsServed
    <3>3. QED
      BY <3>1, <3>2
  <2>9. QED
    BY <2>4, <2>5, <2>6, <2>7, <2>8 DEF CoInv
<1>9. QED
  BY <1>6, <1>8, <1>7

LEMMA BlockKeepsCo ==
  ASSUME CoAssumption, CoInv, NEW c \in chosen, NEW n \in Delays, Crs!BlockToSend(c, n)
  PROVE  CoInv'
<1>1. /\ at = "block" /\ n > 0 /\ Crs!AddToDelayedList(c, n, "send")
      /\ at' = "idle" /\ resumes' = [resumes EXCEPT ![c] = "send"]
      /\ UNCHANGED <<top, time, messages, passed, chosen, late>>
  BY DEF Crs!BlockToSend, Crs!Return
<1>2. n \in Ticks /\ n \in Nat
  BY CoConstants DEF Ticks
<1>3. CoTyped /\ Turns /\ Crs!BlocksExactly /\ Crs!ItemsAgree
  BY DEF CoInv
<1>4. /\ c \in ready /\ c \in CoRoutine /\ event[c] = "none" /\ chosen = {c}
      /\ resumes[c] \in {"start", "go_on"}
  BY <1>1, <1>3, RunningIsReady DEF Turns
<1>5. Blocked(c, n, "send")
  BY <1>1, <1>2, <1>4, AddIsBlocked
<1>6. /\ resumes' \in [CoRoutine -> {"start", "go_on"} \cup Calls] /\ resumes'[c] = "send"
      /\ \A d \in CoRoutine \ {c} : resumes'[d] = resumes[d]
  BY <1>1, <1>3, <1>4 DEF CoTyped, Calls
<1>7. CoTyped'
  BY <1>1, <1>2, <1>4, <1>5, <1>6, BlockedTyped DEF Calls
<1>8. Crs!BlocksExactly' /\ Crs!ItemsAgree'
  BY <1>1, <1>2, <1>4, <1>5, BlockedAgree
<1>9. ready \cup delayed \cup overflow \subseteq ready' \cup delayed' \cup overflow'
  BY <1>5 DEF Blocked
<1>10. Turns'
  BY <1>1, <1>3, <1>4, <1>5, <1>6, <1>9 DEF Turns, Blocked, Crs!Created, Calls
<1>11. \A side \in Calls : AllServed(side)'
  <2> SUFFICES ASSUME NEW side \in Calls
               PROVE  AllServed(side)'
    OBVIOUS
  <2>1. event'[c] # side \/ Waits(side)
    BY <1>1, <1>5 DEF Blocked, Waits
  <2>2. resumes[c] # side
    BY <1>4 DEF Calls
  <2>3. QED
    BY <1>1, <1>4, <1>5, <1>6, <1>7, <1>9, <2>1, <2>2, RunKeepsServed DEF Blocked
<1>12. QED
  BY <1>7, <1>8, <1>10, <1>11 DEF CoInv

(* A message sent or received: one that waits for it is on its way.        *)
LEMMA ProceedWakes ==
  ASSUME CoAssumption, CoInv, NEW side \in Calls, Crs!Ready(side), Crs!Proceed(side)
  PROVE  /\ messages' \in 0 .. Length
         /\ Lacks(side) \in Int /\ Lacks(side)' \in Int /\ Lacks(side)' = Lacks(side) - 1
         /\ Lacks(Crs!Other(side)) \in Int /\ Lacks(Crs!Other(side))' = Lacks(Crs!Other(side)) + 1
         /\ \/ Crs!Waiting(Crs!Other(side)) = {} /\ event' = event
            \/ \E d \in Crs!Waiting(Crs!Other(side)) : event' = [event EXCEPT ![d] = "pending"]
<1>1. messages \in 0 .. Length /\ Length \in Nat
  BY CoConstants DEF CoInv, CoTyped
<1>2. messages' = IF side = "send" THEN messages + 1 ELSE messages - 1
  BY DEF Crs!Proceed
<1>3. IF side = "send" THEN messages < Length ELSE messages > 0
  BY DEF Crs!Ready, Crs!CanSend, Crs!CanReceive, Calls
<1>4. Crs!Other(side) = IF side = "send" THEN "receive" ELSE "send"
  BY DEF Crs!Other
<1>5. \/ Crs!Waiting(Crs!Other(side)) = {} /\ event' = event
      \/ \E d \in Crs!Waiting(Crs!Other(side)) : event' = [event EXCEPT ![d] = "pending"]
  BY DEF Crs!Proceed, Crs!WakeOne, Crs!RemoveFromEventList, Crs!Heads
<1>6. QED
  BY <1>1, <1>2, <1>3, <1>4, <1>5 DEF Lacks, Calls

LEMMA ProceedKeepsCo ==
  ASSUME CoAssumption, CoInv, NEW side \in Calls, Crs!Ready(side), Crs!Proceed(side),
         UNCHANGED <<ready, delayed, overflow, wake, top, time, passed, chosen, resumes, remaining>>,
         at' = at \/ (at = side /\ at' \in {"idle", "run"}),
         late' = (late \/ (side = "receive" /\ at = "block" /\ Crs!Waiting("send") = {}))
  PROVE  CoInv'
<1> DEFINE other == Crs!Other(side)
<1>1. CoTyped /\ Turns /\ Crs!BlocksExactly /\ Crs!ItemsAgree
  BY DEF CoInv
<1>2. /\ other \in Calls /\ other # side /\ \A x \in Calls : x = side \/ x = other
      /\ other \notin {"pending", "none"} /\ side \notin {"pending", "none"}
  BY DEF Crs!Other, Calls
<1>3. /\ messages' \in 0 .. Length
      /\ Lacks(side) \in Int /\ Lacks(side)' \in Int /\ Lacks(side)' = Lacks(side) - 1
      /\ Lacks(other) \in Int /\ Lacks(other)' = Lacks(other) + 1
      /\ \/ Crs!Waiting(other) = {} /\ event' = event
         \/ \E d \in Crs!Waiting(other) : event' = [event EXCEPT ![d] = "pending"]
  BY ProceedWakes
<1> HIDE DEF other
<1>4. /\ event' \in [CoRoutine -> {"none", "pending"} \cup Calls]
      /\ \A d \in CoRoutine : event'[d] = event[d] \/ (event[d] = other /\ event'[d] = "pending")
  BY <1>1, <1>3 DEF CoTyped, Crs!Waiting
<1>5. CoTyped'
  BY <1>1, <1>3, <1>4 DEF CoTyped, Calls
<1>6. \A x \in Calls : (Excused(x) => Excused(x)') /\ (at' = "block" => at = "block")
  BY <1>1 DEF Excused, Calls
<1>7. Turns'
  BY <1>1, <1>2, <1>4 DEF Turns, Calls, Crs!Created
<1>8. Crs!BlocksExactly'
  BY <1>1 DEF Crs!BlocksExactly, Crs!Created, Crs!Due, Calls
<1>9. Crs!ItemsAgree'
  BY <1>1, <1>2, <1>4 DEF Crs!ItemsAgree
<1>10. \A x \in Calls : IsFiniteSet(Crs!OnItsWay(x)) /\ Cardinality(Crs!OnItsWay(x)) \in Nat
  BY <1>1, ComingIsFinite
<1>11. \A x \in Calls : IsFiniteSet(Crs!OnItsWay(x)') /\ Cardinality(Crs!OnItsWay(x)') \in Nat
  <2> SUFFICES ASSUME NEW x \in Calls
               PROVE  IsFiniteSet(Crs!OnItsWay(x)') /\ Cardinality(Crs!OnItsWay(x)') \in Nat
    OBVIOUS
  <2>1. Crs!OnItsWay(x)' \subseteq CoRoutine
    BY <1>5 DEF CoTyped, Crs!OnItsWay, Crs!Created
  <2>2. QED
    BY <2>1, FS_Subset, FS_CardinalityType DEF CoAssumption
<1>12. AllServed(other)'
  <2>1. CASE Crs!Waiting(other) = {}
    <3>1. Crs!Waiting(other)' = {}
      BY <1>2, <1>4, <2>1, WhoComes, WhoComesNext
    <3>2. ASSUME other = "send", at' = "block" PROVE late'
      <4>1. at = "block" /\ side = "receive"
        BY <1>2, <1>6, <3>2 DEF Calls
      <4>2. QED
        BY <2>1, <3>2, <4>1
    <3>3. QED
      BY <3>1, <3>2 DEF AllServed, Waits, Excused
  <2>2. CASE Crs!Waiting(other) # {}
    <3>1. PICK d \in Crs!Waiting(other) : event' = [event EXCEPT ![d] = "pending"]
      BY <1>3, <2>2
    <3>2. d \in CoRoutine /\ event[d] = other /\ resumes[d] = other /\ event'[d] = "pending"
          /\ d \in delayed \cup overflow /\ d \notin ready
      BY <1>1, <1>2, <3>1 DEF Crs!Waiting, Turns, CoTyped, Crs!ItemsAgree
    <3>3. d \notin Crs!OnItsWay(other)
      BY <1>1, <1>2, <3>2, WhoComes DEF Turns
    <3>4. Crs!OnItsWay(other) \cup {d} \subseteq Crs!OnItsWay(other)'
      <4>1. d \in Crs!OnItsWay(other)'
        BY <1>2, <3>2, WhoComesNext
      <4>2. ASSUME NEW e \in Crs!OnItsWay(other) PROVE e \in Crs!OnItsWay(other)'
        <5>1. /\ e \in ready \cup delayed \cup overflow
              /\ (resumes[e] = other /\ event[e] # other) \/ (at = other /\ e \in chosen)
          BY WhoComes
        <5>2. e \in CoRoutine
          BY <1>1, <5>1 DEF CoTyped
        <5>3. at = other => at' = other
          BY <1>2
        <5>4. QED
          BY <1>4, <5>1, <5>2, <5>3, WhoComesNext
      <4>3. QED
        BY <4>1, <4>2
    <3>5. Cardinality(Crs!OnItsWay(other) \cup {d}) = Cardinality(Crs!OnItsWay(other)) + 1
      BY <1>2, <1>10, <3>3, FS_AddElement
    <3>6. Cardinality(Crs!OnItsWay(other) \cup {d}) <= Cardinality(Crs!OnItsWay(other)')
      BY <1>2, <1>11, <3>4, FS_Subset
    <3>7. Excused(other)' \/ Lacks(other) <= Cardinality(Crs!OnItsWay(other))
      BY <1>2, <1>6, <2>2 DEF CoInv, AllServed, Waits
    <3>8. Excused(other)' \/ Lacks(other)' <= Cardinality(Crs!OnItsWay(other)')
      BY <1>2, <1>3, <1>10, <1>11, <3>5, <3>6, <3>7
    <3>9. QED
      BY <3>8 DEF AllServed
  <2>3. QED
    BY <2>1, <2>2
<1>13. AllServed(side)'
  <2>1. Waits(side)' => Waits(side)
    <3>1. Crs!Waiting(side)' \subseteq Crs!Waiting(side)
      BY <1>2, <1>4, WhoComes, WhoComesNext
    <3>2. QED
      BY <1>6, <3>1 DEF Waits
  <2>2. Cardinality(Crs!OnItsWay(side)) <= Cardinality(Crs!OnItsWay(side)') + 1
    <3>1. ASSUME NEW e \in Crs!OnItsWay(side) PROVE e \in Crs!OnItsWay(side)' \cup chosen
      <4>1. /\ e \in ready \cup delayed \cup overflow
            /\ (resumes[e] = side /\ event[e] # side) \/ (at = side /\ e \in chosen)
        BY WhoComes
      <4>2. e \in CoRoutine
        BY <1>1, <4>1 DEF CoTyped
      <4>3. QED
        BY <1>2, <1>4, <4>1, <4>2, WhoComesNext
    <3>2. CASE chosen \subseteq Crs!OnItsWay(side)'
      <4>1. Cardinality(Crs!OnItsWay(side)) <= Cardinality(Crs!OnItsWay(side)')
        BY <1>11, <3>1, <3>2, FS_Subset
      <4>2. QED
        BY <1>10, <1>11, <4>1
    <3>3. CASE ~ (chosen \subseteq Crs!OnItsWay(side)')
      <4>1. PICK d \in chosen : d \notin Crs!OnItsWay(side)'
        BY <3>3
      <4>2. chosen = {d}
        BY <1>1 DEF Turns
      <4>3. /\ IsFiniteSet(Crs!OnItsWay(side)' \cup {d})
            /\ Cardinality(Crs!OnItsWay(side)' \cup {d}) = Cardinality(Crs!OnItsWay(side)') + 1
        BY <1>11, <4>1, FS_AddElement
      <4>4. Cardinality(Crs!OnItsWay(side)) <= Cardinality(Crs!OnItsWay(side)' \cup {d})
        BY <3>1, <4>2, <4>3, FS_Subset
      <4>5. QED
        BY <4>3, <4>4
    <3>4. QED
      BY <3>2, <3>3
  <2>3. Waits(side) /\ ~ Excused(side) => Lacks(side) <= Cardinality(Crs!OnItsWay(side))
    BY DEF CoInv, AllServed
  <2>4. Waits(side)' /\ ~ Excused(side)' => Lacks(side)' <= Cardinality(Crs!OnItsWay(side)')
    BY <1>3, <1>10, <1>11, <1>6, <2>1, <2>2, <2>3
  <2>5. QED
    BY <2>4 DEF AllServed
<1>14. QED
  BY <1>2, <1>5, <1>7, <1>8, <1>9, <1>12, <1>13 DEF CoInv

LEMMA FinishKeepsCo ==
  ASSUME CoAssumption, CoInv, NEW c \in chosen, NEW side \in Calls, Crs!Finish(c, side)
  PROVE  CoInv'
<1>1. /\ at = side
      /\ UNCHANGED <<ready, delayed, overflow, wake, top, time, passed, chosen, remaining, late>>
  BY DEF Crs!Finish
<1>2. CoTyped /\ Turns /\ Crs!BlocksExactly /\ Crs!ItemsAgree /\ resumes[c] = "go_on"
  BY <1>1 DEF CoInv, Turns
<1>3. [resumes EXCEPT ![c] = "go_on"] = resumes
  BY <1>2 DEF CoTyped
<1>4. CASE Crs!Ready(side)
  <2>1. Crs!Proceed(side) /\ resumes' = resumes /\ at' \in {"idle", "run"}
    BY <1>3, <1>4 DEF Crs!Finish, Crs!Return
  <2>2. late' = (late \/ (side = "receive" /\ at = "block" /\ Crs!Waiting("send") = {}))
    BY <1>1, <1>2 DEF CoTyped, Calls
  <2>3. QED
    BY <1>1, <1>4, <2>1, <2>2, ProceedKeepsCo
<1>5. CASE ~ Crs!Ready(side)
  <2>1. at' = "run" /\ UNCHANGED <<event, messages, resumes>>
    BY <1>5 DEF Crs!Finish
  <2>2. CoTyped'
    BY <1>1, <1>2, <2>1 DEF CoTyped
  <2>3. Turns'
    BY <1>1, <1>2, <2>1 DEF Turns, Crs!Created, Calls
  <2>4. Crs!BlocksExactly' /\ Crs!ItemsAgree'
    BY <1>1, <1>2, <2>1 DEF Crs!BlocksExactly, Crs!ItemsAgree, Crs!Created, Crs!Due, Calls
  <2>5. AllServed(side)'
    BY <1>5, <2>1, <2>2, NothingToBeHad
  <2>6. ASSUME NEW other \in Calls, other # side PROVE AllServed(other)'
    <3>1. Lacks(other)' <= Lacks(other) /\ Lacks(other) \in Int /\ Lacks(other)' \in Int
      BY <1>2, <2>1, CoConstants DEF Lacks, CoTyped
    <3>2. (Waits(other)' => Waits(other)) /\ (Excused(other) => Excused(other)')
      <4>1. Crs!Waiting(other)' \subseteq Crs!Waiting(other)
        BY <2>1, WhoComes, WhoComesNext
      <4>2. QED
        BY <1>1, <2>1, <4>1 DEF Waits, Excused
    <3>3. Crs!OnItsWay(other) \subseteq Crs!OnItsWay(other)'
      BY <1>1, <2>1, <2>6, WhoComes, WhoComesNext
    <3>4. QED
      BY <1>2, <2>2, <3>1, <3>2, <3>3, StillServed DEF CoInv
  <2>7. QED
    BY <2>2, <2>3, <2>4, <2>5, <2>6 DEF CoInv
<1>6. QED
  BY <1>4, <1>5

LEMMA FromISRKeepsCo ==
  ASSUME CoAssumption, CoInv, NEW side \in Calls, Crs!FromISR(side)
  PROVE  CoInv'
<1>1. Crs!Ready(side) /\ Crs!Proceed(side)
  BY DEF Crs!FromISR, CoAssumption, Crs!CoRoutinesAssumption
<1>2. /\ UNCHANGED <<ready, delayed, overflow, wake, top, time, at, passed, chosen, resumes, remaining>>
      /\ late' = (late \/ (side = "receive" /\ at = "block" /\ Crs!Waiting("send") = {}))
  BY DEF Crs!FromISR
<1>3. QED
  BY <1>1, <1>2, ProceedKeepsCo

LEMMA StepKeepsCo ==
  ASSUME CoAssumption, CoInv, Crs!CoNext
  PROVE  CoInv'
<1>1. CASE Crs!Schedule \/ Crs!CheckPendingReadyList \/ Crs!CheckDelayedList
  BY <1>1, ScheduleKeepsCo, CheckPendingKeepsCo, CheckDelayedKeepsCo
<1>2. CASE Crs!PassTick \/ Crs!TimeOut \/ Crs!Select \/ Crs!TickInterrupt
  BY <1>2, PassTickKeepsCo, TimeOutKeepsCo, SelectKeepsCo, TickKeepsCo
<1>3. CASE Crs!Runs
  BY <1>3, DelayKeepsCo, BlockKeepsCo, BeginKeepsCo, FinishKeepsCo DEF Crs!Runs, Calls
<1>4. CASE \E c \in CoRoutine : Crs!Create(c)
  BY <1>4, CreateKeepsCo
<1>5. CASE \E side \in Calls : Crs!FromISR(side)
  BY <1>5, FromISRKeepsCo
<1>6. QED
  BY <1>1, <1>2, <1>3, <1>4, <1>5 DEF Crs!CoNext, Calls

(* None is blocked too long or too short, and none waits in vain.          *)
LEMMA CoInvImplies ==
  ASSUME CoInv
  PROVE  Crs!BlocksExactly /\ Crs!ItemsAgree /\ Crs!NoneWaitsInVain
<1>1. AllServed("send") /\ AllServed("receive")
  BY DEF CoInv, Calls
<1>2. Crs!NoneWaitsInVain
  BY <1>1, CoCount DEF AllServed, Waits, Excused, Lacks, Crs!NoneWaitsInVain
<1>3. QED
  BY <1>2 DEF CoInv

-----------------------------------------------------------------------------
(* The life of timers and their status byte.                               *)

TimerFlags == {"active", "static", "reload"}
TimerCommands == {"start", "stop", "change", "delete"}

(* What the daemon is doing: to which timer, for which command.            *)
DaemonStates ==
  [at : {"idle"}]
  \cup [at : {"set"}, timer : SoftTimer, command : {"start", "change"}]
  \cup [at : {"clear"}, timer : SoftTimer, command : {"stop", "expire", "delete"}]
  \cup [at : {"write"}, timer : SoftTimer, command : TimerCommands \cup {"expire"},
        value : SUBSET TimerFlags]
  \cup [at : {"insert"}, timer : SoftTimer, command : {"start", "change"}]

ControlTyped ==
  /\ memory \in [SoftTimer -> {"none", "heap", "static", "freed"}]
  /\ status \in [SoftTimer -> SUBSET TimerFlags] /\ listed \subseteq SoftTimer
  /\ commands \in Seq(TimerCommands \X SoftTimer) /\ begins \in BOOLEAN
  /\ daemon \in DaemonStates
  /\ ~begins => listed = {} /\ commands = <<>> /\ daemon.at = "idle"

(* A flag means what it says, but for the one timer whose status byte the  *)
(* daemon has not written yet; that one is on no list.  What the daemon    *)
(* has read and is about to write keeps the flag of static memory.         *)
FlagsRight ==
  /\ \A t \in SoftTimer : Control!Live(t) =>
       /\ "static" \in status[t] <=> memory[t] = "static"
       /\ (daemon.at = "idle" \/ daemon.timer # t) => ("active" \in status[t] <=> t \in listed)
  /\ daemon.at # "idle" => daemon.timer \notin listed
  /\ daemon.at = "write" =>
       /\ "static" \in daemon.value <=> memory[daemon.timer] = "static"
       /\ "active" \in daemon.value <=> daemon.command \in {"start", "change"}
  /\ daemon.at = "insert" => "active" \in status[daemon.timer]

(* Nothing comes for a timer after the command to delete it.               *)
DeletedLast ==
  /\ \A i, j \in 1 .. Len(commands) :
       commands[i][1] = "delete" /\ commands[j][2] = commands[i][2] => j <= i
  /\ daemon.at # "idle" /\ daemon.command = "delete" =>
       /\ memory[daemon.timer] = "static"
       /\ \A i \in 1 .. Len(commands) : commands[i][2] # daemon.timer

ControlInv == ControlTyped /\ FlagsRight /\ DeletedLast /\ Control!NoFreedTimerInUse

LEMMA ControlStarts ==
  Control!ControlInit => ControlInv
<1> SUFFICES ASSUME Control!ControlInit PROVE ControlInv
  OBVIOUS
<1>1. ControlTyped
  <2>1. /\ daemon \in DaemonStates /\ daemon.at = "idle" /\ commands = <<>>
        /\ commands \in Seq(TimerCommands \X SoftTimer) /\ begins = FALSE
    BY DEF Control!ControlInit, DaemonStates, Control!Idle
  <2>2. QED
    BY <2>1 DEF Control!ControlInit, ControlTyped
<1>2. FlagsRight /\ DeletedLast /\ Control!NoFreedTimerInUse
  BY DEF Control!ControlInit, FlagsRight, DeletedLast, Control!NoFreedTimerInUse, Control!Idle,
    Control!Live
<1>3. QED
  BY <1>1, <1>2 DEF ControlInv

LEMMA ControlInvImplies ==
  ControlInv => Control!StatusMatchesList /\ Control!NoFreedTimerInUse
BY DEF ControlInv, FlagsRight, Control!StatusMatchesList, Control!GetStaticBuffer,
  Control!IsTimerActive

LEMMA ListsReady ==
  ASSUME ControlTyped, Control!CheckForValidListAndQueue
  PROVE  listed' = listed /\ commands' = commands /\ begins'
BY DEF ControlTyped, Control!CheckForValidListAndQueue

LEMMA DaemonFields ==
  ASSUME daemon \in DaemonStates
  PROVE  /\ daemon.at \in {"idle", "set", "clear", "write", "insert"}
         /\ daemon.at # "idle" => daemon.timer \in SoftTimer
         /\ daemon.at \in {"set", "insert"} => daemon.command \in {"start", "change"}
         /\ daemon.at = "clear" => daemon.command \in {"stop", "expire", "delete"}
         /\ daemon.at = "write" =>
              daemon.command \in TimerCommands \cup {"expire"} /\ daemon.value \subseteq TimerFlags
BY DEF DaemonStates

LEMMA CreationKeepsControl ==
  ASSUME ControlInv, NEW t \in SoftTimer, NEW place \in {"heap", "static"}, NEW r \in BOOLEAN,
         Control!CreateTimer(t, place, r)
  PROVE  ControlInv'
<1>1. /\ memory[t] = "none" /\ memory' = [memory EXCEPT ![t] = place]
      /\ status' = [status EXCEPT ![t] = (IF place = "static" THEN {"static"} ELSE {})
                                           \cup (IF r THEN {"reload"} ELSE {})]
      /\ listed' = listed /\ commands' = commands /\ begins' /\ daemon' = daemon
  BY ListsReady DEF ControlInv, Control!CreateTimer
<1>2. ControlTyped'
  BY <1>1 DEF ControlInv, ControlTyped, TimerFlags
<1>3. /\ \A u \in SoftTimer \ {t} : memory'[u] = memory[u] /\ status'[u] = status[u]
      /\ memory'[t] = place /\ ("static" \in status'[t] <=> place = "static")
      /\ "active" \notin status'[t]
  BY <1>1 DEF ControlInv, ControlTyped
<1>4. /\ ~Control!Live(t) /\ t \notin listed /\ (daemon.at # "idle" => daemon.timer # t)
      /\ \A i \in 1 .. Len(commands) : commands[i][2] # t
  BY <1>1 DEF ControlInv, Control!NoFreedTimerInUse, Control!Live
<1>5. \A u \in SoftTimer \ {t} : Control!Live(u)' = Control!Live(u)
  BY <1>3 DEF Control!Live
<1>6. Control!Live(t)'
  BY <1>3 DEF Control!Live
<1>7. daemon.at # "idle" => daemon.timer \in SoftTimer \ {t}
  BY <1>4, DaemonFields DEF ControlInv, ControlTyped
<1>8. FlagsRight'
  BY <1>1, <1>3, <1>4, <1>5, <1>7 DEF ControlInv, FlagsRight
<1>9. DeletedLast'
  BY <1>1, <1>3, <1>7 DEF ControlInv, DeletedLast
<1>10. \A i \in 1 .. Len(commands) : commands[i][2] \in SoftTimer
  BY DEF ControlInv, ControlTyped
<1>11. Control!NoFreedTimerInUse'
  <2>1. \A u \in listed : u \in SoftTimer
    BY DEF ControlInv, ControlTyped
  <2>2. QED
    BY <1>1, <1>4, <1>5, <1>7, <1>10, <2>1 DEF ControlInv, Control!NoFreedTimerInUse
<1>12. QED
  BY <1>2, <1>8, <1>9, <1>11 DEF ControlInv

LEMMA SendKeepsControl ==
  ASSUME ControlInv, NEW t \in SoftTimer, NEW c \in TimerCommands, Control!SendCommand(c, t)
  PROVE  ControlInv'
<1>1. /\ begins /\ Control!Live(t) /\ ~Control!Deleted(t) /\ commands' = Append(commands, <<c, t>>)
      /\ memory' = memory /\ status' = status /\ listed' = listed /\ begins' = begins
      /\ daemon' = daemon
  BY DEF Control!SendCommand
<1>2. commands \in Seq(TimerCommands \X SoftTimer) /\ <<c, t>> \in TimerCommands \X SoftTimer
  BY DEF ControlInv, ControlTyped
<1>3. /\ commands' \in Seq(TimerCommands \X SoftTimer) /\ Len(commands') = Len(commands) + 1
      /\ Len(commands) \in Nat
      /\ commands'[Len(commands) + 1] = <<c, t>>
      /\ \A i \in 1 .. Len(commands) : commands'[i] = commands[i]
  BY <1>1, <1>2, AppendProperties, LenProperties
<1>4. ControlTyped'
  BY <1>1, <1>3 DEF ControlInv, ControlTyped
<1>5. FlagsRight'
  BY <1>1 DEF ControlInv, FlagsRight, Control!Live
<1>6. /\ \A i \in 1 .. Len(commands) : commands[i][1] = "delete" => commands[i][2] # t
      /\ daemon.at # "idle" /\ daemon.command = "delete" => daemon.timer # t
  <2>1. \A i \in 1 .. Len(commands) : commands[i] = <<commands[i][1], commands[i][2]>>
    BY <1>2
  <2>2. QED
    BY <1>1, <2>1 DEF Control!Deleted
<1>7. DeletedLast'
  BY <1>1, <1>3, <1>6 DEF ControlInv, DeletedLast
<1>8. Control!NoFreedTimerInUse'
  BY <1>1, <1>3 DEF ControlInv, Control!NoFreedTimerInUse, Control!Live
<1>9. QED
  BY <1>4, <1>5, <1>7, <1>8 DEF ControlInv

LEMMA ModeKeepsControl ==
  ASSUME ControlInv, NEW t \in SoftTimer, NEW r \in BOOLEAN, Control!SetReloadMode(t, r)
  PROVE  ControlInv'
<1>1. /\ status' = [status EXCEPT ![t] = IF r THEN @ \cup {"reload"} ELSE @ \ {"reload"}]
      /\ memory' = memory /\ listed' = listed /\ commands' = commands /\ begins' = begins
      /\ daemon' = daemon
  BY DEF Control!SetReloadMode
<1>2. status' \in [SoftTimer -> SUBSET TimerFlags]
  BY <1>1 DEF ControlInv, ControlTyped, TimerFlags
<1>3. \A u \in SoftTimer : /\ "static" \in status'[u] <=> "static" \in status[u]
                           /\ "active" \in status'[u] <=> "active" \in status[u]
  BY <1>1 DEF ControlInv, ControlTyped
<1>4. ControlTyped'
  BY <1>1, <1>2 DEF ControlInv, ControlTyped
<1>5. daemon.at # "idle" => daemon.timer \in SoftTimer
  BY DaemonFields DEF ControlInv, ControlTyped
<1>6. FlagsRight'
  BY <1>1, <1>3, <1>5 DEF ControlInv, FlagsRight, Control!Live
<1>7. DeletedLast' /\ Control!NoFreedTimerInUse'
  BY <1>1 DEF ControlInv, DeletedLast, Control!NoFreedTimerInUse, Control!Live
<1>8. QED
  BY <1>4, <1>6, <1>7 DEF ControlInv

LEMMA ExpiryKeepsControl ==
  ASSUME ControlInv, NEW t \in SoftTimer, Control!Expires(t)
  PROVE  ControlInv'
<1>1. /\ daemon.at = "idle" /\ t \in listed
      /\ memory' = memory /\ status' = status /\ commands' = commands /\ begins' = begins
  BY DEF Control!Expires
<1>2. CASE listed' = listed /\ daemon' = daemon
  BY <1>1, <1>2 DEF ControlInv, ControlTyped, FlagsRight, DeletedLast, Control!NoFreedTimerInUse,
    Control!Live
<1>3. CASE listed' = listed \ {t} /\ daemon' = Control!Reads("clear", t, "expire")
  <2>1. daemon' = [at |-> "clear", timer |-> t, command |-> "expire"]
    BY <1>3 DEF Control!Reads
  <2>2. /\ daemon' \in DaemonStates /\ daemon'.at = "clear" /\ daemon'.timer = t
        /\ daemon'.command = "expire"
    BY <2>1 DEF DaemonStates
  <2>3. ControlTyped'
    BY <1>1, <1>3, <2>2 DEF ControlInv, ControlTyped
  <2>4. FlagsRight'
    BY <1>1, <1>3, <2>2 DEF ControlInv, FlagsRight, Control!Live
  <2>5. DeletedLast'
    BY <1>1, <2>2 DEF ControlInv, DeletedLast
  <2>6. Control!NoFreedTimerInUse'
    BY <1>1, <1>3, <2>2 DEF ControlInv, Control!NoFreedTimerInUse, Control!Live
  <2>7. QED
    BY <2>3, <2>4, <2>5, <2>6 DEF ControlInv
<1>4. QED
  BY <1>2, <1>3 DEF Control!Expires

(* The commands but the first, with what is known of the first.            *)
LEMMA FirstCommand ==
  ASSUME ControlInv, commands # <<>>
  PROVE  /\ Head(commands)[1] \in TimerCommands /\ Head(commands)[2] \in SoftTimer
         /\ Control!Live(Head(commands)[2])
         /\ Tail(commands) \in Seq(TimerCommands \X SoftTimer)
         /\ \A i \in 1 .. Len(Tail(commands)) :
              i + 1 \in 1 .. Len(commands) /\ Tail(commands)[i] = commands[i + 1]
         /\ Head(commands)[1] = "delete" =>
              \A i \in 1 .. Len(Tail(commands)) : Tail(commands)[i][2] # Head(commands)[2]
         /\ begins
<1>1. commands \in Seq(TimerCommands \X SoftTimer) /\ begins
  BY DEF ControlInv, ControlTyped
<1>2. /\ Len(commands) \in Nat \ {0} /\ Head(commands) = commands[1]
      /\ commands[1] \in TimerCommands \X SoftTimer
  BY <1>1, LenProperties, EmptySeq, ElementOfSeq, HeadTailProperties
<1>3. /\ Tail(commands) \in Seq(TimerCommands \X SoftTimer)
      /\ Len(Tail(commands)) = Len(commands) - 1
      /\ \A i \in 1 .. Len(Tail(commands)) : Tail(commands)[i] = commands[i + 1]
  BY <1>1, <1>2, HeadTailProperties
<1>4. \A i \in 1 .. Len(Tail(commands)) : i + 1 \in 1 .. Len(commands) /\ ~(i + 1 <= 1)
  BY <1>2, <1>3
<1>5. Control!Live(Head(commands)[2])
  BY <1>2 DEF ControlInv, Control!NoFreedTimerInUse
<1>6. Head(commands)[1] = "delete" =>
        \A i \in 1 .. Len(Tail(commands)) : Tail(commands)[i][2] # Head(commands)[2]
  BY <1>2, <1>3, <1>4 DEF ControlInv, DeletedLast
<1>7. QED
  BY <1>1, <1>2, <1>3, <1>4, <1>5, <1>6

(* What is true of all commands stays true of all but the first.           *)
LEMMA FewerCommands ==
  ASSUME ControlInv, commands # <<>>, commands' = Tail(commands)
  PROVE  /\ \A i, j \in 1 .. Len(commands') :
              commands'[i][1] = "delete" /\ commands'[j][2] = commands'[i][2] => j <= i
         /\ \A i \in 1 .. Len(commands') :
              commands'[i][2] \in SoftTimer /\ Control!Live(commands'[i][2])
<1>1. \A i \in 1 .. Len(commands') :
        i + 1 \in 1 .. Len(commands) /\ commands'[i] = commands[i + 1]
  BY FirstCommand
<1>2. \A i \in 1 .. Len(commands) : commands[i][2] \in SoftTimer /\ Control!Live(commands[i][2])
  BY DEF ControlInv, ControlTyped, Control!NoFreedTimerInUse
<1>3. \A i \in 1 .. Len(commands') :
        commands'[i][2] \in SoftTimer /\ Control!Live(commands'[i][2])
  BY <1>1, <1>2
<1>4. ASSUME NEW i \in 1 .. Len(commands'), NEW j \in 1 .. Len(commands'),
             commands'[i][1] = "delete", commands'[j][2] = commands'[i][2]
      PROVE  j <= i
  <2>1. j + 1 <= i + 1
    BY <1>1, <1>4 DEF ControlInv, DeletedLast
  <2>2. QED
    BY <2>1
<1>5. QED
  BY <1>3, <1>4

LEMMA ReceiptKeepsControl ==
  ASSUME ControlInv, Control!Receive
  PROVE  ControlInv'
<1>0. PICK c \in TimerCommands, t \in SoftTimer :
        c = Head(commands)[1] /\ t = Head(commands)[2]
  BY FirstCommand DEF Control!Receive
<1>1. /\ daemon.at = "idle" /\ commands # <<>> /\ commands' = Tail(commands)
      /\ status' = status /\ begins' = begins
      /\ \/ c = "delete" /\ Control!ReceiveDelete(t)
         \/ /\ c # "delete" /\ daemon' = Control!Reads(IF c = "stop" THEN "clear" ELSE "set", t, c)
            /\ listed' = listed \ {t} /\ memory' = memory
  BY <1>0 DEF Control!Receive
<1>2. /\ c \in TimerCommands /\ t \in SoftTimer /\ Control!Live(t) /\ begins
      /\ commands' \in Seq(TimerCommands \X SoftTimer)
      /\ c = "delete" => \A i \in 1 .. Len(commands') : commands'[i][2] # t
  BY <1>0, <1>1, FirstCommand
<1>3. /\ \A i, j \in 1 .. Len(commands') :
           commands'[i][1] = "delete" /\ commands'[j][2] = commands'[i][2] => j <= i
      /\ \A i \in 1 .. Len(commands') :
           commands'[i][2] \in SoftTimer /\ Control!Live(commands'[i][2])
  BY <1>1, FewerCommands
<1>4. "static" \in status[t] <=> memory[t] = "static"
  BY <1>2 DEF ControlInv, FlagsRight
<1>5. CASE /\ memory' = memory /\ listed' = listed \ {t}
           /\ \/ c = "delete" /\ memory[t] = "static" /\ daemon' = Control!Reads("clear", t, "delete")
              \/ /\ c # "delete"
                 /\ daemon' = Control!Reads(IF c = "stop" THEN "clear" ELSE "set", t, c)
  <2>1. daemon' = [at |-> IF c \in {"stop", "delete"} THEN "clear" ELSE "set", timer |-> t,
                   command |-> c]
    BY <1>5 DEF Control!Reads
  <2>2. /\ daemon' \in DaemonStates /\ daemon'.timer = t /\ daemon'.command = c
        /\ daemon'.at \in {"clear", "set"}
    BY <1>2, <2>1 DEF DaemonStates, TimerCommands
  <2>3. ControlTyped'
    BY <1>1, <1>2, <1>5, <2>2 DEF ControlInv, ControlTyped
  <2>4. FlagsRight'
    BY <1>1, <1>5, <2>2 DEF ControlInv, FlagsRight, Control!Live
  <2>5. DeletedLast'
    BY <1>2, <1>3, <1>5, <2>2 DEF DeletedLast
  <2>6. Control!NoFreedTimerInUse'
    BY <1>2, <1>3, <1>5, <2>2 DEF ControlInv, Control!NoFreedTimerInUse, Control!Live
  <2>7. QED
    BY <2>3, <2>4, <2>5, <2>6 DEF ControlInv
<1>6. CASE /\ c = "delete" /\ memory' = [memory EXCEPT ![t] = "freed"]
           /\ listed' = listed \ {t} /\ daemon' = daemon
  <2>1. /\ memory' \in [SoftTimer -> {"none", "heap", "static", "freed"}]
        /\ memory'[t] = "freed" /\ \A u \in SoftTimer \ {t} : memory'[u] = memory[u]
    BY <1>2, <1>6 DEF ControlInv, ControlTyped
  <2>2. ControlTyped'
    BY <1>1, <1>2, <1>6, <2>1 DEF ControlInv, ControlTyped
  <2>3. /\ ~Control!Live(t)' /\ \A u \in SoftTimer \ {t} : Control!Live(u)' = Control!Live(u)
    BY <2>1 DEF Control!Live
  <2>4. FlagsRight'
    BY <1>1, <1>6, <2>1, <2>3 DEF ControlInv, FlagsRight
  <2>5. DeletedLast'
    BY <1>1, <1>3, <1>6 DEF DeletedLast
  <2>6. Control!NoFreedTimerInUse'
    <3>1. \A u \in listed : u \in SoftTimer
      BY DEF ControlInv, ControlTyped
    <3>2. \A u \in listed' : Control!Live(u)'
      BY <1>6, <2>3, <3>1 DEF ControlInv, Control!NoFreedTimerInUse
    <3>3. (\A i \in 1 .. Len(commands) : Control!Live(commands[i][2]))'
      BY <1>2, <1>3, <1>6, <2>1 DEF Control!Live
    <3>4. daemon'.at = "idle"
      BY <1>1, <1>6
    <3>5. QED
      BY <3>2, <3>3, <3>4 DEF Control!NoFreedTimerInUse
  <2>7. QED
    BY <2>2, <2>4, <2>5, <2>6 DEF ControlInv
<1>7. QED
  BY <1>1, <1>4, <1>5, <1>6 DEF Control!ReceiveDelete

LEMMA ReadingKeepsControl ==
  ASSUME ControlInv, Control!ReadStatus
  PROVE  ControlInv'
<1> DEFINE t == daemon.timer
           v == IF daemon.at = "set" THEN status[t] \cup {"active"} ELSE status[t] \ {"active"}
<1>1. /\ daemon.at \in {"set", "clear"}
      /\ daemon' = [at |-> "write", timer |-> t, command |-> daemon.command, value |-> v]
      /\ memory' = memory /\ status' = status /\ listed' = listed /\ commands' = commands
      /\ begins' = begins
  BY DEF Control!ReadStatus
<1>2. /\ t \in SoftTimer /\ daemon.at = "set" => daemon.command \in {"start", "change"}
      /\ daemon.at = "clear" => daemon.command \in {"stop", "expire", "delete"}
  BY <1>1, DaemonFields DEF ControlInv, ControlTyped
<1>3. t \in SoftTimer
  BY <1>1, DaemonFields DEF ControlInv, ControlTyped
<1>4. /\ v \subseteq TimerFlags /\ ("static" \in v <=> "static" \in status[t])
      /\ "active" \in v <=> daemon.at = "set"
  BY <1>3 DEF ControlInv, ControlTyped, TimerFlags
<1> HIDE DEF v
<1>5. /\ daemon' \in DaemonStates /\ daemon'.at = "write" /\ daemon'.timer = t
      /\ daemon'.command = daemon.command /\ daemon'.value = v
  BY <1>1, <1>2, <1>3, <1>4 DEF DaemonStates, TimerCommands
<1> HIDE DEF t
<1>6. ControlTyped'
  BY <1>1, <1>5 DEF ControlInv, ControlTyped
<1>7. Control!Live(t)
  BY <1>1 DEF ControlInv, Control!NoFreedTimerInUse, t
<1>8. FlagsRight'
  <2>1. \A u \in SoftTimer : Control!Live(u)' = Control!Live(u)
    BY <1>1 DEF Control!Live
  <2>2. t \notin listed /\ ("static" \in v <=> memory[t] = "static")
    BY <1>1, <1>3, <1>4, <1>7 DEF ControlInv, FlagsRight, t
  <2>3. "active" \in v <=> daemon.command \in {"start", "change"}
    BY <1>1, <1>2, <1>3, <1>4
  <2>4. \A u \in SoftTimer : Control!Live(u) =>
          /\ "static" \in status[u] <=> memory[u] = "static"
          /\ t # u => ("active" \in status[u] <=> u \in listed)
    BY <1>1 DEF ControlInv, FlagsRight, t
  <2>5. QED
    BY <1>1, <1>5, <2>1, <2>2, <2>3, <2>4 DEF FlagsRight
<1>9. DeletedLast'
  BY <1>1, <1>5 DEF ControlInv, DeletedLast, t
<1>10. Control!NoFreedTimerInUse'
  BY <1>1, <1>5, <1>7 DEF ControlInv, Control!NoFreedTimerInUse, Control!Live
<1>11. QED
  BY <1>6, <1>8, <1>9, <1>10 DEF ControlInv

LEMMA WritingKeepsControl ==
  ASSUME ControlInv, Control!WriteStatus
  PROVE  ControlInv'
<1>0. PICK t \in SoftTimer, c \in TimerCommands \cup {"expire"} :
        t = daemon.timer /\ c = daemon.command
  BY DaemonFields DEF ControlInv, ControlTyped, Control!WriteStatus
<1>1. /\ daemon.at = "write" /\ status' = [status EXCEPT ![t] = daemon.value]
      /\ daemon' = IF c \in {"start", "change"}
                     THEN [at |-> "insert", timer |-> t, command |-> c] ELSE [at |-> "idle"]
      /\ memory' = IF c = "delete" THEN [memory EXCEPT ![t] = "none"] ELSE memory
      /\ listed' = listed /\ commands' = commands /\ begins' = begins
  BY <1>0 DEF Control!WriteStatus, Control!Idle
<1>2. /\ t \in SoftTimer /\ c \in TimerCommands \cup {"expire"} /\ daemon.value \subseteq TimerFlags
  BY <1>0, <1>1, DaemonFields DEF ControlInv, ControlTyped
<1>3. /\ Control!Live(t) /\ t \notin listed
      /\ "static" \in daemon.value <=> memory[t] = "static"
      /\ "active" \in daemon.value <=> c \in {"start", "change"}
      /\ c = "delete" => \A i \in 1 .. Len(commands) : commands[i][2] # t
  BY <1>0, <1>1 DEF ControlInv, FlagsRight, DeletedLast, Control!NoFreedTimerInUse
<1>4. \A u \in SoftTimer \ {t} : Control!Live(u) =>
        /\ "static" \in status[u] <=> memory[u] = "static"
        /\ "active" \in status[u] <=> u \in listed
  BY <1>0, <1>1 DEF ControlInv, FlagsRight
<1>5. /\ \A i, j \in 1 .. Len(commands) :
           commands[i][1] = "delete" /\ commands[j][2] = commands[i][2] => j <= i
      /\ \A i \in 1 .. Len(commands) : commands[i][2] \in SoftTimer
  <2>1. \A i, j \in 1 .. Len(commands) :
          commands[i][1] = "delete" /\ commands[j][2] = commands[i][2] => j <= i
    BY Zenon DEF ControlInv, DeletedLast
  <2>2. \A i \in 1 .. Len(commands) : commands[i][2] \in SoftTimer
    BY DEF ControlInv, ControlTyped
  <2>3. QED
    BY <2>1, <2>2
<1>6. /\ status' \in [SoftTimer -> SUBSET TimerFlags] /\ status'[t] = daemon.value
      /\ \A u \in SoftTimer \ {t} : status'[u] = status[u]
  BY <1>1, <1>2 DEF ControlInv, ControlTyped
<1>7. /\ memory' \in [SoftTimer -> {"none", "heap", "static", "freed"}]
      /\ \A u \in SoftTimer \ {t} : memory'[u] = memory[u]
      /\ memory'[t] = IF c = "delete" THEN "none" ELSE memory[t]
  BY <1>1, <1>2 DEF ControlInv, ControlTyped
<1>8. /\ daemon' \in DaemonStates /\ daemon'.at \in {"idle", "insert"}
      /\ daemon'.at = "idle" <=> c \notin {"start", "change"}
      /\ daemon'.at = "insert" => daemon'.timer = t /\ daemon'.command = c
  BY <1>1, <1>2 DEF DaemonStates
<1>9. ControlTyped'
  BY <1>1, <1>6, <1>7, <1>8 DEF ControlInv, ControlTyped
<1>10. /\ \A u \in SoftTimer \ {t} : Control!Live(u)' = Control!Live(u)
       /\ Control!Live(t)' <=> c # "delete"
  BY <1>3, <1>7 DEF Control!Live
<1>11. FlagsRight'
  BY <1>1, <1>2, <1>3, <1>4, <1>6, <1>7, <1>8, <1>10 DEF FlagsRight
<1>12. DeletedLast'
  BY <1>1, <1>5, <1>8 DEF DeletedLast
<1>13. Control!NoFreedTimerInUse'
  <2>1. \A u \in listed : u \in SoftTimer /\ Control!Live(u)
    BY DEF ControlInv, ControlTyped, Control!NoFreedTimerInUse
  <2>2. \A i \in 1 .. Len(commands) : Control!Live(commands[i][2])
    BY DEF ControlInv, Control!NoFreedTimerInUse
  <2>3. QED
    BY <1>1, <1>3, <1>5, <1>8, <1>10, <2>1, <2>2 DEF Control!NoFreedTimerInUse
<1>14. QED
  BY <1>9, <1>11, <1>12, <1>13 DEF ControlInv

LEMMA InsertionKeepsControl ==
  ASSUME ControlInv, Control!Insert
  PROVE  ControlInv'
<1>0. PICK t \in SoftTimer : t = daemon.timer
  BY DaemonFields DEF ControlInv, ControlTyped, Control!Insert
<1>1. /\ daemon.at = "insert" /\ memory' = memory /\ status' = status /\ commands' = commands
      /\ begins' = begins
      /\ \/ listed' = listed \cup {t} /\ daemon' = [at |-> "idle"]
         \/ daemon' = [at |-> "clear", timer |-> t, command |-> "expire"] /\ listed' = listed
  BY <1>0 DEF Control!Insert, Control!Idle, Control!Reads
<1>2. /\ Control!Live(t) /\ t \notin listed /\ "active" \in status[t]
      /\ daemon.command \in {"start", "change"}
  BY <1>0, <1>1, DaemonFields DEF ControlInv, ControlTyped, FlagsRight, Control!NoFreedTimerInUse
<1>3. /\ daemon' \in DaemonStates /\ daemon'.at \in {"idle", "clear"}
      /\ daemon'.at = "idle" => listed' = listed \cup {t}
      /\ daemon'.at = "clear" => daemon'.timer = t /\ daemon'.command = "expire" /\ listed' = listed
  BY <1>1 DEF DaemonStates
<1>4. begins
  BY <1>1 DEF ControlInv, ControlTyped
<1>5. ControlTyped'
  BY <1>1, <1>3, <1>4 DEF ControlInv, ControlTyped
<1>6. \A u \in SoftTimer : Control!Live(u)' = Control!Live(u)
  BY <1>1 DEF Control!Live
<1>7. FlagsRight'
  <2>1. \A u \in SoftTimer : Control!Live(u) =>
          /\ "static" \in status[u] <=> memory[u] = "static"
          /\ t # u => ("active" \in status[u] <=> u \in listed)
    BY <1>0, <1>1 DEF ControlInv, FlagsRight
  <2>2. QED
    BY <1>1, <1>2, <1>3, <1>6, <2>1 DEF FlagsRight
<1>8. DeletedLast'
  BY <1>1, <1>3 DEF ControlInv, DeletedLast
<1>9. Control!NoFreedTimerInUse'
  BY <1>1, <1>2, <1>3 DEF ControlInv, Control!NoFreedTimerInUse, Control!Live
<1>10. QED
  BY <1>5, <1>7, <1>8, <1>9 DEF ControlInv

LEMMA StepKeepsControl ==
  ASSUME ControlInv, [Control!ControlNext]_controlVars
  PROVE  ControlInv'
<1>1. CASE UNCHANGED controlVars
  BY <1>1 DEF controlVars, ControlInv, ControlTyped, FlagsRight, DeletedLast,
    Control!NoFreedTimerInUse, Control!Live
<1>2. CASE Control!DaemonStep
  BY <1>2, ReceiptKeepsControl, ReadingKeepsControl, WritingKeepsControl, InsertionKeepsControl,
    ExpiryKeepsControl DEF Control!DaemonStep
<1>3. CASE Control!CreateTimerTask
  <2>1. /\ listed' = listed /\ commands' = commands /\ begins' /\ memory' = memory
        /\ status' = status /\ daemon' = daemon
    BY <1>3, ListsReady DEF ControlInv, Control!CreateTimerTask
  <2>2. QED
    BY <2>1 DEF ControlInv, ControlTyped, FlagsRight, DeletedLast, Control!NoFreedTimerInUse,
      Control!Live
<1>4. ASSUME NEW t \in SoftTimer,
             NEW place \in {"heap", "static"}, NEW r \in BOOLEAN, Control!CreateTimer(t, place, r)
      PROVE  ControlInv'
  BY <1>4, CreationKeepsControl
<1>5. ASSUME NEW t \in SoftTimer, NEW r \in BOOLEAN, Control!SetReloadMode(t, r)
      PROVE  ControlInv'
  BY <1>5, ModeKeepsControl
<1>6. ASSUME NEW t \in SoftTimer, NEW c \in TimerCommands, Control!SendCommand(c, t)
      PROVE  ControlInv'
  BY <1>6, SendKeepsControl
<1>7. QED
  BY <1>1, <1>2, <1>3, <1>4, <1>5, <1>6 DEF Control!ControlNext, Control!Command, TimerCommands

-----------------------------------------------------------------------------
(* The debug channel: what the host shows.                                 *)

ChannelByte == [kind : {"data", "escape", "id", "none"}, t : Terminal, n : Nat]
Host == [terminal : Terminal, escaped : BOOLEAN]

(* The host's states while it is shown the first n of the bytes w.         *)
Shows(g, s, w, n) ==
  /\ g \in [0 .. n -> Host] /\ g[0] = s
  /\ \A i \in 1 .. n : g[i] = Channel!Showing(g[i - 1], w[i])

End(s, w) == Channel!After(s, w)[Len(w)]

(* Every byte of data among w comes on the terminal it is for.             *)
OnOwn(s, w) ==
  \A i \in 1 .. Len(w) : w[i].kind = "data" =>
    w[i].t = Channel!After(s, w)[i].terminal /\ ~Channel!After(s, w)[i].escaped

LEMMA ShowingIsHost ==
  ASSUME NEW s \in Host, NEW b \in ChannelByte
  PROVE  /\ Channel!Showing(s, b) \in Host
         /\ b.kind \in {"data", "none"} => Channel!Showing(s, b) = s
         /\ b.kind = "escape" => Channel!Showing(s, b) = [terminal |-> s.terminal, escaped |-> TRUE]
         /\ b.kind = "id" /\ s.escaped =>
              Channel!Showing(s, b) = [terminal |-> b.t, escaped |-> FALSE]
BY DEF Channel!Showing, Host, ChannelByte

(* The same as an equation, of which there is one solution.                *)
Follows(g, s, w, n) ==
  g = [i \in 0 .. n |-> IF i = 0 THEN s ELSE Channel!Showing(g[i - 1], w[i])]

LEMMA ShownOnce ==
  ASSUME NEW s, NEW w, NEW n \in Nat, NEW g, NEW h, Follows(g, s, w, n), Follows(h, s, w, n)
  PROVE  g = h
<1> DEFINE apart == {i \in 0 .. n : g[i] # h[i]}
<1>1. /\ \A i \in 0 .. n : /\ g[i] = IF i = 0 THEN s ELSE Channel!Showing(g[i - 1], w[i])
                           /\ h[i] = IF i = 0 THEN s ELSE Channel!Showing(h[i - 1], w[i])
      /\ g = [i \in 0 .. n |-> g[i]] /\ h = [i \in 0 .. n |-> h[i]]
  BY Zenon DEF Follows
<1>2. ASSUME apart # {} PROVE FALSE
  <2>1. PICK i \in apart : \A j \in apart : i <= j
    <3>1. apart \in SUBSET Nat
      OBVIOUS
    <3>2. QED
      BY <1>2, <3>1, LeastNatural
  <2>2. i \in 1 .. n /\ i - 1 \in 0 .. n /\ ~(i <= i - 1)
    BY <1>1, <2>1
  <2>3. g[i - 1] = h[i - 1]
    BY <2>1, <2>2
  <2>4. QED
    BY <1>1, <2>1, <2>2, <2>3
<1>3. \A i \in 0 .. n : g[i] = h[i]
  BY <1>2
<1>4. QED
  BY <1>1, <1>3

LEMMA ShowsFollows ==
  ASSUME NEW s, NEW w, NEW n \in Nat, NEW g, Shows(g, s, w, n)
  PROVE  Follows(g, s, w, n)
<1>1. \A i \in 0 .. n : g[i] = IF i = 0 THEN s ELSE Channel!Showing(g[i - 1], w[i])
  BY DEF Shows
<1>2. QED
  BY <1>1 DEF Shows, Follows

LEMMA HostShows ==
  ASSUME NEW s \in Host, NEW w, NEW l \in Nat, \A i \in 1 .. l : w[i] \in ChannelByte
  PROVE  \E g : Shows(g, s, w, l)
<1> DEFINE stuck == {n \in 0 .. l : ~\E g : Shows(g, s, w, n)}
<1>1. ASSUME stuck # {} PROVE FALSE
  <2>1. PICK n \in stuck : \A m \in stuck : n <= m
    <3>1. stuck \in SUBSET Nat
      OBVIOUS
    <3>2. QED
      BY <1>1, <3>1, LeastNatural
  <2>2. n # 0
    <3>1. Shows([i \in 0 .. 0 |-> s], s, w, 0)
      BY DEF Shows
    <3>2. QED
      BY <2>1, <3>1
  <2>3. n \in 1 .. l /\ n - 1 \in 0 .. l /\ ~(n <= n - 1)
    BY <2>1, <2>2
  <2>4. PICK g : Shows(g, s, w, n - 1)
    BY <2>1, <2>3
  <2> DEFINE h == [i \in 0 .. n |-> IF i = n THEN Channel!Showing(g[n - 1], w[n]) ELSE g[i]]
  <2>5. g[n - 1] \in Host /\ Channel!Showing(g[n - 1], w[n]) \in Host
    <3>1. g[n - 1] \in Host
      BY <2>3, <2>4 DEF Shows
    <3>2. QED
      BY <2>3, <3>1, ShowingIsHost
  <2>6. h \in [0 .. n -> Host] /\ h[0] = s /\ h[n] = Channel!Showing(g[n - 1], w[n])
        /\ \A i \in 0 .. n - 1 : h[i] = g[i]
    BY <2>3, <2>4, <2>5 DEF Shows
  <2>7. ASSUME NEW i \in 1 .. n PROVE h[i] = Channel!Showing(h[i - 1], w[i])
    <3>1. CASE i = n
      BY <2>3, <2>6, <3>1
    <3>2. CASE i # n
      <4>1. i \in 1 .. n - 1 /\ i \in 0 .. n - 1 /\ i - 1 \in 0 .. n - 1
        BY <2>3, <3>2
      <4>2. g[i] = Channel!Showing(g[i - 1], w[i])
        BY <2>4, <4>1 DEF Shows
      <4>3. QED
        BY <2>6, <4>1, <4>2
    <3>3. QED
      BY <3>1, <3>2
  <2> HIDE DEF h
  <2>8. Shows(h, s, w, n)
    BY <2>6, <2>7 DEF Shows
  <2>9. QED
    BY <2>1, <2>8
<1>2. QED
  BY <1>1

LEMMA AfterShows ==
  ASSUME NEW s \in Host, NEW w \in Seq(ChannelByte)
  PROVE  Shows(Channel!After(s, w), s, w, Len(w))
<1>1. Len(w) \in Nat /\ \A i \in 1 .. Len(w) : w[i] \in ChannelByte
  BY LenProperties, ElementOfSeq
<1>2. PICK g : Shows(g, s, w, Len(w))
  BY <1>1, HostShows
<1>3. Follows(g, s, w, Len(w))
  BY <1>1, <1>2, ShowsFollows
<1>4. Channel!After(s, w) = CHOOSE f : Follows(f, s, w, Len(w))
  BY DEF Channel!After, Follows
<1>5. Follows(Channel!After(s, w), s, w, Len(w))
  BY <1>3, <1>4
<1>6. QED
  BY <1>1, <1>2, <1>3, <1>5, ShownOnce

LEMMA AfterIs ==
  ASSUME NEW s \in Host, NEW w \in Seq(ChannelByte), NEW g, Shows(g, s, w, Len(w))
  PROVE  g = Channel!After(s, w)
<1>1. Len(w) \in Nat
  BY LenProperties
<1>2. QED
  BY <1>1, AfterShows, ShowsFollows, ShownOnce

(* First some bytes, then others.                                          *)
LEMMA ShowsBoth ==
  ASSUME NEW s \in Host, NEW v \in Seq(ChannelByte), NEW w \in Seq(ChannelByte)
  PROVE  /\ End(s, v) \in Host
         /\ \A i \in 0 .. Len(v) : Channel!After(s, v \o w)[i] = Channel!After(s, v)[i]
         /\ \A j \in 0 .. Len(w) :
              Channel!After(s, v \o w)[Len(v) + j] = Channel!After(End(s, v), w)[j]
         /\ End(s, v \o w) = End(End(s, v), w)
         /\ OnOwn(s, v \o w) <=> OnOwn(s, v) /\ OnOwn(End(s, v), w)
<1> DEFINE l == Len(v)
           m == Len(w)
           x == v \o w
<1>1. /\ l \in Nat /\ m \in Nat /\ x \in Seq(ChannelByte) /\ Len(x) = l + m
      /\ \A i \in 1 .. l : x[i] = v[i]
      /\ \A j \in 1 .. m : x[l + j] = w[j]
  BY LenProperties, ConcatProperties
<1>2. PICK g : g = Channel!After(s, v) /\ Shows(g, s, v, l)
  BY AfterShows
<1>3. /\ g[l] \in Host /\ End(s, v) = g[l]
  BY <1>1, <1>2 DEF Shows, End
<1>4. PICK h : h = Channel!After(g[l], w) /\ Shows(h, g[l], w, m)
  BY <1>3, AfterShows
<1> HIDE DEF l, m, x
<1> DEFINE f == [i \in 0 .. l + m |-> IF i <= l THEN g[i] ELSE h[i - l]]
<1>5. /\ f \in [0 .. l + m -> Host] /\ \A i \in 0 .. l : f[i] = g[i]
      /\ \A j \in 0 .. m : f[l + j] = h[j]
  <2>1. \A i \in 0 .. l + m : i <= l => i \in 0 .. l
    BY <1>1
  <2>2. \A i \in 0 .. l + m : ~(i <= l) => i - l \in 0 .. m
    BY <1>1
  <2>3. g \in [0 .. l -> Host] /\ h \in [0 .. m -> Host] /\ h[0] = g[l]
    BY <1>2, <1>4 DEF Shows
  <2>4. ASSUME NEW j \in 0 .. m PROVE f[l + j] = h[j]
    <3>1. CASE j = 0
      BY <1>1, <2>3, <3>1
    <3>2. CASE j # 0
      <4>1. l + j \in 0 .. l + m /\ ~(l + j <= l) /\ (l + j) - l = j
        BY <1>1, <3>2
      <4>2. QED
        BY <4>1
    <3>3. QED
      BY <3>1, <3>2
  <2>5. \A i \in 0 .. l : f[i] = g[i]
    BY <1>1
  <2>6. f \in [0 .. l + m -> Host]
    BY <2>1, <2>2, <2>3
  <2>7. QED
    BY <2>4, <2>5, <2>6
<1> HIDE DEF f
<1>6. ASSUME NEW i \in 1 .. l + m PROVE f[i] = Channel!Showing(f[i - 1], x[i])
  <2>1. CASE i <= l
    <3>1. i \in 1 .. l /\ i \in 0 .. l /\ i - 1 \in 0 .. l
      BY <1>1, <2>1
    <3>2. g[i] = Channel!Showing(g[i - 1], v[i])
      BY <1>2, <3>1 DEF Shows
    <3>3. QED
      BY <1>1, <1>5, <3>1, <3>2
  <2>2. CASE ~(i <= l)
    <3>1. PICK j \in 1 .. m : i = l + j
      <4>1. i - l \in 1 .. m /\ i = l + (i - l)
        BY <1>1, <2>2
      <4>2. QED
        BY <4>1
    <3>2. j \in 0 .. m /\ j - 1 \in 0 .. m /\ i - 1 = l + (j - 1)
      BY <1>1, <3>1
    <3>3. h[j] = Channel!Showing(h[j - 1], w[j])
      BY <1>4, <3>1 DEF Shows
    <3>4. QED
      BY <1>1, <1>5, <3>1, <3>2, <3>3
  <2>3. QED
    BY <2>1, <2>2
<1>7. f[0] = s
  BY <1>1, <1>2, <1>5 DEF Shows
<1>8. Shows(f, s, x, Len(x))
  BY <1>1, <1>5, <1>6, <1>7 DEF Shows
<1>9. f = Channel!After(s, x)
  BY <1>1, <1>8, AfterIs
<1>10. End(s, x) = End(End(s, v), w)
  <2>1. End(s, x) = f[l + m] /\ End(g[l], w) = h[m]
    BY <1>1, <1>4, <1>9 DEF End, m
  <2>2. m \in 0 .. m
    BY <1>1
  <2>3. QED
    BY <1>3, <1>5, <2>1, <2>2
<1>11. OnOwn(s, x) => OnOwn(s, v) /\ OnOwn(End(s, v), w)
  <2> SUFFICES ASSUME OnOwn(s, x) PROVE OnOwn(s, v) /\ OnOwn(End(s, v), w)
    OBVIOUS
  <2>1. \A i \in 1 .. l + m : x[i].kind = "data" => x[i].t = f[i].terminal /\ ~f[i].escaped
    BY <1>1, <1>9 DEF OnOwn
  <2>2. ASSUME NEW i \in 1 .. l, v[i].kind = "data"
        PROVE  v[i].t = g[i].terminal /\ ~g[i].escaped
    <3>1. i \in 1 .. l + m /\ i \in 0 .. l
      BY <1>1
    <3>2. QED
      BY <1>1, <1>5, <2>1, <2>2, <3>1
  <2>3. ASSUME NEW j \in 1 .. m, w[j].kind = "data"
        PROVE  w[j].t = h[j].terminal /\ ~h[j].escaped
    <3>1. l + j \in 1 .. l + m /\ j \in 0 .. m
      BY <1>1
    <3>2. QED
      BY <1>1, <1>5, <2>1, <2>3, <3>1
  <2>4. QED
    BY <1>2, <1>3, <1>4, <2>2, <2>3 DEF OnOwn, l, m
<1>12. OnOwn(s, v) /\ OnOwn(End(s, v), w) => OnOwn(s, x)
  <2> SUFFICES ASSUME OnOwn(s, v), OnOwn(End(s, v), w), NEW i \in 1 .. l + m, x[i].kind = "data"
               PROVE  x[i].t = f[i].terminal /\ ~f[i].escaped
    BY <1>1, <1>9 DEF OnOwn
  <2>1. CASE i <= l
    <3>1. i \in 1 .. l /\ i \in 0 .. l
      BY <1>1, <2>1
    <3>2. v[i].kind = "data" => v[i].t = g[i].terminal /\ ~g[i].escaped
      BY <1>2, <3>1 DEF OnOwn, l
    <3>3. QED
      BY <1>1, <1>5, <3>1, <3>2
  <2>2. CASE ~(i <= l)
    <3>1. i - l \in 1 .. m /\ i = l + (i - l) /\ i - l \in 0 .. m
      BY <1>1, <2>2
    <3>2. PICK j \in 1 .. m : i = l + j /\ j \in 0 .. m
      BY <3>1
    <3>3. w[j].kind = "data" => w[j].t = h[j].terminal /\ ~h[j].escaped
      BY <1>3, <1>4 DEF OnOwn, m
    <3>4. QED
      BY <1>1, <1>5, <3>2, <3>3
  <2>3. QED
    BY <2>1, <2>2
<1>13. QED
  BY <1>2, <1>3, <1>4, <1>5, <1>9, <1>10, <1>11, <1>12 DEF l, m, x

(* Data for the terminal that is shown, and a switch to another.           *)
LEMMA DataShown ==
  ASSUME NEW s \in Host, ~s.escaped, NEW w \in Seq(ChannelByte),
         \A i \in 1 .. Len(w) : w[i].kind = "data" /\ w[i].t = s.terminal
  PROVE  End(s, w) = s /\ OnOwn(s, w)
<1> DEFINE g == [i \in 0 .. Len(w) |-> s]
<1>1. Len(w) \in Nat /\ \A i \in 1 .. Len(w) : w[i] \in ChannelByte
  BY LenProperties, ElementOfSeq
<1>2. \A i \in 1 .. Len(w) : Channel!Showing(s, w[i]) = s
  BY <1>1, ShowingIsHost
<1>3. \A i \in 0 .. Len(w) : g[i] = s
  OBVIOUS
<1>4. g \in [0 .. Len(w) -> Host]
  OBVIOUS
<1>5. \A i \in 1 .. Len(w) : i \in 0 .. Len(w) /\ i - 1 \in 0 .. Len(w)
  BY <1>1
<1> HIDE DEF g
<1>6. Shows(g, s, w, Len(w))
  BY <1>1, <1>2, <1>3, <1>4, <1>5 DEF Shows
<1>7. g = Channel!After(s, w)
  BY <1>6, AfterIs
<1>8. Len(w) \in 0 .. Len(w)
  BY <1>1
<1>9. QED
  BY <1>3, <1>5, <1>7, <1>8 DEF End, OnOwn

LEMMA SwitchShown ==
  ASSUME NEW s \in Host, NEW t \in Terminal, 0 \in Terminal
  PROVE  /\ Channel!Switch(t) \in Seq(ChannelByte) /\ Len(Channel!Switch(t)) = 2
         /\ End(s, Channel!Switch(t)) = [terminal |-> t, escaped |-> FALSE]
         /\ OnOwn(s, Channel!Switch(t))
<1> DEFINE w == Channel!Switch(t)
           a == [kind |-> "escape", t |-> 0, n |-> 0]
           b == [kind |-> "id", t |-> t, n |-> 0]
           r == [terminal |-> s.terminal, escaped |-> TRUE]
           e == [terminal |-> t, escaped |-> FALSE]
           g == [i \in 0 .. 2 |-> IF i = 0 THEN s ELSE IF i = 1 THEN r ELSE e]
<1>1. a \in ChannelByte /\ b \in ChannelByte /\ a.kind = "escape" /\ b.kind = "id" /\ b.t = t
  BY DEF ChannelByte
<1>2. w = <<a, b>>
  BY DEF Channel!Switch
<1> HIDE DEF a, b, w
<1>3. /\ w \in Seq(ChannelByte) /\ Len(w) = 2 /\ w[1] = a /\ w[2] = b
  BY <1>1, <1>2
<1>4. r \in Host /\ e \in Host /\ r.escaped
  BY DEF Host
<1>5. Channel!Showing(s, a) = r /\ Channel!Showing(r, b) = e
  BY <1>1, <1>4, ShowingIsHost
<1> HIDE DEF r, e
<1>6. /\ g \in [0 .. 2 -> Host] /\ g[0] = s /\ g[1] = r /\ g[2] = e
  BY <1>4
<1> HIDE DEF g
<1>7. \A i \in 1 .. 2 : g[i] = Channel!Showing(g[i - 1], w[i])
  <2>1. g[1] = Channel!Showing(g[1 - 1], w[1])
    BY <1>3, <1>5, <1>6
  <2>2. g[2] = Channel!Showing(g[2 - 1], w[2])
    BY <1>3, <1>5, <1>6
  <2>3. QED
    BY <2>1, <2>2
<1>8. Shows(g, s, w, Len(w))
  BY <1>3, <1>6, <1>7 DEF Shows
<1>9. g = Channel!After(s, w)
  BY <1>3, <1>8, AfterIs
<1>10. End(s, w) = e
  BY <1>3, <1>6, <1>9 DEF End
<1>11. \A i \in 1 .. Len(w) : w[i].kind # "data"
  BY <1>1, <1>3
<1>12. QED
  BY <1>3, <1>10, <1>11 DEF OnOwn, w, e

-----------------------------------------------------------------------------
(* The debug channel: the ring.                                            *)

Cell == 0 .. Size - 1

(* One write after the other, that take the host from state s to state t.  *)
Leads(e, s, writes, t) ==
  /\ e \in [0 .. Len(writes) -> Host] /\ e[0] = s /\ e[Len(writes)] = t
  /\ \A j \in 1 .. Len(writes) : e[j] = End(e[j - 1], writes[j]) /\ OnOwn(e[j - 1], writes[j])
ChainFrom(s, writes, t) == \E e : Leads(e, s, writes, t)

ChannelTyped ==
  /\ down \in BOOLEAN
  /\ ring \in [bytes : [Cell -> ChannelByte], rd : Cell, wr : Cell, flags : {"skip", "trim", "block"}]
  /\ writer \in [pc : {"idle", "wait", "store", "announce"}, left : Seq(Seq(ChannelByte)), n : Nat]
  /\ reader \in [pc : {"idle", "copy", "release"}, size : Nat, data : Seq(ChannelByte)]
  /\ active \in Terminal /\ stream \in Seq(ChannelByte) /\ number \in Nat /\ shown \in Host
  /\ down => active = 0

(* What a write is about to store has room, and what it has stored lies    *)
(* behind what was announced; it is not announced yet.                     *)
WriterOK ==
  /\ writer.pc = "idle" <=> writer.left = <<>>
  /\ \A j \in 1 .. Len(writer.left) : writer.left[j] # <<>>
  /\ writer.pc \in {"store", "announce"} =>
       writer.n \in 1 .. Len(writer.left[1]) /\ writer.n <= Size - 1 - Len(stream)
  /\ writer.pc = "announce" =>
       \A k \in 1 .. writer.n : ring.bytes[(ring.wr + (k - 1)) % Size] = writer.left[1][k]

ReaderOK ==
  reader.pc \in {"copy", "release"} => reader.size \in 1 .. Len(stream)

(* When the host has been shown all that was announced, and then what the  *)
(* call under way has left to write, it is at the active terminal.         *)
HostOK ==
  OnOwn(shown, stream)
  /\ ChainFrom(End(shown, stream), writer.left, [terminal |-> active, escaped |-> FALSE])

ChannelInv ==
  ChannelTyped /\ Channel!DeliversStream /\ WriterOK /\ ReaderOK /\ HostOK

LEMMA ChannelConstants ==
  ASSUME Channel!RttAssumption
  PROVE  /\ Size \in Nat \ {0, 1} /\ 0 \in Terminal /\ Terminal \subseteq Nat /\ Numbers \in Nat \ {0}
         /\ Lengths \subseteq Nat \ {0} /\ ReadSizes \subseteq Nat \ {0} /\ Channel!Slot = Cell
BY DEF Channel!RttAssumption, Channel!Slot, Cell

LEMMA CellIs ==
  ASSUME Size \in Nat \ {0, 1}, NEW r \in Cell, NEW i \in 0 .. Size
  PROVE  /\ (r + i) % Size = IF r + i < Size THEN r + i ELSE r + i - Size
         /\ (r + i) % Size \in Cell
<1> DEFINE a == r + i
<1>1. a \in 0 .. 2 * Size /\ a < 2 * Size
  BY DEF Cell
<1> HIDE DEF a
<1>2. Size \in Nat \ {0} /\ a \in Nat
  BY <1>1
<1>3. /\ a % Size = IF a < Size THEN a ELSE a - Size
      /\ a % Size \in 0 .. Size - 1
  BY <1>1, <1>2
<1>4. QED
  BY <1>3 DEF a, Cell

LEMMA DistanceIs ==
  ASSUME Size \in Nat \ {0, 1}, NEW r \in Cell, NEW i \in Cell
  PROVE  /\ (i + Size - r) % Size = IF i >= r THEN i - r ELSE i + Size - r
         /\ (i + Size - r) % Size \in Cell
<1> DEFINE a == i + Size - r
<1>1. a \in 0 .. 2 * Size /\ a < 2 * Size
  BY DEF Cell
<1> HIDE DEF a
<1>2. Size \in Nat \ {0} /\ a \in Nat
  BY <1>1
<1>3. /\ a % Size = IF a < Size THEN a ELSE a - Size
      /\ a % Size \in 0 .. Size - 1
  BY <1>1, <1>2
<1>4. QED
  BY <1>3 DEF a, Cell

(* From a cell i places on, and how far it then is.                        *)
LEMMA ThereAndBack ==
  ASSUME Size \in Nat \ {0, 1}, NEW r \in Cell, NEW i \in Cell
  PROVE  (r + i) % Size \in Cell /\ (((r + i) % Size) + Size - r) % Size = i
<1>1. PICK x \in Cell : x = (r + i) % Size /\ x = IF r + i < Size THEN r + i ELSE r + i - Size
  <2>1. i \in 0 .. Size
    BY DEF Cell
  <2>2. QED
    BY <2>1, CellIs
<1>2. (x + Size - r) % Size = IF x >= r THEN x - r ELSE x + Size - r
  BY DistanceIs
<1>3. (x + Size - r) % Size = i
  BY <1>1, <1>2 DEF Cell
<1>4. QED
  BY <1>1, <1>3

(* First d places on, then i.                                              *)
LEMMA FurtherOn ==
  ASSUME Size \in Nat \ {0, 1}, NEW r \in Cell, NEW d \in Nat, NEW i \in Nat, d + i <= Size
  PROVE  (((r + d) % Size) + i) % Size = (r + (d + i)) % Size
<1>1. PICK x \in Cell : x = (r + d) % Size /\ x = IF r + d < Size THEN r + d ELSE r + d - Size
  BY CellIs
<1>2. (x + i) % Size = IF x + i < Size THEN x + i ELSE x + i - Size
  BY CellIs
<1>3. (r + (d + i)) % Size = IF r + (d + i) < Size THEN r + (d + i) ELSE r + (d + i) - Size
  BY CellIs
<1>4. (x + i) % Size = (r + (d + i)) % Size
  BY <1>1, <1>2, <1>3 DEF Cell
<1>5. QED
  BY <1>1, <1>4

(* How much is used, and how much is free.                                 *)
LEMMA UsedIs ==
  ASSUME Size \in Nat \ {0, 1}, ChannelTyped
  PROVE  /\ ring.rd \in Cell /\ ring.wr \in Cell
         /\ Channel!Used(ring) \in Cell
         /\ ring.wr = (ring.rd + Channel!Used(ring)) % Size
         /\ Channel!AvailWriteSpace(ring) = Size - 1 - Channel!Used(ring)
         /\ \A n \in Nat : Channel!SkipFits(ring, n) => n <= Size - 1 - Channel!Used(ring)
         /\ (ring.wr + 1) % Size # ring.rd => 1 <= Size - 1 - Channel!Used(ring)
<1>1. PICK r \in Cell, w \in Cell : r = ring.rd /\ w = ring.wr
  BY DEF ChannelTyped
<1>2. PICK u : u = (w + Size - r) % Size
  OBVIOUS
<1>3. u = (IF w >= r THEN w - r ELSE w + Size - r) /\ u \in Cell
  BY <1>2, DistanceIs
<1>4. (r + u) % Size = IF r + u < Size THEN r + u ELSE r + u - Size
  <2>1. u \in 0 .. Size
    BY <1>3 DEF Cell
  <2>2. QED
    BY <2>1, CellIs
<1>5. (w + 1) % Size = IF w + 1 < Size THEN w + 1 ELSE w + 1 - Size
  BY CellIs
<1>6. w = (r + u) % Size
  BY <1>3, <1>4 DEF Cell
<1>7. (w + 1) % Size # r => 1 <= Size - 1 - u
  BY <1>3, <1>5 DEF Cell
<1>8. (IF r <= w THEN Size - 1 - w + r ELSE r - w - 1) = Size - 1 - u
  BY <1>3 DEF Cell
<1>9. \A n \in Nat :
        (IF r <= w THEN Size - w - 1 >= n \/ Size - w - 1 + r >= n ELSE r - w - 1 >= n)
          => n <= Size - 1 - u
  BY <1>3 DEF Cell
<1>10. Channel!Used(ring) = u /\ Channel!AvailWriteSpace(ring) = Size - 1 - u
  BY <1>1, <1>2, <1>8 DEF Channel!Used, Channel!AvailWriteSpace
<1>11. \A n \in Nat : Channel!SkipFits(ring, n) => n <= Size - 1 - u
  BY <1>1, <1>9 DEF Channel!SkipFits
<1>12. QED
  BY <1>1, <1>3, <1>6, <1>7, <1>10, <1>11

-----------------------------------------------------------------------------
(* Chains of writes.                                                       *)

LEMMA EmptyChain ==
  ASSUME NEW s \in Host
  PROVE  /\ ChainFrom(s, <<>>, s)
         /\ \A t : ChainFrom(s, <<>>, t) => t = s
<1>1. Leads([i \in 0 .. 0 |-> s], s, <<>>, s)
  BY DEF Leads
<1>2. QED
  BY <1>1 DEF ChainFrom, Leads

LEMMA ChainBegins ==
  ASSUME NEW s \in Host, NEW w \in Seq(ChannelByte), NEW rest \in Seq(Seq(ChannelByte)), NEW t
  PROVE  ChainFrom(s, <<w>> \o rest, t) <=> OnOwn(s, w) /\ ChainFrom(End(s, w), rest, t)
<1> DEFINE x == <<w>> \o rest
           l == Len(rest)
<1>1. /\ l \in Nat /\ Len(x) = l + 1 /\ x[1] = w /\ \A j \in 1 .. l : x[j + 1] = rest[j]
  <2>1. <<w>> \in Seq(Seq(ChannelByte)) /\ Len(<<w>>) = 1 /\ <<w>>[1] = w
    OBVIOUS
  <2>2. l \in Nat
    BY LenProperties
  <2>3. Len(x) = 1 + l /\ x[1] = w /\ \A j \in 1 .. l : x[1 + j] = rest[j]
    BY <2>1, <2>2, ConcatProperties
  <2>4. \A j \in 1 .. l : 1 + j = j + 1
    BY <2>2
  <2>5. QED
    BY <2>2, <2>3, <2>4
<1>2. End(s, w) \in Host
  BY ShowsBoth
<1> HIDE DEF x
<1>3. ASSUME ChainFrom(s, x, t)
      PROVE  OnOwn(s, w) /\ ChainFrom(End(s, w), rest, t)
  <2>1. PICK e : Leads(e, s, x, t)
    BY <1>3 DEF ChainFrom
  <2> DEFINE f == [j \in 0 .. l |-> e[j + 1]]
  <2>2. /\ e \in [0 .. l + 1 -> Host] /\ e[0] = s /\ e[l + 1] = t
        /\ \A j \in 1 .. l + 1 : e[j] = End(e[j - 1], x[j]) /\ OnOwn(e[j - 1], x[j])
    BY <1>1, <2>1 DEF Leads
  <2>3. e[1] = End(s, w) /\ OnOwn(s, w)
    <3>1. 1 \in 1 .. l + 1 /\ 1 - 1 = 0
      BY <1>1
    <3>2. QED
      BY <1>1, <2>2, <3>1
  <2>4. /\ f \in [0 .. l -> Host] /\ f[0] = e[1] /\ f[l] = t
    BY <1>1, <2>2
  <2>5. ASSUME NEW j \in 1 .. l PROVE f[j] = End(f[j - 1], rest[j]) /\ OnOwn(f[j - 1], rest[j])
    <3>1. /\ j + 1 \in 1 .. l + 1 /\ j \in 0 .. l /\ j - 1 \in 0 .. l
          /\ (j + 1) - 1 = j /\ (j - 1) + 1 = j
      BY <1>1
    <3>2. f[j] = e[j + 1] /\ f[j - 1] = e[j]
      BY <3>1
    <3>3. QED
      BY <1>1, <2>2, <3>1, <3>2
  <2> HIDE DEF f
  <2>6. Leads(f, End(s, w), rest, t)
    BY <2>3, <2>4, <2>5 DEF Leads
  <2>7. QED
    BY <2>3, <2>6 DEF ChainFrom
<1>4. ASSUME OnOwn(s, w), ChainFrom(End(s, w), rest, t)
      PROVE  ChainFrom(s, x, t)
  <2>1. PICK f : Leads(f, End(s, w), rest, t)
    BY <1>4 DEF ChainFrom
  <2>2. /\ f \in [0 .. l -> Host] /\ f[0] = End(s, w) /\ f[l] = t
        /\ \A j \in 1 .. l : f[j] = End(f[j - 1], rest[j]) /\ OnOwn(f[j - 1], rest[j])
    BY <2>1 DEF Leads
  <2> DEFINE e == [j \in 0 .. l + 1 |-> IF j = 0 THEN s ELSE f[j - 1]]
  <2>3. /\ e \in [0 .. l + 1 -> Host] /\ e[0] = s /\ \A j \in 1 .. l + 1 : e[j] = f[j - 1]
    <3>1. \A j \in 0 .. l + 1 : j # 0 => j - 1 \in 0 .. l
      BY <1>1
    <3>2. QED
      BY <1>1, <2>2, <3>1
  <2> HIDE DEF e
  <2>4. e[l + 1] = t /\ e[1] = End(s, w)
    BY <1>1, <2>2, <2>3
  <2>5. ASSUME NEW j \in 1 .. l + 1 PROVE e[j] = End(e[j - 1], x[j]) /\ OnOwn(e[j - 1], x[j])
    <3>1. CASE j = 1
      BY <1>1, <1>4, <2>3, <2>4, <3>1
    <3>2. CASE j # 1
      <4>1. PICK i \in 1 .. l : j = i + 1
        <5>1. j - 1 \in 1 .. l /\ j = (j - 1) + 1
          BY <1>1, <3>2
        <5>2. QED
          BY <5>1
      <4>2. j - 1 = i /\ i \in 1 .. l + 1
        BY <1>1, <4>1
      <4>3. e[j] = f[i] /\ e[j - 1] = f[i - 1] /\ x[j] = rest[i]
        BY <1>1, <2>3, <4>1, <4>2
      <4>4. QED
        BY <2>2, <4>1, <4>3
    <3>3. QED
      BY <3>1, <3>2
  <2>6. Leads(e, s, x, t)
    BY <1>1, <2>3, <2>4, <2>5 DEF Leads
  <2>7. QED
    BY <2>6 DEF ChainFrom
<1>5. QED
  BY <1>3, <1>4 DEF x

LEMMA MinimumOf ==
  ASSUME NEW S, S \subseteq Nat, S # {}
  PROVE  Channel!Min(S) \in S /\ \A y \in S : Channel!Min(S) <= y
<1>1. \E w \in S : \A x \in S : w <= x
  BY LeastNatural
<1>2. QED
  BY <1>1 DEF Channel!Min

LEMMA ChannelStarts ==
  ASSUME Channel!RttAssumption, Channel!RttInit
  PROVE  ChannelInv
<1>1. Size \in Nat \ {0, 1} /\ 0 \in Terminal /\ Channel!Slot = Cell
  BY ChannelConstants
<1>2. 0 \in Cell /\ (0 + Size - 0) % Size = 0
  <2>1. 0 \in Cell
    BY <1>1 DEF Cell
  <2>2. QED
    BY <1>1, <2>1, DistanceIs
<1>3. Channel!NoByte \in ChannelByte
  BY <1>1 DEF ChannelByte, Channel!NoByte
<1>4. /\ ring = [bytes |-> [i \in Cell |-> Channel!NoByte], rd |-> 0, wr |-> 0, flags |-> "skip"]
      /\ writer = [pc |-> "idle", left |-> <<>>, n |-> 0]
      /\ reader = [pc |-> "idle", size |-> 0, data |-> <<>>]
      /\ active = 0 /\ stream = <<>> /\ number = 0 /\ down \in BOOLEAN
      /\ shown = [terminal |-> 0, escaped |-> FALSE]
  BY <1>1 DEF Channel!RttInit, Channel!DoInit
<1>5. shown \in Host
  BY <1>1, <1>4 DEF Host
<1>6. ChannelTyped
  BY <1>1, <1>2, <1>3, <1>4, <1>5 DEF ChannelTyped
<1>7. Channel!DeliversStream
  BY <1>2, <1>4 DEF Channel!DeliversStream, Channel!Used
<1>8. WriterOK /\ ReaderOK
  BY <1>4 DEF WriterOK, ReaderOK
<1>9. End(shown, stream) = shown /\ OnOwn(shown, stream)
  <2>1. stream \in Seq(ChannelByte) /\ Len(stream) = 0 /\ ~shown.escaped
    BY <1>4
  <2>2. \A i \in 1 .. Len(stream) : FALSE
    BY <2>1
  <2>3. QED
    BY <1>5, <2>1, <2>2, DataShown
<1>10. ChainFrom(shown, <<>>, shown)
  BY <1>5, EmptyChain
<1>11. HostOK
  BY <1>4, <1>9, <1>10 DEF HostOK
<1>12. QED
  BY <1>6, <1>7, <1>8, <1>11 DEF ChannelInv

-----------------------------------------------------------------------------
(* Writing begins.                                                         *)

(* A call gives its writes to the ring, that bring the host to the active  *)
(* terminal.                                                               *)
LEMMA CallKeepsChannel ==
  ASSUME Channel!RttAssumption, ChannelInv, Channel!Idle,
         UNCHANGED <<down, ring, reader, stream, shown>>,
         active' \in Terminal, down => active' = 0, number' \in Nat,
         NEW ws \in Seq(Seq(ChannelByte)), ws # <<>>, \A j \in 1 .. Len(ws) : ws[j] # <<>>,
         ChainFrom([terminal |-> active, escaped |-> FALSE], ws,
                   [terminal |-> active', escaped |-> FALSE]),
         \/ writer' = [pc |-> "wait", left |-> ws, n |-> 0]
         \/ /\ writer' = [pc |-> "store", left |-> ws, n |-> Len(ws[1])]
            /\ Len(ws[1]) <= Size - 1 - Channel!Used(ring)
  PROVE  ChannelInv'
<1>1. ws[1] \in Seq(ChannelByte) /\ Len(ws[1]) \in Nat \ {0}
  <2>1. Len(ws) \in Nat /\ Len(ws) # 0
    BY EmptySeq, LenProperties
  <2>2. 1 \in 1 .. Len(ws)
    BY <2>1
  <2>3. ws[1] \in Seq(ChannelByte) /\ ws[1] # <<>>
    BY <2>2, ElementOfSeq
  <2>4. QED
    BY <2>3, LenProperties, EmptySeq
<1>2. ChannelTyped'
  BY <1>1 DEF ChannelInv, ChannelTyped
<1>3. Channel!DeliversStream' /\ ReaderOK'
  BY DEF ChannelInv, Channel!DeliversStream, Channel!Used, ReaderOK
<1>4. WriterOK'
  <2>1. Channel!Used(ring) = Len(stream) /\ stream' = stream
    BY DEF ChannelInv, Channel!DeliversStream
  <2>2. writer'.left = ws /\ writer'.pc # "idle" /\ writer'.pc # "announce"
    BY DEF ChannelInv
  <2>3. writer'.pc = "store" => writer'.n \in 1 .. Len(ws[1]) /\ writer'.n <= Size - 1 - Len(stream)
    BY <1>1, <2>1
  <2>4. QED
    BY <2>1, <2>2, <2>3 DEF WriterOK
<1>5. End(shown, stream) = [terminal |-> active, escaped |-> FALSE]
  <2>1. writer.left = <<>> /\ shown \in Host /\ stream \in Seq(ChannelByte)
    BY DEF ChannelInv, ChannelTyped, WriterOK, Channel!Idle
  <2>2. End(shown, stream) \in Host
    BY <2>1, ShowsBoth
  <2>3. ChainFrom(End(shown, stream), <<>>, [terminal |-> active, escaped |-> FALSE])
    BY <2>1 DEF ChannelInv, HostOK
  <2>4. QED
    BY <2>2, <2>3, EmptyChain
<1>6. HostOK'
  <2>1. writer'.left = ws /\ shown' = shown /\ stream' = stream
    OBVIOUS
  <2>2. OnOwn(shown, stream)
    BY DEF ChannelInv, HostOK
  <2>3. ChainFrom(End(shown, stream), ws, [terminal |-> active', escaped |-> FALSE])
    BY <1>5
  <2>4. QED
    BY <2>1, <2>2, <2>3 DEF HostOK
<1>7. QED
  BY <1>2, <1>3, <1>4, <1>6 DEF ChannelInv

LEMMA DataIs ==
  ASSUME Channel!RttAssumption, number \in Nat, NEW t \in Terminal, NEW n \in Nat \ {0}
  PROVE  /\ Channel!Data(t, n) \in Seq(ChannelByte) /\ Len(Channel!Data(t, n)) = n
         /\ Channel!Data(t, n) # <<>>
         /\ End([terminal |-> t, escaped |-> FALSE], Channel!Data(t, n))
              = [terminal |-> t, escaped |-> FALSE]
         /\ OnOwn([terminal |-> t, escaped |-> FALSE], Channel!Data(t, n))
<1>1. \A i \in 1 .. n : (number + i - 1) % Numbers \in Nat
  BY ChannelConstants
<1> DEFINE w == Channel!Data(t, n)
           s == [terminal |-> t, escaped |-> FALSE]
           m(i) == (number + i - 1) % Numbers
<1>2. w = [i \in 1 .. n |-> [kind |-> "data", t |-> t, n |-> m(i)]]
  BY DEF Channel!Data
<1>3. \A i \in 1 .. n : m(i) \in Nat
  BY <1>1
<1> HIDE DEF w, m
<1>4. w \in Seq(ChannelByte) /\ Len(w) = n /\ w # <<>>
      /\ \A i \in 1 .. n : w[i].kind = "data" /\ w[i].t = t
  <2>1. \A i \in 1 .. n : [kind |-> "data", t |-> t, n |-> m(i)] \in ChannelByte
    BY <1>3 DEF ChannelByte
  <2>2. w \in [1 .. n -> ChannelByte]
    BY <1>2, <2>1
  <2>3. w \in Seq(ChannelByte) /\ Len(w) = n
    BY <2>2, SeqDef, LenProperties
  <2>4. \A i \in 1 .. n : w[i].kind = "data" /\ w[i].t = t
    BY <1>2
  <2>5. w # <<>>
    BY <2>3
  <2>6. QED
    BY <2>3, <2>4, <2>5
<1>5. s \in Host /\ ~s.escaped /\ s.terminal = t
  BY DEF Host
<1> HIDE DEF s
<1>6. End(s, w) = s /\ OnOwn(s, w)
  BY <1>4, <1>5, DataShown
<1>7. QED
  BY <1>4, <1>6 DEF s, w

LEMMA OneWrite ==
  ASSUME NEW s \in Host, NEW w \in Seq(ChannelByte), w # <<>>, OnOwn(s, w)
  PROVE  /\ <<w>> \in Seq(Seq(ChannelByte)) /\ <<w>> # <<>> /\ <<w>>[1] = w
         /\ \A j \in 1 .. Len(<<w>>) : <<w>>[j] # <<>>
         /\ ChainFrom(s, <<w>>, End(s, w))
<1>1. /\ <<w>> \in Seq(Seq(ChannelByte)) /\ <<w>> # <<>> /\ <<w>>[1] = w
      /\ \A j \in 1 .. Len(<<w>>) : <<w>>[j] # <<>>
  OBVIOUS
<1>2. End(s, w) \in Host
  BY ShowsBoth
<1>3. ChainFrom(End(s, w), <<>>, End(s, w))
  BY <1>2, EmptyChain
<1>4. <<>> \in Seq(Seq(ChannelByte)) /\ <<w>> \o <<>> = <<w>>
  <2>1. <<>> \in Seq(Seq(ChannelByte))
    OBVIOUS
  <2>2. QED
    BY <1>1, <2>1, ConcatEmptySeq
<1>5. ChainFrom(s, <<w>> \o <<>>, End(s, w))
  BY <1>3, <1>4, ChainBegins
<1>6. QED
  BY <1>1, <1>4, <1>5

(* Data for the active terminal, waiting for room or with room.            *)
LEMMA DataKeepsChannel ==
  ASSUME Channel!RttAssumption, ChannelInv, Channel!Idle,
         UNCHANGED <<down, ring, reader, active, stream, shown>>, number' \in Nat,
         NEW n \in Nat \ {0},
         \/ writer' = [pc |-> "wait", left |-> <<Channel!Data(active, n)>>, n |-> 0]
         \/ /\ writer' = [pc |-> "store", left |-> <<Channel!Data(active, n)>>,
                          n |-> Len(Channel!Data(active, n))]
            /\ n <= Size - 1 - Channel!Used(ring)
  PROVE  ChannelInv'
<1>1. active \in Terminal /\ number \in Nat /\ (down => active = 0)
  BY DEF ChannelInv, ChannelTyped
<1>2. PICK w : w = Channel!Data(active, n)
  OBVIOUS
<1>3. PICK s : s = [terminal |-> active, escaped |-> FALSE]
  OBVIOUS
<1>4. s \in Host
  BY <1>1, <1>3 DEF Host
<1>5. w \in Seq(ChannelByte) /\ Len(w) = n /\ w # <<>> /\ End(s, w) = s /\ OnOwn(s, w)
  BY <1>1, <1>2, <1>3, DataIs
<1>6. /\ <<w>> \in Seq(Seq(ChannelByte)) /\ <<w>> # <<>> /\ <<w>>[1] = w
      /\ \A j \in 1 .. Len(<<w>>) : <<w>>[j] # <<>>
      /\ ChainFrom(s, <<w>>, s)
  BY <1>4, <1>5, OneWrite
<1>7. PICK ws : ws = <<w>>
  OBVIOUS
<1>8. /\ ws \in Seq(Seq(ChannelByte)) /\ ws # <<>> /\ ws[1] = w
      /\ \A j \in 1 .. Len(ws) : ws[j] # <<>> /\ ChainFrom(s, ws, s)
  BY <1>6, <1>7
<1>9. \/ writer' = [pc |-> "wait", left |-> ws, n |-> 0]
      \/ /\ writer' = [pc |-> "store", left |-> ws, n |-> Len(ws[1])]
         /\ Len(ws[1]) <= Size - 1 - Channel!Used(ring)
  BY <1>2, <1>5, <1>7, <1>8
<1>10. /\ active' \in Terminal /\ (down => active' = 0)
       /\ ChainFrom([terminal |-> active, escaped |-> FALSE], ws,
                    [terminal |-> active', escaped |-> FALSE])
  BY <1>1, <1>3, <1>6, <1>7
<1>11. QED
  BY <1>8, <1>9, <1>10, CallKeepsChannel

LEMMA ByModeKeepsChannel ==
  ASSUME Channel!RttAssumption, ChannelInv, Channel!Idle, NEW n \in Lengths,
         UNCHANGED <<down, ring, reader, active, stream, shown>>,
         Channel!ByMode(active, n)
  PROVE  ChannelInv'
<1>1. n \in Nat \ {0} /\ Numbers \in Nat \ {0} /\ number \in Nat
  BY ChannelConstants DEF ChannelInv, ChannelTyped
<1>2. PICK avail \in Nat : /\ avail = Channel!AvailWriteSpace(ring)
                           /\ avail = Size - 1 - Channel!Used(ring)
  <2>1. /\ Channel!Used(ring) \in Cell
        /\ Channel!AvailWriteSpace(ring) = Size - 1 - Channel!Used(ring)
    BY ChannelConstants, UsedIs DEF ChannelInv
  <2>2. Size - 1 - Channel!Used(ring) \in Nat
    BY <2>1, ChannelConstants DEF Cell
  <2>3. QED
    BY <2>1, <2>2
<1>3. CASE ring.flags = "skip" /\ avail >= n /\ Channel!WriteNoCheck(Channel!Data(active, n))
           /\ number' = (number + n) % Numbers
  <2>1. number' \in Nat
    BY <1>1, <1>3
  <2>2. QED
    BY <1>1, <1>2, <1>3, <2>1, DataKeepsChannel DEF Channel!WriteNoCheck
<1>4. CASE ring.flags = "trim" /\ avail > 0
           /\ Channel!WriteNoCheck(Channel!Data(active, Channel!Min({avail, n})))
           /\ number' = (number + Channel!Min({avail, n})) % Numbers
  <2>1. PICK m : m = Channel!Min({avail, n})
    OBVIOUS
  <2>2. m \in Nat \ {0} /\ m <= avail
    <3>1. {avail, n} \subseteq Nat /\ {avail, n} # {}
      BY <1>1, <1>2
    <3>2. m \in {avail, n} /\ \A y \in {avail, n} : m <= y
      BY <2>1, <3>1, MinimumOf
    <3>3. QED
      BY <1>1, <1>2, <1>4, <3>2
  <2>3. number' \in Nat
    BY <1>1, <1>4, <2>1, <2>2
  <2>4. QED
    BY <1>2, <1>4, <2>1, <2>2, <2>3, DataKeepsChannel DEF Channel!WriteNoCheck
<1>5. CASE Channel!WriteBlocking(<<Channel!Data(active, n)>>) /\ number' = (number + n) % Numbers
  <2>1. number' \in Nat
    BY <1>1, <1>5
  <2>2. QED
    BY <1>1, <1>5, <2>1, DataKeepsChannel DEF Channel!WriteBlocking
<1>6. QED
  BY <1>2, <1>3, <1>4, <1>5 DEF Channel!ByMode

LEMMA SkipKeepsChannel ==
  ASSUME Channel!RttAssumption, ChannelInv, Channel!Idle, NEW n \in Nat \ {0},
         UNCHANGED <<down, ring, reader, active, stream, shown>>,
         n <= Size - 1 - Channel!Used(ring), Channel!Skip(n)
  PROVE  ChannelInv'
<1>1. /\ writer' = [pc |-> "store", left |-> <<Channel!Data(active, n)>>,
                    n |-> Len(Channel!Data(active, n))]
      /\ number' = (number + n) % Numbers
  BY DEF Channel!Skip, Channel!WriteNoCheck
<1>2. number \in Nat /\ Numbers \in Nat \ {0}
  BY ChannelConstants DEF ChannelInv, ChannelTyped
<1>3. number' \in Nat
  BY <1>1, <1>2
<1>4. QED
  BY <1>1, <1>3, DataKeepsChannel

LEMMA DataCallKeepsChannel ==
  ASSUME Channel!RttAssumption, ChannelInv, NEW n \in Lengths,
         \/ Channel!WriteNoLock(n) \/ Channel!WriteDownBufferNoLock(n)
         \/ Channel!WriteSkipNoLock(n)
  PROVE  ChannelInv'
<1>1. n \in Nat \ {0} /\ (down => active = 0)
  BY ChannelConstants DEF ChannelInv, ChannelTyped
<1>2. Channel!SkipFits(ring, n) => n <= Size - 1 - Channel!Used(ring)
  BY <1>1, ChannelConstants, UsedIs DEF ChannelInv
<1>3. CASE Channel!WriteNoLock(n)
  BY <1>3, ByModeKeepsChannel DEF Channel!WriteNoLock
<1>4. CASE Channel!WriteDownBufferNoLock(n)
  <2>1. active = 0 /\ Channel!ByMode(0, n) /\ Channel!Idle
        /\ UNCHANGED <<down, ring, reader, active, stream, shown>>
    BY <1>1, <1>4 DEF Channel!WriteDownBufferNoLock
  <2>2. Channel!ByMode(active, n)
    BY <2>1 DEF Channel!ByMode
  <2>3. QED
    BY <2>1, <2>2, ByModeKeepsChannel
<1>5. CASE Channel!WriteSkipNoLock(n)
  BY <1>1, <1>2, <1>5, SkipKeepsChannel DEF Channel!WriteSkipNoLock
<1>6. QED
  BY <1>3, <1>4, <1>5

LEMMA PutCharKeepsChannel ==
  ASSUME Channel!RttAssumption, ChannelInv, Channel!PutChar \/ Channel!PutCharSkip
  PROVE  ChannelInv'
<1>1. /\ Numbers \in Nat \ {0} /\ number \in Nat
      /\ (ring.wr + 1) % Size # ring.rd => 1 <= Size - 1 - Channel!Used(ring)
  BY ChannelConstants, UsedIs DEF ChannelInv, ChannelTyped
<1>2. CASE Channel!PutCharSkip
  BY <1>1, <1>2, SkipKeepsChannel DEF Channel!PutCharSkip
<1>3. CASE Channel!PutChar
  <2>1. Channel!Idle /\ UNCHANGED <<down, ring, reader, active, stream, shown>>
    BY <1>3 DEF Channel!PutChar
  <2>2. CASE (ring.wr + 1) % Size # ring.rd /\ Channel!Skip(1)
    BY <1>1, <2>1, <2>2, SkipKeepsChannel
  <2>3. CASE Channel!WriteBlocking(<<Channel!Data(active, 1)>>) /\ number' = (number + 1) % Numbers
    <3>1. number' \in Nat
      BY <1>1, <2>3
    <3>2. PICK k \in Nat \ {0} : k = 1
      OBVIOUS
    <3>3. writer' = [pc |-> "wait", left |-> <<Channel!Data(active, k)>>, n |-> 0]
      BY <2>3, <3>2 DEF Channel!WriteBlocking
    <3>4. QED
      BY <2>1, <3>1, <3>3, DataKeepsChannel
  <2>4. QED
    BY <1>3, <2>2, <2>3 DEF Channel!PutChar
<1>4. QED
  BY <1>2, <1>3

LEMMA SetTerminalKeepsChannel ==
  ASSUME Channel!RttAssumption, ChannelInv, NEW t \in Terminal, Channel!SetTerminal(t)
  PROVE  ChannelInv'
<1>1. /\ ~down /\ Channel!Idle /\ active' = t
      /\ UNCHANGED <<down, ring, reader, stream, number, shown>>
      /\ \/ Channel!WriteBlocking(<<Channel!Switch(t)>>)
         \/ Channel!AvailWriteSpace(ring) >= 2 /\ Channel!WriteNoCheck(Channel!Switch(t))
  BY DEF Channel!SetTerminal
<1>2. /\ active \in Terminal /\ number' \in Nat /\ 0 \in Terminal
      /\ Channel!AvailWriteSpace(ring) = Size - 1 - Channel!Used(ring)
  BY <1>1, ChannelConstants, UsedIs DEF ChannelInv, ChannelTyped
<1>3. PICK s : s = [terminal |-> active, escaped |-> FALSE]
  OBVIOUS
<1>4. PICK u : u = [terminal |-> t, escaped |-> FALSE]
  OBVIOUS
<1>5. PICK w : w = Channel!Switch(t)
  OBVIOUS
<1>6. s \in Host
  BY <1>2, <1>3 DEF Host
<1>7. w \in Seq(ChannelByte) /\ Len(w) = 2 /\ End(s, w) = u /\ OnOwn(s, w)
  BY <1>2, <1>4, <1>5, <1>6, SwitchShown
<1>8. w # <<>>
  BY <1>7
<1>9. PICK ws : ws = <<w>>
  OBVIOUS
<1>10. /\ ws \in Seq(Seq(ChannelByte)) /\ ws # <<>> /\ ws[1] = w
       /\ (\A j \in 1 .. Len(ws) : ws[j] # <<>>) /\ ChainFrom(s, ws, u)
  <2>1. ChainFrom(s, <<w>>, u)
    BY <1>6, <1>7, <1>8, OneWrite
  <2>2. QED
    BY <1>7, <1>8, <1>9, <2>1
<1>11. \/ writer' = [pc |-> "wait", left |-> ws, n |-> 0]
       \/ /\ writer' = [pc |-> "store", left |-> ws, n |-> Len(ws[1])]
          /\ Len(ws[1]) <= Size - 1 - Channel!Used(ring)
  <2>1. CASE Channel!WriteBlocking(<<w>>)
    BY <1>9, <2>1 DEF Channel!WriteBlocking
  <2>2. CASE Channel!AvailWriteSpace(ring) >= 2 /\ Channel!WriteNoCheck(w)
    <3>1. Size - 1 - Channel!Used(ring) >= 2
      BY <1>2, <2>2
    <3>2. writer' = [pc |-> "store", left |-> ws, n |-> Len(ws[1])]
      BY <1>9, <1>10, <2>2 DEF Channel!WriteNoCheck
    <3>3. Size - 1 - Channel!Used(ring) \in Int
      BY ChannelConstants, UsedIs DEF ChannelInv, Cell
    <3>4. QED
      BY <1>7, <1>10, <3>1, <3>2, <3>3
  <2>3. QED
    BY <1>1, <1>5, <2>1, <2>2
<1>12. /\ active' \in Terminal /\ (down => active' = 0)
       /\ ChainFrom([terminal |-> active, escaped |-> FALSE], ws,
                    [terminal |-> active', escaped |-> FALSE])
  BY <1>1, <1>3, <1>4, <1>10
<1>13. QED
  BY <1>1, <1>2, <1>10, <1>11, <1>12, CallKeepsChannel

LEMMA WritesJoin ==
  ASSUME NEW w \in Seq(ChannelByte), w # <<>>, NEW r \in Seq(Seq(ChannelByte)),
         \A j \in 1 .. Len(r) : r[j] # <<>>
  PROVE  /\ <<w>> \o r \in Seq(Seq(ChannelByte)) /\ <<w>> \o r # <<>>
         /\ \A j \in 1 .. Len(<<w>> \o r) : (<<w>> \o r)[j] # <<>>
<1>1. <<w>> \in Seq(Seq(ChannelByte)) /\ Len(<<w>>) = 1 /\ <<w>>[1] = w /\ Len(r) \in Nat
  BY LenProperties
<1> DEFINE x == <<w>> \o r
<1>2. /\ x \in Seq(Seq(ChannelByte)) /\ Len(x) = 1 + Len(r) /\ x[1] = w
      /\ \A j \in 1 .. Len(r) : x[1 + j] = r[j]
  BY <1>1, ConcatProperties
<1> HIDE DEF x
<1>3. ASSUME NEW j \in 1 .. Len(x) PROVE x[j] # <<>>
  <2>1. CASE j = 1
    BY <1>2, <2>1
  <2>2. CASE j # 1
    <3>1. j - 1 \in 1 .. Len(r) /\ 1 + (j - 1) = j
      BY <1>1, <1>2, <2>2
    <3>2. QED
      BY <1>2, <3>1
  <2>3. QED
    BY <2>1, <2>2
<1>4. x # <<>>
  BY <1>1, <1>2
<1>5. QED
  BY <1>2, <1>3, <1>4 DEF x

(* To a terminal, perhaps some data, and back.                             *)
LEMMA ThereChain ==
  ASSUME Channel!RttAssumption, number \in Nat, NEW a \in Terminal, NEW t \in Terminal, NEW m \in Nat,
         NEW ws,
         ws = <<Channel!Switch(t)>> \o (IF m = 0 THEN <<>> ELSE <<Channel!Data(t, m)>>)
                \o <<Channel!Switch(a)>>
  PROVE  /\ ws \in Seq(Seq(ChannelByte)) /\ ws # <<>> /\ \A j \in 1 .. Len(ws) : ws[j] # <<>>
         /\ ChainFrom([terminal |-> a, escaped |-> FALSE], ws,
                      [terminal |-> a, escaped |-> FALSE])
<1>1. 0 \in Terminal
  BY ChannelConstants
<1>2. PICK s : s = [terminal |-> a, escaped |-> FALSE]
  OBVIOUS
<1>3. PICK u : u = [terminal |-> t, escaped |-> FALSE]
  OBVIOUS
<1>4. PICK x : x = Channel!Switch(t)
  OBVIOUS
<1>5. PICK z : z = Channel!Switch(a)
  OBVIOUS
<1>6. s \in Host /\ u \in Host
  BY <1>2, <1>3 DEF Host
<1>7. /\ x \in Seq(ChannelByte) /\ Len(x) = 2 /\ End(s, x) = u /\ OnOwn(s, x)
      /\ z \in Seq(ChannelByte) /\ Len(z) = 2 /\ End(u, z) = s /\ OnOwn(u, z)
  <2>1. x \in Seq(ChannelByte) /\ Len(x) = 2 /\ End(s, x) = u /\ OnOwn(s, x)
    BY <1>1, <1>3, <1>4, <1>6, SwitchShown
  <2>2. z \in Seq(ChannelByte) /\ Len(z) = 2 /\ End(u, z) = s /\ OnOwn(u, z)
    BY <1>1, <1>2, <1>5, <1>6, SwitchShown
  <2>3. QED
    BY <2>1, <2>2
<1>8. x # <<>> /\ z # <<>>
  BY <1>7
<1>9. ChainFrom(u, <<z>>, s) /\ <<z>> \in Seq(Seq(ChannelByte))
  BY <1>6, <1>7, <1>8, OneWrite
<1>10. CASE m = 0
  <2>1. ws = <<x>> \o <<>> \o <<z>>
    BY <1>4, <1>5, <1>10
  <2>2. <<x>> \in Seq(Seq(ChannelByte)) /\ <<x>> \o <<>> = <<x>>
    BY <1>7, ConcatEmptySeq
  <2>3. ws = <<x>> \o <<z>>
    BY <2>1, <2>2
  <2>4. ChainFrom(s, <<x>> \o <<z>>, s)
    BY <1>6, <1>7, <1>9, ChainBegins
  <2>5. /\ <<x>> \o <<z>> \in Seq(Seq(ChannelByte)) /\ <<x>> \o <<z>> # <<>>
        /\ \A j \in 1 .. Len(<<x>> \o <<z>>) : (<<x>> \o <<z>>)[j] # <<>>
    BY <1>7, <1>8, <1>9, WritesJoin
  <2>6. QED
    BY <1>2, <2>3, <2>4, <2>5
<1>11. CASE m # 0
  <2>1. PICK y : y = Channel!Data(t, m)
    OBVIOUS
  <2>2. y \in Seq(ChannelByte) /\ y # <<>> /\ End(u, y) = u /\ OnOwn(u, y)
    BY <1>3, <1>11, <2>1, DataIs
  <2>3. ws = <<x>> \o <<y>> \o <<z>>
    BY <1>4, <1>5, <1>11, <2>1
  <2>4. ws = <<x>> \o (<<y>> \o <<z>>)
    <3>1. PICK p, q, r : p = <<x>> /\ q = <<y>> /\ r = <<z>>
      OBVIOUS
    <3>2. p \in Seq(Seq(ChannelByte)) /\ q \in Seq(Seq(ChannelByte)) /\ r \in Seq(Seq(ChannelByte))
      BY <1>7, <2>2, <3>1
    <3>3. (p \o q) \o r = p \o (q \o r)
      BY <3>2, ConcatAssociative
    <3>4. QED
      BY <2>3, <3>1, <3>3
  <2>5. ChainFrom(u, <<y>> \o <<z>>, s)
    BY <1>6, <1>9, <2>2, ChainBegins
  <2>6. PICK r : r = <<y>> \o <<z>>
    OBVIOUS
  <2>7. r \in Seq(Seq(ChannelByte)) /\ \A j \in 1 .. Len(r) : r[j] # <<>>
    BY <1>7, <1>8, <1>9, <2>2, <2>6, WritesJoin
  <2>8. ChainFrom(s, <<x>> \o r, s)
    BY <1>6, <1>7, <2>5, <2>6, <2>7, ChainBegins
  <2>9. /\ <<x>> \o r \in Seq(Seq(ChannelByte)) /\ <<x>> \o r # <<>>
        /\ \A j \in 1 .. Len(<<x>> \o r) : (<<x>> \o r)[j] # <<>>
    BY <1>7, <1>8, <2>7, WritesJoin
  <2>10. QED
    BY <1>2, <2>4, <2>6, <2>8, <2>9
<1>12. QED
  BY <1>10, <1>11

LEMMA TerminalOutKeepsChannel ==
  ASSUME Channel!RttAssumption, ChannelInv, NEW t \in Terminal, NEW n \in Lengths,
         Channel!TerminalOut(t, n)
  PROVE  ChannelInv'
<1>1. n \in Nat \ {0} /\ Numbers \in Nat \ {0} /\ number \in Nat /\ active \in Terminal
  BY ChannelConstants DEF ChannelInv, ChannelTyped
<1>2. PICK avail : avail = Channel!AvailWriteSpace(ring)
  OBVIOUS
<1>3. avail \in Nat
  <2>1. /\ Channel!Used(ring) \in Cell
        /\ Channel!AvailWriteSpace(ring) = Size - 1 - Channel!Used(ring)
    BY ChannelConstants, UsedIs DEF ChannelInv
  <2>2. Size - 1 - Channel!Used(ring) \in Nat
    BY <2>1, ChannelConstants DEF Cell
  <2>3. QED
    BY <1>2, <2>1, <2>2
<1>4. PICK m \in Nat :
        /\ Channel!WriteBlocking(<<Channel!Switch(t)>>
             \o (IF m = 0 THEN <<>> ELSE <<Channel!Data(t, m)>>) \o <<Channel!Switch(active)>>)
        /\ number' = (number + m) % Numbers
  <2>1. CASE avail >= 4 /\ Channel!Min({n, avail - 4}) \in Nat
    BY <1>1, <1>2, <2>1 DEF Channel!TerminalOut
  <2>2. avail >= 4 => Channel!Min({n, avail - 4}) \in Nat
    <3>1. avail >= 4 => {n, avail - 4} \subseteq Nat /\ {n, avail - 4} # {}
      BY <1>1, <1>3
    <3>2. QED
      BY <3>1, MinimumOf
  <2>3. CASE ~(avail >= 4)
    BY <1>1, <1>2, <2>3 DEF Channel!TerminalOut
  <2>4. QED
    BY <2>1, <2>2, <2>3
<1>5. /\ ~down /\ Channel!Idle /\ UNCHANGED <<down, ring, reader, active, stream, shown>>
  BY DEF Channel!TerminalOut
<1>6. number' \in Nat
  BY <1>1, <1>4
<1>7. PICK ws : ws = <<Channel!Switch(t)>>
             \o (IF m = 0 THEN <<>> ELSE <<Channel!Data(t, m)>>) \o <<Channel!Switch(active)>>
  OBVIOUS
<1>8. /\ ws \in Seq(Seq(ChannelByte)) /\ ws # <<>> /\ (\A j \in 1 .. Len(ws) : ws[j] # <<>>)
      /\ ChainFrom([terminal |-> active, escaped |-> FALSE], ws,
                   [terminal |-> active, escaped |-> FALSE])
  BY <1>1, <1>7, ThereChain
<1>9. writer' = [pc |-> "wait", left |-> ws, n |-> 0]
  BY <1>4, <1>7 DEF Channel!WriteBlocking
<1>10. /\ active' \in Terminal /\ (down => active' = 0)
       /\ ChainFrom([terminal |-> active, escaped |-> FALSE], ws,
                    [terminal |-> active', escaped |-> FALSE])
  BY <1>1, <1>5, <1>8
<1>11. QED
  BY <1>5, <1>6, <1>8, <1>9, <1>10, CallKeepsChannel

LEMMA SetFlagsKeepsChannel ==
  ASSUME Channel!RttAssumption, ChannelInv, NEW m \in {"skip", "trim", "block"}, Channel!SetFlags(m)
  PROVE  ChannelInv'
<1>1. /\ ring' = [ring EXCEPT !.flags = m]
      /\ UNCHANGED <<down, writer, reader, active, stream, number, shown>>
  BY DEF Channel!SetFlags
<1>2. ring \in [bytes : [Cell -> ChannelByte], rd : Cell, wr : Cell, flags : {"skip", "trim", "block"}]
  BY DEF ChannelInv, ChannelTyped
<1>3. /\ ring' \in [bytes : [Cell -> ChannelByte], rd : Cell, wr : Cell, flags : {"skip", "trim", "block"}]
      /\ ring'.bytes = ring.bytes /\ ring'.rd = ring.rd /\ ring'.wr = ring.wr
  BY <1>1, <1>2
<1>4. ChannelTyped' /\ Channel!DeliversStream' /\ WriterOK' /\ ReaderOK'
  BY <1>1, <1>3
     DEF ChannelInv, ChannelTyped, Channel!DeliversStream, Channel!Used, WriterOK, ReaderOK
<1>5. HostOK'
  BY <1>1 DEF ChannelInv, HostOK
<1>6. QED
  BY <1>4, <1>5 DEF ChannelInv

(* What lies behind the write offset is far from it.                       *)
LEMMA BehindIs ==
  ASSUME Size \in Nat \ {0, 1}, NEW r \in Cell, NEW u \in Cell, NEW i \in 0 .. u - 1
  PROVE  /\ (r + i) % Size \in Cell
         /\ (((r + i) % Size) + Size - ((r + u) % Size)) % Size = i + Size - u
<1>1. i \in 0 .. Size /\ u \in 0 .. Size
  BY DEF Cell
<1>2. PICK x \in Cell : x = (r + i) % Size /\ x = IF r + i < Size THEN r + i ELSE r + i - Size
  BY <1>1, CellIs
<1>3. PICK w \in Cell : w = (r + u) % Size /\ w = IF r + u < Size THEN r + u ELSE r + u - Size
  BY <1>1, CellIs
<1>4. (x + Size - w) % Size = IF x >= w THEN x - w ELSE x + Size - w
  BY DistanceIs
<1>5. (x + Size - w) % Size = i + Size - u
  BY <1>2, <1>3, <1>4 DEF Cell
<1>6. QED
  BY <1>2, <1>3, <1>5

(* The write at the head, and the rest.                                    *)
LEMMA FirstWrite ==
  ASSUME ChannelInv, writer.pc # "idle"
  PROVE  /\ writer.left \in Seq(Seq(ChannelByte)) /\ writer.left # <<>>
         /\ Head(writer.left) = writer.left[1]
         /\ Head(writer.left) \in Seq(ChannelByte) /\ Len(Head(writer.left)) \in Nat \ {0}
         /\ Tail(writer.left) \in Seq(Seq(ChannelByte))
         /\ writer.left = <<Head(writer.left)>> \o Tail(writer.left)
         /\ \A j \in 1 .. Len(Tail(writer.left)) : Tail(writer.left)[j] # <<>>
<1>1. PICK l : l = writer.left
  OBVIOUS
<1>2. /\ l \in Seq(Seq(ChannelByte)) /\ l # <<>> /\ \A j \in 1 .. Len(l) : l[j] # <<>>
  BY <1>1 DEF ChannelInv, ChannelTyped, WriterOK
<1>3. /\ Head(l) = l[1] /\ Len(l) \in Nat \ {0} /\ Tail(l) \in Seq(Seq(ChannelByte))
      /\ Len(Tail(l)) = Len(l) - 1 /\ \A j \in 1 .. Len(Tail(l)) : Tail(l)[j] = l[j + 1]
  BY <1>2, EmptySeq, LenProperties, HeadTailProperties
<1>4. l[1] \in Seq(ChannelByte) /\ l[1] # <<>>
  <2>1. 1 \in 1 .. Len(l)
    BY <1>3
  <2>2. QED
    BY <1>2, <2>1, ElementOfSeq
<1>5. Len(l[1]) \in Nat \ {0}
  BY <1>4, LenProperties, EmptySeq
<1>6. ASSUME NEW j \in 1 .. Len(Tail(l)) PROVE Tail(l)[j] # <<>>
  BY <1>2, <1>3
<1>7. l = <<l[1]>> \o Tail(l)
  <2>1. PICK t \in Seq(Seq(ChannelByte)) : t = Tail(l)
    BY <1>3
  <2>2. PICK w \in Seq(ChannelByte) : w = l[1]
    BY <1>4
  <2>3. PICK x : x = <<w>> \o t
    OBVIOUS
  <2>4. /\ x \in Seq(Seq(ChannelByte)) /\ Len(x) = 1 + Len(t) /\ x[1] = w
        /\ \A j \in 1 .. Len(t) : x[1 + j] = t[j]
    BY <2>3, ConcatProperties
  <2>5. ASSUME NEW j \in 1 .. Len(l) PROVE x[j] = l[j]
    <3>1. CASE j = 1
      BY <2>2, <2>4, <3>1
    <3>2. CASE j # 1
      <4>1. j - 1 \in 1 .. Len(t) /\ 1 + (j - 1) = j /\ (j - 1) + 1 = j
        BY <1>3, <2>1, <3>2
      <4>2. QED
        BY <1>3, <2>1, <2>4, <4>1
    <3>3. QED
      BY <3>1, <3>2
  <2>6. Len(x) = Len(l)
    BY <1>3, <2>1, <2>4
  <2>7. x = l
    BY <1>2, <2>4, <2>5, <2>6, SeqEqual
  <2>8. QED
    BY <2>1, <2>2, <2>3, <2>7
<1>8. QED
  BY <1>1, <1>2, <1>3, <1>4, <1>5, <1>6, <1>7

LEMMA WaitKeepsChannel ==
  ASSUME Channel!RttAssumption, ChannelInv, Channel!Wait
  PROVE  ChannelInv'
<1>1. PICK n : n = Channel!Min({Channel!AvailWriteSpace(ring), Size - ring.wr, Len(Head(writer.left))})
  OBVIOUS
<1>2. /\ writer.pc = "wait" /\ n > 0 /\ writer' = [writer EXCEPT !.pc = "store", !.n = n]
      /\ UNCHANGED <<down, ring, reader, active, stream, number, shown>>
  BY <1>1 DEF Channel!Wait
<1>3. /\ ring.wr \in Cell /\ Channel!Used(ring) \in Cell /\ Size \in Nat
      /\ Channel!AvailWriteSpace(ring) = Size - 1 - Channel!Used(ring)
      /\ Channel!Used(ring) = Len(stream)
  BY ChannelConstants, UsedIs DEF ChannelInv, Channel!DeliversStream
<1>4. Head(writer.left) = writer.left[1] /\ Len(writer.left[1]) \in Nat \ {0}
  BY <1>2, FirstWrite
<1>5. n \in 1 .. Len(writer.left[1]) /\ n <= Size - 1 - Len(stream)
  <2>1. PICK a : a = Size - 1 - Len(stream)
    OBVIOUS
  <2>2. PICK b : b = Size - ring.wr
    OBVIOUS
  <2>3. PICK c : c = Len(writer.left[1])
    OBVIOUS
  <2>4. a \in Nat /\ b \in Nat /\ c \in Nat
    BY <1>3, <1>4, <2>1, <2>2, <2>3 DEF Cell
  <2>5. n = Channel!Min({a, b, c})
    BY <1>1, <1>3, <1>4, <2>1, <2>2, <2>3
  <2>6. {a, b, c} \subseteq Nat /\ {a, b, c} # {}
    BY <2>4
  <2>7. n \in {a, b, c} /\ \A y \in {a, b, c} : n <= y
    BY <2>5, <2>6, MinimumOf
  <2>8. n \in Nat /\ n <= a /\ n <= c
    BY <2>4, <2>7
  <2>9. QED
    BY <1>2, <2>1, <2>3, <2>4, <2>8
<1>6. writer \in [pc : {"idle", "wait", "store", "announce"}, left : Seq(Seq(ChannelByte)), n : Nat]
  BY DEF ChannelInv, ChannelTyped
<1>7. /\ writer' \in [pc : {"idle", "wait", "store", "announce"}, left : Seq(Seq(ChannelByte)), n : Nat]
      /\ writer'.pc = "store" /\ writer'.left = writer.left /\ writer'.n = n
  <2>1. writer' = [pc |-> "store", left |-> writer.left, n |-> n]
    BY <1>2, <1>6
  <2>2. n \in Nat
    BY <1>4, <1>5
  <2>3. QED
    BY <1>6, <2>1, <2>2
<1>8. ChannelTyped' /\ Channel!DeliversStream' /\ ReaderOK'
  BY <1>2, <1>7 DEF ChannelInv, ChannelTyped, Channel!DeliversStream, Channel!Used, ReaderOK
<1>9. WriterOK'
  BY <1>2, <1>5, <1>7 DEF ChannelInv, WriterOK
<1>10. HostOK'
  BY <1>2, <1>7 DEF ChannelInv, HostOK
<1>11. QED
  BY <1>8, <1>9, <1>10 DEF ChannelInv

LEMMA StoreKeepsChannel ==
  ASSUME Channel!RttAssumption, ChannelInv, Channel!Store
  PROVE  ChannelInv'
<1>1. Size \in Nat \ {0, 1} /\ Channel!Slot = Cell
  BY ChannelConstants
<1>2. PICK bytes : bytes =
        [i \in Cell |-> IF (i + Size - ring.wr) % Size < writer.n
                          THEN Head(writer.left)[((i + Size - ring.wr) % Size) + 1] ELSE ring.bytes[i]]
  OBVIOUS
<1>3. /\ writer.pc = "store" /\ ring' = [ring EXCEPT !.bytes = bytes]
      /\ writer' = [writer EXCEPT !.pc = "announce"]
      /\ UNCHANGED <<down, reader, active, stream, number, shown>>
  BY <1>1, <1>2 DEF Channel!Store
<1>4. /\ Head(writer.left) = writer.left[1] /\ Head(writer.left) \in Seq(ChannelByte)
      /\ writer.n \in 1 .. Len(writer.left[1]) /\ writer.n <= Size - 1 - Len(stream)
      /\ Len(writer.left[1]) \in Nat \ {0}
  BY <1>3, FirstWrite DEF ChannelInv, WriterOK
<1>5. PICK r, w, u, n, v : /\ r = ring.rd /\ w = ring.wr /\ u = Len(stream) /\ n = writer.n
                           /\ v = writer.left[1]
  OBVIOUS
<1>6. /\ r \in Cell /\ w \in Cell /\ u \in Cell /\ w = (r + u) % Size /\ u = Channel!Used(ring)
  BY <1>1, <1>5, UsedIs DEF ChannelInv, Channel!DeliversStream
<1>7. n \in 1 .. Len(v) /\ n <= Size - 1 - u /\ v \in Seq(ChannelByte) /\ Len(v) \in Nat
  BY <1>4, <1>5
<1>8. /\ ring \in [bytes : [Cell -> ChannelByte], rd : Cell, wr : Cell, flags : {"skip", "trim", "block"}]
      /\ writer \in [pc : {"idle", "wait", "store", "announce"}, left : Seq(Seq(ChannelByte)), n : Nat]
  BY DEF ChannelInv, ChannelTyped
<1>9. ASSUME NEW i \in Cell
      PROVE  /\ bytes[i] = IF (i + Size - w) % Size < n THEN v[((i + Size - w) % Size) + 1]
                           ELSE ring.bytes[i]
             /\ bytes[i] \in ChannelByte
  <2>1. PICK k : k = (i + Size - w) % Size
    OBVIOUS
  <2>2. k \in Cell
    BY <1>1, <1>6, <2>1, DistanceIs
  <2>3. bytes[i] = IF k < n THEN v[k + 1] ELSE ring.bytes[i]
    BY <1>2, <1>4, <1>5, <2>1
  <2>4. k < n => v[k + 1] \in ChannelByte
    <3>1. k < n => k + 1 \in 1 .. Len(v)
      BY <1>7, <2>2 DEF Cell
    <3>2. QED
      BY <1>7, <3>1, ElementOfSeq
  <2>5. ring.bytes[i] \in ChannelByte
    BY <1>8
  <2>6. QED
    BY <2>1, <2>3, <2>4, <2>5
<1>10. bytes \in [Cell -> ChannelByte]
  BY <1>2, <1>9
<1>11. /\ ring' \in [bytes : [Cell -> ChannelByte], rd : Cell, wr : Cell, flags : {"skip", "trim", "block"}]
       /\ ring'.bytes = bytes /\ ring'.rd = r /\ ring'.wr = w
       /\ writer' \in [pc : {"idle", "wait", "store", "announce"}, left : Seq(Seq(ChannelByte)), n : Nat]
       /\ writer'.pc = "announce" /\ writer'.left = writer.left /\ writer'.n = n
  BY <1>3, <1>5, <1>8, <1>10
<1>12. ChannelTyped'
  BY <1>3, <1>11 DEF ChannelInv, ChannelTyped
<1>13. ASSUME NEW i \in 1 .. u PROVE bytes[(r + i - 1) % Size] = stream[i]
  <2>1. PICK j \in 0 .. u - 1 : j = i - 1 /\ r + i - 1 = r + j
    <3>1. i - 1 \in 0 .. u - 1 /\ r + i - 1 = r + (i - 1)
      BY <1>1, <1>6 DEF Cell
    <3>2. QED
      BY <3>1
  <2>2. /\ (r + j) % Size \in Cell
        /\ (((r + j) % Size) + Size - w) % Size = j + Size - u
    <3>1. /\ (r + j) % Size \in Cell
          /\ (((r + j) % Size) + Size - ((r + u) % Size)) % Size = j + Size - u
      BY <1>1, <1>6, BehindIs
    <3>2. QED
      BY <1>6, <3>1
  <2>3. ~(j + Size - u < n)
    BY <1>1, <1>6, <1>7 DEF Cell
  <2>4. bytes[(r + j) % Size] = ring.bytes[(r + j) % Size]
    BY <1>9, <2>2, <2>3
  <2>5. ring.bytes[(r + i - 1) % Size] = stream[i]
    BY <1>5 DEF ChannelInv, Channel!DeliversStream
  <2>6. QED
    BY <2>1, <2>4, <2>5
<1>14. Channel!DeliversStream'
  <2>1. Channel!Used(ring)' = u /\ Len(stream)' = u
    BY <1>3, <1>5, <1>6, <1>11 DEF Channel!Used
  <2>2. \A i \in 1 .. Len(stream)' : ring'.bytes[(ring'.rd + i - 1) % Size] = stream'[i]
    BY <1>3, <1>5, <1>11, <1>13
  <2>3. reader'.pc = "release" => reader'.data = SubSeq(stream', 1, reader'.size)
    BY <1>3 DEF ChannelInv, Channel!DeliversStream
  <2>4. QED
    BY <2>1, <2>2, <2>3 DEF Channel!DeliversStream
<1>15. ASSUME NEW k \in 1 .. n PROVE bytes[(w + (k - 1)) % Size] = v[k]
  <2>1. PICK j \in Cell : j = k - 1 /\ j < n /\ j + 1 = k
    <3>1. k - 1 \in Cell /\ k - 1 < n /\ (k - 1) + 1 = k
      BY <1>1, <1>6, <1>7 DEF Cell
    <3>2. QED
      BY <3>1
  <2>2. (w + j) % Size \in Cell /\ (((w + j) % Size) + Size - w) % Size = j
    BY <1>1, <1>6, ThereAndBack
  <2>3. QED
    BY <1>9, <2>1, <2>2
<1>16. WriterOK'
  <2>1. \A k \in 1 .. writer'.n : ring'.bytes[(ring'.wr + (k - 1)) % Size] = writer'.left[1][k]
    BY <1>5, <1>11, <1>15
  <2>2. writer'.n \in 1 .. Len(writer'.left[1]) /\ writer'.n <= Size - 1 - Len(stream')
    BY <1>3, <1>4, <1>5, <1>11
  <2>3. writer.left # <<>> /\ \A j \in 1 .. Len(writer.left) : writer.left[j] # <<>>
    BY <1>3 DEF ChannelInv, WriterOK
  <2>4. QED
    BY <1>11, <2>1, <2>2, <2>3 DEF WriterOK
<1>17. ReaderOK' /\ HostOK'
  BY <1>3, <1>11 DEF ChannelInv, ReaderOK, HostOK
<1>18. QED
  BY <1>12, <1>14, <1>16, <1>17 DEF ChannelInv

(* A sequence cut in two.                                                  *)
LEMMA CutIs ==
  ASSUME NEW S, NEW v \in Seq(S), NEW n \in 0 .. Len(v)
  PROVE  /\ SubSeq(v, 1, n) \in Seq(S) /\ Len(SubSeq(v, 1, n)) = n
         /\ \A i \in 1 .. n : SubSeq(v, 1, n)[i] = v[i]
         /\ SubSeq(v, n + 1, Len(v)) \in Seq(S) /\ Len(SubSeq(v, n + 1, Len(v))) = Len(v) - n
         /\ \A i \in 1 .. Len(v) - n : SubSeq(v, n + 1, Len(v))[i] = v[n + i]
         /\ v = SubSeq(v, 1, n) \o SubSeq(v, n + 1, Len(v))
<1>1. Len(v) \in Nat
  BY LenProperties
<1>2. PICK a : a = SubSeq(v, 1, n)
  OBVIOUS
<1>3. PICK b : b = SubSeq(v, n + 1, Len(v))
  OBVIOUS
<1>4. /\ a \in Seq(S) /\ Len(a) = n /\ \A i \in 1 .. n : a[i] = v[i]
  <2>1. \A i \in 1 .. n : v[i] \in S
    BY <1>1, ElementOfSeq
  <2>2. a = [i \in 1 .. n |-> v[i]]
    BY <1>1, <1>2
  <2>3. QED
    BY <1>1, <2>1, <2>2
<1>5. /\ b \in Seq(S) /\ Len(b) = Len(v) - n /\ \A i \in 1 .. Len(v) - n : b[i] = v[n + i]
  <2>1. \A i \in 1 .. Len(v) - n : v[n + i] \in S
    BY <1>1, ElementOfSeq
  <2>2. b = [i \in 1 .. Len(v) - n |-> v[n + i]]
    BY <1>1, <1>3
  <2>3. QED
    BY <1>1, <2>1, <2>2
<1>6. v = a \o b
  <2>1. PICK x : x = a \o b
    OBVIOUS
  <2>2. /\ x \in Seq(S) /\ Len(x) = n + (Len(v) - n)
        /\ \A i \in 1 .. n : x[i] = a[i]
        /\ \A i \in 1 .. Len(v) - n : x[n + i] = b[i]
    BY <1>1, <1>4, <1>5, <2>1, ConcatProperties
  <2>3. Len(x) = Len(v)
    BY <1>1, <2>2
  <2>4. ASSUME NEW i \in 1 .. Len(v) PROVE x[i] = v[i]
    <3>1. CASE i <= n
      BY <1>1, <1>4, <2>2, <3>1
    <3>2. CASE ~(i <= n)
      <4>1. i - n \in 1 .. Len(v) - n /\ n + (i - n) = i
        BY <1>1, <3>2
      <4>2. QED
        BY <1>5, <2>2, <4>1
    <3>3. QED
      BY <3>1, <3>2
  <2>5. x = v
    BY <2>2, <2>3, <2>4, SeqEqual
  <2>6. QED
    BY <2>1, <2>5
<1>7. QED
  BY <1>2, <1>3, <1>4, <1>5, <1>6

LEMMA AnnounceKeepsChannel ==
  ASSUME Channel!RttAssumption, ChannelInv, Channel!Announce
  PROVE  ChannelInv'
<1>1. Size \in Nat \ {0, 1}
  BY ChannelConstants
<1>2. PICK new : new = Channel!Left
  OBVIOUS
<1>3. PICK r, w, u, n, v, rest : /\ r = ring.rd /\ w = ring.wr /\ u = Len(stream)
                                 /\ n = writer.n /\ v = Head(writer.left) /\ rest = Tail(writer.left)
  OBVIOUS
<1>4. PICK a, b : a = SubSeq(v, 1, n) /\ b = SubSeq(v, n + 1, Len(v))
  OBVIOUS
<1>5. /\ writer.pc = "announce" /\ ring' = [ring EXCEPT !.wr = (w + n) % Size]
      /\ stream' = stream \o a
      /\ writer' = [pc |-> IF new = <<>> THEN "idle" ELSE "wait", left |-> new, n |-> 0]
      /\ UNCHANGED <<down, reader, active, number, shown>>
  BY <1>2, <1>3, <1>4 DEF Channel!Announce
<1>6. /\ v = writer.left[1] /\ v \in Seq(ChannelByte) /\ Len(v) \in Nat
      /\ rest \in Seq(Seq(ChannelByte)) /\ writer.left = <<v>> \o rest
      /\ \A j \in 1 .. Len(rest) : rest[j] # <<>>
      /\ n \in 1 .. Len(v) /\ n <= Size - 1 - u
      /\ \A k \in 1 .. n : ring.bytes[(w + (k - 1)) % Size] = v[k]
  <2>1. /\ Head(writer.left) = writer.left[1] /\ Head(writer.left) \in Seq(ChannelByte)
        /\ Len(Head(writer.left)) \in Nat \ {0}
        /\ Tail(writer.left) \in Seq(Seq(ChannelByte))
        /\ writer.left = <<Head(writer.left)>> \o Tail(writer.left)
        /\ \A j \in 1 .. Len(Tail(writer.left)) : Tail(writer.left)[j] # <<>>
    BY <1>5, FirstWrite
  <2>2. /\ writer.n \in 1 .. Len(writer.left[1]) /\ writer.n <= Size - 1 - Len(stream)
        /\ \A k \in 1 .. writer.n : ring.bytes[(ring.wr + (k - 1)) % Size] = writer.left[1][k]
    BY <1>5 DEF ChannelInv, WriterOK
  <2>3. QED
    BY <1>3, <2>1, <2>2
<1>7. /\ r \in Cell /\ w \in Cell /\ u \in Cell /\ w = (r + u) % Size
      /\ stream \in Seq(ChannelByte) /\ shown \in Host
  BY <1>1, <1>3, UsedIs DEF ChannelInv, Channel!DeliversStream, ChannelTyped
<1>8. /\ a \in Seq(ChannelByte) /\ Len(a) = n /\ (\A i \in 1 .. n : a[i] = v[i])
      /\ b \in Seq(ChannelByte) /\ Len(b) = Len(v) - n /\ v = a \o b
  <2>1. n \in 0 .. Len(v)
    BY <1>6
  <2>2. QED
    BY <1>4, <1>6, <2>1, CutIs
<1>9. PICK s : s = stream \o a
  OBVIOUS
<1>10. /\ s \in Seq(ChannelByte) /\ Len(s) = u + n
       /\ \A i \in 1 .. u : s[i] = stream[i]
       /\ \A k \in 1 .. n : s[u + k] = a[k]
  <2>1. u \in Nat /\ n \in Nat
    BY <1>6, <1>7 DEF Cell
  <2>2. PICK q \in Seq(ChannelByte) : q = stream /\ Len(q) = u
    BY <1>3, <1>7
  <2>3. /\ q \o a \in Seq(ChannelByte) /\ Len(q \o a) = Len(q) + Len(a)
        /\ \A i \in 1 .. Len(q) + Len(a) :
             (q \o a)[i] = IF i <= Len(q) THEN q[i] ELSE a[i - Len(q)]
    BY <1>8, ConcatProperties
  <2>4. s = q \o a
    BY <1>9, <2>2
  <2>5. QED
    BY <1>8, <2>1, <2>2, <2>3, <2>4
<1>11. /\ (w + n) % Size \in Cell /\ (w + n) % Size = (r + (u + n)) % Size
       /\ u + n \in Cell
  <2>1. n \in 0 .. Size /\ u + n \in Cell /\ u \in Nat /\ n \in Nat /\ u + n <= Size
    BY <1>1, <1>6, <1>7 DEF Cell
  <2>2. (w + n) % Size \in Cell
    BY <1>1, <1>7, <2>1, CellIs
  <2>3. (((r + u) % Size) + n) % Size = (r + (u + n)) % Size
    BY <1>1, <1>7, <2>1, FurtherOn
  <2>4. QED
    BY <1>7, <2>1, <2>2, <2>3
<1>12. ring \in [bytes : [Cell -> ChannelByte], rd : Cell, wr : Cell, flags : {"skip", "trim", "block"}]
  BY DEF ChannelInv, ChannelTyped
<1>13. /\ ring' \in [bytes : [Cell -> ChannelByte], rd : Cell, wr : Cell, flags : {"skip", "trim", "block"}]
       /\ ring'.bytes = ring.bytes /\ ring'.rd = r /\ ring'.wr = (w + n) % Size
  BY <1>3, <1>5, <1>11, <1>12
<1>14. Channel!Used(ring)' = u + n
  <2>1. (((r + (u + n)) % Size) + Size - r) % Size = u + n
    BY <1>1, <1>7, <1>11, ThereAndBack
  <2>2. PICK x : x = (w + n) % Size
    OBVIOUS
  <2>3. (x + Size - r) % Size = u + n
    BY <1>11, <2>1, <2>2
  <2>4. QED
    BY <1>13, <2>2, <2>3 DEF Channel!Used
<1>15. ASSUME NEW i \in 1 .. u + n PROVE ring.bytes[(r + i - 1) % Size] = s[i]
  <2>1. CASE i <= u
    <3>1. i \in 1 .. u
      BY <1>7, <2>1 DEF Cell
    <3>2. ring.bytes[(r + i - 1) % Size] = stream[i]
      BY <1>3, <3>1 DEF ChannelInv, Channel!DeliversStream
    <3>3. QED
      BY <1>10, <3>1, <3>2
  <2>2. CASE ~(i <= u)
    <3>1. PICK k \in 1 .. n : i = u + k
      <4>1. i - u \in 1 .. n /\ i = u + (i - u)
        BY <1>6, <1>7, <2>2 DEF Cell
      <4>2. QED
        BY <4>1
    <3>2. /\ u \in Nat /\ k - 1 \in Nat /\ u + (k - 1) <= Size /\ r + i - 1 = r + (u + (k - 1))
      BY <1>1, <1>6, <1>7, <3>1 DEF Cell
    <3>3. (((r + u) % Size) + (k - 1)) % Size = (r + (u + (k - 1))) % Size
      BY <1>1, <1>7, <3>2, FurtherOn
    <3>4. (w + (k - 1)) % Size = (r + i - 1) % Size
      BY <1>7, <3>2, <3>3
    <3>5. ring.bytes[(w + (k - 1)) % Size] = v[k]
      BY <1>6
    <3>6. QED
      BY <1>8, <1>10, <3>1, <3>4, <3>5
  <2>3. QED
    BY <2>1, <2>2
<1>16. Channel!DeliversStream'
  <2>1. Len(stream') = u + n
    BY <1>5, <1>9, <1>10
  <2>2. \A i \in 1 .. Len(stream)' : ring'.bytes[(ring'.rd + i - 1) % Size] = stream'[i]
    BY <1>5, <1>9, <1>10, <1>13, <1>15
  <2>3. reader'.pc = "release" => reader'.data = SubSeq(stream', 1, reader'.size)
    <3>1. SUFFICES ASSUME reader.pc = "release" PROVE reader.data = SubSeq(stream', 1, reader.size)
      BY <1>5
    <3>2. PICK m \in 1 .. u : m = reader.size
      BY <1>3, <3>1 DEF ChannelInv, ReaderOK
    <3>3. reader.data = SubSeq(stream, 1, m)
      BY <3>1, <3>2 DEF ChannelInv, Channel!DeliversStream
    <3>4. SubSeq(s, 1, m) = SubSeq(stream, 1, m)
      <4>1. \A i \in 1 .. m : s[i] = stream[i]
        BY <1>7, <1>10 DEF Cell
      <4>2. SubSeq(s, 1, m) = [i \in 1 .. m |-> s[i]] /\ SubSeq(stream, 1, m) = [i \in 1 .. m |-> stream[i]]
        BY <1>7, <1>10
      <4>3. QED
        BY <4>1, <4>2
    <3>5. QED
      BY <1>5, <1>9, <3>2, <3>3, <3>4
  <2>4. QED
    BY <1>14, <2>1, <2>2, <2>3 DEF Channel!DeliversStream
<1>17. PICK e, t : e = End(shown, stream) /\ t = [terminal |-> active, escaped |-> FALSE]
  OBVIOUS
<1>18. e \in Host /\ OnOwn(shown, stream) /\ OnOwn(e, v) /\ ChainFrom(End(e, v), rest, t)
  <2>1. e \in Host
    BY <1>7, <1>17, ShowsBoth
  <2>2. OnOwn(shown, stream) /\ ChainFrom(e, <<v>> \o rest, t)
    BY <1>6, <1>17 DEF ChannelInv, HostOK
  <2>3. QED
    BY <1>6, <2>1, <2>2, ChainBegins
<1>19. /\ OnOwn(e, a) /\ OnOwn(End(e, a), b) /\ End(e, v) = End(End(e, a), b)
       /\ End(e, a) \in Host /\ OnOwn(shown, s) /\ End(shown, s) = End(e, a)
  <2>1. OnOwn(e, a) /\ OnOwn(End(e, a), b) /\ End(e, v) = End(End(e, a), b) /\ End(e, a) \in Host
    BY <1>8, <1>18, ShowsBoth
  <2>2. OnOwn(shown, s) /\ End(shown, s) = End(e, a)
    BY <1>7, <1>8, <1>9, <1>17, <1>18, <2>1, ShowsBoth
  <2>3. QED
    BY <2>1, <2>2
<1>20. /\ new \in Seq(Seq(ChannelByte)) /\ (\A j \in 1 .. Len(new) : new[j] # <<>>)
       /\ ChainFrom(End(e, a), new, t)
  <2>1. CASE n < Len(v)
    <3>1. new = <<b>> \o rest
      BY <1>2, <1>3, <1>4, <2>1 DEF Channel!Left
    <3>2. b # <<>>
      BY <1>6, <1>8, <2>1
    <3>3. /\ <<b>> \o rest \in Seq(Seq(ChannelByte))
          /\ \A j \in 1 .. Len(<<b>> \o rest) : (<<b>> \o rest)[j] # <<>>
      BY <1>6, <1>8, <3>2, WritesJoin
    <3>4. ChainFrom(End(e, a), <<b>> \o rest, t)
      BY <1>6, <1>8, <1>18, <1>19, ChainBegins
    <3>5. QED
      BY <3>1, <3>3, <3>4
  <2>2. CASE ~(n < Len(v))
    <3>1. n = Len(v)
      BY <1>6, <2>2
    <3>2. new = <<>> \o rest
      BY <1>2, <1>3, <2>2 DEF Channel!Left
    <3>3. new = rest
      BY <1>6, <3>2, ConcatEmptySeq
    <3>4. Len(b) = 0
      BY <1>6, <1>8, <3>1
    <3>5. b = <<>>
      BY <1>8, <3>4, EmptySeq
    <3>6. v = a
      BY <1>8, <3>5, ConcatEmptySeq
    <3>7. QED
      BY <1>6, <1>18, <3>3, <3>6
  <2>3. QED
    BY <2>1, <2>2
<1>21. /\ writer' \in [pc : {"idle", "wait", "store", "announce"}, left : Seq(Seq(ChannelByte)), n : Nat]
       /\ writer'.left = new /\ (writer'.pc = "idle" <=> new = <<>>)
       /\ writer'.pc \notin {"store", "announce"}
  BY <1>5, <1>20
<1>22. ChannelTyped'
  BY <1>5, <1>9, <1>10, <1>13, <1>21 DEF ChannelInv, ChannelTyped
<1>23. WriterOK'
  BY <1>20, <1>21 DEF WriterOK
<1>24. ReaderOK'
  <2>1. reader.pc \in {"copy", "release"} => reader.size \in 1 .. u
    BY <1>3 DEF ChannelInv, ReaderOK
  <2>2. Len(stream') = u + n
    BY <1>5, <1>9, <1>10
  <2>3. u \in Nat /\ n \in Nat
    BY <1>6, <1>7 DEF Cell
  <2>4. QED
    BY <1>5, <2>1, <2>2, <2>3 DEF ReaderOK
<1>25. HostOK'
  BY <1>5, <1>9, <1>17, <1>19, <1>20, <1>21 DEF HostOK
<1>26. QED
  BY <1>16, <1>22, <1>23, <1>24, <1>25 DEF ChannelInv

LEMMA LookKeepsChannel ==
  ASSUME Channel!RttAssumption, ChannelInv, NEW size \in ReadSizes, Channel!Look(size)
  PROVE  ChannelInv'
<1>1. PICK n : n = Channel!Min({Channel!Used(ring), size})
  OBVIOUS
<1>2. /\ ring.rd # ring.wr /\ reader' = [pc |-> "copy", size |-> n, data |-> <<>>]
      /\ UNCHANGED <<down, ring, writer, active, stream, number, shown>>
  BY <1>1 DEF Channel!Look
<1>3. /\ ring.rd \in Cell /\ Channel!Used(ring) \in Cell /\ Size \in Nat \ {0, 1}
      /\ ring.wr = (ring.rd + Channel!Used(ring)) % Size /\ Channel!Used(ring) = Len(stream)
  BY ChannelConstants, UsedIs DEF ChannelInv, Channel!DeliversStream
<1>4. Len(stream) # 0
  <2>1. SUFFICES ASSUME Len(stream) = 0 PROVE FALSE
    OBVIOUS
  <2>2. ring.wr = (ring.rd + 0) % Size
    BY <1>3, <2>1
  <2>3. (ring.rd + 0) % Size = ring.rd
    <3>1. PICK r \in Cell, z \in 0 .. Size : r = ring.rd /\ z = 0
      BY <1>3
    <3>2. (r + z) % Size = IF r + z < Size THEN r + z ELSE r + z - Size
      BY <1>3, CellIs
    <3>3. QED
      BY <1>3, <3>1, <3>2 DEF Cell
  <2>4. QED
    BY <1>2, <2>2, <2>3
<1>5. n \in 1 .. Len(stream) /\ Len(stream) \in Nat
  <2>1. PICK u : u = Len(stream)
    OBVIOUS
  <2>2. u \in Nat /\ u # 0 /\ size \in Nat \ {0} /\ n = Channel!Min({u, size})
    BY <1>1, <1>3, <1>4, <2>1, ChannelConstants DEF Cell
  <2>3. {u, size} \subseteq Nat /\ {u, size} # {}
    BY <2>2
  <2>4. n \in {u, size} /\ \A y \in {u, size} : n <= y
    BY <2>2, <2>3, MinimumOf
  <2>5. n \in Nat \ {0} /\ n <= u
    BY <2>2, <2>4
  <2>6. QED
    BY <2>1, <2>2, <2>5
<1>6. ChannelTyped' /\ Channel!DeliversStream' /\ WriterOK'
  <2>1. reader' \in [pc : {"idle", "copy", "release"}, size : Nat, data : Seq(ChannelByte)]
    BY <1>2, <1>5
  <2>2. reader'.pc # "release"
    BY <1>2
  <2>3. QED
    BY <1>2, <2>1, <2>2
       DEF ChannelInv, ChannelTyped, Channel!DeliversStream, Channel!Used, WriterOK
<1>7. ReaderOK' /\ HostOK'
  BY <1>2, <1>5 DEF ChannelInv, ReaderOK, HostOK
<1>8. QED
  BY <1>6, <1>7 DEF ChannelInv

LEMMA CopyKeepsChannel ==
  ASSUME Channel!RttAssumption, ChannelInv, Channel!Copy
  PROVE  ChannelInv'
<1>1. PICK data : data = [i \in 1 .. reader.size |-> ring.bytes[(ring.rd + i - 1) % Size]]
  OBVIOUS
<1>2. /\ reader.pc = "copy" /\ reader' = [reader EXCEPT !.pc = "release", !.data = data]
      /\ UNCHANGED <<down, ring, writer, active, stream, number, shown>>
  BY <1>1 DEF Channel!Copy
<1>3. /\ reader \in [pc : {"idle", "copy", "release"}, size : Nat, data : Seq(ChannelByte)]
      /\ stream \in Seq(ChannelByte) /\ Len(stream) \in Nat /\ reader.size \in 1 .. Len(stream)
  BY <1>2, LenProperties DEF ChannelInv, ChannelTyped, ReaderOK
<1>4. \A i \in 1 .. reader.size : ring.bytes[(ring.rd + i - 1) % Size] = stream[i]
  BY <1>3 DEF ChannelInv, Channel!DeliversStream
<1>5. PICK m, q : m = reader.size /\ q = stream
  OBVIOUS
<1>6. data = SubSeq(q, 1, m) /\ data \in Seq(ChannelByte)
  <2>1. m \in 0 .. Len(q) /\ q \in Seq(ChannelByte) /\ Len(q) \in Nat /\ m \in Nat
    BY <1>3, <1>5
  <2>2. SubSeq(q, 1, m) = [i \in 1 .. m |-> q[i]]
    BY <2>1
  <2>3. data = [i \in 1 .. m |-> q[i]]
    BY <1>1, <1>4, <1>5
  <2>4. SubSeq(q, 1, m) \in Seq(ChannelByte)
    BY <2>1, CutIs
  <2>5. QED
    BY <2>2, <2>3, <2>4
<1>7. /\ reader' \in [pc : {"idle", "copy", "release"}, size : Nat, data : Seq(ChannelByte)]
      /\ reader'.pc = "release" /\ reader'.size = m /\ reader'.data = data
  BY <1>2, <1>3, <1>5, <1>6
<1>8. ChannelTyped' /\ WriterOK' /\ HostOK'
  BY <1>2, <1>7 DEF ChannelInv, ChannelTyped, WriterOK, HostOK
<1>9. Channel!DeliversStream'
  BY <1>2, <1>5, <1>6, <1>7 DEF ChannelInv, Channel!DeliversStream, Channel!Used
<1>10. ReaderOK'
  BY <1>2, <1>3, <1>5, <1>7 DEF ReaderOK
<1>11. QED
  BY <1>8, <1>9, <1>10 DEF ChannelInv

LEMMA ReleaseKeepsChannel ==
  ASSUME Channel!RttAssumption, ChannelInv, Channel!Release
  PROVE  ChannelInv'
<1>1. Size \in Nat \ {0, 1} /\ Channel!Slot = Cell /\ Channel!NoByte \in ChannelByte
  BY ChannelConstants DEF ChannelByte, Channel!NoByte
<1>2. PICK r, w, q, u, m, d : /\ r = ring.rd /\ w = ring.wr /\ q = stream /\ u = Len(stream)
                              /\ m = reader.size /\ d = reader.data
  OBVIOUS
<1>3. PICK rest : rest = SubSeq(q, m + 1, Len(q))
  OBVIOUS
<1>4. PICK bytes : bytes =
        [i \in Cell |-> IF (i + Size - r) % Size < m THEN Channel!NoByte ELSE ring.bytes[i]]
  OBVIOUS
<1>5. /\ reader.pc = "release" /\ ring' = [ring EXCEPT !.rd = (r + m) % Size, !.bytes = bytes]
      /\ stream' = rest /\ shown' = Channel!After(shown, d)[m]
      /\ reader' = [pc |-> "idle", size |-> 0, data |-> <<>>]
      /\ UNCHANGED <<down, writer, active, number>>
  BY <1>1, <1>2, <1>3, <1>4 DEF Channel!Release, Channel!Released
<1>6. /\ q \in Seq(ChannelByte) /\ u = Len(q) /\ m \in 1 .. u /\ d = SubSeq(q, 1, m)
      /\ shown \in Host
  BY <1>2, <1>5 DEF ChannelInv, ChannelTyped, ReaderOK, Channel!DeliversStream
<1>7. /\ r \in Cell /\ w \in Cell /\ u \in Cell /\ w = (r + u) % Size
  BY <1>1, <1>2, UsedIs DEF ChannelInv, Channel!DeliversStream
<1>8. /\ d \in Seq(ChannelByte) /\ Len(d) = m /\ rest \in Seq(ChannelByte) /\ Len(rest) = u - m
      /\ (\A i \in 1 .. u - m : rest[i] = q[m + i]) /\ q = d \o rest
  <2>1. m \in 0 .. Len(q)
    BY <1>6
  <2>2. QED
    BY <1>3, <1>6, <2>1, CutIs
<1>9. ring \in [bytes : [Cell -> ChannelByte], rd : Cell, wr : Cell, flags : {"skip", "trim", "block"}]
  BY DEF ChannelInv, ChannelTyped
<1>10. m \in Nat /\ u \in Nat /\ m <= u /\ m \in 0 .. Size /\ u \in 0 .. Size /\ u - m \in Cell
  BY <1>1, <1>6, <1>7 DEF Cell
<1>11. /\ bytes \in [Cell -> ChannelByte]
       /\ \A i \in Cell : ~((i + Size - r) % Size < m) => bytes[i] = ring.bytes[i]
  BY <1>1, <1>4, <1>9
<1>12. (r + m) % Size \in Cell
  BY <1>1, <1>7, <1>10, CellIs
<1>13. /\ ring' \in [bytes : [Cell -> ChannelByte], rd : Cell, wr : Cell, flags : {"skip", "trim", "block"}]
       /\ ring'.bytes = bytes /\ ring'.rd = (r + m) % Size /\ ring'.wr = w
  BY <1>2, <1>5, <1>9, <1>11, <1>12
(* What is far enough from the read offset is kept.                        *)
<1>14. ASSUME NEW j \in m .. Size - 1
       PROVE  /\ bytes[(r + j) % Size] = ring.bytes[(r + j) % Size]
              /\ (((r + m) % Size) + (j - m)) % Size = (r + j) % Size
  <2>1. j \in Cell /\ ~(j < m) /\ j - m \in Nat /\ m + (j - m) <= Size /\ m + (j - m) = j
    BY <1>1, <1>10 DEF Cell
  <2>2. (r + j) % Size \in Cell /\ (((r + j) % Size) + Size - r) % Size = j
    BY <1>1, <1>7, <2>1, ThereAndBack
  <2>3. bytes[(r + j) % Size] = ring.bytes[(r + j) % Size]
    BY <1>11, <2>1, <2>2
  <2>4. (((r + m) % Size) + (j - m)) % Size = (r + (m + (j - m))) % Size
    BY <1>1, <1>7, <1>10, <2>1, FurtherOn
  <2>5. QED
    BY <2>1, <2>3, <2>4
<1>15. ASSUME NEW i \in 1 .. u - m PROVE bytes[(((r + m) % Size) + i - 1) % Size] = rest[i]
  <2>1. PICK x \in Cell : x = (r + m) % Size
    BY <1>12
  <2>2. PICK j : j = m + (i - 1)
    OBVIOUS
  <2>3. /\ j \in m .. Size - 1 /\ j + 1 = m + i /\ j + 1 \in 1 .. u
        /\ r + (j + 1) - 1 = r + j /\ x + i - 1 = x + (j - m)
    BY <1>1, <1>7, <1>10, <2>1, <2>2 DEF Cell
  <2>4. bytes[(r + j) % Size] = ring.bytes[(r + j) % Size] /\ (x + (j - m)) % Size = (r + j) % Size
    BY <1>14, <2>1, <2>3
  <2>5. ring.bytes[(r + (j + 1) - 1) % Size] = q[j + 1]
    BY <1>2, <2>3 DEF ChannelInv, Channel!DeliversStream
  <2>6. rest[i] = q[j + 1]
    BY <1>8, <2>3
  <2>7. QED
    BY <2>1, <2>3, <2>4, <2>5, <2>6
<1>16. Channel!Used(ring)' = u - m
  <2>1. PICK x \in Cell : x = (r + m) % Size
    BY <1>12
  <2>2. (x + (u - m)) % Size = w
    <3>1. (((r + m) % Size) + (u - m)) % Size = (r + (m + (u - m))) % Size
      <4>1. u - m \in Nat /\ m + (u - m) <= Size
        BY <1>10
      <4>2. QED
        BY <1>1, <1>7, <1>10, <4>1, FurtherOn
    <3>2. m + (u - m) = u
      BY <1>10
    <3>3. QED
      BY <1>7, <2>1, <3>1, <3>2
  <2>3. (((x + (u - m)) % Size) + Size - x) % Size = u - m
    BY <1>1, <1>10, ThereAndBack
  <2>4. (w + Size - x) % Size = u - m
    BY <2>2, <2>3
  <2>5. QED
    BY <1>13, <2>1, <2>4 DEF Channel!Used
<1>17. Channel!DeliversStream'
  <2>1. Len(stream') = u - m
    BY <1>5, <1>8
  <2>2. \A i \in 1 .. Len(stream') : ring'.bytes[(ring'.rd + i - 1) % Size] = stream'[i]
    BY <1>5, <1>13, <1>15, <2>1
  <2>3. reader'.pc # "release"
    BY <1>5
  <2>4. QED
    BY <1>16, <2>1, <2>2, <2>3 DEF Channel!DeliversStream
<1>18. /\ shown' = End(shown, d) /\ shown' \in Host
       /\ OnOwn(shown', rest) /\ End(shown', rest) = End(shown, q)
  <2>1. shown' = End(shown, d)
    BY <1>5, <1>8 DEF End
  <2>2. OnOwn(shown, q)
    BY <1>2 DEF ChannelInv, HostOK
  <2>3. /\ End(shown, d) \in Host /\ End(shown, d \o rest) = End(End(shown, d), rest)
        /\ OnOwn(shown, d \o rest) => OnOwn(End(shown, d), rest)
    BY <1>6, <1>8, ShowsBoth
  <2>4. QED
    BY <1>8, <2>1, <2>2, <2>3
<1>19. ChannelTyped'
  BY <1>5, <1>8, <1>13, <1>18 DEF ChannelInv, ChannelTyped
<1>20. WriterOK'
  <2>1. writer.pc \in {"store", "announce"} =>
          writer.n \in 1 .. Len(writer.left[1]) /\ writer.n <= Size - 1 - u
    BY <1>2 DEF ChannelInv, WriterOK
  <2>2. writer.n \in Nat
    BY DEF ChannelInv, ChannelTyped
  <2>3. writer.pc \in {"store", "announce"} => writer.n <= Size - 1 - (u - m)
    BY <1>1, <1>10, <2>1, <2>2
  <2>4. ASSUME writer.pc = "announce", NEW k \in 1 .. writer.n
        PROVE  bytes[(w + (k - 1)) % Size] = writer.left[1][k]
    <3>1. /\ u + (k - 1) \in m .. Size - 1 /\ k - 1 \in Nat /\ u + (k - 1) <= Size
      BY <1>1, <1>10, <2>1, <2>2, <2>4
    <3>2. (((r + u) % Size) + (k - 1)) % Size = (r + (u + (k - 1))) % Size
      BY <1>1, <1>7, <1>10, <3>1, FurtherOn
    <3>3. bytes[(r + (u + (k - 1))) % Size] = ring.bytes[(r + (u + (k - 1))) % Size]
      BY <1>14, <3>1
    <3>4. ring.bytes[(w + (k - 1)) % Size] = writer.left[1][k]
      BY <1>2, <2>4 DEF ChannelInv, WriterOK
    <3>5. QED
      BY <1>7, <3>2, <3>3, <3>4
  <2>5. /\ writer.pc = "idle" <=> writer.left = <<>>
        /\ \A j \in 1 .. Len(writer.left) : writer.left[j] # <<>>
    BY DEF ChannelInv, WriterOK
  <2>6. writer' = writer /\ Len(stream') = u - m /\ ring'.bytes = bytes /\ ring'.wr = w
    BY <1>5, <1>8, <1>13
  <2>7. QED
    BY <2>1, <2>3, <2>4, <2>5, <2>6 DEF WriterOK
<1>21. ReaderOK'
  BY <1>5 DEF ReaderOK
<1>22. HostOK'
  BY <1>2, <1>5, <1>18 DEF ChannelInv, HostOK
<1>23. QED
  BY <1>17, <1>19, <1>20, <1>21, <1>22 DEF ChannelInv

LEMMA StepKeepsChannel ==
  ASSUME Channel!RttAssumption, ChannelInv, [Channel!RttNext]_channelVars
  PROVE  ChannelInv'
<1>1. ASSUME NEW n \in Lengths,
             \/ Channel!WriteNoLock(n) \/ Channel!WriteDownBufferNoLock(n)
             \/ Channel!WriteSkipNoLock(n)
      PROVE  ChannelInv'
  BY <1>1, DataCallKeepsChannel
<1>2. CASE Channel!PutChar \/ Channel!PutCharSkip
  BY <1>2, PutCharKeepsChannel
<1>3. ASSUME NEW t \in Terminal, Channel!SetTerminal(t)
      PROVE  ChannelInv'
  BY <1>3, SetTerminalKeepsChannel
<1>4. ASSUME NEW t \in Terminal, NEW n \in Lengths, Channel!TerminalOut(t, n)
      PROVE  ChannelInv'
  BY <1>4, TerminalOutKeepsChannel
<1>5. ASSUME NEW m \in {"skip", "trim", "block"}, Channel!SetFlags(m)
      PROVE  ChannelInv'
  BY <1>5, SetFlagsKeepsChannel
<1>6. CASE Channel!Progress
  BY <1>6, WaitKeepsChannel, StoreKeepsChannel, AnnounceKeepsChannel DEF Channel!Progress
<1>7. CASE Channel!Reading
  BY <1>7, LookKeepsChannel, CopyKeepsChannel, ReleaseKeepsChannel
     DEF Channel!Reading, Channel!ReadUpBufferNoLock, Channel!ReadNoLock
<1>8. CASE UNCHANGED channelVars
  BY <1>8 DEF ChannelInv, ChannelTyped, Channel!DeliversStream, Channel!Used, WriterOK, ReaderOK,
              HostOK, channelVars
<1>9. QED
  BY <1>1, <1>2, <1>3, <1>4, <1>5, <1>6, <1>7, <1>8 DEF Channel!RttNext, Channel!Write

LEMMA ChannelInvImplies ==
  ASSUME ChannelInv
  PROVE  Channel!DeliversStream /\ Channel!ShownOnItsTerminal
<1>1. OnOwn(shown, stream) /\ shown \in Host /\ stream \in Seq(ChannelByte)
  BY DEF ChannelInv, HostOK, ChannelTyped
<1>2. ASSUME Channel!Idle PROVE End(shown, stream) = [terminal |-> active, escaped |-> FALSE]
  <2>1. End(shown, stream) \in Host
    BY <1>1, ShowsBoth
  <2>2. ChainFrom(End(shown, stream), <<>>, [terminal |-> active, escaped |-> FALSE])
    BY <1>2 DEF ChannelInv, HostOK, WriterOK, Channel!Idle
  <2>3. QED
    BY <2>1, <2>2, EmptyChain
<1>3. Channel!ShownOnItsTerminal
  BY <1>1, <1>2 DEF Channel!ShownOnItsTerminal, OnOwn, End
<1>4. QED
  BY <1>3 DEF ChannelInv

-----------------------------------------------------------------------------
(* The parts side by side: a behaviour stays the part it is.               *)

LEMMA PartSteps ==
  ASSUME [PartsNext]_partVars
  PROVE  /\ part' = part
         /\ part = "privilege" => [Privilege!Next]_privilegeVars
         /\ part = "compare" => [Compare!CompareNext]_compareVars
         /\ part = "wrappers" => [Wrappers!Next]_wrapperVars
         /\ part = "coroutines" => [Crs!CoNext]_coVars
         /\ part = "status" => [Control!ControlNext]_controlVars
         /\ part = "channel" => [Channel!RttNext]_channelVars
<1>1. CASE UNCHANGED partVars
  BY <1>1 DEF partVars
<1>2. CASE part = "privilege" /\ Privilege!Next /\ part' = part
  BY <1>2
<1>3. CASE part = "compare" /\ Compare!CompareNext /\ part' = part
  BY <1>3
<1>4. CASE part = "wrappers" /\ Wrappers!Next /\ part' = part
  BY <1>4
<1>5. CASE part = "coroutines" /\ Crs!CoNext /\ part' = part
  BY <1>5
<1>6. CASE part = "status" /\ Control!ControlNext /\ part' = part
  BY <1>6
<1>7. CASE part = "channel" /\ Channel!RttNext /\ part' = part
  BY <1>7
<1>8. QED
  BY <1>1, <1>2, <1>3, <1>4, <1>5, <1>6, <1>7 DEF PartsNext

LEMMA IdleKeepsWrappers ==
  ASSUME WrappersInv, UNCHANGED wrapperVars
  PROVE  WrappersInv'
  BY DEF wrapperVars, WrappersInv, WrappersTyped, Exclusive, SlotOK, CallOK

LEMMA IdleKeepsCo ==
  ASSUME CoInv, UNCHANGED coVars
  PROVE  CoInv'
<1>1. /\ CoTyped' /\ Turns'
  BY DEF coVars, CoInv, CoTyped, Turns, Crs!Created
<1>2. Crs!BlocksExactly' /\ Crs!ItemsAgree'
  BY DEF coVars, CoInv, Crs!BlocksExactly, Crs!ItemsAgree, Crs!Created, Crs!Due
<1>3. ASSUME NEW x \in Calls PROVE AllServed(x)'
  <2>1. Crs!Waiting(x)' = Crs!Waiting(x) /\ Crs!OnItsWay(x)' = Crs!OnItsWay(x)
    BY DEF coVars, Crs!Waiting, Crs!OnItsWay, Crs!Created
  <2>2. Lacks(x)' = Lacks(x)
    BY DEF coVars, Lacks
  <2>3. QED
    BY <2>1, <2>2 DEF coVars, CoInv, AllServed, Waits, Excused
<1>4. QED
  BY <1>1, <1>2, <1>3 DEF CoInv

(* A call of a wrapper leaves the caller with the privilege it had, and no *)
(* task makes one with more than its own, whatever the tasks and however   *)
(* deep the calls go.                                                      *)
THEOREM PrivilegeAlwaysKept ==
  ASSUME Privilege!MpuPrivilegeAssumption
  PROVE  PartsSpec => []PrivilegeKept
<1> DEFINE Inv == part = "privilege" => PrivilegeInv
<1>1. PartsInit => Inv
  BY PrivilegeStarts DEF PartsInit
<1>2. Inv /\ [PartsNext]_partVars => Inv'
  BY PartSteps, StepKeepsPrivilege
<1>3. Inv => PrivilegeKept
  BY DEF PrivilegeInv, PrivilegeKept
<1>4. QED
  BY <1>1, <1>2, <1>3, PTL DEF PartsSpec

(* Tick interrupts come a period apart, none from a half-written compare   *)
(* register, for every width of the registers' halves and every period     *)
(* shorter than a half.                                                    *)
THEOREM TickTimerAlwaysPunctual ==
  ASSUME Compare!TimerCompareAssumption
  PROVE  PartsSpec => []TickTimerPunctual
<1> DEFINE Inv == part = "compare" => CompareInv
<1>1. PartsInit => Inv
  BY CompareStarts DEF PartsInit
<1>2. Inv /\ [PartsNext]_partVars => Inv'
  BY PartSteps, StepKeepsCompare
<1>3. Inv => TickTimerPunctual
  BY CompareInvImplies DEF TickTimerPunctual
<1>4. QED
  BY <1>1, <1>2, <1>3, PTL DEF PartsSpec

(* A call reaches the object its index was given for, no slot is lost, and *)
(* the handle of a task is translated back to its index, for every number  *)
(* of slots, objects and callers, unless a task deletes itself before its  *)
(* creator has stored its handle.                                          *)
THEOREM WrappersAlwaysTranslate ==
  ASSUME Wrappers!KernelObjectsAssumption, ~ Eager, Traced \subseteq {"task"}
  PROVE  PartsSpec => []WrappersTranslate
<1> DEFINE Inv == part = "wrappers" => WrappersInv
<1>1. PartsInit => Inv
  BY WrappersStart DEF PartsInit
<1>2. Inv /\ [PartsNext]_partVars => Inv'
  BY PartSteps, StepKeepsWrappers, IdleKeepsWrappers
<1>3. Inv => WrappersTranslate
  BY WrappersInvImplies DEF WrappersTranslate
<1>4. QED
  BY <1>1, <1>2, <1>3, PTL DEF PartsSpec

(* A co-routine is blocked for exactly the ticks it asked for, and none    *)
(* waits beside a message or room for one that nobody comes for, but for   *)
(* room that an interrupt made between the test and the block of           *)
(* xQueueCRSend: for every number of co-routines, lengths, delays and      *)
(* widths of the tick count, as long as no interrupt passes TRUE as        *)
(* xCoRoutinePreviouslyWoken.                                              *)
THEOREM CoRoutinesAlwaysServed ==
  ASSUME Crs!CoRoutinesAssumption, IsFiniteSet(CoRoutine), TRUE \notin Woken
  PROVE  PartsSpec => []CoRoutinesServed
<1> DEFINE Inv == part = "coroutines" => CoInv
<1>1. CoAssumption
  BY DEF CoAssumption
<1>2. PartsInit => Inv
  BY <1>1, CoStarts DEF PartsInit
<1>3. Inv /\ [PartsNext]_partVars => Inv'
  BY <1>1, PartSteps, StepKeepsCo, IdleKeepsCo
<1>4. Inv => CoRoutinesServed
  BY CoInvImplies DEF CoRoutinesServed
<1>5. QED
  BY <1>2, <1>3, <1>4, PTL DEF PartsSpec

(* A timer's flags tell the truth however the tasks' calls, the commands   *)
(* that wait and the daemon's two accesses to a status byte interleave,    *)
(* and no timer is used whose memory was freed, for every number of timers *)
(* and every length of the command queue.                                  *)
THEOREM TimersAlwaysControlled ==
  PartsSpec => []TimersControlled
<1> DEFINE Inv == part = "status" => ControlInv
<1>1. PartsInit => Inv
  BY ControlStarts DEF PartsInit
<1>2. Inv /\ [PartsNext]_partVars => Inv'
  BY PartSteps, StepKeepsControl
<1>3. Inv => TimersControlled
  BY ControlInvImplies DEF TimersControlled
<1>4. QED
  BY <1>1, <1>2, <1>3, PTL DEF PartsSpec

(* What the host reads of the debug channel is what was written and        *)
(* announced, although it takes no lock, and every byte appears on the     *)
(* terminal it was written for, for every size of the ring, terminal,      *)
(* length of a write and of a read, in all three modes of a full ring.     *)
THEOREM StreamAlwaysDelivered ==
  ASSUME Channel!RttAssumption
  PROVE  PartsSpec => []DeliversStream
<1> DEFINE Inv == part = "channel" => ChannelInv
<1>1. PartsInit => Inv
  BY ChannelStarts DEF PartsInit
<1>2. Inv /\ [PartsNext]_partVars => Inv'
  BY PartSteps, StepKeepsChannel
<1>3. Inv => DeliversStream
  BY ChannelInvImplies DEF DeliversStream
<1>4. QED
  BY <1>1, <1>2, <1>3, PTL DEF PartsSpec

=============================================================================
