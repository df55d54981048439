----------------------------- MODULE CoRoutines -----------------------------
(***************************************************************************)
(* Co-routines: croutine.c, the calls of queue.c that they and interrupts  *)
(* make on a queue, and the macros of croutine.h they block with.  They    *)
(* run in the idle task, one call of vCoRoutineSchedule after the other;   *)
(* interrupts come between any two of the steps below, each of which is a  *)
(* section with interrupts disabled or touches nothing interrupts use.     *)
(***************************************************************************)
EXTENDS Naturals, FiniteSets

CONSTANTS
  CoRoutine,   \* the co-routines
  Priority,    \* uxPriority of each
  Length,      \* uxLength of the queue
  Delays,      \* the ticks they delay and block for
  Woken,       \* what interrupts pass as xCoRoutinePreviouslyWoken
  TickMod,     \* 2^w for ticks of w bits
  MaxPassed    \* bound: ticks between two calls of vCoRoutineSchedule

CoRoutinesAssumption ==
  /\ Priority \in [CoRoutine -> Nat] /\ Length \in Nat \ {0} /\ Woken \subseteq BOOLEAN
  /\ TickMod \in Nat \ {0} /\ MaxPassed \in 0 .. TickMod - 1 /\ Delays \subseteq 0 .. TickMod - 1

VARIABLES
  ready,       \* the co-routines on pxReadyCoRoutineLists
  delayed,     \* those on pxDelayedCoRoutineList
  overflow,    \* those on pxOverflowDelayedCoRoutineList
  wake,        \* the value of each generic list item
  event,       \* where each event list item is: a list of the queue, or the
               \* "pending" ready list, or "none"
  top,         \* uxTopCoRoutineReadyPriority
  time,        \* [tick, now, last]: the kernel's tick count,
               \* xCoRoutineTickCount and xLastTickCount
  messages,    \* uxMessagesWaiting
  at,          \* the step that vCoRoutineSchedule is at
  passed,      \* xPassedTicks
  chosen,      \* pxCurrentCoRoutine, or {}
  resumes,     \* what each does when it next runs: uxState
  remaining,   \* history: the ticks each has still to be blocked
  late         \* history: has an interrupt made room between the test and the
               \* block of the last call that found the queue full?

coVars == <<ready, delayed, overflow, wake, event, top, time, messages, at, passed,
            chosen, resumes, remaining, late>>

Created == ready \cup delayed \cup overflow

(* prvInitialiseCoRoutineLists, vCoRoutineResetState *)
CoInit ==
  /\ ready = {} /\ delayed = {} /\ overflow = {} /\ top = 0
  /\ wake = [c \in CoRoutine |-> 0] /\ event = [c \in CoRoutine |-> "none"]
  /\ time = [tick |-> 0, now |-> 0, last |-> 0] /\ messages = 0
  /\ at = "idle" /\ passed = 0 /\ chosen = {}
  /\ resumes = [c \in CoRoutine |-> "start"] /\ remaining = [c \in CoRoutine |-> 0]
  /\ late = FALSE

-----------------------------------------------------------------------------
(* Faulty: a co-routine that becomes ready is not looked for *)
AddToReadyQueue_KeepsTop(c) == ready' = ready \cup {c} /\ UNCHANGED top

(* prvAddCoRoutineToReadyQueue *)
AddToReadyQueue(c) ==
  /\ ready' = ready \cup {c}
  /\ top' = IF Priority[c] > top THEN Priority[c] ELSE top

(* xCoRoutineCreate, by the task or the co-routine that runs now *)
Create(c) ==
  /\ at \in {"idle", "run"} /\ c \notin Created
  /\ chosen' = IF chosen = {} THEN {c} ELSE chosen
  /\ AddToReadyQueue(c)
  /\ UNCHANGED <<delayed, overflow, wake, event, time, messages, at, passed, resumes, remaining,
                 late>>

(* vCoRoutineAddToDelayedList *)
AddToDelayedList(c, n, list) ==
  LET w == (time.now + n) % TickMod
  IN  /\ ready' = ready \ {c} /\ wake' = [wake EXCEPT ![c] = w]
      /\ IF w < time.now THEN overflow' = overflow \cup {c} /\ UNCHANGED delayed
                         ELSE delayed' = delayed \cup {c} /\ UNCHANGED overflow
      /\ event' = [event EXCEPT ![c] = list]
      /\ remaining' = [remaining EXCEPT ![c] = n]

Waiting(list) == {c \in CoRoutine : event[c] = list}

(* The head of an event list, which is sorted by priority *)
Heads(list) == {c \in Waiting(list) : \A d \in Waiting(list) : Priority[d] <= Priority[c]}

(* xCoRoutineRemoveFromEventList *)
RemoveFromEventList(list) ==
  \E c \in Heads(list) : event' = [event EXCEPT ![c] = "pending"]

WakeOne(list) == IF Waiting(list) = {} THEN UNCHANGED event ELSE RemoveFromEventList(list)

(* ... and what it returns: errQUEUE_YIELD for the caller *)
Yields == \E c \in CoRoutine, d \in chosen : event'[c] # event[c] /\ Priority[c] >= Priority[d]

-----------------------------------------------------------------------------
(* vCoRoutineSchedule *)
Schedule ==
  /\ at = "idle" /\ chosen # {}
  /\ at' = "pending"
  /\ UNCHANGED <<ready, delayed, overflow, wake, event, top, time, messages, passed,
                 chosen, resumes, remaining, late>>

Pending == Waiting("pending")

(* prvCheckPendingReadyList: the event item leaves with interrupts         *)
(* disabled, the generic item moves with interrupts enabled ...            *)
CheckPendingReadyList ==
  /\ at = "pending"
  /\ \E c \in Pending :
       /\ event' = [event EXCEPT ![c] = "none"]
       /\ delayed' = delayed \ {c} /\ overflow' = overflow \ {c}
       /\ AddToReadyQueue(c)
       /\ remaining' = [remaining EXCEPT ![c] = 0]
  /\ UNCHANGED <<wake, time, messages, at, passed, chosen, resumes, late>>

(* ... until the list is empty; prvCheckDelayedList then samples the time *)
CheckDelayedList ==
  /\ at = "pending" /\ Pending = {}
  /\ passed' = (time.tick + TickMod - time.last) % TickMod
  /\ at' = "delayed"
  /\ UNCHANGED <<ready, delayed, overflow, wake, event, top, time, messages, chosen,
                 resumes, remaining, late>>

Due == {c \in delayed : time.now >= wake[c]}

(* Faulty: the lists keep their places when the count wraps *)
PassTick_KeepsLists ==
  /\ at = "delayed" /\ Due = {} /\ passed > 0
  /\ passed' = passed - 1
  /\ time' = [time EXCEPT !.now = (@ + 1) % TickMod]
  /\ remaining' = [c \in CoRoutine |-> IF c \in delayed \cup overflow THEN remaining[c] - 1
                                                                      ELSE remaining[c]]
  /\ UNCHANGED <<ready, wake, event, top, messages, at, chosen, resumes, delayed, overflow, late>>

(* and goes through the ticks that passed one at a time; at 0 the lists    *)
(* change places.                                                          *)
PassTick ==
  /\ at = "delayed" /\ Due = {} /\ passed > 0
  /\ passed' = passed - 1
  /\ time' = [time EXCEPT !.now = (@ + 1) % TickMod]
  /\ IF time'.now = 0 THEN delayed' = overflow /\ overflow' = delayed
                      ELSE UNCHANGED <<delayed, overflow>>
  /\ remaining' = [c \in CoRoutine |-> IF c \in delayed \cup overflow THEN remaining[c] - 1
                                                                      ELSE remaining[c]]
  /\ UNCHANGED <<ready, wake, event, top, messages, at, chosen, resumes, late>>

(* With interrupts disabled, both items of a co-routine whose time has     *)
(* come leave their lists, the event item also the pending list.           *)
TimeOut ==
  /\ at = "delayed"
  /\ \E c \in Due :
       /\ \A d \in Due : wake[c] <= wake[d]
       /\ delayed' = delayed \ {c} /\ event' = [event EXCEPT ![c] = "none"]
       /\ AddToReadyQueue(c)
  /\ UNCHANGED <<overflow, wake, time, messages, at, passed, chosen, resumes, remaining, late>>

(* The highest priority that has a ready co-routine, from the top down *)
HighestReady == {c \in ready : Priority[c] <= top /\
                   \A d \in ready : Priority[d] <= top => Priority[d] <= Priority[c]}

Select ==
  /\ at = "delayed" /\ Due = {} /\ passed = 0
  /\ time' = [time EXCEPT !.last = time.now]
  /\ IF HighestReady = {} THEN top' = 0 /\ at' = "idle" /\ UNCHANGED chosen
     ELSE \E c \in HighestReady : chosen' = {c} /\ top' = Priority[c] /\ at' = "run"
  /\ UNCHANGED <<ready, delayed, overflow, wake, event, messages, passed, resumes, remaining,
                 late>>

-----------------------------------------------------------------------------
(* The co-routine that runs.  It returns with its state set, *)
Return(c, state) == at' = "idle" /\ resumes' = [resumes EXCEPT ![c] = state]

(* as in crDELAY. *)
Delay(c, n) ==
  /\ at = "run" /\ resumes[c] \in {"start", "go_on"}
  /\ IF n > 0 THEN AddToDelayedList(c, n, "none")
              ELSE UNCHANGED <<ready, delayed, overflow, wake, event, remaining>>
  /\ Return(c, "go_on")
  /\ UNCHANGED <<top, time, messages, passed, chosen, late>>

CanSend == messages < Length
CanReceive == messages > 0
Ready(call) == IF call = "send" THEN CanSend ELSE CanReceive
Other(call) == IF call = "send" THEN "receive" ELSE "send"

(* The first section of xQueueCRSend or xQueueCRReceive: the co-routine    *)
(* blocks, gives up, or goes on to the second.  A co-routine that blocked  *)
(* makes the call again with a block time of 0.  xQueueCRSend tests with   *)
(* prvIsQueueFull, whose taskEXIT_CRITICAL enables interrupts again: it    *)
(* blocks in a step of its own.                                            *)
Begin(c, call, n) ==
  /\ at = "run"
  /\ \/ resumes[c] \in {"start", "go_on"} \/ (resumes[c] = call /\ n = 0)
  /\ IF Ready(call)
       THEN /\ at' = call /\ resumes' = [resumes EXCEPT ![c] = "go_on"]
            /\ UNCHANGED <<ready, delayed, overflow, wake, event, remaining, late>>
     ELSE IF n = 0
       THEN /\ resumes' = [resumes EXCEPT ![c] = "go_on"]
            /\ UNCHANGED <<ready, delayed, overflow, wake, event, remaining, at, late>>
     ELSE IF call = "receive"
       THEN AddToDelayedList(c, n, call) /\ Return(c, call) /\ UNCHANGED late
     ELSE /\ at' = "block" /\ late' = FALSE
          /\ UNCHANGED <<ready, delayed, overflow, wake, event, remaining, resumes>>
  /\ UNCHANGED <<top, time, messages, passed, chosen>>

(* The rest of that section of xQueueCRSend.  The ticks, which Begin only  *)
(* compares with 0, are chosen here.                                       *)
BlockToSend(c, n) ==
  /\ at = "block" /\ n > 0
  /\ AddToDelayedList(c, n, "send") /\ Return(c, "send")
  /\ UNCHANGED <<top, time, messages, passed, chosen, late>>

(* Faulty: a co-routine that waits for the item or the room is not woken *)
Proceed_NoWake(call) ==
  /\ messages' = IF call = "send" THEN messages + 1 ELSE messages - 1
  /\ UNCHANGED event

Proceed(call) ==
  /\ messages' = IF call = "send" THEN messages + 1 ELSE messages - 1
  /\ WakeOne(Other(call))

(* The second section: an interrupt may have filled or emptied the queue,  *)
(* otherwise one that waits is woken, and given way to.                    *)
Finish(c, call) ==
  /\ at = call
  /\ IF Ready(call)
       THEN /\ Proceed(call)
            /\ IF Yields THEN Return(c, "go_on") ELSE at' = "run" /\ UNCHANGED resumes
       ELSE at' = "run" /\ UNCHANGED <<event, messages, resumes>>
  /\ UNCHANGED <<ready, delayed, overflow, wake, top, time, passed, chosen, remaining, late>>

Runs == \E c \in chosen :
  \/ \E n \in Delays : Delay(c, n) \/ BlockToSend(c, n)
  \/ \E call \in {"send", "receive"} :
       Finish(c, call) \/ \E n \in Delays \cup {0} : Begin(c, call, n)

-----------------------------------------------------------------------------
(* Interrupts: xQueueCRSendFromISR and xQueueCRReceiveFromISR.  A call     *)
(* that is told that one was woken before wakes none.                      *)
FromISR(call) ==
  /\ chosen # {} /\ Ready(call)
  /\ \E woken \in Woken :
       IF woken THEN messages' = (IF call = "send" THEN messages + 1 ELSE messages - 1)
                     /\ UNCHANGED event
       ELSE Proceed(call)
  /\ late' = (late \/ (call = "receive" /\ at = "block" /\ Waiting("send") = {}))
  /\ UNCHANGED <<ready, delayed, overflow, wake, top, time, at, passed, chosen, resumes,
                 remaining>>

TickInterrupt ==
  /\ (time.tick + TickMod - time.last) % TickMod < MaxPassed
  /\ time' = [time EXCEPT !.tick = (@ + 1) % TickMod]
  /\ UNCHANGED <<ready, delayed, overflow, wake, event, top, messages, at, passed, chosen,
                 resumes, remaining, late>>

CoNext ==
  \/ Schedule \/ CheckPendingReadyList \/ CheckDelayedList \/ PassTick \/ TimeOut \/ Select
  \/ Runs \/ TickInterrupt
  \/ \E c \in CoRoutine : Create(c)
  \/ \E call \in {"send", "receive"} : FromISR(call)

CoSpec == CoInit /\ [][CoNext]_coVars

-----------------------------------------------------------------------------
(* Properties. *)

(* A co-routine is blocked for as many ticks as it asked, and no longer,   *)
(* though it counts them in batches and its own count wraps: when the      *)
(* delayed list was checked none is left whose time has come, and none is  *)
(* ready whose time has not, unless it was woken for the queue.            *)
BlocksExactly ==
  \A c \in Created :
    /\ c \in ready => remaining[c] = 0
    /\ c \notin ready => remaining[c] > 0 \/ (at = "delayed" /\ c \in Due)
    /\ c \in delayed => wake[c] = time.now + remaining[c]
    /\ c \in overflow => wake[c] + TickMod = time.now + remaining[c]

(* A co-routine that waits for the queue waits with both its items, and    *)
(* one that is ready is seen: uxTopCoRoutineReadyPriority is not below it. *)
ItemsAgree ==
  /\ ready \cap (delayed \cup overflow) = {} /\ delayed \cap overflow = {}
  /\ \A c \in CoRoutine : event[c] # "none" => c \in delayed \cup overflow
  /\ \A c \in ready : Priority[c] <= top

(* The co-routines that were woken to send or to receive, or timed out,    *)
(* and have not made their call again, and the one that is in such a call  *)
OnItsWay(call) ==
  {c \in Created : (resumes[c] = call /\ event[c] # call) \/ (at = call /\ c \in chosen)}

(* None waits to receive beside a message, or to send beside room for it,  *)
(* unless as many were woken and will come for them: a message that an     *)
(* interrupt sent between the two sections of a call is not forgotten.     *)
(* The room is, that an interrupt made between the test and the block of   *)
(* xQueueCRSend while no other waited for it: nobody was woken then.       *)
NoneWaitsInVain ==
  /\ Waiting("receive") # {} => messages <= Cardinality(OnItsWay("receive"))
  /\ Waiting("send") # {} /\ ~late => Length - messages <= Cardinality(OnItsWay("send"))

(* "A critical section is required to prevent an interrupt removing        *)
(* something from the queue between the check to see if the queue is full  *)
(* and blocking on the queue." (queue.c): a co-routine that joins those    *)
(* that wait to send finds no room.                                        *)
BlocksOnlyIfFull ==
  [][\A c \in CoRoutine : event'[c] = "send" /\ event[c] # "send" => ~CanSend]_coVars

=============================================================================
