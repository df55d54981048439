------------------------------- MODULE MCWaits -------------------------------
(***************************************************************************)
(* What must happen in the end.  A behaviour is one of: a queue with a     *)
(* sender and a receiver of higher priority; three tasks that meet at an   *)
(* event group; a ring of the debug channel; two software timers; a writer *)
(* and a reader of a stream or message buffer.                             *)
(***************************************************************************)
EXTENDS Naturals, TLC

CONSTANTS idle, a, b, c, tx, rx, group, t1, t2

(* The variables of the one that runs, in the order its module has them,   *)
(* and 0 in the others                                                     *)
VARIABLES scenario, v1, v2, v3, v4, v5, v6, v7, v8, v9, v10, v11, v12, v13

From9 == <<v9, v10, v11, v12, v13>>
From11 == <<v11, v12, v13>>
vars == <<scenario, v1, v2, v3, v4, v5, v6, v7, v8, From9>>

Three == {idle, a, b}
Four == {idle, a, b, c}
None == [t \in Four |-> {}]

Prompt == INSTANCE PromptQueue
  WITH Task <- Three, Idle <- idle, Boot <- Three, Object <- {tx, rx}, ToSend <- tx,
       ToReceive <- rx, InitPrio <- (idle :> 0) @@ (a :> 1) @@ (b :> 2),
       Role <- (idle :> {}) @@ (a :> {"send"}) @@ (b :> {"receive"}),
       MaxPrio <- 3, TickMod <- 5, OvfMod <- 2, MaxPended <- 1, MaxDepth <- 1, MaxLag <- 1,
       Delays <- {2}, NewPrios <- {}, Length <- 1, Abortable <- {},
       k <- v1, pc <- v2, after <- v3, arg <- v4, ticks <- v5, messages <- v6, lock <- v7,
       call <- v8, left <- v9, entry <- v10, fate <- v11, hit <- v12, lag <- v13

(* Each comes with its own bit and waits for the others' bits, too.        *)
MeetSyncs ==
  [t \in Four |-> IF t = idle THEN {} ELSE {[set |-> {t}, bits |-> {a, b, c}]}]

Groups == INSTANCE EventGroup
  WITH Task <- Four, Idle <- idle, Boot <- Four, Object <- {group}, Group <- group,
       Bit <- {a, b, c}, InitPrio <- (idle :> 0) @@ (a :> 1) @@ (b :> 1) @@ (c :> 2),
       MaxPrio <- 3, TickMod <- 3, OvfMod <- 1, MaxPended <- 1, MaxDepth <- 1,
       Delays <- {1}, NewPrios <- {}, Waits <- None, Sets <- None, Clears <- None,
       Syncs <- MeetSyncs, Times <- {2}, Abortable <- {}, Deleters <- {},
       k <- v1, pc <- v2, after <- v3, arg <- v4, ticks <- v5, bits <- v6, alive <- v7,
       cond <- v8, outcome <- v9, value <- v10

Channel == INSTANCE Rtt
  WITH Size <- 4, Terminal <- {0, 1}, Lengths <- {2}, Reads <- {4}, Numbers <- 1,
       down <- v1, ring <- v2, writer <- v3, reader <- v4, active <- v5, stream <- v6,
       next <- v7, shown <- v8

Daemon == INSTANCE Timers
  WITH Timer <- {t1, t2}, TickMod <- 3, Periods <- {1}, QueueLength <- 1,
       MaxLag <- 1, MaxAge <- 0,
       now <- v1, d <- v2, period <- v3, reload <- v4, queue <- v5, daemon <- v6,
       wakeAt <- v7, lag <- v8

Streams == INSTANCE StreamBuffer
  WITH Length <- 4, LengthBytes <- 1, Kinds <- {"stream", "message"}, Triggers <- {1},
       SendSizes <- {2}, ReceiveSizes <- {3}, Waits <- {"some", "forever"},
       NewTriggers <- {},
       config <- v1, ring <- v2, head <- v3, tail <- v4, waitingToSend <- v5,
       waitingToReceive <- v6, notify <- v7, w <- v8, r <- v9, sent <- v10, got <- v11,
       lengths <- v12

ASSUME /\ Prompt!PromptAssumption /\ Prompt!QueueAssumption
       /\ Groups!EventGroupAssumption /\ Channel!RttAssumption
       /\ Daemon!TimersAssumption /\ Streams!StreamBufferAssumption

Unused9 == v9 = 0 /\ v10 = 0 /\ v11 = 0 /\ v12 = 0 /\ v13 = 0
Unused11 == v11 = 0 /\ v12 = 0 /\ v13 = 0

Init ==
  \/ scenario = "queue" /\ Prompt!PromptInit
  \/ scenario = "meeting" /\ Groups!GroupInit /\ Unused11
  \/ scenario = "channel" /\ Channel!RttInit /\ Unused9
  \/ scenario = "timers" /\ Daemon!TimersInit /\ Unused9
  \/ scenario = "stream" /\ Streams!StreamInit /\ v13 = 0

StillQueue == scenario = "queue" /\ UNCHANGED scenario
StillMeeting == scenario = "meeting" /\ UNCHANGED <<scenario, From11>>
StillChannel == scenario = "channel" /\ UNCHANGED <<scenario, From9>>
StillTimers == scenario = "timers" /\ UNCHANGED <<scenario, From9>>
StillStream == scenario = "stream" /\ UNCHANGED <<scenario, v13>>

Next ==
  \/ StillQueue /\ Prompt!PromptNext
  \/ StillMeeting /\ Groups!GroupNext
  \/ StillChannel /\ Channel!RttNext
  \/ StillTimers /\ Daemon!TimersNext
  \/ StillStream /\ Streams!StreamNext

(* What each module says about fairness: PromptFairness, SyncSpec,         *)
(* RttSpec, FairTimersSpec and FairStreamSpec.  A behaviour stays in its   *)
(* scenario, so a condition on a disjunction is the same condition on each *)
(* of its disjuncts.                                                       *)
TickComes ==
  \/ StillQueue /\ Prompt!Tock
  \/ StillMeeting /\ Groups!TickInterrupt /\ UNCHANGED <<v6, v7, v8, v9, v10>>
  \/ StillTimers /\ Daemon!TickInterrupt
  \/ StillStream /\ Streams!ReceiveAny

TurnComes ==
  \/ StillQueue /\ Prompt!QueueStep /\ v13' = 0
  \/ StillChannel /\ Channel!Progress
  \/ StillTimers /\ Daemon!DaemonStep
  \/ StillStream /\ Streams!SendStep

ReaderGoesOn ==
  \/ StillChannel /\ Channel!Reading
  \/ StillStream /\ Streams!ReceiveStep

Fairness ==
  /\ SF_vars(TickComes) /\ WF_vars(TurnComes) /\ WF_vars(ReaderGoesOn)
  /\ SF_vars((StillMeeting /\ Groups!GroupStep) \/ (StillTimers /\ Daemon!CommandsDone))
  /\ SF_vars(StillMeeting /\ Groups!SyncCall)
  /\ WF_vars(StillStream /\ Streams!Send)

Spec == Init /\ [][Next]_vars /\ Fairness

-----------------------------------------------------------------------------
(* A blocking call of the highest-priority task returns within its block   *)
(* time, however often its message is taken by others first.               *)
CallsEnd == []<>(scenario = "queue" => v8[b] = "none")

(* No task stays on the delayed lists for good, though these change places *)
(* at each wrap of the count.                                              *)
DelaysEnd ==
  \A t \in Three : []<>(scenario = "queue" => t \notin v1.delayed \cup v1.overflow)

(* xEventGroupSync implements the rendezvous: no task goes on before the   *)
(* others have come, none is left behind when they go on, a fast task      *)
(* cannot come twice while a slow one still waits, and all come again.     *)
Meeting == INSTANCE Rendezvous
  WITH Party <- {a, b, c},
       stopped <- IF scenario = "meeting" THEN {t \in {a, b, c} : v9[t] = "waiting"} ELSE {}

SyncIsRendezvous ==
  Meeting!RendezvousSpec /\ (scenario = "meeting" => Meeting!RendezvousFairness)

(* A call that waits for room in the ring returns if the other side reads. *)
WritesEnd == []<>(scenario = "channel" => Channel!Idle)

(* An active timer expires, unless a command stops it or starts it again.  *)
TimersExpire ==
  \A t \in {t1, t2} :
    \/ []<>(scenario = "timers" => t \notin v2.active)
    \/ []<><<scenario = "timers" /\ v2'.due[t] # v2.due[t]>>_vars

(* Between two tasks that go on sending and receiving, each call of a      *)
(* stream or message buffer ends: the wake-up that ends its wait is        *)
(* neither missed nor given away.                                          *)
StreamCallsEnd ==
  /\ []<>(scenario = "stream" /\ Streams!FitTogether => v8.at = "idle")
  /\ []<>(scenario = "stream" /\ Streams!FitTogether => v9.at = "idle")
=============================================================================
