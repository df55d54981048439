------------------------------ MODULE MCParts -------------------------------
(***************************************************************************)
(* The parts that are modelled on their own: those of Parts, and others.   *)
(* A behaviour is one of them.                                             *)
(***************************************************************************)
EXTENDS Parts, TLC

CONSTANTS e1, e2, e3, e4, f1, f2, f3, idle, none, endList, sorted, taken, gone

CoPriority == (f1 :> 1) @@ (f2 :> 0)

(* The variables of the other part, in the order its module has them, then 0 *)
VARIABLES v1, v2, v3, v4, v5, v6, v7, v8, v9, v10, v11, v12, v13, v14

From14 == <<v14>>
From9 == <<v9, v10, v11, v12, v13, From14>>
From8 == <<v8, From9>>
From6 == <<v6, v7, From8>>
From5 == <<v5, From6>>
From4 == <<v4, From5>>
otherVars == <<v1, v2, v3, From4>>
vars == <<partVars, otherVars>>

No14 == v14 = 0
No9 == v9 = 0 /\ v10 = 0 /\ v11 = 0 /\ v12 = 0 /\ v13 = 0 /\ No14
No8 == v8 = 0 /\ No9
No6 == v6 = 0 /\ v7 = 0 /\ No8
No5 == v5 = 0 /\ No6
No4 == v4 = 0 /\ No5
NoOther == v1 = 0 /\ v2 = 0 /\ v3 = 0 /\ No4
OfOther == NoPrivilege /\ NoCompare /\ NoWrappers /\ NoCrs /\ NoControl /\ NoChannel

(* Room for two blocks or three, a region too small to split, sizes that   *)
(* wrap around when they are rounded up or multiplied                      *)
Heaps == INSTANCE HeapVariants
  WITH Base <- 1, TotalSize <- 29, Alignment <- 2, Header <- 2, SizeMod <- 128,
       Sizes <- {0, 1, 3, 6, 70, 126, 127}, Arrays <- {<<2, 3>>, <<3, 43>>},
       Regions <- <<<<1, 15>>, <<19, 11>>>>, MaxFreeing <- 2,
       h <- v1, freeing <- v2, answer <- v3, scheme <- v4

Tiny == INSTANCE TinyMalloc
  WITH Word <- 2, MallocLimit <- 28, Requests <- {1, 3, 6}, Aligns <- {4, 8},
       chain <- v1, sizes <- v2, top <- v3, inUse <- v4

Daemon == INSTANCE Timers
  WITH Timer <- {e1, e2}, TickMod <- 4, Periods <- {1, 2}, QueueLength <- 1, MaxLag <- 1,
       MaxAge <- 1,
       now <- v1, d <- v2, period <- v3, reload <- v4, queue <- v5, daemon <- v6,
       wakeAt <- v7, lag <- v8

TwoLists == INSTANCE Lists
  WITH Item <- {e1, e2, e3}, Ready <- endList, Sorted <- sorted, NoList <- none, MaxValue <- 2,
       links <- v1, container <- v2, value <- v3, index <- v4, number <- v5, older <- v6,
       turns <- v7

Build(multi, affinity, hold) == [multi |-> multi, affinity |-> affinity, hold |-> hold]

Smp == INSTANCE MultiCore
  WITH Cores <- 2, Task <- {e1, e2}, Idle <- (0 :> e3) @@ (1 :> e4), MaxPriority <- 1,
       Masks <- {{0, 1}, {0}}, MaxPended <- 1, Repriorities <- FALSE, NoCore <- none,
       Options <- {Build(FALSE, FALSE, FALSE), Build(TRUE, TRUE, FALSE), Build(TRUE, FALSE, TRUE)},
       k <- v1, option <- v2, owner <- v3, leaving <- v4, owed <- v5

Table == INSTANCE TaskList
  WITH Block <- {f1, idle, e1, e2}, Reader <- f1, Idle <- idle, Commands <- {"ps", "kill"},
       OthersDelete <- FALSE, BufferLength <- 11, NameLength <- 3, RowLengths <- {0, 4},
       MaxNumber <- 6,
       tcb <- v1, count <- v2, waiting <- v3, number <- v4, suspended <- v5, at <- v6,
       command <- v7, asked <- v8, size <- v9, room <- v10, lists <- v11, left <- v12,
       entries <- v13, consumed <- v14

(* Memory for one object and a half *)
Memory == INSTANCE ObjectMemory
  WITH Block <- {e1, e2, e3}, Buffer <- {e4, f3}, None <- none, Caller <- {f1, f2}, Idle <- idle,
       Lengths <- {3, 6, 7}, Header <- 3, SizeMod <- 8,
       free <- v1, objects <- v2, call <- v3

ASSUME /\ Heaps!HeapVariantsAssumption /\ Heaps!HeapAssumption /\ Tiny!TinyMallocAssumption
       /\ Channel!RttAssumption /\ Wrappers!KernelObjectsAssumption
       /\ Privilege!MpuPrivilegeAssumption /\ Crs!CoRoutinesAssumption
       /\ Daemon!TimersAssumption /\ Smp!MultiCoreAssumption /\ Table!TaskListAssumption
       /\ Memory!ObjectMemoryAssumption /\ Compare!TimerCompareAssumption

OtherInit ==
  \/ part = "heaps" /\ Heaps!HeapsInit /\ No5
  \/ part = "malloc" /\ Tiny!MallocInit /\ No5
  \/ part = "timers" /\ Daemon!TimersInit /\ No9
  \/ part = "lists" /\ TwoLists!ListsInit /\ No8
  \/ part = "cores" /\ Smp!Init /\ No6
  \/ part = "table" /\ Table!Init
  \/ part = "memory" /\ Memory!MemoryInit /\ No4

OtherNext ==
  \/ part = "heaps" /\ Heaps!HeapsNext /\ UNCHANGED From5
  \/ part = "malloc" /\ Tiny!MallocNext /\ UNCHANGED From5
  \/ part = "timers" /\ Daemon!TimersNext /\ UNCHANGED From9
  \/ part = "lists" /\ TwoLists!ListsNext /\ UNCHANGED From8
  \/ part = "cores" /\ Smp!Next /\ UNCHANGED From6
  \/ part = "table" /\ Table!Next
  \/ part = "memory" /\ Memory!MemoryNext /\ UNCHANGED From4

Init == (PartsInit /\ NoOther) \/ (OtherInit /\ OfOther)

Next == (PartsNext /\ UNCHANGED otherVars) \/ (OtherNext /\ UNCHANGED partVars)

Spec == Init /\ [][Next]_vars

-----------------------------------------------------------------------------
(* No byte of memory is lost or in two hands, in the heaps, the allocator  *)
(* of the SDK and the objects made from them, whatever fails on the way;   *)
(* and no request fails that could be met.                                 *)
MemoryAccounted ==
  /\ part = "heaps" =>
       Heaps!BlocksTileMemory /\ Heaps!ListInOrder /\ Heaps!FailsOnlyForWantOfMemory
  /\ part = "malloc" =>
       Tiny!BlocksTileArena /\ Tiny!ChainJoined /\ Tiny!HoldsWhatWasAsked
  /\ part = "memory" => Memory!EveryBlockAccounted /\ Memory!BuffersFit

(* Each heap implements the allocator its callers rely on.                 *)
AllocatorOfHeaps == INSTANCE Allocator
  WITH Low <- Heaps!First, High <- 30, Alignment <- 2,
       used <- IF part = "heaps"
               THEN {[at |-> r + Heaps!HeaderOf, length |-> v1.asked[r]] : r \in DOMAIN v1.asked}
               ELSE {}

HeapsImplementAllocator == AllocatorOfHeaps!AllocatorSpec

(* A timer is on a list exactly while it is active, no callback comes      *)
(* before its time, and the daemon does not sleep past a timer's time;     *)
(* once it is done with a timer, the status byte says whether it is on a   *)
(* list, and no list or status is used of a timer that was freed.          *)
TimersPunctual ==
  /\ part = "timers" =>
       /\ Daemon!TimersTypeOK /\ Daemon!ListsMatchTimers
       /\ Daemon!NeverEarly /\ Daemon!NeverSleepsTooLong
  /\ TimersControlled

(* One callback is made for every period that ends, on time or late.       *)
NoPeriodSkipped == [][part = "timers" => Daemon!NoPeriodSkippedStep]_vars

(* The rings of list.c stay whole, the sorted one in the order of values   *)
(* and then of age, and items of the ready list take turns.                *)
ListsKeepOrder ==
  part = "lists" =>
    TwoLists!RingsWellFormed /\ TwoLists!SortedByValueThenAge /\ TwoLists!TurnsAreFair


(* The table lists every task once within its buffer, and a kill by number *)
(* deletes the task of that number.                                        *)
TaskTableRight ==
  part = "table" => Table!ListsEveryTask /\ Table!TableFits /\ Table!KillsItsTarget
=============================================================================
