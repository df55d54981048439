----------------------------- MODULE ObjectMemory -----------------------------
(***************************************************************************)
(* Where the memory of kernel objects comes from and goes to: tasks, event *)
(* groups and stream buffers, in memory of the heap or of the application. *)
(* A task needs two pieces, its control block and its stack, and either    *)
(* may be the application's.  Creations and deletions of several tasks     *)
(* interleave between any two calls of the heap; the idle task frees what  *)
(* tasks that deleted themselves leave behind.                             *)
(***************************************************************************)
EXTENDS Naturals

CONSTANTS
  Block,   \* what pvPortMalloc has to give
  Buffer,  \* memory of the application
  None,    \* NULL
  Caller,  \* the tasks that create and delete
  Idle,    \* the idle task
  Lengths, \* the sizes asked for a stream buffer
  Header,  \* sizeof( StreamBuffer_t )
  SizeMod  \* size_t wraps here

VARIABLES
  free,    \* the heap's free blocks
  objects, \* the objects there are
  call     \* [Caller \cup {Idle} -> [step, object]]

memoryVars == <<free, objects, call>>

ObjectMemoryAssumption ==
  /\ Block \cap Buffer = {} /\ None \notin Block \cup Buffer /\ Idle \notin Caller
  /\ Lengths \subseteq 1 .. SizeMod - 1 /\ Header \in Nat \ {0} /\ SizeMod \in Nat \ {0}

(* An object: its kind, the memory of its control block and of its stack,  *)
(* ucStaticallyAllocated, what size it was asked for, how many bytes were  *)
(* allocated for it, and whether it is on xTasksWaitingTermination         *)
Object(kind, control, stack, flag) ==
  [kind |-> kind, control |-> control, stack |-> stack, flag |-> flag,
   length |-> 0, bytes |-> 0, dying |-> FALSE]

Resting == [step |-> "rest", object |-> Object("none", None, None, "static")]
Memory(o) == {o.control, o.stack} \ {None}
Holders == objects \cup {call[c].object : c \in DOMAIN call}
Unused == Buffer \ UNION {Memory(o) : o \in Holders}

(* pvPortMalloc fails when no gap is large enough, however much is free    *)
Malloc == free \cup {None}
Free(m) == free' = free \cup {m}
At(c, step) == call[c].step = step
Goes(c, step, object) == call' = [call EXCEPT ![c] = [step |-> step, object |-> object]]
Returns(c) == call' = [call EXCEPT ![c] = Resting]

MemoryInit ==
  /\ free = Block /\ objects = {} /\ call = [c \in Caller \cup {Idle} |-> Resting]

-----------------------------------------------------------------------------
(* prvCreateTask: the stack first, which grows down here *)
CreateTask(c) ==
  /\ At(c, "rest")
  /\ \E m \in free :
       /\ free' = free \ {m}
       /\ Goes(c, "create", Object("task", None, m, "dynamic"))
  /\ UNCHANGED objects

AllocateControl(c) ==
  /\ At(c, "create")
  /\ \E m \in Malloc :
       \/ /\ m = None /\ Goes(c, "give_back", call[c].object)
          /\ UNCHANGED <<free, objects>>
       \/ /\ m # None /\ free' = free \ {m}
          /\ objects' = objects \cup {[call[c].object EXCEPT !.control = m]}
          /\ Returns(c)
(* Faulty: the stack of a task whose control block could not be had is     *)
(* forgotten.                                                              *)
GiveBack_Forgets(c) ==
  /\ At(c, "give_back") /\ Returns(c)
  /\ UNCHANGED <<free, objects>>


GiveBack(c) ==
  /\ At(c, "give_back")
  /\ Free(call[c].object.stack) /\ Returns(c)
  /\ UNCHANGED objects

(* prvCreateRestrictedTask: on a stack of the application *)
CreateRestricted(c) ==
  /\ At(c, "rest")
  /\ \E m \in free, s \in Unused :
       /\ free' = free \ {m}
       /\ objects' = objects \cup {Object("task", m, s, "stack_only")}
  /\ UNCHANGED call

(* prvCreateStaticTask, prvCreateRestrictedStaticTask *)
CreateStaticTask(c) ==
  /\ At(c, "rest")
  /\ \E m \in Unused : \E s \in Unused \ {m} :
       objects' = objects \cup {Object("task", m, s, "static")}
  /\ UNCHANGED <<free, call>>

CreateEventGroup(c) ==
  /\ At(c, "rest")
  /\ \E m \in free :
       free' = free \ {m} /\ objects' = objects \cup {Object("events", m, None, "dynamic")}
  /\ UNCHANGED call

CreateStaticEventGroup(c) ==
  /\ At(c, "rest")
  /\ \E m \in Unused : objects' = objects \cup {Object("events", m, None, "static")}
  /\ UNCHANGED <<free, call>>

(* Faulty: only the byte that is added is checked. *)
Fits_OneByte(length) == length < (length + 1) % SizeMod

(* One byte more than asked, which the ring cannot use, and the header *)
Fits(length) == length < (length + 1 + Header) % SizeMod

StreamBytes(length) == (((length + 1) % SizeMod) + Header) % SizeMod

CreateStreamBuffer(c) ==
  /\ At(c, "rest")
  /\ \E m \in free, length \in Lengths :
       /\ Fits(length)
       /\ free' = free \ {m}
       /\ objects' = objects \cup {[Object("stream", m, None, "dynamic")
                                     EXCEPT !.length = length, !.bytes = StreamBytes(length)]}
  /\ UNCHANGED call

(* The ring and the header are two pieces of memory of the application *)
CreateStaticStreamBuffer(c) ==
  /\ At(c, "rest")
  /\ \E m \in Unused : \E s \in Unused \ {m} :
       objects' = objects \cup {Object("stream", m, s, "static")}
  /\ UNCHANGED <<free, call>>

-----------------------------------------------------------------------------
(* vEventGroupDelete, vStreamBufferDelete *)
Delete(c) ==
  /\ At(c, "rest")
  /\ \E o \in {p \in objects : p.kind \in {"events", "stream"}} :
       /\ objects' = objects \ {o}
       /\ IF o.flag = "dynamic" THEN Free(o.control) ELSE UNCHANGED free
  /\ UNCHANGED call

(* vTaskDelete of another task, which has left the lists when the critical *)
(* section ends; prvDeleteTCB follows outside of it                        *)
DeleteTask(c) ==
  /\ At(c, "rest")
  /\ \E o \in {p \in objects : p.kind = "task" /\ ~p.dying} :
       objects' = objects \ {o} /\ Goes(c, "free_stack", o)
  /\ UNCHANGED free

(* vTaskDelete of the running task, and prvCheckTasksWaitingTermination    *)
DeleteItself ==
  /\ \E o \in {p \in objects : p.kind = "task" /\ ~p.dying} :
       objects' = (objects \ {o}) \cup {[o EXCEPT !.dying = TRUE]}
  /\ UNCHANGED <<free, call>>

CleanUp ==
  /\ At(Idle, "rest")
  /\ \E o \in {p \in objects : p.dying} :
       objects' = objects \ {o} /\ Goes(Idle, "free_stack", o)
  /\ UNCHANGED free

FreeStack(c) ==
  /\ At(c, "free_stack")
  /\ IF call[c].object.flag = "dynamic" THEN Free(call[c].object.stack) ELSE UNCHANGED free
  /\ Goes(c, "free_control", [call[c].object EXCEPT !.stack = None])
  /\ UNCHANGED objects
(* Faulty: the memory of a task is the heap's or not as a whole. *)
FreeControl_AllOrNothing(c) ==
  /\ At(c, "free_control")
  /\ IF call[c].object.flag = "dynamic" THEN Free(call[c].object.control) ELSE UNCHANGED free
  /\ Returns(c)
  /\ UNCHANGED objects


FreeControl(c) ==
  /\ At(c, "free_control")
  /\ IF call[c].object.flag \in {"dynamic", "stack_only"}
     THEN Free(call[c].object.control) ELSE UNCHANGED free
  /\ Returns(c)
  /\ UNCHANGED objects

MemoryNext ==
  \/ \E c \in Caller :
       \/ CreateTask(c) \/ AllocateControl(c) \/ GiveBack(c) \/ CreateRestricted(c)
       \/ CreateStaticTask(c) \/ CreateEventGroup(c) \/ CreateStaticEventGroup(c)
       \/ CreateStreamBuffer(c) \/ CreateStaticStreamBuffer(c)
       \/ Delete(c) \/ DeleteTask(c)
  \/ DeleteItself \/ CleanUp
  \/ \E c \in Caller \cup {Idle} : FreeStack(c) \/ FreeControl(c)

MemorySpec == MemoryInit /\ [][MemoryNext]_memoryVars

-----------------------------------------------------------------------------
(* Every block of the heap is free or belongs to one object, one creation  *)
(* or one deletion, and memory of the application never gets among the     *)
(* free blocks: a creation that fails half-way gives back what it took     *)
(* (tasks.c:1687-1692), and a deletion frees what ucStaticallyAllocated    *)
(* says was taken (tasks.c:6429-6447).                                     *)
EveryBlockAccounted ==
  /\ free \cap UNION {Memory(o) : o \in Holders} = {}
  /\ free \cup (Block \cap UNION {Memory(o) : o \in Holders}) = Block
  /\ \A o, p \in Holders : o # p => Memory(o) \cap Memory(p) = {}
  /\ \A c, d \in DOMAIN call : c # d => Memory(call[c].object) \cap Memory(call[d].object) = {}

(* A stream buffer's memory holds its header, what was asked for and the   *)
(* byte the ring leaves empty, also when the sum does not fit in size_t    *)
(* (stream_buffer.c:371-390).                                              *)
BuffersFit ==
  \A o \in objects : o.kind = "stream" /\ o.flag = "dynamic" => o.bytes = Header + o.length + 1

=============================================================================
