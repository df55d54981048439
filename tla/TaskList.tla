------------------------------- MODULE TaskList -------------------------------
(***************************************************************************)
(* Listing the tasks: uxTaskGetSystemState and what is built on it, the    *)
(* tables of vTaskListTasks and vTaskGetRunTimeStatistics and the shell's  *)
(* commands ps and os_task_kill.  One task, the reader, takes the list.    *)
(* Other tasks run between its steps, interrupts also while it has the     *)
(* scheduler suspended, and the idle task only when it waits for input.    *)
(***************************************************************************)
EXTENDS Naturals, Sequences, FiniteSets

CONSTANTS
  Block,        \* where the kernel puts control blocks: a task's handle
  Reader, Idle, \* the handles of the reader and of the idle task
  Commands,     \* what the reader runs: "ps", "kill"
  OthersDelete, \* may other tasks delete tasks?
  BufferLength, \* uxBufferLength of the table
  NameLength,   \* configMAX_TASK_NAME_LEN
  RowLengths,   \* what snprintf returns for the rest of a row
  MaxNumber     \* bound on uxTaskNumber

VARIABLES
  tcb,        \* [Block -> [list, event, number]]
  count,      \* uxCurrentNumberOfTasks
  waiting,    \* uxDeletedTasksWaitingCleanUp
  number,     \* uxTaskNumber
  suspended,  \* has the reader suspended the scheduler?
  at,         \* the reader's step
  command,    \* and its command
  asked,      \* the number of the task to delete
  size, room, \* uxArraySize, and the entries that were allocated
  lists,      \* the lists still to be gone through
  left,       \* the tasks of the current one still to be
  entries,    \* pxTaskStatusArray
  consumed    \* uxConsumedBufferLength

listVars == <<tcb, count, waiting, number, suspended, at, command, asked, size, room,
              lists, left, entries, consumed>>

NoTask == [list |-> "none", event |-> "none", number |-> 0]
On(list) == {b \in Block : tcb[b].list = list}
Existing == Block \ On("none")

TaskListAssumption ==
  /\ {Reader, Idle} \subseteq Block /\ Reader # Idle
  /\ Commands \subseteq {"ps", "kill"} /\ OthersDelete \in BOOLEAN
  /\ NameLength \in Nat \ {0} /\ BufferLength \in Nat \ {0} /\ RowLengths \subseteq Nat
  /\ MaxNumber \in Nat

Init ==
  /\ tcb = [b \in Block |-> IF b = Idle THEN [list |-> "ready", event |-> "none", number |-> 1]
                            ELSE IF b = Reader THEN [list |-> "ready", event |-> "none", number |-> 2]
                            ELSE NoTask]
  /\ count = 2 /\ waiting = 0 /\ number = 2 /\ suspended = FALSE
  /\ at = "rest" /\ command = "ps" /\ asked = 0 /\ size = 0 /\ room = 0
  /\ lists = <<>> /\ left = {} /\ entries = <<>> /\ consumed = 0

Reading == <<suspended, at, command, asked, size, room, lists, left, entries, consumed>>

-----------------------------------------------------------------------------
(* What the other tasks and interrupts do meanwhile.                       *)

Create(b) ==
  /\ ~suspended /\ b \in On("none") /\ number < MaxNumber
  /\ tcb' = [tcb EXCEPT ![b] = [list |-> "ready", event |-> "none", number |-> number + 1]]
  /\ count' = count + 1 /\ number' = number + 1
  /\ UNCHANGED <<waiting, Reading>>

(* vTaskDelete of another task *)
Deleted(b) ==
  /\ tcb' = [tcb EXCEPT ![b] = NoTask]
  /\ count' = count - 1 /\ number' = number + 1
  /\ UNCHANGED waiting

Delete(b) ==
  /\ OthersDelete /\ ~suspended /\ number < MaxNumber
  /\ b \in Existing \ (On("dying") \cup {Reader, Idle})
  /\ Deleted(b)
  /\ UNCHANGED Reading

(* vTaskDelete of the task itself *)
DeleteItself(b) ==
  /\ ~suspended /\ number < MaxNumber /\ b \in On("ready") \ {Reader, Idle}
  /\ tcb' = [tcb EXCEPT ![b].list = "dying"]
  /\ waiting' = waiting + 1 /\ number' = number + 1
  /\ UNCHANGED <<count, Reading>>

(* A task blocks, for an event or not, for some time or for good, which    *)
(* puts it on xSuspendedTaskList                                           *)
Leave(b) ==
  /\ ~suspended /\ b \in On("ready") \ {Reader, Idle}
  /\ \E list \in {"delayed", "overflow", "suspended"}, event \in {"none", "event"} :
       tcb' = [tcb EXCEPT ![b].list = list, ![b].event = event]
  /\ UNCHANGED <<count, waiting, number, Reading>>

(* It becomes ready; with the scheduler suspended only an interrupt can do *)
(* this, and puts it on xPendingReadyList                                  *)
Wake(b) ==
  /\ tcb[b].list \in {"delayed", "overflow", "suspended"} /\ tcb[b].event # "pending"
  /\ tcb' = IF suspended THEN [tcb EXCEPT ![b].event = "pending"]
                         ELSE [tcb EXCEPT ![b].list = "ready", ![b].event = "none"]
  /\ UNCHANGED <<count, waiting, number, Reading>>

(* prvCheckTasksWaitingTermination *)
CleanUp ==
  /\ at = "rest" /\ waiting > 0
  /\ \E b \in On("dying") : tcb' = [tcb EXCEPT ![b] = NoTask]
  /\ count' = count - 1 /\ waiting' = waiting - 1
  /\ UNCHANGED <<number, Reading>>

-----------------------------------------------------------------------------
(* The reader. *)

Kernel == <<tcb, count, waiting, number>>

Start ==
  /\ at = "rest"
  /\ \E c \in Commands, n \in 1 .. number :
       /\ command' = c /\ asked' = IF c = "kill" THEN n ELSE 0
  /\ at' = "count"
  /\ UNCHANGED <<Kernel, suspended, size, room, lists, left, entries, consumed>>

CountTasks ==
  /\ at = "count"
  /\ size' = count /\ at' = "allocate"
  /\ UNCHANGED <<Kernel, suspended, command, asked, room, lists, left, entries, consumed>>

(* The command ends, and its local variables with it *)
Return ==
  /\ at' = "rest" /\ asked' = 0 /\ size' = 0 /\ room' = 0 /\ consumed' = 0
  /\ lists' = <<>> /\ left' = {} /\ entries' = <<>>
  /\ UNCHANGED <<suspended, command>>

(* The tables read the number of tasks once more for the array *)
Allocate ==
  /\ at = "allocate"
  /\ \/ /\ room' = (IF command = "ps" THEN count ELSE size) /\ at' = "list"
        /\ UNCHANGED <<suspended, command, asked, size, lists, left, entries, consumed>>
     \/ Return
  /\ UNCHANGED Kernel

(* Faulty: the other tasks go on meanwhile *)
GetSystemState_Unsuspended ==
  /\ at = "list"
  /\ at' = "walk" /\ entries' = <<>>
  /\ lists' = IF size >= count THEN <<"ready", "delayed", "overflow", "dying", "suspended">>
                               ELSE <<>>
  /\ UNCHANGED <<Kernel, suspended, command, asked, size, room, left, consumed>>

(* uxTaskGetSystemState *)
GetSystemState ==
  /\ at = "list"
  /\ suspended' = TRUE /\ at' = "walk" /\ entries' = <<>>
  /\ lists' = IF size >= count THEN <<"ready", "delayed", "overflow", "dying", "suspended">>
                               ELSE <<>>
  /\ UNCHANGED <<Kernel, command, asked, size, room, left, consumed>>

(* prvListTasksWithinSingleList *)
NextList ==
  /\ at = "walk" /\ left = {} /\ lists # <<>>
  /\ left' = On(Head(lists)) /\ lists' = Tail(lists)
  /\ UNCHANGED <<Kernel, suspended, at, command, asked, size, room, entries, consumed>>

(* vTaskGetInfo: what it finds out about the state *)
StateOf(b) ==
  LET l == tcb[b].list
      e == tcb[b].event
  IN  IF b = Reader THEN "running"
      ELSE IF e = "pending" \/ l = "ready" THEN "ready"
      ELSE IF l = "dying" THEN "deleted"
      ELSE IF l = "suspended" /\ e = "none" THEN "suspended" ELSE "blocked"

GetInfo ==
  /\ at = "walk"
  /\ \E b \in left :
       /\ entries' = Append(entries, [handle |-> b, number |-> tcb[b].number, state |-> StateOf(b)])
       /\ left' = left \ {b}
  /\ UNCHANGED <<Kernel, suspended, at, command, asked, size, room, lists, consumed>>

(* xTaskResumeAll at its end *)
Listed ==
  /\ at = "walk" /\ left = {} /\ lists = <<>>
  /\ suspended' = FALSE
  /\ tcb' = [b \in Block |-> IF tcb[b].event = "pending"
                             THEN [tcb[b] EXCEPT !.list = "ready", !.event = "none"] ELSE tcb[b]]
  /\ at' = IF command = "ps" THEN "table" ELSE "find"
  /\ consumed' = 0
  /\ UNCHANGED <<count, waiting, number, command, asked, size, room, lists, left, entries>>

(* Faulty: what was cut off counts, too *)
CharsWritten_All(result, n) == result

(* prvSnprintfReturnValueToCharsWritten: snprintf returns the characters   *)
(* it would have written                                                   *)
CharsWritten(result, n) == IF result >= n THEN n - 1 ELSE result

(* A row of the table: the name, padded, and the rest if there is room *)
Row ==
  /\ at = "table" /\ entries # <<>>
  /\ LET named == consumed + NameLength - 1 IN
     IF consumed + NameLength <= BufferLength /\ named < BufferLength - 1
     THEN /\ \E r \in RowLengths : consumed' = named + CharsWritten(r, BufferLength - named)
          /\ entries' = Tail(entries)
     ELSE /\ consumed' = IF consumed + NameLength <= BufferLength THEN named ELSE consumed
          /\ entries' = <<>>
  /\ UNCHANGED <<Kernel, suspended, at, command, asked, size, room, lists, left>>

Printed ==
  /\ at = "table" /\ entries = <<>>
  /\ Return
  /\ UNCHANGED Kernel

(* Faulty: the shell can delete its own task *)
Spared_Idle(b) == b = Idle

(* The two tasks that os_task_kill refuses to delete *)
Spared(b) == b \in {Idle, Reader}

Found == {i \in 1 .. Len(entries) : entries[i].number = asked}

Find ==
  /\ at = "find"
  /\ IF \E i \in Found : ~Spared(entries[i].handle)
     THEN /\ at' = "delete"
          /\ UNCHANGED <<suspended, command, asked, size, room, lists, left, entries, consumed>>
     ELSE Return
  /\ UNCHANGED Kernel

(* A task that deleted itself meanwhile leaves xTasksWaitingTermination,   *)
(* but stays counted there: the idle task must not look for it after this  *)
Kill ==
  /\ at = "delete" /\ number < MaxNumber
  /\ \E i \in Found : Deleted(entries[i].handle)
  /\ Return

Next ==
  \/ \E b \in Block : Create(b) \/ Delete(b) \/ DeleteItself(b) \/ Leave(b) \/ Wake(b)
  \/ CleanUp \/ Start \/ CountTasks \/ Allocate \/ GetSystemState \/ NextList \/ GetInfo
  \/ Listed \/ Row \/ Printed \/ Find \/ Kill

TaskListSpec == Init /\ [][Next]_listVars

-----------------------------------------------------------------------------
(* Once all lists are gone through, every task is listed once, with its    *)
(* number, and one that is shown as blocked or suspended is so, or has     *)
(* become ready since: no task moves past the reader.                      *)
ListsEveryTask ==
  at = "walk" /\ left = {} /\ lists = <<>> /\ size >= count =>
    /\ Len(entries) = Cardinality(Existing)
    /\ \A b \in Existing : \E i \in 1 .. Len(entries) :
         /\ entries[i].handle = b /\ entries[i].number = tcb[b].number
         /\ entries[i].state = StateOf(b)
              \/ (tcb[b].event = "pending" /\ entries[i].state \in {"blocked", "suspended"})

(* The table stays within the length that was passed for it, with the 0    *)
(* that ends it.                                                           *)
TableFits == consumed < BufferLength

(* os_task_kill deletes the task that has the number asked for, which may  *)
(* have deleted itself but is not gone, and never the shell or the idle    *)
(* task: the list it looks in may be old.                                  *)
KillsItsTarget ==
  at = "delete" =>
    \E i \in Found : LET b == entries[i].handle IN
      b \notin {Reader, Idle} /\ b \in Existing /\ tcb[b].number = asked

(* Every entry that is written was allocated.  vTaskListTasks: "Take a     *)
(* snapshot of the number of tasks in case it changes while this function  *)
(* is executing."                                                          *)
EntriesFit == Len(entries) <= room
=============================================================================
