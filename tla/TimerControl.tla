---------------------------- MODULE TimerControl ----------------------------
(***************************************************************************)
(* The life of the timers of timers.c: creating them from the heap or from *)
(* a buffer, the commands sent to the timer task (the daemon) until one    *)
(* deletes them, and the status byte ucStatus, which tasks change in a     *)
(* critical section and the daemon by a read and a write outside one.      *)
(* When a timer expires is left open here; see Timers.                     *)
(***************************************************************************)
EXTENDS Naturals, Sequences

CONSTANTS
  Timer,        \* the control blocks timers can have
  QueueLength   \* configTIMER_QUEUE_LENGTH

VARIABLES
  memory,     \* where each timer is: "none", "heap", "static", or "freed"
  status,     \* ucStatus, as the set of the flags that are set
  listed,     \* the timers on the daemon's lists
  queue,      \* xTimerQueue: pairs of a command and a timer
  ready,      \* xTimerQueue # NULL: prvCheckForValidListAndQueue was called
  daemon,     \* what the daemon is doing to the status of which timer
  mode        \* history: the timers that were last made auto-reload

vars == <<memory, status, listed, queue, ready, daemon, mode>>

Flag == {"active", "static", "reload"}
Command == {"start", "stop", "change", "delete"}
Live(t) == memory[t] \in {"heap", "static"}

(* "set" and "clear" are about to read the status, "write" to write it *)
Idle == [at |-> "idle"]
Reads(change, t, command) == [at |-> change, timer |-> t, command |-> command]

ControlInit ==
  /\ memory = [t \in Timer |-> "none"] /\ status = [t \in Timer |-> {}]
  /\ listed = {} /\ queue = <<>> /\ ready = FALSE
  /\ daemon = Idle /\ mode = {}

-----------------------------------------------------------------------------
(* prvCheckForValidListAndQueue, which xTimerCreateTimerTask calls too *)
CheckForValidListAndQueue ==
  IF ready THEN UNCHANGED <<listed, queue, ready>>
           ELSE listed' = {} /\ queue' = <<>> /\ ready' = TRUE

(* vTaskStartScheduler calls xTimerCreateTimerTask *)
CreateTimerTask ==
  /\ ~ready
  /\ CheckForValidListAndQueue
  /\ UNCHANGED <<memory, status, daemon, mode>>

(* xTimerCreate and xTimerCreateStatic; prvInitialiseNewTimer *)
CreateTimer(t, place, reload) ==
  /\ memory[t] = "none"
  /\ memory' = [memory EXCEPT ![t] = place]
  /\ status' = [status EXCEPT ![t] =
                  (IF place = "static" THEN {"static"} ELSE {})
                    \cup (IF reload THEN {"reload"} ELSE {})]
  /\ mode' = IF reload THEN mode \cup {t} ELSE mode \ {t}
  /\ CheckForValidListAndQueue
  /\ UNCHANGED daemon

Deleted(t) ==
  \/ \E i \in 1 .. Len(queue) : queue[i] = <<"delete", t>>
  \/ daemon.at # "idle" /\ daemon.timer = t /\ daemon.command = "delete"

(* xTimerGenericCommandFromTask and ...FromISR, when the queue has room.   *)
(* A timer for which xTimerDelete was called is not used again; when the   *)
(* daemon is done with it, its buffer can hold a new one.                  *)
SendCommand(c, t) ==
  /\ ready /\ Live(t) /\ ~Deleted(t) /\ Len(queue) < QueueLength
  /\ queue' = Append(queue, <<c, t>>)
  /\ UNCHANGED <<memory, status, listed, ready, daemon, mode>>

(* vTimerSetReloadMode *)
SetReloadMode(t, reload) ==
  /\ Live(t) /\ ~Deleted(t)
  /\ status' = [status EXCEPT ![t] = IF reload THEN @ \cup {"reload"} ELSE @ \ {"reload"}]
  /\ mode' = IF reload THEN mode \cup {t} ELSE mode \ {t}
  /\ UNCHANGED <<memory, listed, queue, ready, daemon>>

-----------------------------------------------------------------------------
(* Faulty: a one-shot timer stays active *)
Expires_StaysActive(t) ==
  /\ daemon.at = "idle" /\ t \in listed
  /\ listed' = IF "reload" \in status[t] THEN listed ELSE listed \ {t}
  /\ UNCHANGED <<memory, status, queue, ready, daemon, mode>>

(* The daemon.  prvProcessExpiredTimer: the timer is reloaded, or stops    *)
Expires(t) ==
  /\ daemon.at = "idle" /\ t \in listed
  /\ IF "reload" \in status[t]
       THEN UNCHANGED <<listed, daemon>>
       ELSE listed' = listed \ {t} /\ daemon' = Reads("clear", t, "expire")
  /\ UNCHANGED <<memory, status, queue, ready, mode>>

(* Faulty: a timer that is still on a list is freed *)
ReceiveDelete_Listed(t) ==
  IF "static" \in status[t]
    THEN daemon' = Reads("clear", t, "delete") /\ listed' = listed \ {t} /\ UNCHANGED memory
    ELSE memory' = [memory EXCEPT ![t] = "freed"] /\ UNCHANGED <<daemon, listed>>

(* prvProcessReceivedCommands, tmrCOMMAND_DELETE: only the memory of a     *)
(* timer from the heap is freed                                            *)
ReceiveDelete(t) ==
  IF "static" \in status[t]
    THEN daemon' = Reads("clear", t, "delete") /\ listed' = listed \ {t} /\ UNCHANGED memory
    ELSE memory' = [memory EXCEPT ![t] = "freed"] /\ listed' = listed \ {t} /\ UNCHANGED daemon

(* prvProcessReceivedCommands: the timer leaves its list, then ... *)
Receive ==
  /\ daemon.at = "idle" /\ queue # <<>>
  /\ LET c == Head(queue)[1]
         t == Head(queue)[2]
     IN  IF c = "delete" THEN ReceiveDelete(t)
         ELSE /\ daemon' = Reads(IF c = "stop" THEN "clear" ELSE "set", t, c)
              /\ listed' = listed \ {t} /\ UNCHANGED memory
  /\ queue' = Tail(queue)
  /\ UNCHANGED <<status, ready, mode>>

(* ... its status is read, *)
ReadStatus ==
  /\ daemon.at \in {"set", "clear"}
  /\ LET t == daemon.timer
     IN  daemon' = [at |-> "write", timer |-> t, command |-> daemon.command,
                    value |-> IF daemon.at = "set" THEN status[t] \cup {"active"}
                                                   ELSE status[t] \ {"active"}]
  /\ UNCHANGED <<memory, status, listed, queue, ready, mode>>

(* ... and written; a timer that is made active is still to be inserted. *)
WriteStatus ==
  /\ daemon.at = "write"
  /\ status' = [status EXCEPT ![daemon.timer] = daemon.value]
  /\ daemon' = IF daemon.command \in {"start", "change"}
                 THEN [at |-> "insert", timer |-> daemon.timer, command |-> daemon.command]
                 ELSE Idle
  /\ memory' = IF daemon.command = "delete"
                 THEN [memory EXCEPT ![daemon.timer] = "none"] ELSE memory
  /\ UNCHANGED <<listed, queue, ready, mode>>

(* prvInsertTimerInActiveList: a timer that was started in time to have    *)
(* expired by now is reloaded, or is not active any more                   *)
Insert ==
  /\ daemon.at = "insert"
  /\ \/ listed' = listed \cup {daemon.timer} /\ daemon' = Idle
     \/ /\ daemon.command = "start" /\ "reload" \notin status[daemon.timer]
        /\ daemon' = Reads("clear", daemon.timer, "expire") /\ UNCHANGED listed
  /\ UNCHANGED <<memory, status, queue, ready, mode>>

(* What callers are told: xTimerIsTimerActive, xTimerGetReloadMode, *)
IsTimerActive(t) == "active" \in status[t]
GetReloadMode(t) == "reload" \in status[t]

(* ... and whether xTimerGetStaticBuffer returns the timer's buffer *)
GetStaticBuffer(t) == "static" \in status[t]

DaemonStep ==
  Receive \/ ReadStatus \/ WriteStatus \/ Insert \/ \E t \in Timer : Expires(t)

ControlNext ==
  \/ DaemonStep \/ CreateTimerTask
  \/ \E t \in Timer :
       \/ \E place \in {"heap", "static"}, r \in BOOLEAN : CreateTimer(t, place, r)
       \/ \E r \in BOOLEAN : SetReloadMode(t, r)
       \/ \E c \in Command : SendCommand(c, t)

ControlSpec == ControlInit /\ [][ControlNext]_vars

-----------------------------------------------------------------------------
(* Properties. *)

(* While the daemon waits for its next message, xTimerIsTimerActive tells  *)
(* the truth: a timer is active exactly while it is on a list, whatever    *)
(* tasks did to the status byte while the daemon changed it.  The flag     *)
(* that keeps a static timer from being freed is never lost.               *)
StatusMatchesList ==
  \A t \in Timer :
    /\ Live(t) => (GetStaticBuffer(t) <=> memory[t] = "static")
    /\ Live(t) /\ daemon.at = "idle" => (IsTimerActive(t) <=> t \in listed)

(* The daemon touches no timer whose memory was freed: none is on a list,  *)
(* none has a command that waits, and none is in its hands.                *)
NoFreedTimerInUse ==
  /\ \A t \in listed : Live(t)
  /\ \A i \in 1 .. Len(queue) : Live(queue[i][2])
  /\ daemon.at # "idle" => Live(daemon.timer)

(* "Updates a timer to be either an auto-reload timer [...] or a one-shot  *)
(* timer" (timers.h): the mode that was set is the mode the timer has.     *)
ReloadModeSticks ==
  \A t \in Timer : Live(t) => (GetReloadMode(t) <=> t \in mode)

=============================================================================
