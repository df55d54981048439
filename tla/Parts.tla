-------------------------------- MODULE Parts --------------------------------
(***************************************************************************)
(* Parts that are modelled on their own, without the kernel's scheduling   *)
(* below them, side by side: a behaviour is one of them, or another part.  *)
(***************************************************************************)
EXTENDS Integers

CONSTANTS
  Thread, Early, Depth, Nobody,           \* of MpuPrivilege
  Half, Increment, EndTime,               \* of TimerCompare
  Caller, Slots, Block, Types, Traced, Eager, Nil, Reserved, Gone,    \* of KernelObjects
  CoRoutine, Priority, Length, Delays, Woken, TickMod, MaxPassed,     \* of CoRoutines
  SoftTimer, QueueLength,                 \* of TimerControl
  Size, Terminal, Lengths, ReadSizes, Numbers   \* of Rtt

VARIABLES
  part,                                   \* which part this behaviour is of
  privileged, own, frames, maker,         \* of MpuPrivilege
  mtime, compare, next, high, low, step, begun, ticks,   \* of TimerCompare
  pool, kernel, given, call,              \* of KernelObjects
  ready, delayed, overflow, wake, event, top, time, messages, at, passed, chosen,
  resumes, remaining, late,               \* of CoRoutines
  memory, status, listed, commands, begins, daemon, mode,   \* of TimerControl
  down, ring, writer, reader, active, stream, number, shown \* of Rtt

Privilege == INSTANCE MpuPrivilege WITH Task <- Thread, First <- Early, NoTask <- Nobody
Compare == INSTANCE TimerCompare WITH time <- mtime, MaxTime <- EndTime
Wrappers == INSTANCE KernelObjects WITH Null <- Nil
Crs == INSTANCE CoRoutines
Control == INSTANCE TimerControl WITH Timer <- SoftTimer, queue <- commands, ready <- begins
Channel == INSTANCE Rtt WITH Reads <- ReadSizes, next <- number

(* A part that this behaviour is not of has no state. *)
NoPrivilege == privileged = 0 /\ own = 0 /\ frames = 0 /\ maker = 0
NoCompare ==
  /\ mtime = 0 /\ compare = 0 /\ next = 0 /\ high = 0 /\ low = 0 /\ step = 0
  /\ begun = 0 /\ ticks = 0
NoWrappers == pool = 0 /\ kernel = 0 /\ given = 0 /\ call = 0
NoCrs ==
  /\ ready = 0 /\ delayed = 0 /\ overflow = 0 /\ wake = 0 /\ event = 0 /\ top = 0
  /\ time = 0 /\ messages = 0 /\ at = 0 /\ passed = 0 /\ chosen = 0
  /\ resumes = 0 /\ remaining = 0 /\ late = 0
NoControl ==
  /\ memory = 0 /\ status = 0 /\ listed = 0 /\ commands = 0 /\ begins = 0 /\ daemon = 0
  /\ mode = 0
NoChannel ==
  /\ down = 0 /\ ring = 0 /\ writer = 0 /\ reader = 0 /\ active = 0 /\ stream = 0
  /\ number = 0 /\ shown = 0

privilegeVars == <<privileged, own, frames, maker>>
compareVars == <<mtime, compare, next, high, low, step, begun, ticks>>
wrapperVars == <<pool, kernel, given, call>>
coVars == <<ready, delayed, overflow, wake, event, top, time, messages, at, passed,
            chosen, resumes, remaining, late>>
controlVars == <<memory, status, listed, commands, begins, daemon, mode>>
channelVars == <<down, ring, writer, reader, active, stream, number, shown>>
partVars == <<part, privilegeVars, compareVars, wrapperVars, coVars, controlVars, channelVars>>

PartsInit ==
  \/ /\ part = "privilege" /\ Privilege!Init
     /\ NoCompare /\ NoWrappers /\ NoCrs /\ NoControl /\ NoChannel
  \/ /\ part = "compare" /\ Compare!CompareInit
     /\ NoPrivilege /\ NoWrappers /\ NoCrs /\ NoControl /\ NoChannel
  \/ /\ part = "wrappers" /\ Wrappers!Init
     /\ NoPrivilege /\ NoCompare /\ NoCrs /\ NoControl /\ NoChannel
  \/ /\ part = "coroutines" /\ Crs!CoInit
     /\ NoPrivilege /\ NoCompare /\ NoWrappers /\ NoControl /\ NoChannel
  \/ /\ part = "status" /\ Control!ControlInit
     /\ NoPrivilege /\ NoCompare /\ NoWrappers /\ NoCrs /\ NoChannel
  \/ /\ part = "channel" /\ Channel!RttInit
     /\ NoPrivilege /\ NoCompare /\ NoWrappers /\ NoCrs /\ NoControl

PartsNext ==
  \/ /\ part = "privilege" /\ Privilege!Next
     /\ UNCHANGED <<part, compareVars, wrapperVars, coVars, controlVars, channelVars>>
  \/ /\ part = "compare" /\ Compare!CompareNext
     /\ UNCHANGED <<part, privilegeVars, wrapperVars, coVars, controlVars, channelVars>>
  \/ /\ part = "wrappers" /\ Wrappers!Next
     /\ UNCHANGED <<part, privilegeVars, compareVars, coVars, controlVars, channelVars>>
  \/ /\ part = "coroutines" /\ Crs!CoNext
     /\ UNCHANGED <<part, privilegeVars, compareVars, wrapperVars, controlVars, channelVars>>
  \/ /\ part = "status" /\ Control!ControlNext
     /\ UNCHANGED <<part, privilegeVars, compareVars, wrapperVars, coVars, channelVars>>
  \/ /\ part = "channel" /\ Channel!RttNext
     /\ UNCHANGED <<part, privilegeVars, compareVars, wrapperVars, coVars, controlVars>>

PartsSpec == PartsInit /\ [][PartsNext]_partVars

-----------------------------------------------------------------------------
(* A call leaves the caller with the privilege it had, and no task makes   *)
(* one with more than its own.                                             *)
PrivilegeKept ==
  part = "privilege" => Privilege!PrivilegeKept /\ Privilege!NoneOutranksItsMaker

(* Tick interrupts come a period apart, none from a half-written compare   *)
(* register.                                                               *)
TickTimerPunctual ==
  part = "compare" => Compare!TicksKeepPeriod /\ Compare!NoTickFromHalfValue

(* A call reaches the object its index was given for, no slot is lost, and *)
(* a handle is translated back to that index.                              *)
WrappersTranslate ==
  part = "wrappers" =>
    Wrappers!CallsReachTheirObject /\ Wrappers!EverySlotAccounted /\ Wrappers!TranslatesBack

(* A co-routine is blocked for the ticks it asked for, on the lists that   *)
(* say so, and not on a queue that could serve it, but for the room that   *)
(* an interrupt makes between the test and the block of xQueueCRSend.      *)
CoRoutinesServed ==
  part = "coroutines" => Crs!BlocksExactly /\ Crs!ItemsAgree /\ Crs!NoneWaitsInVain

(* A timer's flags tell the truth whatever tasks and the daemon do to the  *)
(* status byte, and no timer is used whose memory was freed.               *)
TimersControlled ==
  part = "status" => Control!StatusMatchesList /\ Control!NoFreedTimerInUse

(* What is read of the debug channel is what was written, and each byte is *)
(* shown on the terminal it was written for.                               *)
DeliversStream == part = "channel" => Channel!DeliversStream /\ Channel!ShownOnItsTerminal
=============================================================================
