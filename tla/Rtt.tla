-------------------------------- MODULE Rtt ---------------------------------
(***************************************************************************)
(* One ring of SEGGER_RTT.c between the target and the host that reads or  *)
(* writes its memory through the debug probe: an up ring, which the target *)
(* writes, or a down ring, which it reads.  The target's calls exclude one *)
(* another (SEGGER_RTT_LOCK masks interrupts); the host does not know the  *)
(* lock and acts between any two accesses.  Terminals are multiplexed in   *)
(* the stream: an escape byte and an identifier switch to another.         *)
(***************************************************************************)
EXTENDS Naturals, Sequences, FiniteSetsExt

CONSTANTS
  Size,       \* SizeOfBuffer
  Terminal,   \* a set of numbers, with 0
  Lengths,    \* of the writes
  Reads,      \* the buffer sizes a reader uses
  Numbers     \* data bytes are numbered modulo this

RttAssumption ==
  /\ Size \in Nat \ {0, 1} /\ Terminal \subseteq Nat /\ 0 \in Terminal
  /\ Lengths \subseteq Nat \ {0} /\ Reads \subseteq Nat \ {0} /\ Numbers \in Nat \ {0}

VARIABLES
  down,     \* whether the ring is a down ring
  ring,     \* aUp or aDown: its bytes, RdOff, WrOff and Flags
  writer,   \* the write under way
  reader,   \* the read under way
  active,   \* _ActiveTerminal
  stream,   \* history: the bytes announced by WrOff and not yet released
  next,     \* history: the number of the next data byte
  shown     \* of the host: its terminal, and whether it has seen an escape

vars == <<down, ring, writer, reader, active, stream, next, shown>>

Slot == 0 .. Size - 1

(* Bytes of data, tagged with the terminal they are for, and of a switch. *)
Data(t, n) == [i \in 1 .. n |-> [kind |-> "data", t |-> t, n |-> (next + i - 1) % Numbers]]
Switch(t) == <<[kind |-> "escape", t |-> 0, n |-> 0], [kind |-> "id", t |-> t, n |-> 0]>>
NoByte == [kind |-> "none", t |-> 0, n |-> 0]

(* _DoInit *)
DoInit ==
  ring = [bytes |-> [i \in Slot |-> NoByte], rd |-> 0, wr |-> 0, flags |-> "skip"]

RttInit ==
  /\ down \in BOOLEAN /\ DoInit
  /\ writer = [pc |-> "idle", left |-> <<>>, n |-> 0]
  /\ reader = [pc |-> "idle", size |-> 0, data |-> <<>>]
  /\ active = 0 /\ stream = <<>> /\ next = 0
  /\ shown = [terminal |-> 0, escaped |-> FALSE]

-----------------------------------------------------------------------------
(* Writing. *)

(* Faulty: the byte that keeps a full ring from looking empty is used *)
AvailWriteSpace_All(r) ==
  IF r.rd <= r.wr THEN Size - r.wr + r.rd ELSE r.rd - r.wr

(* _GetAvailWriteSpace *)
AvailWriteSpace(r) ==
  IF r.rd <= r.wr THEN Size - 1 - r.wr + r.rd ELSE r.rd - r.wr - 1

(* The room SEGGER_RTT_WriteSkipNoLock finds, by its own cases. *)
SkipFits(r, n) ==
  IF r.rd <= r.wr THEN Size - r.wr - 1 >= n \/ Size - r.wr - 1 + r.rd >= n
  ELSE r.rd - r.wr - 1 >= n

Idle == writer.pc = "idle"

(* _WriteNoCheck: the bytes are stored, around the end if need be, and     *)
(* announced once                                                          *)
WriteNoCheck(bytes) == writer' = [pc |-> "store", left |-> <<bytes>>, n |-> Len(bytes)]

(* Calls of _WriteBlocking, one after the other *)
WriteBlocking(writes) == writer' = [pc |-> "wait", left |-> writes, n |-> 0]

(* _WriteBlocking: what fits before the end of the buffer; it waits while  *)
(* that is nothing                                                         *)
Wait ==
  /\ writer.pc = "wait"
  /\ LET n == Min({AvailWriteSpace(ring), Size - ring.wr, Len(Head(writer.left))})
     IN  n > 0 /\ writer' = [writer EXCEPT !.pc = "store", !.n = n]
  /\ UNCHANGED <<down, ring, reader, active, stream, next, shown>>

(* The copy to the ring, by memcpy *)
Store ==
  /\ writer.pc = "store"
  /\ ring' = [ring EXCEPT !.bytes =
       [i \in Slot |-> LET k == (i + Size - ring.wr) % Size
                       IN  IF k < writer.n THEN Head(writer.left)[k + 1] ELSE ring.bytes[i]]]
  /\ writer' = [writer EXCEPT !.pc = "announce"]
  /\ UNCHANGED <<down, reader, active, stream, next, shown>>

(* Faulty: the number of bytes that are left is not reduced *)
Left_Whole == writer.left

Left ==
  LET bytes == Head(writer.left)
  IN  (IF writer.n < Len(bytes) THEN <<SubSeq(bytes, writer.n + 1, Len(bytes))>> ELSE <<>>)
        \o Tail(writer.left)

(* Then the new WrOff. *)
Announce ==
  /\ writer.pc = "announce"
  /\ ring' = [ring EXCEPT !.wr = (@ + writer.n) % Size]
  /\ stream' = stream \o SubSeq(Head(writer.left), 1, writer.n)
  /\ writer' = [pc |-> IF Left = <<>> THEN "idle" ELSE "wait", left |-> Left, n |-> 0]
  /\ UNCHANGED <<down, reader, active, next, shown>>

(* A write of n data bytes for terminal t, as the ring's mode says; what   *)
(* is skipped or trimmed leaves no trace.                                  *)
ByMode(t, n) ==
  LET avail == AvailWriteSpace(ring)
  IN  \/ /\ ring.flags = "skip" /\ avail >= n
         /\ WriteNoCheck(Data(t, n)) /\ next' = (next + n) % Numbers
      \/ /\ ring.flags = "trim" /\ avail > 0
         /\ LET m == Min({avail, n})
            IN  WriteNoCheck(Data(t, m)) /\ next' = (next + m) % Numbers
      \/ /\ ring.flags = "block"
         /\ WriteBlocking(<<Data(t, n)>>) /\ next' = (next + n) % Numbers

(* SEGGER_RTT_Write, SEGGER_RTT_WriteString and the parts of a printf, by  *)
(* SEGGER_RTT_WriteNoLock                                                  *)
WriteNoLock(n) ==
  /\ ~down /\ Idle /\ ByMode(active, n)
  /\ UNCHANGED <<down, ring, reader, active, stream, shown>>

(* SEGGER_RTT_WriteDownBuffer, SEGGER_RTT_WriteDownBufferNoLock and, as    *)
(* they say, the host's write                                              *)
WriteDownBufferNoLock(n) ==
  /\ down /\ Idle /\ ByMode(0, n)
  /\ UNCHANGED <<down, ring, reader, active, stream, shown>>

Skip(n) == WriteNoCheck(Data(active, n)) /\ next' = (next + n) % Numbers

(* SEGGER_RTT_WriteSkipNoLock, whatever the mode *)
WriteSkipNoLock(n) ==
  /\ ~down /\ Idle /\ SkipFits(ring, n) /\ Skip(n)
  /\ UNCHANGED <<down, ring, reader, active, stream, shown>>

(* SEGGER_RTT_PutCharSkip and SEGGER_RTT_PutCharSkipNoLock *)
PutCharSkip ==
  /\ ~down /\ Idle /\ (ring.wr + 1) % Size # ring.rd /\ Skip(1)
  /\ UNCHANGED <<down, ring, reader, active, stream, shown>>

(* SEGGER_RTT_PutChar waits for room in the blocking mode only *)
PutChar ==
  /\ ~down /\ Idle
  /\ IF ring.flags = "block"
       THEN WriteBlocking(<<Data(active, 1)>>) /\ next' = (next + 1) % Numbers
       ELSE (ring.wr + 1) % Size # ring.rd /\ Skip(1)
  /\ UNCHANGED <<down, ring, reader, active, stream, shown>>

(* Faulty: the terminal is taken as changed before there is room *)
SetTerminal_Always(t) ==
  /\ ~down /\ Idle
  /\ active' = t
  /\ IF ring.flags = "block" THEN WriteBlocking(<<Switch(t)>>)
     ELSE IF AvailWriteSpace(ring) >= 2 THEN WriteNoCheck(Switch(t))
     ELSE UNCHANGED writer
  /\ UNCHANGED <<down, ring, reader, stream, next, shown>>

(* SEGGER_RTT_SetTerminal *)
SetTerminal(t) ==
  /\ ~down /\ Idle
  /\ active' = t
  /\ IF ring.flags = "block" THEN WriteBlocking(<<Switch(t)>>)
     ELSE AvailWriteSpace(ring) >= 2 /\ WriteNoCheck(Switch(t))
  /\ UNCHANGED <<down, ring, reader, stream, next, shown>>

(* SEGGER_RTT_TerminalOut: there, the text, and back *)
TerminalOut(t, n) ==
  LET avail == AvailWriteSpace(ring)
      Out(m) == /\ WriteBlocking(<<Switch(t)>> \o (IF m = 0 THEN <<>> ELSE <<Data(t, m)>>)
                                   \o <<Switch(active)>>)
                /\ next' = (next + m) % Numbers
  IN  /\ ~down /\ Idle
      /\ \/ ring.flags = "skip" /\ avail >= n + 4 /\ Out(n)
         \/ ring.flags = "trim" /\ avail >= 4 /\ Out(Min({n, avail - 4}))
         \/ ring.flags = "block" /\ Out(n)
      /\ UNCHANGED <<down, ring, reader, active, stream, shown>>

(* SEGGER_RTT_SetFlagsUpBuffer, SEGGER_RTT_SetFlagsDownBuffer; of buffer 0 *)
(* SEGGER_RTT_ConfigUpBuffer and SEGGER_RTT_ConfigDownBuffer change no more*)
SetFlags(mode) ==
  /\ Idle /\ ring.flags # mode
  /\ ring' = [ring EXCEPT !.flags = mode]
  /\ UNCHANGED <<down, writer, reader, active, stream, next, shown>>

-----------------------------------------------------------------------------
(* Reading. *)

Used(r) == (r.wr + Size - r.rd) % Size

(* The reader samples WrOff ... *)
Look(size) ==
  /\ reader.pc = "idle" /\ ring.rd # ring.wr
  /\ reader' = [pc |-> "copy", size |-> Min({Used(ring), size}), data |-> <<>>]
  /\ UNCHANGED <<down, ring, writer, active, stream, next, shown>>

(* ... copies from RdOff, to the end and then from the start ... *)
Copy ==
  /\ reader.pc = "copy"
  /\ reader' = [reader EXCEPT !.pc = "release",
       !.data = [i \in 1 .. reader.size |-> ring.bytes[(ring.rd + i - 1) % Size]]]
  /\ UNCHANGED <<down, ring, writer, active, stream, next, shown>>

(* What the host makes of a byte. *)
Showing(s, b) ==
  IF b.kind = "escape" THEN [s EXCEPT !.escaped = TRUE]
  ELSE IF b.kind = "id" /\ s.escaped THEN [terminal |-> b.t, escaped |-> FALSE]
  ELSE s

After(s, bytes) ==
  LET f[i \in 0 .. Len(bytes)] == IF i = 0 THEN s ELSE Showing(f[i - 1], bytes[i])
  IN  f

(* Faulty: RdOff moves by what there was, not by what was copied *)
Released_All(r, n) == r.wr

Released(r, n) == (r.rd + n) % Size

(* ... and moves RdOff.  The bytes are never read again. *)
Release ==
  /\ reader.pc = "release"
  /\ ring' = [ring EXCEPT !.rd = Released(ring, reader.size),
       !.bytes = [i \in Slot |-> IF (i + Size - ring.rd) % Size < reader.size
                                   THEN NoByte ELSE ring.bytes[i]]]
  /\ stream' = SubSeq(stream, reader.size + 1, Len(stream))
  /\ shown' = After(shown, reader.data)[reader.size]
  /\ reader' = [pc |-> "idle", size |-> 0, data |-> <<>>]
  /\ UNCHANGED <<down, writer, active, next>>

(* SEGGER_RTT_ReadUpBuffer and SEGGER_RTT_ReadUpBufferNoLock do what the   *)
(* host does                                                               *)
ReadUpBufferNoLock == ~down /\ ((\E n \in Reads : Look(n)) \/ Copy \/ Release)

(* SEGGER_RTT_Read, by SEGGER_RTT_ReadNoLock, and for one byte             *)
(* SEGGER_RTT_GetKey and SEGGER_RTT_WaitKey                                *)
ReadNoLock == down /\ ((\E n \in Reads : Look(n)) \/ Copy \/ Release)

Write ==
  \/ \E n \in Lengths : WriteNoLock(n) \/ WriteDownBufferNoLock(n) \/ WriteSkipNoLock(n)
  \/ PutChar \/ PutCharSkip
  \/ \E t \in Terminal : SetTerminal(t) \/ \E n \in Lengths : TerminalOut(t, n)
  \/ \E mode \in {"skip", "trim", "block"} : SetFlags(mode)

Progress == Wait \/ Store \/ Announce
Reading == ReadUpBufferNoLock \/ ReadNoLock

RttNext == Write \/ Progress \/ Reading

(* The writer runs on, and the other side reads. *)
RttSpec == RttInit /\ [][RttNext]_vars /\ WF_vars(Progress) /\ WF_vars(Reading)

-----------------------------------------------------------------------------
(* Properties. *)

(* Between RdOff and WrOff is what was announced, and a reader's copy is   *)
(* the beginning of it, although the ring is written and read at once.     *)
DeliversStream ==
  /\ Len(stream) = Used(ring)
  /\ \A i \in 1 .. Len(stream) : ring.bytes[(ring.rd + i - 1) % Size] = stream[i]
  /\ reader.pc = "release" => reader.data = SubSeq(stream, 1, reader.size)

(* Every byte of data appears on the terminal it was written for, whatever *)
(* was skipped or trimmed; after each call the host will be back at the    *)
(* active terminal.                                                        *)
ShownOnItsTerminal ==
  LET states == After(shown, stream)
  IN  /\ \A i \in 1 .. Len(stream) : stream[i].kind = "data" =>
           stream[i].t = states[i].terminal /\ ~states[i].escaped
      /\ ~down /\ Idle => states[Len(stream)] = [terminal |-> active, escaped |-> FALSE]

(* A call that waits for room returns if the other side reads. *)
WritesEnd == ~Idle ~> Idle

(* SEGGER_RTT_GetBytesInBuffer, in unsigned arithmetic *)
BytesInBuffer ==
  IF ring.rd <= ring.wr THEN ring.wr - ring.rd ELSE Size + (ring.rd - ring.wr)

(* "Returns the number of bytes currently used in the up buffer"           *)
(* (SEGGER_RTT.c): it does not once the data wraps around.                 *)
CountsBytesUsed == ~down => BytesInBuffer = Len(stream)

=============================================================================
