---------------------------- MODULE StreamBuffer ----------------------------
(***************************************************************************)
(* A stream, message or batching buffer (stream_buffer.c) between one      *)
(* writer and one reader.  Each is a task or an interrupt.  The ring has   *)
(* no lock: the writer alone moves the head, the reader alone the tail,    *)
(* each after it has copied the data, and the two sleep and wake by task   *)
(* notifications.                                                          *)
(*                                                                         *)
(* A step is one access to what the two share, or one critical section.    *)
(* Either task may be preempted by the other between two steps; an         *)
(* interrupt's whole call is one step.  The block time of a call is 0, or  *)
(* may run out at any moment, or is portMAX_DELAY.                         *)
(***************************************************************************)
EXTENDS Integers, Sequences

CONSTANTS
  Length,       \* xLength: one more than the bytes the ring can hold
  LengthBytes,  \* sbBYTES_TO_STORE_MESSAGE_LENGTH
  Kinds,        \* the kinds of buffer: "stream", "message", "batching"
  Triggers,     \* trigger levels
  SendSizes, ReceiveSizes,
  Waits,        \* block times: "none", "some", "forever"
  NewTriggers   \* arguments of xStreamBufferSetTriggerLevel

StreamBufferAssumption ==
  /\ Length \in Nat \ {0, 1} /\ LengthBytes \in Nat \ {0}
  /\ Kinds \subseteq {"stream", "message", "batching"}
  /\ "message" \in Kinds => LengthBytes < Length - 1
  /\ Triggers \subseteq 1 .. Length - 1 /\ NewTriggers \subseteq Nat
  /\ SendSizes \subseteq Nat \ {0} /\ ReceiveSizes \subseteq Nat \ {0}
  /\ Waits \subseteq {"none", "some", "forever"}

VARIABLES
  config,   \* what the buffer was created as, and who uses it
  ring,     \* pucBuffer
  head, tail,
  waitingToSend, waitingToReceive,   \* the tasks' handles are set
  notify,   \* ucNotifyState of the two tasks
  w, r,     \* the writer's and the reader's call
  sent,     \* history: the number of the next byte to be written
  got,      \* history: the number of the next byte to be read
  lengths   \* history: the lengths of the messages in between

vars == <<config, ring, head, tail, waitingToSend, waitingToReceive, notify,
          w, r, sent, got, lengths>>

Index == 0 .. Length - 1
Round == 2 * Length   \* bytes are numbered modulo two rounds of the ring
Byte == 0 .. Round - 1

IdleWriter == [at |-> "idle", count |-> 0, wait |-> "none", space |-> 0]
IdleReader == [at |-> "idle", count |-> 0, wait |-> "none", bytes |-> 0,
               data |-> <<>>, below |-> 0]

Config == [kind : Kinds, trigger : 1 .. Length,
           writer : {"task", "interrupt"}, reader : {"task", "interrupt"}]

StreamTypeOK ==
  /\ config \in Config
  /\ ring \in [Index -> Nat] /\ head \in Index /\ tail \in Index
  /\ waitingToSend \in BOOLEAN /\ waitingToReceive \in BOOLEAN
  /\ notify \in [{"writer", "reader"} -> {"not waiting", "waiting", "received"}]
  /\ w \in [at : {"idle", "try", "wait", "blocked", "unregister", "again",
                  "sample", "copy", "publish", "check", "notify"},
             count : SendSizes \cup Index, wait : {"none", "some", "forever"},
             space : Index]
  /\ r \in [at : {"idle", "try", "wait", "blocked", "unregister", "sample",
                  "copy", "publish", "notify"},
             count : ReceiveSizes \cup Index, wait : {"none", "some", "forever"},
             bytes : Index, data : Seq(Nat), below : Index]
  /\ sent \in Byte /\ got \in Byte /\ lengths \in Seq(Index)

StreamInit ==
  /\ config \in Config /\ config.trigger \in Triggers
  /\ config.kind = "message" => config.trigger = 1
  /\ ring = [i \in Index |-> 0] /\ head = 0 /\ tail = 0
  /\ waitingToSend = FALSE /\ waitingToReceive = FALSE
  /\ notify = [x \in {"writer", "reader"} |-> "not waiting"]
  /\ w = IdleWriter /\ r = IdleReader
  /\ sent = 0 /\ got = 0 /\ lengths = <<>>

Message == config.kind = "message"
Prefix == IF Message THEN LengthBytes ELSE 0

-----------------------------------------------------------------------------
(* The ring. *)

Least(a, b) == IF a <= b THEN a ELSE b

(* Faulty: the index one past the end does not wrap *)
InRing_OffByOne(n) == IF n > Length THEN n - Length ELSE n

InRing(n) == IF n >= Length THEN n - Length ELSE n

(* prvBytesInBuffer *)
BytesInBuffer == InRing(Length + head - tail)

(* Faulty: the byte that tells a full ring from an empty one is given away *)
SpacesAvailable_All ==
  IF head = tail THEN Length - 1 ELSE InRing(Length + tail - head)

(* xStreamBufferSpacesAvailable *)
SpacesAvailable == InRing(Length + tail - head - 1)

(* prvWriteBytesToBuffer, prvReadBytesFromBuffer *)
Written(data, i) ==
  [j \in Index |-> LET k == (j - i) % Length IN IF k < Len(data) THEN data[k + 1] ELSE ring[j]]

Read(i, n) == [k \in 1 .. n |-> ring[(i + k - 1) % Length]]

(* n bytes numbered on from x *)
Bytes(x, n) == [k \in 1 .. n |-> (x + k - 1) % Round]

(* A task is notified, with eNoAction, if its handle is set (sbSEND_...,   *)
(* sbRECEIVE_COMPLETED and ..._FROM_ISR).                                  *)
NotifyReader ==
  /\ waitingToReceive' = FALSE
  /\ notify' = IF waitingToReceive THEN [notify EXCEPT !["reader"] = "received"] ELSE notify

NotifyWriter ==
  /\ waitingToSend' = FALSE
  /\ notify' = IF waitingToSend THEN [notify EXCEPT !["writer"] = "received"] ELSE notify

-----------------------------------------------------------------------------
(* The writer. *)

Required(n) == IF Message THEN n + LengthBytes ELSE Least(n, Length - 1)

(* What prvWriteMessageToBuffer writes of n bytes, with so much space *)
Outgoing(n, space) ==
  IF Message THEN IF space >= Required(n) THEN n ELSE 0 ELSE Least(n, space)

Cells(n) ==
  (IF Message THEN <<n>> \o [k \in 1 .. LengthBytes - 1 |-> 0] ELSE <<>>)
    \o Bytes(sent + Prefix, n)

Published(n) ==
  /\ head' = InRing(head + Prefix + n)
  /\ sent' = (sent + Prefix + n) % Round
  /\ lengths' = IF Message THEN Append(lengths, n) ELSE lengths

WriterMoves(x) == w' = [w EXCEPT !.at = x]

SharedByWriter == <<config, tail, r, got>>

(* xStreamBufferSend: a message that can never fit is not waited for. *)
Send ==
  /\ config.writer = "task" /\ w.at = "idle"
  /\ \E n \in SendSizes, wait \in Waits :
       LET waits == wait # "none" /\ Required(n) <= Length - 1
       IN  w' = [IdleWriter EXCEPT !.at = IF waits THEN "try" ELSE "sample",
                                   !.count = n, !.wait = IF waits THEN wait ELSE "none"]
  /\ UNCHANGED <<SharedByWriter, ring, head, waitingToSend, waitingToReceive, notify, sent, lengths>>

(* xTaskNotifyStateClear *)
ClearState(x) ==
  notify' = IF notify[x] = "received" THEN [notify EXCEPT ![x] = "not waiting"] ELSE notify

(* In a critical section the writer finds space, or leaves its handle. *)
SendTries ==
  /\ w.at = "try"
  /\ IF SpacesAvailable < Required(w.count)
       THEN /\ w' = [w EXCEPT !.at = "wait", !.space = SpacesAvailable]
            /\ ClearState("writer") /\ waitingToSend' = TRUE
       ELSE /\ w' = [w EXCEPT !.at = "copy", !.space = SpacesAvailable]
            /\ UNCHANGED <<notify, waitingToSend>>
  /\ UNCHANGED <<SharedByWriter, ring, head, waitingToReceive, sent, lengths>>

(* Faulty: it blocks though it was notified after it left its handle *)
NotifyWait_Forgets(x, at, next) ==
  \/ at = "wait" /\ next = "blocked" /\ notify' = [notify EXCEPT ![x] = "waiting"]
  \/ /\ at = "blocked" /\ notify[x] = "received"
     /\ next = "unregister" /\ notify' = [notify EXCEPT ![x] = "not waiting"]

(* xTaskNotifyWait of a task: it blocks unless it was notified already. *)
NotifyWait(x, at, next) ==
  \/ /\ at = "wait"
     /\ IF notify[x] = "received"
          THEN next = "unregister" /\ notify' = [notify EXCEPT ![x] = "not waiting"]
          ELSE next = "blocked" /\ notify' = [notify EXCEPT ![x] = "waiting"]
  \/ /\ at = "blocked" /\ notify[x] = "received"
     /\ next = "unregister" /\ notify' = [notify EXCEPT ![x] = "not waiting"]

SendWaits ==
  /\ \E next \in {"blocked", "unregister"} :
       NotifyWait("writer", w.at, next) /\ WriterMoves(next)
  /\ UNCHANGED <<SharedByWriter, ring, head, waitingToSend, waitingToReceive, sent, lengths>>

(* The block time runs out. *)
SendTimesOut ==
  /\ w.at = "blocked" /\ w.wait = "some"
  /\ w' = [w EXCEPT !.at = "unregister", !.wait = "none"]
  /\ notify' = [notify EXCEPT !["writer"] = "not waiting"]
  /\ UNCHANGED <<SharedByWriter, ring, head, waitingToSend, waitingToReceive, sent, lengths>>

SendUnregisters ==
  /\ w.at = "unregister" /\ WriterMoves("again") /\ waitingToSend' = FALSE
  /\ UNCHANGED <<SharedByWriter, ring, head, waitingToReceive, notify, sent, lengths>>

(* xTaskCheckForTimeOut decides whether it tries again. *)
SendTriesAgain ==
  /\ w.at = "again"
  /\ \/ w.wait # "none" /\ WriterMoves("try")
     \/ w.wait # "forever" /\ WriterMoves(IF w.space = 0 THEN "sample" ELSE "copy")
  /\ UNCHANGED <<SharedByWriter, ring, head, waitingToSend, waitingToReceive, notify, sent, lengths>>

SendSamples ==
  /\ w.at = "sample" /\ w' = [w EXCEPT !.at = "copy", !.space = SpacesAvailable]
  /\ UNCHANGED <<SharedByWriter, ring, head, waitingToSend, waitingToReceive, notify, sent, lengths>>

(* prvWriteMessageToBuffer copies first, *)
SendCopies ==
  /\ w.at = "copy"
  /\ LET n == Outgoing(w.count, w.space)
     IN  IF n = 0
           THEN w' = IdleWriter /\ ring' = ring
           ELSE ring' = Written(Cells(n), head) /\ w' = [w EXCEPT !.at = "publish", !.count = n]
  /\ UNCHANGED <<SharedByWriter, head, waitingToSend, waitingToReceive, notify, sent, lengths>>

(* ... then moves the head. *)
SendPublishes ==
  /\ w.at = "publish" /\ Published(w.count) /\ WriterMoves("check")
  /\ UNCHANGED <<SharedByWriter, ring, waitingToSend, waitingToReceive, notify>>

(* Faulty: the reader is notified only of more bytes than the trigger level *)
Triggered_More(n) == n > config.trigger

Triggered(n) == n >= config.trigger

SendChecks ==
  /\ w.at = "check"
  /\ w' = IF Triggered(BytesInBuffer) THEN [w EXCEPT !.at = "notify"] ELSE IdleWriter
  /\ UNCHANGED <<SharedByWriter, ring, head, waitingToSend, waitingToReceive, notify, sent, lengths>>

SendNotifies ==
  /\ w.at = "notify" /\ NotifyReader /\ w' = IdleWriter
  /\ UNCHANGED <<SharedByWriter, ring, head, waitingToSend, sent, lengths>>

(* xStreamBufferSendFromISR *)
SendFromISR ==
  /\ config.writer = "interrupt"
  /\ \E n \in SendSizes :
       LET m == Outgoing(n, SpacesAvailable)
       IN  /\ m > 0
           /\ ring' = Written(Cells(m), head) /\ Published(m)
           /\ IF Triggered(InRing(Length + head' - tail))
                THEN NotifyReader ELSE UNCHANGED <<waitingToReceive, notify>>
  /\ UNCHANGED <<SharedByWriter, w, waitingToSend>>

-----------------------------------------------------------------------------
(* The reader. *)

(* The bytes that are not enough for a task that reads *)
NotEnough ==
  IF config.kind = "batching" THEN config.trigger ELSE Prefix

ReaderMoves(x) == r' = [r EXCEPT !.at = x]

SharedByReader == <<config, ring, head, w, sent>>

(* xStreamBufferReceive *)
Receive ==
  /\ config.reader = "task" /\ r.at = "idle"
  /\ \E n \in ReceiveSizes, wait \in Waits :
       r' = [IdleReader EXCEPT !.at = IF wait = "none" THEN "sample" ELSE "try",
                               !.count = n, !.wait = wait, !.below = NotEnough]
  /\ UNCHANGED <<SharedByReader, tail, waitingToSend, waitingToReceive, notify, got, lengths>>

ReceiveTries ==
  /\ r.at = "try"
  /\ r' = [r EXCEPT !.at = IF BytesInBuffer <= r.below THEN "wait" ELSE "copy",
                    !.bytes = BytesInBuffer]
  /\ IF BytesInBuffer <= r.below
       THEN ClearState("reader") /\ waitingToReceive' = TRUE
       ELSE UNCHANGED <<notify, waitingToReceive>>
  /\ UNCHANGED <<SharedByReader, tail, waitingToSend, got, lengths>>

ReceiveWaits ==
  /\ \E next \in {"blocked", "unregister"} :
       NotifyWait("reader", r.at, next) /\ ReaderMoves(next)
  /\ UNCHANGED <<SharedByReader, tail, waitingToSend, waitingToReceive, got, lengths>>

ReceiveTimesOut ==
  /\ r.at = "blocked" /\ r.wait = "some" /\ ReaderMoves("unregister")
  /\ notify' = [notify EXCEPT !["reader"] = "not waiting"]
  /\ UNCHANGED <<SharedByReader, tail, waitingToSend, waitingToReceive, got, lengths>>

ReceiveUnregisters ==
  /\ r.at = "unregister" /\ ReaderMoves("sample") /\ waitingToReceive' = FALSE
  /\ UNCHANGED <<SharedByReader, tail, waitingToSend, notify, got, lengths>>

ReceiveSamples ==
  /\ r.at = "sample" /\ r' = [r EXCEPT !.at = "copy", !.bytes = BytesInBuffer]
  /\ UNCHANGED <<SharedByReader, tail, waitingToSend, waitingToReceive, notify, got, lengths>>

(* Faulty: a message longer than the caller's buffer is cut *)
Incoming_Cuts(n, bytes) ==
  Least(IF Message THEN Least(ring[tail], n) ELSE n, bytes - Prefix)

(* What prvReadMessageFromBuffer reads into a buffer of n bytes: a message *)
(* longer than that stays where it is.                                     *)
Incoming(n, bytes) ==
  LET wanted == IF ~Message THEN n ELSE IF ring[tail] > n THEN 0 ELSE ring[tail]
  IN  Least(wanted, bytes - Prefix)

Taken(n) ==
  /\ tail' = InRing(InRing(tail + Prefix) + n)
  /\ got' = (got + Prefix + n) % Round
  /\ lengths' = IF Message THEN Tail(lengths) ELSE lengths

ReceiveCopies ==
  /\ r.at = "copy"
  /\ LET n == IF r.bytes > r.below THEN Incoming(r.count, r.bytes) ELSE 0
     IN  r' = IF n = 0 THEN IdleReader
              ELSE [r EXCEPT !.at = "publish", !.data = Read(tail + Prefix, n)]
  /\ UNCHANGED <<SharedByReader, tail, waitingToSend, waitingToReceive, notify, got, lengths>>

ReceivePublishes ==
  /\ r.at = "publish" /\ Taken(Len(r.data))
  /\ r' = [IdleReader EXCEPT !.at = "notify"]
  /\ UNCHANGED <<SharedByReader, waitingToSend, waitingToReceive, notify>>

ReceiveNotifies ==
  /\ r.at = "notify" /\ NotifyWriter /\ r' = IdleReader
  /\ UNCHANGED <<SharedByReader, tail, waitingToReceive, got, lengths>>

(* xStreamBufferReceiveFromISR *)
ReceiveFromISR ==
  /\ config.reader = "interrupt"
  /\ \E n \in ReceiveSizes :
       LET m == Incoming(n, BytesInBuffer)
       IN  /\ BytesInBuffer > Prefix /\ m > 0
           /\ Taken(m)
           /\ NotifyWriter
  /\ UNCHANGED <<SharedByReader, r, waitingToReceive>>

-----------------------------------------------------------------------------
(* Calls about the buffer, by any task. *)

(* xStreamBufferReset, while no call is between its copy and its return *)
Reset ==
  /\ w.at # "publish" /\ r.at \notin {"copy", "publish"}
  /\ ~waitingToSend /\ ~waitingToReceive
  /\ head' = 0 /\ tail' = 0 /\ sent' = 0 /\ got' = 0 /\ lengths' = <<>>
  /\ UNCHANGED <<config, ring, waitingToSend, waitingToReceive, notify, w, r>>

(* xStreamBufferSetTriggerLevel *)
SetTriggerLevel ==
  /\ \E n \in NewTriggers :
       LET t == IF n = 0 THEN 1 ELSE n
       IN  t < Length /\ config' = [config EXCEPT !.trigger = t]
  /\ UNCHANGED <<ring, head, tail, waitingToSend, waitingToReceive, notify, w, r,
                 sent, got, lengths>>

-----------------------------------------------------------------------------
SendStep ==
  \/ SendTries \/ SendWaits \/ SendTimesOut \/ SendUnregisters \/ SendTriesAgain
  \/ SendSamples \/ SendCopies \/ SendPublishes \/ SendChecks \/ SendNotifies

ReceiveStep ==
  \/ ReceiveTries \/ ReceiveWaits \/ ReceiveTimesOut \/ ReceiveUnregisters
  \/ ReceiveSamples \/ ReceiveCopies \/ ReceivePublishes \/ ReceiveNotifies

StreamNext ==
  \/ Send \/ SendStep \/ SendFromISR
  \/ Receive \/ ReceiveStep \/ ReceiveFromISR
  \/ Reset \/ SetTriggerLevel

StreamSpec == StreamInit /\ [][StreamNext]_vars

-----------------------------------------------------------------------------
(* Properties. *)

(* What a call has read are the next bytes that were sent, and if it is a  *)
(* message, the next message and all of it, although neither side locks    *)
(* the ring.                                                               *)
DeliversInOrder ==
  r.at = "publish" =>
    /\ r.data = Bytes(got + Prefix, Len(r.data))
    /\ Message => Len(r.data) = Head(lengths)

(* Between tail and head are exactly the bytes sent and not yet received. *)
RingHoldsUnread ==
  /\ (sent - got) % Round = BytesInBuffer
  /\ ~Message => Read(tail, BytesInBuffer) = Bytes(got, BytesInBuffer)

(* No reader sleeps beside trigger-level bytes, and no writer beside the   *)
(* space it waits for, unless the other is on its way to notify it.        *)
ReaderSleepsInVain ==
  /\ r.at = "blocked" /\ notify["reader"] = "waiting"
  /\ BytesInBuffer >= config.trigger /\ w.at \notin {"check", "notify"}

WriterSleepsInVain ==
  /\ w.at = "blocked" /\ notify["writer"] = "waiting"
  /\ SpacesAvailable >= Required(w.count) /\ r.at # "notify"

NoneSleepsInVain == ~ReaderSleepsInVain /\ ~WriterSleepsInVain

(* A batching buffer's trigger level is the number of bytes that unblocks  *)
(* its reader: nobody blocks there beside so many (the comment on          *)
(* xBytesToStoreMessageLength in xStreamBufferReceive).                    *)
BatchReaderUnblocks == config.kind = "batching" => ~ReaderSleepsInVain

(* Between two tasks that go on sending and receiving, each call ends: the *)
(* wake-up that ends its wait is neither missed nor given away.            *)
(* Only if the trigger level and what the writer sends at once do not fit  *)
(* in the ring together may each wait for the other for good.              *)
ReceiveAny == Receive /\ \A n \in SendSizes : r'.count >= n

FairStreamSpec ==
  /\ StreamSpec
  /\ WF_vars(SendStep) /\ WF_vars(ReceiveStep) /\ WF_vars(Send) /\ SF_vars(ReceiveAny)

FitTogether ==
  /\ config.writer = "task" /\ config.reader = "task"
  /\ \A n \in SendSizes : Required(n) + config.trigger <= Length

StreamCallsEnd ==
  []<>(FitTogether => w.at = "idle") /\ []<>(FitTogether => r.at = "idle")

=============================================================================
