---------------------------- MODULE StreamProofs ----------------------------
(***************************************************************************)
(* Theorems about stream and message buffers: that the ring holds the      *)
(* bytes sent and not yet received, that the reader gets them in order and *)
(* whole messages only, and that neither side sleeps beside what it waits  *)
(* for - for every size of the ring and every size of message, with the    *)
(* writer and the reader between any two accesses to what they share.      *)
(***************************************************************************)
EXTENDS StreamBuffer, SequenceTheorems, TLAPS

-----------------------------------------------------------------------------
(* The inductive invariant.                                                *)

(* The cell i places after t, the number i places after g                  *)
Slot(t, i) == (t + i) % Length
Number(g, i) == (g + i) % Round

(* The n bytes from offset x on are numbered on from the first.            *)
Numbered(rg, t, g, x, n) == \A j \in x .. x + n - 1 : rg[Slot(t, j)] = Number(g, j)

(* Where each message starts: one after the other, and the last one ends   *)
(* where the bytes end.                                                    *)
Starts(st, ls, n) ==
  /\ st \in [1 .. Len(ls) + 1 -> Nat] /\ st[1] = 0 /\ st[Len(ls) + 1] = n
  /\ \A i \in 1 .. Len(ls) : st[i + 1] = st[i] + LengthBytes + ls[i] /\ ls[i] > 0
  /\ \A i, j \in 1 .. Len(ls) + 1 : i <= j => st[i] <= st[j]

Messages(rg, t, g, ls, st) ==
  \A i \in 1 .. Len(ls) :
    rg[Slot(t, st[i])] = ls[i] /\ Numbered(rg, t, g, st[i] + LengthBytes, ls[i])

(* What the n bytes from t on are: messages, each with its length, or one  *)
(* stream                                                                  *)
Layout(m, rg, t, g, n, ls) ==
  IF m THEN \E st \in [1 .. Len(ls) + 1 -> Nat] :
              Starts(st, ls, n) /\ Messages(rg, t, g, ls, st)
       ELSE ls = <<>> /\ Numbered(rg, t, g, 0, n)

RingOK ==
  /\ sent = Number(got, BytesInBuffer)
  /\ Layout(Message, ring, tail, got, BytesInBuffer, lengths)

(* The writer's idea of the space is never too large, and what it has      *)
(* copied and not published stands behind the head.                        *)
WriterOK ==
  /\ config.writer = "interrupt" => w.at = "idle"
  /\ w.at \in {"wait", "blocked", "unregister", "again", "copy"} => w.space <= SpacesAvailable
  /\ w.at = "publish" =>
       /\ w.count > 0 /\ Prefix + w.count <= SpacesAvailable
       /\ Message => ring[head] = w.count
       /\ Numbered(ring, head, sent, Prefix, w.count)

(* The reader's idea of the bytes is never too large, and includes all of  *)
(* the first message.                                                      *)
ReaderOK ==
  /\ config.reader = "interrupt" => r.at = "idle"
  /\ r.at \in {"try", "wait", "blocked", "unregister", "sample", "copy"} =>
       Prefix <= r.below /\ (config.kind # "batching" => r.below = Prefix)
  /\ r.at = "copy" =>
       /\ r.bytes <= BytesInBuffer
       /\ Message /\ r.bytes > 0 => lengths # <<>> /\ Prefix + Head(lengths) <= r.bytes
  /\ r.at = "publish" =>
       /\ r.data = Bytes(got + Prefix, Len(r.data))
       /\ Len(r.data) > 0 /\ Prefix + Len(r.data) <= BytesInBuffer
       /\ Message => lengths # <<>> /\ Len(r.data) = Head(lengths)

StreamInv == StreamTypeOK /\ config.trigger < Length /\ RingOK /\ WriterOK /\ ReaderOK

(* Who waits and has not been notified has left its handle, and there is   *)
(* not enough for it, or the other side is on its way to notify it.        *)
WriterWoken ==
  w.at \in {"wait", "blocked"} /\ notify["writer"] # "received" =>
    waitingToSend /\ (SpacesAvailable < Required(w.count) \/ r.at = "notify")

ReaderWoken ==
  /\ config.kind # "batching" /\ r.at \in {"wait", "blocked"}
  /\ notify["reader"] # "received"
  => waitingToReceive /\ (BytesInBuffer < config.trigger \/ w.at \in {"check", "notify"})

(* The trigger level is never lowered. *)
LevelOnlyRises ==
  \A n \in NewTriggers, t \in Triggers \cup NewTriggers : (IF n = 0 THEN 1 ELSE n) >= t

-----------------------------------------------------------------------------
(* The ring's indices and the numbers of the bytes wrap at most once.      *)

(* x is n, wrapped once if it reaches m.                                   *)
Wraps(x, n, m) == (n < m => x = n) /\ (n >= m => x = n - m)

LEMMA WrapOnce ==
  ASSUME NEW M \in Nat \ {0}, NEW n \in Nat, n < 2 * M
  PROVE  Wraps(n % M, n, M) /\ n % M \in 0 .. M - 1
BY DEF Wraps

LEMMA WrapBelow ==
  ASSUME NEW M \in Nat \ {0}, NEW a \in 0 .. M - 1, NEW b \in 0 .. M - 1
  PROVE  /\ b <= a => (a - b) % M = a - b
         /\ a < b => (a - b) % M = a - b + M
OBVIOUS

LEMMA SlotWraps ==
  ASSUME StreamBufferAssumption, NEW t \in Index, NEW i \in 0 .. Length
  PROVE  /\ Wraps(Slot(t, i), t + i, Length)
         /\ Slot(t, i) \in Index /\ Slot(t, i) = InRing(t + i)
<1> DEFINE n == t + i
<1>1. /\ Length \in Nat \ {0} /\ n \in Nat /\ n < 2 * Length /\ Slot(t, i) = n % Length
  BY DEF StreamBufferAssumption, Index, Slot
<1> HIDE DEF n
<1>2. Wraps(n % Length, n, Length) /\ n % Length \in 0 .. Length - 1
  BY <1>1, WrapOnce
<1>3. /\ Wraps(Slot(t, i), n, Length)
      /\ Slot(t, i) \in Index /\ Slot(t, i) = InRing(n)
  BY <1>1, <1>2 DEF Wraps, Index, InRing
<1>4. QED
  BY <1>3 DEF n

LEMMA NumberWraps ==
  ASSUME StreamBufferAssumption, NEW g \in Byte, NEW i \in 0 .. Round
  PROVE  Wraps(Number(g, i), g + i, Round) /\ Number(g, i) \in Byte
<1> DEFINE n == g + i
<1>1. /\ Round \in Nat \ {0} /\ n \in Nat /\ n < 2 * Round /\ Number(g, i) = n % Round
  BY DEF StreamBufferAssumption, Byte, Round, Number
<1> HIDE DEF n
<1>2. Wraps(n % Round, n, Round) /\ n % Round \in 0 .. Round - 1
  BY <1>1, WrapOnce
<1>3. Wraps(Number(g, i), n, Round) /\ Number(g, i) \in Byte
  BY <1>1, <1>2 DEF Byte
<1>4. QED
  BY <1>3 DEF n

LEMMA WrapsCompose ==
  ASSUME NEW M \in Nat \ {0}, NEW t \in 0 .. M - 1, NEW d \in Nat, NEW i \in Nat,
         d + i <= M, NEW x \in 0 .. M - 1, NEW y \in Int, NEW z \in Int,
         Wraps(x, t + d, M), Wraps(y, x + i, M), Wraps(z, t + (d + i), M)
  PROVE  y = z
BY DEF Wraps

(* From a cell d places on, the cell i places on                           *)
LEMMA SlotOfSlot ==
  ASSUME StreamBufferAssumption, NEW t \in Index, NEW d \in Nat, NEW i \in Nat,
         d + i <= Length
  PROVE  Slot(Slot(t, d), i) = Slot(t, d + i)
<1>1. /\ d \in 0 .. Length /\ i \in 0 .. Length /\ d + i \in 0 .. Length
      /\ Length \in Nat \ {0} /\ t \in 0 .. Length - 1
  BY DEF StreamBufferAssumption, Index
<1>2. Wraps(Slot(t, d), t + d, Length) /\ Slot(t, d) \in Index
  BY <1>1, SlotWraps
<1>3. /\ Wraps(Slot(Slot(t, d), i), Slot(t, d) + i, Length)
      /\ Wraps(Slot(t, d + i), t + (d + i), Length)
      /\ Slot(Slot(t, d), i) \in Index /\ Slot(t, d + i) \in Index
  BY <1>1, <1>2, SlotWraps
<1>4. \A x \in Index : x \in 0 .. Length - 1 /\ x \in Int
  BY <1>1 DEF Index
<1>5. QED
  BY <1>1, <1>2, <1>3, <1>4, WrapsCompose

LEMMA NumberOfNumber ==
  ASSUME StreamBufferAssumption, NEW g \in Byte, NEW d \in Nat, NEW i \in Nat,
         d + i <= Length
  PROVE  Number(Number(g, d), i) = Number(g, d + i)
<1>1. /\ d \in 0 .. Round /\ i \in 0 .. Round /\ d + i \in 0 .. Round /\ d + i <= Round
      /\ Round \in Nat \ {0} /\ g \in 0 .. Round - 1
  BY DEF StreamBufferAssumption, Round, Byte
<1>2. Wraps(Number(g, d), g + d, Round) /\ Number(g, d) \in Byte
  BY <1>1, NumberWraps
<1>3. /\ Wraps(Number(Number(g, d), i), Number(g, d) + i, Round)
      /\ Wraps(Number(g, d + i), g + (d + i), Round)
      /\ Number(Number(g, d), i) \in Byte /\ Number(g, d + i) \in Byte
  BY <1>1, <1>2, NumberWraps
<1>4. \A x \in Byte : x \in 0 .. Round - 1 /\ x \in Int
  BY <1>1 DEF Byte
<1>5. QED
  BY <1>1, <1>2, <1>3, <1>4, WrapsCompose

(* Cells less than a round apart are different.                            *)
LEMMA SlotsDiffer ==
  ASSUME StreamBufferAssumption, NEW t \in Index, NEW i \in Index, NEW j \in Index,
         Slot(t, i) = Slot(t, j)
  PROVE  i = j
<1>1. /\ i \in 0 .. Length /\ j \in 0 .. Length /\ t \in 0 .. Length - 1
      /\ i \in 0 .. Length - 1 /\ j \in 0 .. Length - 1 /\ Length \in Nat \ {0}
  BY DEF StreamBufferAssumption, Index
<1>2. Wraps(Slot(t, i), t + i, Length) /\ Wraps(Slot(t, j), t + j, Length)
  BY <1>1, SlotWraps
<1>3. QED
  BY <1>1, <1>2 DEF Wraps

(* prvBytesInBuffer and xStreamBufferSpacesAvailable tell how far the head *)
(* is from the tail.                                                       *)
LEMMA RingDistance ==
  ASSUME StreamBufferAssumption, NEW h \in Index, NEW t \in Index
  PROVE  /\ InRing(Length + h - t) \in Index /\ h = Slot(t, InRing(Length + h - t))
         /\ InRing(Length + t - h - 1) = Length - 1 - InRing(Length + h - t)
<1> DEFINE n == InRing(Length + h - t)
<1>1. h \in 0 .. Length - 1 /\ t \in 0 .. Length - 1 /\ Length \in Nat \ {0}
  BY DEF StreamBufferAssumption, Index
<1>2. (t <= h => n = h - t) /\ (h < t => n = Length + h - t)
  BY <1>1 DEF InRing
<1>3. InRing(Length + t - h - 1) = Length - 1 - n
  BY <1>1, <1>2 DEF InRing
<1> HIDE DEF n
<1>4. n \in Index /\ n \in 0 .. Length
  BY <1>1, <1>2 DEF Index
<1>5. Wraps(Slot(t, n), t + n, Length)
  BY <1>4, SlotWraps
<1>6. h = Slot(t, n)
  BY <1>1, <1>2, <1>4, <1>5 DEF Wraps
<1>7. QED
  BY <1>3, <1>4, <1>6 DEF n

(* Conversely, the distance is what head and tail are apart.               *)
LEMMA DistanceIs ==
  ASSUME StreamBufferAssumption, NEW t \in Index, NEW i \in Index
  PROVE  InRing(Length + Slot(t, i) - t) = i
<1>1. /\ i \in 0 .. Length - 1 /\ i \in 0 .. Length /\ t \in 0 .. Length - 1
      /\ Length \in Nat \ {0}
  BY DEF StreamBufferAssumption, Index
<1> DEFINE x == Slot(t, i)
<1>2. Wraps(x, t + i, Length) /\ x \in Index
  BY <1>1, SlotWraps
<1> HIDE DEF x
<1>3. x \in 0 .. Length - 1
  BY <1>2 DEF Index
<1>4. InRing(Length + x - t) = i
  BY <1>1, <1>2, <1>3 DEF InRing, Wraps
<1>5. QED
  BY <1>4 DEF x

-----------------------------------------------------------------------------
(* What the bytes in the ring are: the contents of a buffer and how they   *)
(* change when the writer adds at the end and the reader takes the first.  *)

LEMMA MessagesFit ==
  ASSUME StreamBufferAssumption, NEW n, NEW ls \in Seq(Nat), NEW st, Starts(st, ls, n)
  PROVE  /\ \A i \in 1 .. Len(ls) : /\ st[i] \in Nat /\ ls[i] \in Nat
                                    /\ st[i] + LengthBytes + ls[i] <= n
         /\ n \in Nat /\ Len(ls) \in Nat
<1>1. /\ Len(ls) \in Nat /\ LengthBytes \in Nat
      /\ \A i \in 1 .. Len(ls) : ls[i] \in Nat
  BY ElementOfSeq, LenProperties DEF StreamBufferAssumption
<1>2. \A i \in 1 .. Len(ls) + 1 : st[i] \in Nat /\ st[i] <= n
  BY <1>1 DEF Starts
<1>3. st[Len(ls) + 1] = n /\ Len(ls) + 1 \in 1 .. Len(ls) + 1
  BY <1>1 DEF Starts
<1>4. ASSUME NEW i \in 1 .. Len(ls)
      PROVE  st[i] \in Nat /\ ls[i] \in Nat /\ st[i] + LengthBytes + ls[i] <= n
  <2>1. i \in 1 .. Len(ls) + 1 /\ i + 1 \in 1 .. Len(ls) + 1
    BY <1>1
  <2>2. st[i + 1] = st[i] + LengthBytes + ls[i]
    BY DEF Starts
  <2>3. QED
    BY <1>1, <1>2, <2>1, <2>2
<1>5. n \in Nat
  BY <1>2, <1>3
<1>6. QED
  BY <1>1, <1>4, <1>5

(* The writer does not touch the bytes that are in the ring.               *)
LEMMA LayoutKept ==
  ASSUME StreamBufferAssumption, NEW m \in BOOLEAN, NEW rg, NEW q, NEW t, NEW g,
         NEW n \in Nat, NEW ls \in Seq(Nat), Layout(m, rg, t, g, n, ls),
         \A j \in 0 .. n - 1 : q[Slot(t, j)] = rg[Slot(t, j)]
  PROVE  Layout(m, q, t, g, n, ls)
<1>1. CASE ~m
  BY <1>1 DEF Layout, Numbered
<1>2. CASE m
  <2>1. PICK st \in [1 .. Len(ls) + 1 -> Nat] :
               Starts(st, ls, n) /\ Messages(rg, t, g, ls, st)
    BY <1>2 DEF Layout
  <2>2. ASSUME NEW i \in 1 .. Len(ls)
        PROVE  /\ q[Slot(t, st[i])] = ls[i]
               /\ Numbered(q, t, g, st[i] + LengthBytes, ls[i])
    <3>1. /\ st[i] \in Nat /\ ls[i] \in Nat /\ LengthBytes \in Nat \ {0}
          /\ st[i] + LengthBytes + ls[i] <= n
      BY <2>1, MessagesFit DEF StreamBufferAssumption
    <3>2. /\ rg[Slot(t, st[i])] = ls[i]
          /\ Numbered(rg, t, g, st[i] + LengthBytes, ls[i])
      BY <2>1 DEF Messages
    <3>3. st[i] \in 0 .. n - 1
      BY <3>1
    <3>4. \A j \in st[i] + LengthBytes .. st[i] + LengthBytes + ls[i] - 1 : j \in 0 .. n - 1
      BY <3>1
    <3>5. QED
      BY <3>2, <3>3, <3>4 DEF Numbered
  <2>3. Messages(q, t, g, ls, st)
    BY <2>2 DEF Messages
  <2>4. QED
    BY <1>2, <2>1, <2>3 DEF Layout
<1>3. QED
  BY <1>1, <1>2

(* The numbers do not depend on where one starts to count.                 *)
LEMMA NumberedShift ==
  ASSUME StreamBufferAssumption, NEW rg, NEW t \in Index, NEW g \in Byte,
         NEW d \in Nat, NEW x \in Nat, NEW n \in Nat, d + x + n <= Length
  PROVE  Numbered(rg, t, g, d + x, n) <=>
           Numbered(rg, Slot(t, d), Number(g, d), x, n)
<1>1. ASSUME NEW j \in x .. x + n - 1
      PROVE  /\ Slot(Slot(t, d), j) = Slot(t, d + j)
             /\ Number(Number(g, d), j) = Number(g, d + j)
             /\ d + j \in d + x .. d + x + n - 1
  <2>1. j \in Nat /\ d + j <= Length /\ d + j \in d + x .. d + x + n - 1
    BY DEF StreamBufferAssumption
  <2>2. QED
    BY <2>1, SlotOfSlot, NumberOfNumber
<1>2. ASSUME NEW i \in d + x .. d + x + n - 1
      PROVE  i - d \in x .. x + n - 1 /\ d + (i - d) = i
  OBVIOUS
<1>3. QED
  BY <1>1, <1>2 DEF Numbered

LEMMA LayoutEmpty ==
  ASSUME StreamBufferAssumption, NEW m \in BOOLEAN, NEW rg, NEW t, NEW g
  PROVE  Layout(m, rg, t, g, 0, <<>>)
<1> DEFINE st == [i \in 1 .. 1 |-> 0]
<1>1. Len(<<>>) = 0
  OBVIOUS
<1>2. st \in [1 .. Len(<<>>) + 1 -> Nat]
  BY <1>1
<1>3. Starts(st, <<>>, 0) /\ Messages(rg, t, g, <<>>, st)
  BY <1>1 DEF Starts, Messages
<1> HIDE DEF st
<1>4. CASE m
  BY <1>2, <1>3, <1>4 DEF Layout
<1>5. CASE ~m
  BY <1>5 DEF Layout, Numbered
<1>6. QED
  BY <1>4, <1>5

(* The writer adds c bytes at the end, after the length of the message.    *)
LEMMA StreamGrows ==
  ASSUME StreamBufferAssumption, NEW rg, NEW t, NEW g, NEW n \in Nat, NEW c \in Nat,
         Layout(FALSE, rg, t, g, n, <<>>), Numbered(rg, t, g, n, c)
  PROVE  Layout(FALSE, rg, t, g, n + c, <<>>)
<1>1. Numbered(rg, t, g, 0, n)
  BY DEF Layout
<1>2. ASSUME NEW j \in 0 .. 0 + (n + c) - 1
      PROVE  j \in 0 .. 0 + n - 1 \/ j \in n .. n + c - 1
  OBVIOUS
<1>3. Numbered(rg, t, g, 0, n + c)
  BY <1>1, <1>2 DEF Numbered
<1>4. QED
  BY <1>3 DEF Layout

LEMMA MessageAppended ==
  ASSUME StreamBufferAssumption, NEW rg, NEW t, NEW g, NEW n, NEW c \in Nat \ {0},
         NEW ls \in Seq(Nat), Layout(TRUE, rg, t, g, n, ls),
         rg[Slot(t, n)] = c, Numbered(rg, t, g, n + LengthBytes, c)
  PROVE  Layout(TRUE, rg, t, g, n + LengthBytes + c, Append(ls, c))
<1> DEFINE s == Append(ls, c)
           l == Len(ls)
           e == n + LengthBytes + c
<1>1. PICK st \in [1 .. l + 1 -> Nat] : Starts(st, ls, n) /\ Messages(rg, t, g, ls, st)
  BY DEF Layout
<1>2. /\ l \in Nat /\ Len(s) = l + 1 /\ s[l + 1] = c
      /\ \A i \in 1 .. l : s[i] = ls[i]
  BY AppendProperties, LenProperties
<1>3. n \in Nat /\ LengthBytes \in Nat \ {0} /\ e \in Nat /\ n <= e
  <2>1. n \in Nat
    BY <1>1, MessagesFit
  <2>2. QED
    BY <2>1 DEF StreamBufferAssumption
<1>4. /\ st[1] = 0 /\ st[l + 1] = n
      /\ \A i \in 1 .. l : st[i + 1] = st[i] + LengthBytes + ls[i] /\ ls[i] > 0
      /\ \A i, j \in 1 .. l + 1 : i <= j => st[i] <= st[j]
  BY <1>1 DEF Starts
<1> DEFINE u == [i \in 1 .. l + 2 |-> IF i <= l + 1 THEN st[i] ELSE e]
<1>5. /\ u \in [1 .. Len(s) + 1 -> Nat] /\ u[l + 2] = e
      /\ \A i \in 1 .. l + 1 : u[i] = st[i] /\ u[i] \in Nat
  <2> HIDE DEF e, s
  <2>1. Len(s) + 1 = l + 2 /\ l + 2 \in 1 .. l + 2 /\ ~(l + 2 <= l + 1)
    BY <1>2
  <2>2. \A i \in 1 .. l + 1 : i \in 1 .. l + 2 /\ i <= l + 1 /\ st[i] \in Nat
    BY <1>1, <1>2
  <2>3. \A i \in 1 .. l + 2 : i <= l + 1 => i \in 1 .. l + 1
    BY <1>2
  <2>4. u \in [1 .. l + 2 -> Nat]
    BY <1>3, <2>2, <2>3
  <2>5. u[l + 2] = e /\ \A i \in 1 .. l + 1 : u[i] = st[i]
    BY <2>1, <2>2
  <2>6. QED
    BY <2>1, <2>2, <2>4, <2>5
<1> HIDE DEF u, s
<1>6. \A i \in 1 .. Len(s) : u[i + 1] = u[i] + LengthBytes + s[i] /\ s[i] > 0
  <2>1. ASSUME NEW i \in 1 .. l
        PROVE  u[i + 1] = u[i] + LengthBytes + s[i] /\ s[i] > 0
    <3>1. i \in 1 .. l + 1 /\ i + 1 \in 1 .. l + 1
      BY <1>2
    <3>2. u[i + 1] = st[i + 1] /\ u[i] = st[i] /\ s[i] = ls[i]
      BY <1>2, <1>5, <3>1
    <3>3. QED
      BY <1>4, <3>2
  <2>2. u[(l + 1) + 1] = u[l + 1] + LengthBytes + s[l + 1] /\ s[l + 1] > 0
    <3>1. (l + 1) + 1 = l + 2 /\ l + 1 \in 1 .. l + 1
      BY <1>2
    <3>2. u[l + 1] = n
      BY <1>4, <1>5, <3>1
    <3>3. QED
      BY <1>2, <1>3, <1>5, <3>1, <3>2
  <2>3. \A i \in 1 .. l + 1 : i \in 1 .. l \/ i = l + 1
    BY <1>2
  <2>4. QED
    BY <1>2, <2>1, <2>2, <2>3
<1>7. \A i, j \in 1 .. Len(s) + 1 : i <= j => u[i] <= u[j]
  <2>1. \A i \in 1 .. l + 1 : u[i] <= e
    <3>1. \A i \in 1 .. l + 1 : i <= l + 1 /\ l + 1 \in 1 .. l + 1
      BY <1>2
    <3>2. \A i \in 1 .. l + 1 : st[i] <= n /\ st[i] \in Nat
      BY <1>1, <1>4, <3>1
    <3>3. QED
      BY <1>3, <1>5, <3>2
  <2>2. \A i \in 1 .. l + 2 : i \in 1 .. l + 1 \/ i = l + 2
    BY <1>2
  <2>3. \A i \in 1 .. l + 1 : ~(l + 2 <= i)
    BY <1>2
  <2>4. e <= e /\ Len(s) + 1 = l + 2
    BY <1>2, <1>3
  <2> HIDE DEF e
  <2>5. QED
    BY <1>4, <1>5, <2>1, <2>2, <2>3, <2>4
<1>8. Starts(u, s, e)
  <2>1. Len(s) + 1 = l + 2 /\ 1 \in 1 .. l + 1
    BY <1>2
  <2>2. QED
    BY <1>4, <1>5, <1>6, <1>7, <2>1 DEF Starts
<1>9. Messages(rg, t, g, s, u)
  <2>1. ASSUME NEW i \in 1 .. l
        PROVE  rg[Slot(t, u[i])] = s[i] /\ Numbered(rg, t, g, u[i] + LengthBytes, s[i])
    <3>1. i \in 1 .. l + 1
      BY <1>2
    <3>2. QED
      BY <1>1, <1>2, <1>5, <3>1 DEF Messages
  <2>2. /\ rg[Slot(t, u[l + 1])] = s[l + 1]
        /\ Numbered(rg, t, g, u[l + 1] + LengthBytes, s[l + 1])
    <3>1. l + 1 \in 1 .. l + 1
      BY <1>2
    <3>2. u[l + 1] = n
      BY <1>4, <1>5, <3>1
    <3>3. QED
      BY <1>2, <3>2
  <2>3. \A i \in 1 .. Len(s) : i \in 1 .. l \/ i = l + 1
    BY <1>2
  <2>4. QED
    BY <2>1, <2>2, <2>3 DEF Messages
<1>10. QED
  BY <1>5, <1>8, <1>9 DEF Layout, s

LEMMA LayoutExtended ==
  ASSUME StreamBufferAssumption, NEW m \in BOOLEAN, NEW q, NEW t, NEW g, NEW b \in Nat,
         NEW n \in Nat \ {0}, NEW ls \in Seq(Nat), Layout(m, q, t, g, b, ls),
         NEW x \in Nat, m => b + LengthBytes = x, ~m => b = x, NEW e \in Nat, x + n = e,
         m => q[Slot(t, b)] = n, Numbered(q, t, g, x, n)
  PROVE  Layout(m, q, t, g, e, IF m THEN Append(ls, n) ELSE ls)
<1> DEFINE s == IF m THEN Append(ls, n) ELSE ls
<1>1. ASSUME m = TRUE
      PROVE  Layout(TRUE, q, t, g, e, s)
  <2>1. Layout(TRUE, q, t, g, b, ls) /\ q[Slot(t, b)] = n /\ b + LengthBytes = x
    BY <1>1
  <2>2. Layout(TRUE, q, t, g, b + LengthBytes + n, Append(ls, n))
    BY <2>1, MessageAppended
  <2>3. b + LengthBytes + n = e
    BY <2>1
  <2>4. Layout(TRUE, q, t, g, e, Append(ls, n))
    BY <2>2, <2>3, Zenon
  <2>5. s = Append(ls, n)
    BY <1>1
  <2>6. QED
    BY <2>4, <2>5, Zenon
<1>2. ASSUME m = FALSE
      PROVE  Layout(FALSE, q, t, g, e, s)
  <2>1. Layout(FALSE, q, t, g, b, ls) /\ b = x
    BY <1>2, Zenon
  <2>2. ls = <<>> /\ Numbered(q, t, g, b, n)
    BY <2>1 DEF Layout
  <2>3. Layout(FALSE, q, t, g, b + n, <<>>)
    BY <2>1, <2>2, StreamGrows
  <2>4. b + n = e
    BY <2>1
  <2>5. s = <<>>
    BY <1>2, <2>2
  <2>6. QED
    BY <2>3, <2>4, <2>5, Zenon
<1> HIDE DEF s
<1>3. Layout(m, q, t, g, e, s)
  BY <1>1, <1>2
<1>4. QED
  BY <1>3 DEF s

(* The first message is all there, behind its length.                      *)
LEMMA FirstMessage ==
  ASSUME StreamBufferAssumption, NEW rg, NEW t \in Index, NEW g, NEW n,
         NEW ls \in Seq(Nat), Layout(TRUE, rg, t, g, n, ls)
  PROVE  /\ n \in Nat /\ ls = <<>> => n = 0
         /\ ls # <<>> => /\ Head(ls) \in Nat \ {0} /\ LengthBytes + Head(ls) <= n
                         /\ rg[t] = Head(ls) /\ Numbered(rg, t, g, LengthBytes, Head(ls))
<1>1. PICK st \in [1 .. Len(ls) + 1 -> Nat] : Starts(st, ls, n) /\ Messages(rg, t, g, ls, st)
  BY DEF Layout
<1>2. n \in Nat /\ LengthBytes \in Nat \ {0} /\ st[1] = 0 /\ st[Len(ls) + 1] = n
  BY <1>1, MessagesFit DEF Starts, StreamBufferAssumption
<1>3. ls = <<>> => n = 0
  BY <1>2
<1>4. ASSUME ls # <<>>
      PROVE  /\ Head(ls) \in Nat \ {0} /\ LengthBytes + Head(ls) <= n
             /\ rg[t] = Head(ls) /\ Numbered(rg, t, g, LengthBytes, Head(ls))
  <2>1. Len(ls) \in Nat \ {0} /\ 1 \in 1 .. Len(ls) /\ Head(ls) = ls[1]
    BY <1>4, EmptySeq, LenProperties
  <2>2. /\ ls[1] \in Nat /\ ls[1] > 0 /\ st[1] + LengthBytes + ls[1] <= n
    BY <1>1, <2>1, MessagesFit DEF Starts
  <2>3. /\ rg[Slot(t, 0)] = ls[1] /\ Numbered(rg, t, g, 0 + LengthBytes, ls[1])
    BY <1>1, <1>2, <2>1 DEF Messages
  <2>4. Slot(t, 0) = t /\ 0 + LengthBytes = LengthBytes
    BY <1>2 DEF Slot, Index, StreamBufferAssumption
  <2>5. QED
    BY <1>2, <2>1, <2>2, <2>3, <2>4
<1>5. QED
  BY <1>2, <1>3, <1>4

(* The reader takes d bytes of a stream, or the first message.             *)
LEMMA StreamTaken ==
  ASSUME StreamBufferAssumption, NEW rg, NEW t \in Index, NEW g \in Byte, NEW n \in Index,
         Layout(FALSE, rg, t, g, n, <<>>), NEW d \in 0 .. n
  PROVE  Layout(FALSE, rg, Slot(t, d), Number(g, d), n - d, <<>>)
<1>1. /\ d \in Nat /\ n - d \in Nat /\ 0 \in Nat /\ d + 0 + (n - d) <= Length
      /\ d + 0 + (n - d) = n
  BY DEF Index, StreamBufferAssumption
<1>2. Numbered(rg, t, g, 0, n)
  BY DEF Layout
<1>3. \A j \in d + 0 .. d + 0 + (n - d) - 1 : j \in 0 .. 0 + n - 1
  BY <1>1 DEF Index
<1>4. Numbered(rg, t, g, d + 0, n - d)
  BY <1>2, <1>3 DEF Numbered
<1>5. Numbered(rg, Slot(t, d), Number(g, d), 0, n - d)
  BY <1>1, <1>4, NumberedShift
<1>6. QED
  BY <1>5 DEF Layout

LEMMA MessageTaken ==
  ASSUME StreamBufferAssumption, NEW rg, NEW t \in Index, NEW g \in Byte, NEW n \in Index,
         NEW ls \in Seq(Nat), Layout(TRUE, rg, t, g, n, ls), ls # <<>>,
         NEW d \in Nat, LengthBytes + Head(ls) = d
  PROVE  /\ d \in 0 .. n
         /\ Layout(TRUE, rg, Slot(t, d), Number(g, d), n - d, Tail(ls))
<1> DEFINE l == Len(ls)
           s == Tail(ls)
<1>1. PICK st \in [1 .. l + 1 -> Nat] : Starts(st, ls, n) /\ Messages(rg, t, g, ls, st)
  BY DEF Layout
<1>2. /\ l \in Nat \ {0} /\ Len(s) = l - 1 /\ s \in Seq(Nat) /\ Head(ls) = ls[1]
      /\ \A i \in 1 .. l - 1 : s[i] = ls[i + 1]
  BY HeadTailProperties, EmptySeq, LenProperties
<1>3. \A i \in 1 .. l : st[i] \in Nat /\ ls[i] \in Nat /\ st[i] + LengthBytes + ls[i] <= n
  BY <1>1, MessagesFit
<1>4. /\ st[1] = 0 /\ st[l + 1] = n
      /\ \A i \in 1 .. l : st[i + 1] = st[i] + LengthBytes + ls[i] /\ ls[i] > 0
      /\ \A i, j \in 1 .. l + 1 : i <= j => st[i] <= st[j]
  BY <1>1 DEF Starts
<1>5. LengthBytes \in Nat \ {0} /\ Length \in Nat /\ n \in Nat /\ n <= Length
  BY DEF StreamBufferAssumption, Index
<1>6. d \in Nat /\ d <= n /\ st[2] = d /\ n - d \in Nat
  <2>1. 1 \in 1 .. l /\ 1 + 1 = 2
    BY <1>2
  <2>2. st[2] = st[1] + LengthBytes + ls[1] /\ ls[1] \in Nat /\ st[1] + LengthBytes + ls[1] <= n
    BY <1>3, <1>4, <2>1
  <2>3. QED
    BY <1>2, <1>4, <1>5, <2>2
<1>7. \A i \in 1 .. l : i + 1 \in 1 .. l + 1 /\ st[i + 1] \in Nat /\ d <= st[i + 1]
  <2>1. ASSUME NEW i \in 1 .. l
        PROVE  i + 1 \in 1 .. l + 1 /\ st[i + 1] \in Nat /\ d <= st[i + 1]
    <3>1. i + 1 \in 1 .. l + 1 /\ 2 \in 1 .. l + 1 /\ 2 <= i + 1
      BY <1>2
    <3>2. QED
      BY <1>1, <1>4, <1>6, <3>1
  <2>2. QED
    BY <2>1
<1> DEFINE v == [i \in 1 .. l |-> st[i + 1] - d]
<1>8. v \in [1 .. Len(s) + 1 -> Nat]
  <2>1. Len(s) + 1 = l
    BY <1>2
  <2>2. \A i \in 1 .. l : st[i + 1] - d \in Nat
    BY <1>6, <1>7
  <2>3. QED
    BY <2>1, <2>2
<1>9. \A i \in 1 .. l : v[i] = st[i + 1] - d
  OBVIOUS
<1> HIDE DEF v, s
<1>10. Starts(v, s, n - d)
  <2>1. v[1] = 0 /\ v[Len(s) + 1] = n - d
    <3>1. 1 \in 1 .. l /\ l \in 1 .. l /\ Len(s) + 1 = l /\ 1 + 1 = 2
      BY <1>2
    <3>2. QED
      BY <1>4, <1>6, <1>9, <3>1
  <2>2. \A i \in 1 .. Len(s) : v[i + 1] = v[i] + LengthBytes + s[i] /\ s[i] > 0
    <3>1. ASSUME NEW i \in 1 .. Len(s)
          PROVE  v[i + 1] = v[i] + LengthBytes + s[i] /\ s[i] > 0
      <4>1. i \in 1 .. l - 1 /\ i \in 1 .. l /\ i + 1 \in 1 .. l /\ i \in Int
        BY <1>2
      <4>2. /\ st[(i + 1) + 1] = st[i + 1] + LengthBytes + ls[i + 1] /\ ls[i + 1] > 0
            /\ st[i + 1] \in Nat /\ ls[i + 1] \in Nat
        BY <1>3, <1>4, <4>1
      <4>3. v[i + 1] = st[(i + 1) + 1] - d /\ v[i] = st[i + 1] - d /\ s[i] = ls[i + 1]
        BY <1>2, <1>9, <4>1
      <4>4. QED
        BY <1>5, <1>6, <4>2, <4>3, SMTT(30)
    <3>2. QED
      BY <3>1
  <2>3. \A i, j \in 1 .. Len(s) + 1 : i <= j => v[i] <= v[j]
    <3>1. ASSUME NEW i \in 1 .. l, NEW j \in 1 .. l, i <= j
          PROVE  v[i] <= v[j]
      <4>1. i + 1 \in 1 .. l + 1 /\ j + 1 \in 1 .. l + 1 /\ i + 1 <= j + 1
        BY <1>2, <3>1
      <4>2. st[i + 1] <= st[j + 1] /\ st[i + 1] \in Nat /\ st[j + 1] \in Nat
        BY <1>4, <1>7, <4>1
      <4>3. v[i] = st[i + 1] - d /\ v[j] = st[j + 1] - d
        BY <1>9
      <4>4. QED
        BY <4>2, <4>3
    <3>2. Len(s) + 1 = l
      BY <1>2
    <3>3. QED
      BY <3>1, <3>2
  <2>4. QED
    BY <1>8, <2>1, <2>2, <2>3 DEF Starts
<1>11. Messages(rg, Slot(t, d), Number(g, d), s, v)
  <2>1. ASSUME NEW i \in 1 .. Len(s)
        PROVE  /\ rg[Slot(Slot(t, d), v[i])] = s[i]
               /\ Numbered(rg, Slot(t, d), Number(g, d), v[i] + LengthBytes, s[i])
    <3>1. i \in 1 .. l /\ i + 1 \in 1 .. l /\ i \in 1 .. l - 1
      BY <1>2
    <3>2. /\ v[i] = st[i + 1] - d /\ s[i] = ls[i + 1]
          /\ st[i + 1] \in Nat /\ d <= st[i + 1] /\ ls[i + 1] \in Nat
          /\ st[i + 1] + LengthBytes + ls[i + 1] <= n
      BY <1>2, <1>3, <1>7, <1>9, <3>1
    <3>3. /\ rg[Slot(t, st[i + 1])] = ls[i + 1]
          /\ Numbered(rg, t, g, st[i + 1] + LengthBytes, ls[i + 1])
      BY <1>1, <3>1 DEF Messages
    <3> DEFINE x == v[i]
               a == st[i + 1]
               c == ls[i + 1]
    <3>4. x = a - d /\ d <= a /\ a \in Nat /\ c \in Nat /\ a + LengthBytes + c <= n
      BY <3>2
    <3> HIDE DEF x, a, c
    <3>5. /\ x \in Nat /\ d + x = a /\ d + x <= Length /\ x + LengthBytes \in Nat
          /\ d + (x + LengthBytes) = a + LengthBytes
          /\ d + (x + LengthBytes) + c <= Length
      BY <1>5, <3>4
    <3>6. Slot(Slot(t, d), x) = Slot(t, a)
      BY <3>5, SlotOfSlot
    <3>7. Numbered(rg, Slot(t, d), Number(g, d), x + LengthBytes, c)
      BY <3>3, <3>4, <3>5, NumberedShift DEF a, c
    <3>8. QED
      BY <3>2, <3>3, <3>6, <3>7 DEF x, a, c
  <2>2. QED
    BY <2>1 DEF Messages
<1>12. QED
  BY <1>6, <1>8, <1>10, <1>11 DEF Layout, s

-----------------------------------------------------------------------------
(* What is copied into the ring and out of it.                             *)

LEMMA LenOfFcn ==
  ASSUME NEW S, NEW n \in Nat, NEW f \in [1 .. n -> S]
  PROVE  f \in Seq(S) /\ Len(f) = n
BY IsASeq, LenProperties

LEMMA Remainder ==
  ASSUME NEW M \in Nat \ {0}, NEW n \in Nat
  PROVE  n % M \in 0 .. M - 1
OBVIOUS

(* n bytes, numbered on from the one y after x                             *)
LEMMA BytesAre ==
  ASSUME StreamBufferAssumption, NEW x \in Nat, NEW y \in Nat, NEW n \in Nat
  PROVE  /\ Bytes(x + y, n) \in Seq(Nat) /\ Len(Bytes(x + y, n)) = n
         /\ \A k \in 1 .. n : Bytes(x + y, n)[k] = Number(x, y + k - 1)
<1>1. Round \in Nat \ {0}
  BY DEF StreamBufferAssumption, Round
<1>2. ASSUME NEW k \in 1 .. n
      PROVE  (x + y + k - 1) % Round \in Nat /\ (x + y + k - 1) % Round = Number(x, y + k - 1)
  <2>1. x + y + k - 1 \in Nat /\ x + y + k - 1 = x + (y + k - 1)
    OBVIOUS
  <2>2. QED
    BY <1>1, <2>1, Remainder DEF Number
<1>3. Bytes(x + y, n) \in [1 .. n -> Nat]
  BY <1>2 DEF Bytes
<1>4. QED
  BY <1>2, <1>3, LenOfFcn DEF Bytes

(* What is read from numbered cells are the numbered bytes.                *)
LEMMA ReadAre ==
  ASSUME StreamBufferAssumption, NEW t \in Nat, NEW g \in Nat, NEW y \in Nat, NEW n \in Nat,
         Numbered(ring, t, g, y, n)
  PROVE  Read(t + y, n) = Bytes(g + y, n)
<1>1. ASSUME NEW k \in 1 .. n
      PROVE  ring[(t + y + k - 1) % Length] = (g + y + k - 1) % Round
  <2>1. /\ y + k - 1 \in y .. y + n - 1
        /\ t + y + k - 1 = t + (y + k - 1) /\ g + y + k - 1 = g + (y + k - 1)
    OBVIOUS
  <2>2. ring[Slot(t, y + k - 1)] = Number(g, y + k - 1)
    BY <2>1 DEF Numbered
  <2>3. QED
    BY <2>1, <2>2 DEF Slot, Number
<1>2. QED
  BY <1>1 DEF Read, Bytes

LEMMA OffsetOf ==
  ASSUME StreamBufferAssumption, NEW t \in Index, NEW x \in Index
  PROVE  (Slot(t, x) - t) % Length = x
<1>1. /\ x \in 0 .. Length - 1 /\ x \in 0 .. Length /\ t \in 0 .. Length - 1
      /\ Length \in Nat \ {0}
  BY DEF StreamBufferAssumption, Index
<1> DEFINE y == Slot(t, x)
<1>2. Wraps(y, t + x, Length) /\ y \in Index
  BY <1>1, SlotWraps
<1> HIDE DEF y
<1>3. y \in 0 .. Length - 1
  BY <1>2 DEF Index
<1>4. /\ t <= y => (y - t) % Length = y - t
      /\ y < t => (y - t) % Length = y - t + Length
  BY <1>1, <1>3, WrapBelow
<1>5. (y - t) % Length = x
  BY <1>1, <1>2, <1>3, <1>4 DEF Wraps
<1>6. QED
  BY <1>5 DEF y

(* prvWriteBytesToBuffer writes its data from the i-th cell on.            *)
LEMMA WrittenAt ==
  ASSUME StreamBufferAssumption, NEW data \in Seq(Nat), NEW i \in Index, NEW x \in Index
  PROVE  Written(data, i)[Slot(i, x)] =
           IF x < Len(data) THEN data[x + 1] ELSE ring[Slot(i, x)]
<1>1. Slot(i, x) \in Index /\ (Slot(i, x) - i) % Length = x
  <2>1. x \in 0 .. Length
    BY DEF StreamBufferAssumption, Index
  <2>2. QED
    BY <2>1, SlotWraps, OffsetOf
<1>2. QED
  BY <1>1 DEF Written

LEMMA CellsAre ==
  ASSUME StreamBufferAssumption, NEW n \in Nat, sent \in Byte
  PROVE  /\ Prefix \in Nat /\ Cells(n) \in Seq(Nat) /\ Len(Cells(n)) = Prefix + n
         /\ Message => Prefix > 0 /\ Cells(n)[1] = n
         /\ \A j \in Prefix .. Prefix + n - 1 : Cells(n)[j + 1] = Number(sent, j)
<1>1. LengthBytes \in Nat \ {0} /\ sent \in Nat
  BY DEF StreamBufferAssumption, Byte, Round
<1> DEFINE z == [k \in 1 .. LengthBytes - 1 |-> 0]
           a == <<n>> \o z
           c == IF Message THEN a ELSE <<>>
           b == Bytes(sent + Prefix, n)
<1>2. z \in Seq(Nat) /\ Len(z) = LengthBytes - 1
  <2>1. z \in [1 .. LengthBytes - 1 -> Nat] /\ LengthBytes - 1 \in Nat
    BY <1>1
  <2> HIDE DEF z
  <2>2. QED
    BY <2>1, LenOfFcn
<1> HIDE DEF z
<1>3. a \in Seq(Nat) /\ Len(a) = LengthBytes /\ a[1] = n
  <2>1. <<n>> \in Seq(Nat) /\ Len(<<n>>) = 1 /\ <<n>>[1] = n
    OBVIOUS
  <2>2. a \in Seq(Nat) /\ Len(a) = 1 + (LengthBytes - 1) /\ a[1] = n
    BY <1>1, <1>2, <2>1, ConcatProperties
  <2>3. QED
    BY <1>1, <2>2
<1> HIDE DEF a
<1>4. Prefix \in Nat /\ c \in Seq(Nat) /\ Len(c) = Prefix
      /\ (Message => Prefix > 0 /\ c[1] = n)
  BY <1>1, <1>3 DEF Prefix
<1>5. /\ b \in Seq(Nat) /\ Len(b) = n
      /\ \A k \in 1 .. n : b[k] = Number(sent, Prefix + k - 1)
  <2>1. sent \in Nat /\ Prefix \in Nat
    BY <1>1, <1>4
  <2>2. QED
    BY <2>1, BytesAre
<1>6. Cells(n) = c \o b
  BY DEF Cells, a, z
<1> HIDE DEF c, b
<1>7. /\ Cells(n) \in Seq(Nat) /\ Len(Cells(n)) = Prefix + n
      /\ \A i \in 1 .. Prefix + n :
           Cells(n)[i] = IF i <= Prefix THEN c[i] ELSE b[i - Prefix]
  <2>1. /\ c \o b \in Seq(Nat) /\ Len(c \o b) = Len(c) + Len(b)
        /\ \A i \in 1 .. Len(c) + Len(b) :
             (c \o b)[i] = IF i <= Len(c) THEN c[i] ELSE b[i - Len(c)]
    BY <1>4, <1>5, ConcatProperties
  <2>2. Len(c) = Prefix /\ Len(b) = n
    BY <1>4, <1>5
  <2>3. QED
    BY <1>6, <2>1, <2>2, Zenon
<1>8. Message => Cells(n)[1] = n
  BY <1>4, <1>7
<1>9. ASSUME NEW j \in Prefix .. Prefix + n - 1
      PROVE  Cells(n)[j + 1] = Number(sent, j)
  <2> DEFINE i == j + 1
             k == i - Prefix
  <2>1. i \in 1 .. Prefix + n /\ ~(i <= Prefix)
    BY <1>4
  <2> HIDE DEF i
  <2>2. Cells(n)[i] = b[k]
    BY <1>7, <2>1
  <2> USE DEF i
  <2>3. k \in 1 .. n /\ Prefix + k - 1 = j
    BY <1>4
  <2> HIDE DEF k
  <2>4. b[k] = Number(sent, Prefix + k - 1)
    BY <1>5, <2>3
  <2>5. QED
    BY <2>2, <2>3, <2>4 DEF k
<1>10. QED
  BY <1>4, <1>7, <1>8, <1>9

-----------------------------------------------------------------------------
(* The three steps that change the ring: the writer copies, the writer     *)
(* moves the head, the reader moves the tail.                              *)

Cursors ==
  /\ head \in Index /\ tail \in Index /\ sent \in Byte /\ got \in Byte
  /\ ring \in [Index -> Nat] /\ lengths \in Seq(Index)

LEMMA Distances ==
  ASSUME StreamBufferAssumption, Cursors
  PROVE  /\ BytesInBuffer \in Index /\ SpacesAvailable \in Index
         /\ SpacesAvailable = Length - 1 - BytesInBuffer
         /\ head = Slot(tail, BytesInBuffer)
<1>1. /\ BytesInBuffer \in Index /\ head = Slot(tail, BytesInBuffer)
      /\ SpacesAvailable = Length - 1 - BytesInBuffer
  BY RingDistance DEF Cursors, BytesInBuffer, SpacesAvailable
<1>2. QED
  BY <1>1 DEF StreamBufferAssumption, Index

LEMMA Copied ==
  ASSUME StreamBufferAssumption, Cursors, NEW n \in Nat \ {0},
         Prefix + n <= SpacesAvailable, NEW q, q = Written(Cells(n), head)
  PROVE  /\ q \in [Index -> Nat] /\ (Message => q[head] = n)
         /\ Numbered(q, head, sent, Prefix, n)
         /\ \A j \in 0 .. BytesInBuffer - 1 : q[Slot(tail, j)] = ring[Slot(tail, j)]
<1> DEFINE c == Cells(n)
           b == BytesInBuffer
<1>1. /\ head \in Index /\ tail \in Index /\ ring \in [Index -> Nat] /\ sent \in Byte
      /\ Length \in Nat \ {0, 1} /\ n \in Nat
  BY DEF Cursors, StreamBufferAssumption
<1>2. /\ Prefix \in Nat /\ c \in Seq(Nat) /\ Len(c) = Prefix + n
      /\ (Message => Prefix > 0 /\ c[1] = n)
      /\ \A j \in Prefix .. Prefix + n - 1 : c[j + 1] = Number(sent, j)
  BY <1>1, CellsAre
<1>3. b \in Index /\ head = Slot(tail, b) /\ SpacesAvailable = Length - 1 - b
  BY Distances
<1> HIDE DEF c, b
<1>4. ASSUME NEW x \in Index
      PROVE  q[Slot(head, x)] = IF x < Prefix + n THEN c[x + 1] ELSE ring[Slot(head, x)]
  BY <1>1, <1>2, WrittenAt DEF c
<1>5. \A y \in Index : \E x \in Index : y = Slot(head, x)
  BY <1>1, RingDistance
<1>6. q \in [Index -> Nat]
  <2>1. ASSUME NEW y \in Index
        PROVE  q[y] \in Nat
    <3>1. PICK x \in Index : y = Slot(head, x)
      BY <1>5
    <3>2. CASE x < Prefix + n
      <4>1. x + 1 \in 1 .. Len(c)
        BY <1>2, <3>2 DEF Index
      <4>2. QED
        BY <1>2, <1>4, <3>1, <3>2, <4>1, ElementOfSeq
    <3>3. CASE ~(x < Prefix + n)
      BY <1>1, <1>4, <3>1, <3>3
    <3>4. QED
      BY <3>2, <3>3
  <2>2. DOMAIN q = Index /\ q = [y \in Index |-> q[y]]
    BY DEF Written
  <2>3. QED
    BY <2>1, <2>2
<1>7. Message => q[head] = n
  <2>1. ASSUME Message
        PROVE  q[head] = n
    <3>1. 0 \in Index /\ 0 < Prefix + n
      BY <1>1, <1>2 DEF Index
    <3>2. Slot(head, 0) = head
      BY <1>1 DEF Index, Slot
    <3>3. q[Slot(head, 0)] = c[0 + 1]
      BY <1>4, <3>1
    <3>4. 0 + 1 = 1 /\ c[1] = n
      BY <1>2, <2>1
    <3>5. q[Slot(head, 0)] = n
      BY <3>3, <3>4
    <3>6. QED
      BY <3>2, <3>5
  <2>2. QED
    BY <2>1
<1>8. Numbered(q, head, sent, Prefix, n)
  <2>1. ASSUME NEW j \in Prefix .. Prefix + n - 1
        PROVE  q[Slot(head, j)] = Number(sent, j)
    <3>1. j \in Index /\ j < Prefix + n
      BY <1>1, <1>2, <1>3 DEF Index
    <3>2. QED
      BY <1>2, <1>4, <3>1
  <2>2. QED
    BY <2>1 DEF Numbered
<1>9. ASSUME NEW j \in 0 .. b - 1
      PROVE  q[Slot(tail, j)] = ring[Slot(tail, j)]
  <2>1. j \in Index /\ j \in 0 .. Length /\ j < b
    BY <1>1, <1>3 DEF Index
  <2>2. Slot(tail, j) \in Index
    BY <1>1, <2>1, SlotWraps
  <2>3. PICK x \in Index : Slot(tail, j) = Slot(head, x)
    BY <1>5, <2>2
  <2>4. ASSUME x < Prefix + n
        PROVE  FALSE
    <3>1. /\ x \in Nat /\ b \in Nat /\ b + x \in Index /\ b + x <= Length /\ j # b + x
      BY <1>1, <1>2, <1>3, <2>1, <2>4 DEF Index
    <3>2. Slot(head, x) = Slot(tail, b + x)
      BY <1>1, <1>3, <3>1, SlotOfSlot
    <3>3. QED
      BY <1>1, <2>1, <2>3, <3>1, <3>2, SlotsDiffer
  <2>5. QED
    BY <1>4, <2>3, <2>4
<1>10. QED
  BY <1>6, <1>7, <1>8, <1>9 DEF b

(* The head moves over what was copied; the bytes in between are in order. *)
LEMMA HeadMoves ==
  ASSUME StreamBufferAssumption, Cursors, RingOK, NEW n \in Nat \ {0},
         Prefix + n <= SpacesAvailable, Published(n),
         tail' = tail /\ got' = got /\ config' = config,
         ring' \in [Index -> Nat], Message => ring'[head] = n,
         Numbered(ring', head, sent, Prefix, n),
         \A j \in 0 .. BytesInBuffer - 1 : ring'[Slot(tail, j)] = ring[Slot(tail, j)]
  PROVE  /\ Cursors' /\ RingOK' /\ BytesInBuffer' = BytesInBuffer + Prefix + n
         /\ head' = InRing(head + Prefix + n)
<1> DEFINE b == BytesInBuffer
           p == Prefix
           q == ring'
           s == lengths'
<1>1. /\ head \in Index /\ tail \in Index /\ sent \in Byte /\ got \in Byte
      /\ Length \in Nat \ {0, 1} /\ LengthBytes \in Nat \ {0} /\ lengths \in Seq(Index)
  BY DEF Cursors, StreamBufferAssumption
<1>2. /\ b \in Index /\ head = Slot(tail, b) /\ SpacesAvailable = Length - 1 - b
  BY Distances
<1>3. /\ p \in Nat /\ (Message => p = LengthBytes) /\ (~Message => p = 0)
      /\ Message \in BOOLEAN
  BY <1>1 DEF Prefix, Message
<1>4. /\ b \in Nat /\ p + n \in Nat /\ p + n \in 0 .. Length /\ b + (p + n) \in Index
      /\ b + (p + n) \in Nat /\ b + (p + n) <= Length /\ n \in Index /\ b <= Length
      /\ p + n \in 0 .. Round /\ b \in 0 .. Round /\ b + p + n = b + (p + n)
  BY <1>1, <1>2, <1>3 DEF Index, Round
<1>5. head' = Slot(head, p + n) /\ head' = InRing(head + Prefix + n)
  <2>1. head + (p + n) = head + p + n
    BY <1>1, <1>3 DEF Index
  <2>2. QED
    BY <1>1, <1>4, <2>1, SlotWraps DEF Published
<1>6. head' = Slot(tail, b + (p + n)) /\ head' \in Index
  <2> DEFINE k == p + n
             e == b + k
  <2>1. k \in Nat /\ e \in 0 .. Length /\ b \in Nat /\ b + k = e /\ e <= Length
    BY <1>4
  <2> HIDE DEF k, e
  <2>2. head' = Slot(Slot(tail, b), k)
    BY <1>2, <1>5 DEF k
  <2>3. Slot(Slot(tail, b), k) = Slot(tail, e) /\ Slot(tail, e) \in Index
    <3>1. Slot(Slot(tail, b), k) = Slot(tail, b + k)
      BY <1>1, <2>1, SlotOfSlot
    <3>2. Slot(tail, e) \in Index
      BY <1>1, <2>1, SlotWraps
    <3>3. QED
      BY <2>1, <3>1, <3>2
  <2>4. QED
    BY <2>2, <2>3 DEF e, k
<1>7. BytesInBuffer' = b + (p + n)
  BY <1>1, <1>4, <1>6, DistanceIs DEF BytesInBuffer
<1>8. sent = Number(got, b)
  BY DEF RingOK
<1>9. sent' = Number(got, b + (p + n)) /\ sent' \in Byte
  <2>1. sent + (p + n) = sent + p + n
    BY <1>1, <1>3 DEF Byte, Round
  <2>2. sent' = Number(sent, p + n)
    BY <2>1 DEF Published, Number
  <2>3. QED
    BY <1>1, <1>4, <1>8, <2>2, NumberOfNumber, NumberWraps
<1>10. s \in Seq(Index)
  BY <1>1, <1>4, AppendProperties DEF Published
<1>11. lengths \in Seq(Nat)
  <2>1. \A x \in Index : x \in Nat
    BY DEF Index
  <2>2. QED
    BY <1>1, <2>1, LenProperties, LenOfFcn
<1>12. Layout(Message, ring, tail, got, b, lengths)
  BY DEF RingOK
<1>13. Layout(Message, q, tail, got, b, lengths)
  BY <1>3, <1>4, <1>11, <1>12, LayoutKept
<1>14. Numbered(q, tail, got, b + p, n)
  BY <1>1, <1>2, <1>3, <1>4, <1>8, NumberedShift
<1>15. Layout(Message, q, tail, got, b + (p + n), s)
  <2> DEFINE x == b + p
             e == b + (p + n)
  <2>1. /\ x \in Nat /\ (Message => b + LengthBytes = x) /\ (~Message => b = x)
        /\ e \in Nat /\ x + n = e /\ b \in Nat
    BY <1>3, <1>4
  <2>2. Message => q[Slot(tail, b)] = n
    BY <1>2
  <2>3. s = IF Message THEN Append(lengths, n) ELSE lengths
    BY DEF Published
  <2> HIDE DEF x, e
  <2>4. Numbered(q, tail, got, x, n)
    BY <1>14 DEF x
  <2>5. Layout(Message, q, tail, got, e, IF Message THEN Append(lengths, n) ELSE lengths)
    BY <1>3, <1>11, <1>13, <2>1, <2>2, <2>4, LayoutExtended
  <2>6. QED
    BY <2>3, <2>5 DEF e
<1>16. Message' = Message
  BY DEF Message
<1>17. RingOK'
  BY <1>7, <1>9, <1>15, <1>16 DEF RingOK
<1>18. Cursors'
  BY <1>1, <1>6, <1>9, <1>10 DEF Cursors
<1>19. QED
  BY <1>4, <1>5, <1>7, <1>17, <1>18

(* The tail moves over n bytes, or over the first message and its length.  *)
LEMMA TailMoves ==
  ASSUME StreamBufferAssumption, Cursors, RingOK, NEW n \in Nat \ {0},
         Prefix + n <= BytesInBuffer, Taken(n),
         Message => lengths # <<>> /\ n = Head(lengths),
         UNCHANGED <<config, ring, head, sent>>
  PROVE  Cursors' /\ RingOK' /\ BytesInBuffer' = BytesInBuffer - (Prefix + n)
<1> DEFINE b == BytesInBuffer
           p == Prefix
           d == p + n
           e == b - d
           s == lengths'
<1>1. /\ head \in Index /\ tail \in Index /\ sent \in Byte /\ got \in Byte
      /\ Length \in Nat \ {0, 1} /\ LengthBytes \in Nat \ {0} /\ lengths \in Seq(Index)
  BY DEF Cursors, StreamBufferAssumption
<1>2. b \in Index /\ head = Slot(tail, b)
  BY Distances
<1>3. /\ p \in Nat /\ (Message => p = LengthBytes) /\ (~Message => p = 0)
      /\ Message \in BOOLEAN
  BY <1>1 DEF Prefix, Message
<1>4. /\ b \in Nat /\ d \in Nat /\ d \in 0 .. b /\ d \in 0 .. Length /\ e \in Nat /\ e \in Index
      /\ d + e = b /\ d + e <= Length /\ d \in 0 .. Round
  BY <1>1, <1>2, <1>3 DEF Index, Round
<1>5. tail' = Slot(tail, d) /\ tail' \in Index
  <2>1. /\ p \in 0 .. Length /\ n \in 0 .. Length /\ n \in Nat /\ p + n <= Length
    BY <1>1, <1>2, <1>3 DEF Index
  <2>2. InRing(tail + p) = Slot(tail, p) /\ Slot(tail, p) \in Index
    BY <1>1, <2>1, SlotWraps
  <2>3. InRing(Slot(tail, p) + n) = Slot(Slot(tail, p), n)
    BY <2>1, <2>2, SlotWraps
  <2>4. Slot(Slot(tail, p), n) = Slot(tail, d)
    BY <1>1, <1>3, <2>1, SlotOfSlot
  <2>5. QED
    BY <1>1, <1>4, <2>2, <2>3, <2>4, SlotWraps DEF Taken
<1> DEFINE u == Number(got, d)
<1>6. got' = u /\ u \in Byte
  <2>1. got + p + n = got + d
    BY <1>1, <1>3 DEF Byte, Round
  <2>2. QED
    BY <1>1, <1>4, <2>1, NumberWraps DEF Taken, Number
<1>7. lengths \in Seq(Nat)
  <2>1. \A x \in Index : x \in Nat
    BY DEF Index
  <2>2. QED
    BY <1>1, <2>1, LenProperties, LenOfFcn
<1>8. s = IF Message THEN Tail(lengths) ELSE lengths
  BY DEF Taken
<1>9. sent = Number(got, b) /\ Layout(Message, ring, tail, got, b, lengths)
  BY DEF RingOK
<1> HIDE DEF b, p, d, e, u, s
<1>10. head = Slot(Slot(tail, d), e)
  BY <1>1, <1>2, <1>4, SlotOfSlot
<1>11. BytesInBuffer' = e
  <2>1. InRing(Length + head - tail') = e
    BY <1>4, <1>5, <1>10, DistanceIs
  <2>2. QED
    BY <2>1 DEF BytesInBuffer
<1>12. sent = Number(u, e)
  <2>1. got \in Byte /\ d \in Nat /\ e \in Nat /\ d + e <= Length
    BY <1>1, <1>4
  <2>2. Number(Number(got, d), e) = Number(got, d + e)
    BY <2>1, NumberOfNumber
  <2>3. sent = Number(got, d + e)
    BY <1>4, <1>9
  <2>4. QED
    BY <2>2, <2>3 DEF u
<1>13. s \in Seq(Index)
  BY <1>1, <1>8, HeadTailProperties
<1>14. Layout(Message, ring, Slot(tail, d), u, e, s)
  <2>1. ASSUME Message = TRUE
        PROVE  Layout(TRUE, ring, Slot(tail, d), u, e, s)
    <3>1. LengthBytes + Head(lengths) = d /\ lengths # <<>> /\ s = Tail(lengths)
      BY <1>3, <1>8, <2>1 DEF d
    <3>2. Layout(TRUE, ring, tail, got, b, lengths)
      BY <1>9, <2>1
    <3>3. Layout(TRUE, ring, Slot(tail, d), Number(got, d), b - d, Tail(lengths))
      BY <1>1, <1>2, <1>4, <1>7, <3>1, <3>2, MessageTaken
    <3>4. QED
      BY <3>1, <3>3 DEF u, e
  <2>2. ASSUME Message = FALSE
        PROVE  Layout(FALSE, ring, Slot(tail, d), u, e, s)
    <3>1. Layout(FALSE, ring, tail, got, b, lengths)
      BY <1>9, <2>2
    <3>2. lengths = <<>> /\ s = <<>>
      BY <1>8, <2>2, <3>1 DEF Layout
    <3>3. Layout(FALSE, ring, Slot(tail, d), Number(got, d), b - d, <<>>)
      BY <1>1, <1>2, <1>4, <3>1, <3>2, StreamTaken
    <3>4. QED
      BY <3>2, <3>3 DEF u, e
  <2>3. QED
    BY <1>3, <2>1, <2>2
<1>15. Message' = Message
  BY DEF Message
<1>16. RingOK'
  BY <1>5, <1>6, <1>11, <1>12, <1>14, <1>15 DEF RingOK, s
<1>17. Cursors'
  BY <1>1, <1>5, <1>6, <1>13 DEF Cursors, s
<1>18. QED
  BY <1>11, <1>16, <1>17 DEF b, d, e, p

-----------------------------------------------------------------------------
(* The invariant is kept: steps that leave the ring as it is.              *)

WriterCalls ==
  [at : {"idle", "try", "wait", "blocked", "unregister", "again", "sample",
         "copy", "publish", "check", "notify"},
   count : SendSizes \cup Index, wait : {"none", "some", "forever"}, space : Index]

ReaderCalls ==
  [at : {"idle", "try", "wait", "blocked", "unregister", "sample", "copy",
         "publish", "notify"},
   count : ReceiveSizes \cup Index, wait : {"none", "some", "forever"},
   bytes : Index, data : Seq(Nat), below : Index]

Notices ==
  /\ waitingToSend \in BOOLEAN /\ waitingToReceive \in BOOLEAN
  /\ notify \in [{"writer", "reader"} -> {"not waiting", "waiting", "received"}]

LEMMA TypeParts ==
  StreamTypeOK <=> config \in Config /\ Cursors /\ Notices /\ w \in WriterCalls /\ r \in ReaderCalls
BY DEF StreamTypeOK, Cursors, Notices, WriterCalls, ReaderCalls

LEMMA Numbers ==
  ASSUME StreamBufferAssumption, Cursors
  PROVE  /\ Prefix \in Nat /\ (Message => Prefix = LengthBytes) /\ (~Message => Prefix = 0)
         /\ Message \in BOOLEAN /\ BytesInBuffer \in Nat /\ SpacesAvailable \in Nat
         /\ \A x \in Index : x \in Nat /\ x < Length
         /\ \A c \in SendSizes \cup ReceiveSizes : c \in Nat
         /\ Length \in Nat \ {0, 1} /\ LengthBytes \in Nat \ {0} /\ lengths \in Seq(Nat)
<1>1. Length \in Nat \ {0, 1} /\ LengthBytes \in Nat \ {0}
  BY DEF StreamBufferAssumption
<1>2. \A x \in Index : x \in Nat /\ x < Length
  BY <1>1 DEF Index
<1>3. BytesInBuffer \in Nat /\ SpacesAvailable \in Nat
  BY <1>2, Distances
<1>4. lengths \in Seq(Nat)
  BY <1>2, LenProperties, LenOfFcn DEF Cursors
<1>5. /\ Prefix \in Nat /\ (Message => Prefix = LengthBytes) /\ (~Message => Prefix = 0)
      /\ Message \in BOOLEAN
  BY <1>1 DEF Prefix, Message
<1>6. \A c \in SendSizes \cup ReceiveSizes : c \in Nat
  BY DEF StreamBufferAssumption
<1>7. QED
  BY <1>1, <1>2, <1>3, <1>4, <1>5, <1>6

LEMMA Unmoved ==
  ASSUME UNCHANGED <<ring, head, tail, sent, got, lengths>>, config'.kind = config.kind
  PROVE  /\ BytesInBuffer' = BytesInBuffer /\ SpacesAvailable' = SpacesAvailable
         /\ Message' = Message /\ Prefix' = Prefix
         /\ Cursors' = Cursors /\ RingOK' = RingOK
<1>1. /\ BytesInBuffer' = BytesInBuffer /\ SpacesAvailable' = SpacesAvailable
      /\ Message' = Message /\ Cursors' = Cursors
  BY DEF BytesInBuffer, SpacesAvailable, Message, Cursors
<1>2. Prefix' = Prefix
  BY <1>1 DEF Prefix
<1>3. RingOK' = RingOK
  BY <1>1 DEF RingOK
<1>4. QED
  BY <1>1, <1>2, <1>3

(* The side that does not move sees no less of what it counts on.          *)
LEMMA WriterKept ==
  ASSUME StreamBufferAssumption, Cursors, Cursors', w \in WriterCalls, WriterOK,
         UNCHANGED <<w, ring, head, sent>>, config'.kind = config.kind,
         config'.writer = config.writer, SpacesAvailable <= SpacesAvailable'
  PROVE  WriterOK'
<1>1. /\ Message' = Message /\ Prefix' = Prefix /\ Prefix \in Nat
      /\ SpacesAvailable \in Nat /\ SpacesAvailable' \in Nat
  <2>1. Message' = Message
    BY DEF Message
  <2>2. Prefix' = Prefix
    BY <2>1 DEF Prefix
  <2>3. SpacesAvailable' \in Nat
    <3> DEFINE b == InRing(Length + head' - tail')
    <3>1. b \in Index /\ SpacesAvailable' = Length - 1 - b
      BY RingDistance DEF Cursors, SpacesAvailable
    <3> HIDE DEF b
    <3>2. QED
      BY <3>1 DEF Index, StreamBufferAssumption
  <2>4. QED
    BY <2>1, <2>2, <2>3, Numbers
<1>2. w.space \in Nat /\ w.count \in Nat
  BY Numbers DEF WriterCalls
<1> DEFINE x == SpacesAvailable
           y == SpacesAvailable'
<1> HIDE DEF x, y
<1>3. ASSUME NEW c \in Nat, c <= x
      PROVE  c <= y
  BY <1>1, <1>3 DEF x, y
<1>4. w.at \in {"wait", "blocked", "unregister", "again", "copy"} => w.space <= y
  BY <1>2, <1>3 DEF WriterOK, x
<1>5. w.at = "publish" => Prefix + w.count <= y
  <2>1. Prefix + w.count \in Nat
    BY <1>1, <1>2
  <2>2. QED
    BY <1>3, <2>1 DEF WriterOK, x
<1>6. QED
  BY <1>1, <1>4, <1>5 DEF WriterOK, y

LEMMA ReaderKept ==
  ASSUME StreamBufferAssumption, Cursors, Cursors', r \in ReaderCalls, ReaderOK,
         UNCHANGED <<r, got>>, config'.kind = config.kind,
         config'.reader = config.reader, BytesInBuffer <= BytesInBuffer',
         lengths # <<>> => lengths' # <<>> /\ Head(lengths') = Head(lengths)
  PROVE  ReaderOK'
<1>1. /\ Message' = Message /\ Prefix' = Prefix /\ Prefix \in Nat
      /\ BytesInBuffer \in Nat /\ BytesInBuffer' \in Nat
  <2>1. Message' = Message
    BY DEF Message
  <2>2. Prefix' = Prefix
    BY <2>1 DEF Prefix
  <2>3. BytesInBuffer' \in Nat
    BY Numbers, RingDistance DEF Cursors, BytesInBuffer
  <2>4. QED
    BY <2>1, <2>2, <2>3, Numbers
<1>2. r.bytes \in Nat /\ Len(r.data) \in Nat
  BY Numbers, LenProperties DEF ReaderCalls
<1> DEFINE x == BytesInBuffer
           y == BytesInBuffer'
<1> HIDE DEF x, y
<1>3. ASSUME NEW c \in Nat, c <= x
      PROVE  c <= y
  BY <1>1, <1>3 DEF x, y
<1>4. r.at = "copy" => r.bytes <= y
  BY <1>2, <1>3 DEF ReaderOK, x
<1>5. r.at = "publish" => Prefix + Len(r.data) <= y
  <2>1. Prefix + Len(r.data) \in Nat
    BY <1>1, <1>2
  <2>2. QED
    BY <1>3, <2>1 DEF ReaderOK, x
<1> DEFINE b == Bytes(got + Prefix, Len(r.data))
<1>6. Bytes(got + Prefix, Len(r.data))' = b
  BY <1>1 DEF Bytes, Round
<1> HIDE DEF b
<1>7. QED
  BY <1>1, <1>4, <1>5, <1>6 DEF ReaderOK, y, b

LEMMA WriterStep ==
  ASSUME StreamBufferAssumption, StreamInv, w' \in WriterCalls, Notices',
         UNCHANGED <<SharedByWriter, ring, head, sent, lengths>>,
         config.writer = "interrupt" => w'.at = "idle", w'.at # "publish",
         w'.at \in {"wait", "blocked", "unregister", "again", "copy"} =>
           w'.space <= SpacesAvailable
  PROVE  StreamInv'
<1>1. StreamTypeOK /\ config.trigger < Length /\ RingOK /\ WriterOK /\ ReaderOK
  BY DEF StreamInv
<1>2. /\ SpacesAvailable' = SpacesAvailable /\ BytesInBuffer' = BytesInBuffer
      /\ Cursors /\ Cursors' /\ RingOK' /\ r \in ReaderCalls /\ config \in Config
  BY <1>1, TypeParts, Unmoved DEF SharedByWriter
<1>3. WriterOK'
  BY <1>2 DEF WriterOK, SharedByWriter
<1>4. BytesInBuffer <= BytesInBuffer'
  BY <1>2, Numbers
<1>5. ReaderOK'
  BY <1>1, <1>2, <1>4, ReaderKept DEF SharedByWriter
<1>6. StreamTypeOK'
  BY <1>2, TypeParts DEF SharedByWriter, StreamTypeOK, Cursors, Notices, WriterCalls, ReaderCalls
<1>7. QED
  BY <1>1, <1>3, <1>2, <1>5, <1>6 DEF StreamInv, SharedByWriter

(* What the writer's steps start from                                      *)
LEMMA WriterFacts ==
  ASSUME StreamBufferAssumption, StreamInv
  PROVE  /\ w \in WriterCalls /\ Notices /\ Cursors /\ SpacesAvailable \in Index
         /\ w = [at |-> w.at, count |-> w.count, wait |-> w.wait, space |-> w.space]
         /\ SpacesAvailable <= SpacesAvailable
         /\ IdleWriter \in WriterCalls /\ IdleWriter.at = "idle"
         /\ WriterOK /\ (config.writer = "interrupt" => w.at = "idle")
<1>1. w \in WriterCalls /\ Notices /\ Cursors /\ WriterOK
  BY TypeParts DEF StreamInv
<1>2. SpacesAvailable \in Index /\ SpacesAvailable <= SpacesAvailable
  BY <1>1, Distances, Numbers
<1>3. IdleWriter \in WriterCalls /\ IdleWriter.at = "idle"
  BY DEF IdleWriter, WriterCalls, Index, StreamBufferAssumption
<1>4. QED
  BY <1>1, <1>2, <1>3 DEF WriterOK, WriterCalls

LEMMA SendKeeps ==
  ASSUME StreamBufferAssumption, StreamInv, Send
  PROVE  StreamInv'
<1>1. PICK n \in SendSizes, wait \in Waits :
        LET waits == wait # "none" /\ Required(n) <= Length - 1
        IN  w' = [IdleWriter EXCEPT !.at = IF waits THEN "try" ELSE "sample",
                                    !.count = n, !.wait = IF waits THEN wait ELSE "none"]
  BY DEF Send
<1>2. wait \in {"none", "some", "forever"} /\ 0 \in Index
  BY DEF StreamBufferAssumption, Index
<1>3. w' \in WriterCalls /\ w'.at \in {"try", "sample"}
  BY <1>1, <1>2 DEF IdleWriter, WriterCalls
<1>4. Notices' /\ config.writer # "interrupt"
  BY WriterFacts DEF Send, Notices
<1>5. QED
  BY <1>3, <1>4, WriterStep DEF Send

LEMMA ClearStateTyped ==
  ASSUME Notices, NEW x \in {"writer", "reader"}, ClearState(x)
  PROVE  /\ notify' \in [{"writer", "reader"} -> {"not waiting", "waiting", "received"}]
         /\ notify'[x] # "received"
BY DEF Notices, ClearState

LEMMA SendTriesKeeps ==
  ASSUME StreamBufferAssumption, StreamInv, SendTries
  PROVE  StreamInv'
<1>1. w' \in WriterCalls /\ w'.at \in {"wait", "copy"} /\ w'.space = SpacesAvailable
  BY WriterFacts DEF SendTries, WriterCalls
<1>2. Notices'
  BY WriterFacts, ClearStateTyped DEF SendTries, Notices
<1>3. w'.space <= SpacesAvailable /\ config.writer # "interrupt"
  BY <1>1, WriterFacts DEF SendTries
<1>4. QED
  BY <1>1, <1>2, <1>3, WriterStep DEF SendTries

LEMMA NotifyWaitTyped ==
  ASSUME Notices, NEW x \in {"writer", "reader"}, NEW at, NEW next, NotifyWait(x, at, next)
  PROVE  /\ notify' \in [{"writer", "reader"} -> {"not waiting", "waiting", "received"}]
         /\ at \in {"wait", "blocked"} /\ next \in {"blocked", "unregister"}
BY DEF Notices, NotifyWait

LEMMA SendWaitsKeeps ==
  ASSUME StreamBufferAssumption, StreamInv, SendWaits
  PROVE  StreamInv'
<1>1. PICK next \in {"blocked", "unregister"} :
             NotifyWait("writer", w.at, next) /\ WriterMoves(next)
  BY DEF SendWaits
<1>2. Notices' /\ w.at \in {"wait", "blocked"}
  BY <1>1, WriterFacts, NotifyWaitTyped DEF SendWaits, Notices
<1>3. w' \in WriterCalls /\ w'.at = next /\ w'.space = w.space
  BY <1>1, WriterFacts DEF WriterMoves, WriterCalls
<1>4. w'.space <= SpacesAvailable /\ config.writer # "interrupt"
  BY <1>2, <1>3, WriterFacts DEF WriterOK
<1>5. QED
  BY <1>2, <1>3, <1>4, WriterStep DEF SendWaits

LEMMA SendTimesOutKeeps ==
  ASSUME StreamBufferAssumption, StreamInv, SendTimesOut
  PROVE  StreamInv'
<1>1. w' \in WriterCalls /\ w'.at = "unregister" /\ w'.space = w.space
  BY WriterFacts DEF SendTimesOut, WriterCalls
<1>2. Notices' /\ w'.space <= SpacesAvailable /\ config.writer # "interrupt"
  BY <1>1, WriterFacts DEF SendTimesOut, Notices, WriterOK
<1>3. QED
  BY <1>1, <1>2, WriterStep DEF SendTimesOut

LEMMA SendUnregistersKeeps ==
  ASSUME StreamBufferAssumption, StreamInv, SendUnregisters
  PROVE  StreamInv'
<1>1. w' \in WriterCalls /\ w'.at = "again" /\ w'.space = w.space
  BY WriterFacts DEF SendUnregisters, WriterMoves, WriterCalls
<1>2. Notices' /\ w'.space <= SpacesAvailable /\ config.writer # "interrupt"
  BY <1>1, WriterFacts DEF SendUnregisters, Notices, WriterOK
<1>3. QED
  BY <1>1, <1>2, WriterStep DEF SendUnregisters

LEMMA SendTriesAgainKeeps ==
  ASSUME StreamBufferAssumption, StreamInv, SendTriesAgain
  PROVE  StreamInv'
<1>1. w' \in WriterCalls /\ w'.at \in {"try", "sample", "copy"} /\ w'.space = w.space
  BY WriterFacts DEF SendTriesAgain, WriterMoves, WriterCalls
<1>2. Notices' /\ w'.space <= SpacesAvailable /\ config.writer # "interrupt"
  BY <1>1, WriterFacts DEF SendTriesAgain, Notices, WriterOK
<1>3. QED
  BY <1>1, <1>2, WriterStep DEF SendTriesAgain

LEMMA SendSamplesKeeps ==
  ASSUME StreamBufferAssumption, StreamInv, SendSamples
  PROVE  StreamInv'
<1>1. w' \in WriterCalls /\ w'.at = "copy" /\ w'.space = SpacesAvailable
  BY WriterFacts DEF SendSamples, WriterCalls
<1>2. Notices' /\ w'.space <= SpacesAvailable /\ config.writer # "interrupt"
  BY <1>1, WriterFacts DEF SendSamples, Notices, WriterOK
<1>3. QED
  BY <1>1, <1>2, WriterStep DEF SendSamples

LEMMA SendChecksKeeps ==
  ASSUME StreamBufferAssumption, StreamInv, SendChecks
  PROVE  StreamInv'
<1>1. w' \in WriterCalls /\ w'.at \in {"notify", "idle"}
  BY WriterFacts DEF SendChecks, WriterCalls
<1>2. Notices' /\ config.writer # "interrupt"
  BY <1>1, WriterFacts DEF SendChecks, Notices
<1>3. QED
  BY <1>1, <1>2, WriterStep DEF SendChecks

LEMMA SendNotifiesKeeps ==
  ASSUME StreamBufferAssumption, StreamInv, SendNotifies
  PROVE  StreamInv'
<1>1. w' \in WriterCalls /\ w'.at = "idle"
  BY WriterFacts DEF SendNotifies
<1>2. Notices'
  BY WriterFacts DEF SendNotifies, NotifyReader, Notices
<1>3. QED
  BY <1>1, <1>2, WriterStep DEF SendNotifies

(* The steps of the writer that change the ring.                           *)
LEMMA OutgoingFits ==
  ASSUME StreamBufferAssumption, Cursors, NEW c \in Nat, NEW space \in Nat,
         space <= SpacesAvailable, NEW n, n = Outgoing(c, space), n # 0
  PROVE  n \in Nat \ {0} /\ n \in Index /\ Prefix + n <= SpacesAvailable
<1> DEFINE x == SpacesAvailable
<1>1. /\ x \in Nat /\ x < Length /\ Length \in Nat \ {0, 1} /\ LengthBytes \in Nat \ {0}
      /\ (Message => Prefix = LengthBytes) /\ (~Message => Prefix = 0)
  BY Numbers, Distances
<1> HIDE DEF x
<1>2. CASE Message
  <2>1. space >= c + LengthBytes /\ n = c
    BY <1>2 DEF Outgoing, Required
  <2>2. n \in Nat \ {0} /\ LengthBytes + n <= x
    BY <1>1, <2>1 DEF x
  <2>3. QED
    BY <1>1, <1>2, <2>2 DEF x, Index
<1>3. CASE ~Message
  <2>1. n = Least(c, space)
    BY <1>3 DEF Outgoing
  <2>2. n \in Nat \ {0} /\ 0 + n <= x
    BY <1>1, <2>1 DEF x, Least
  <2>3. QED
    BY <1>1, <1>3, <2>2 DEF x, Index
<1>4. QED
  BY <1>2, <1>3

LEMMA SendCopiesKeeps ==
  ASSUME StreamBufferAssumption, StreamInv, SendCopies
  PROVE  StreamInv'
<1> DEFINE n == Outgoing(w.count, w.space)
<1>1. w.at = "copy" /\ w.space <= SpacesAvailable /\ config.writer # "interrupt"
  BY WriterFacts DEF SendCopies, WriterOK
<1>2. StreamTypeOK /\ config.trigger < Length /\ RingOK /\ WriterOK /\ ReaderOK
  BY DEF StreamInv
<1>3. w \in WriterCalls /\ Notices /\ Cursors /\ w.space \in Nat /\ w.count \in Nat
  BY WriterFacts, Numbers DEF WriterCalls
<1>4. Notices'
  BY <1>3 DEF SendCopies, Notices
<1>5. ASSUME n = 0
      PROVE  StreamInv'
  <2>1. w' = IdleWriter /\ ring' = ring
    BY <1>5 DEF SendCopies
  <2>2. w' \in WriterCalls /\ w'.at = "idle"
    BY <2>1, WriterFacts
  <2>3. QED
    BY <1>4, <2>1, <2>2, WriterStep DEF SendCopies
<1>6. ASSUME n # 0
      PROVE  StreamInv'
  <2>1. n \in Nat \ {0} /\ n \in Index /\ Prefix + n <= SpacesAvailable
    BY <1>1, <1>3, <1>6, OutgoingFits
  <2>2. ring' = Written(Cells(n), head) /\ w' = [w EXCEPT !.at = "publish", !.count = n]
    BY <1>6 DEF SendCopies
  <2> DEFINE q == ring'
  <2> HIDE DEF n, q
  <2>3. /\ q \in [Index -> Nat] /\ (Message => q[head] = n)
        /\ Numbered(q, head, sent, Prefix, n)
        /\ \A j \in 0 .. BytesInBuffer - 1 : q[Slot(tail, j)] = ring[Slot(tail, j)]
    BY <1>3, <2>1, <2>2, Copied DEF q
  <2>4. w' \in WriterCalls /\ w'.at = "publish" /\ w'.count = n
    BY <1>3, <2>1, <2>2 DEF WriterCalls
  <2>5. UNCHANGED <<SharedByWriter, head, waitingToSend, waitingToReceive, notify, sent, lengths>>
    BY DEF SendCopies
  <2>6. Cursors'
    BY <1>3, <2>3, <2>5 DEF Cursors, SharedByWriter, q
  <2>7. /\ BytesInBuffer' = BytesInBuffer /\ SpacesAvailable' = SpacesAvailable
        /\ Message' = Message
    BY <2>5 DEF BytesInBuffer, SpacesAvailable, Message, SharedByWriter
  <2>8. Prefix' = Prefix
    BY <2>7 DEF Prefix
  <2>9. Layout(Message, q, tail, got, BytesInBuffer, lengths)
    BY <1>2, <1>3, <2>3, Numbers, LayoutKept DEF RingOK
  <2>10. RingOK'
    BY <1>2, <2>5, <2>7, <2>9 DEF RingOK, SharedByWriter, q
  <2>11. n > 0
    BY <2>1
  <2>12. WriterOK'
    BY <1>1, <2>1, <2>3, <2>4, <2>5, <2>7, <2>8, <2>11 DEF WriterOK, SharedByWriter, q
  <2>13. BytesInBuffer <= BytesInBuffer'
    BY <1>3, <2>7, Numbers
  <2>14. r \in ReaderCalls /\ config \in Config
    BY <1>2, TypeParts
  <2>15. ReaderOK'
    BY <1>2, <1>3, <2>5, <2>6, <2>13, <2>14, ReaderKept DEF SharedByWriter
  <2>16. StreamTypeOK'
    BY <1>4, <2>4, <2>5, <2>6, <2>14
    DEF SharedByWriter, StreamTypeOK, Cursors, Notices, WriterCalls, ReaderCalls
  <2>17. QED
    BY <1>2, <2>5, <2>10, <2>12, <2>15, <2>16 DEF StreamInv, SharedByWriter
<1>7. QED
  BY <1>5, <1>6

(* The reader does not mind that bytes are added.                          *)
LEMMA HeadStays ==
  ASSUME Cursors, NEW n, Published(n), n \in Index, lengths # <<>>
  PROVE  lengths' # <<>> /\ Head(lengths') = Head(lengths)
<1>1. lengths \in Seq(Index) /\ Len(lengths) \in Nat \ {0}
  BY EmptySeq DEF Cursors
<1>2. CASE lengths' = lengths
  BY <1>2
<1>3. CASE lengths' = Append(lengths, n)
  <2>1. /\ Append(lengths, n) \in Seq(Index) /\ Len(Append(lengths, n)) = Len(lengths) + 1
        /\ Append(lengths, n)[1] = lengths[1]
    BY <1>1, AppendProperties
  <2>2. Append(lengths, n) # <<>>
    BY <1>1, <2>1, EmptySeq
  <2>3. QED
    BY <1>1, <1>3, <2>1, <2>2, HeadTailProperties
<1>4. QED
  BY <1>2, <1>3 DEF Published

LEMMA Publishing ==
  ASSUME StreamBufferAssumption, StreamInv, NEW n \in Nat \ {0}, n \in Index,
         Prefix + n <= SpacesAvailable, Published(n), UNCHANGED SharedByWriter,
         ring' \in [Index -> Nat], Message => ring'[head] = n,
         Numbered(ring', head, sent, Prefix, n),
         \A j \in 0 .. BytesInBuffer - 1 : ring'[Slot(tail, j)] = ring[Slot(tail, j)],
         w' \in WriterCalls, Notices', w'.at \in {"idle", "check"},
         config.writer = "interrupt" => w'.at = "idle"
  PROVE  StreamInv' /\ BytesInBuffer' = BytesInBuffer + Prefix + n
<1>1. /\ StreamTypeOK /\ config.trigger < Length /\ RingOK /\ WriterOK /\ ReaderOK
      /\ Cursors /\ r \in ReaderCalls /\ config \in Config
  BY TypeParts DEF StreamInv
<1>2. tail' = tail /\ got' = got /\ config' = config /\ r' = r
  BY DEF SharedByWriter
<1>3. Cursors' /\ RingOK' /\ BytesInBuffer' = BytesInBuffer + Prefix + n
  BY <1>1, <1>2, HeadMoves
<1>4. WriterOK'
  BY <1>2 DEF WriterOK
<1>5. BytesInBuffer <= BytesInBuffer'
  BY <1>1, <1>3, Numbers
<1>6. lengths # <<>> => lengths' # <<>> /\ Head(lengths') = Head(lengths)
  BY <1>1, HeadStays
<1>7. ReaderOK'
  BY <1>1, <1>2, <1>3, <1>5, <1>6, ReaderKept
<1>8. StreamTypeOK'
  BY <1>1, <1>2, <1>3 DEF StreamTypeOK, Cursors, Notices, WriterCalls, ReaderCalls
<1>9. QED
  BY <1>1, <1>2, <1>3, <1>4, <1>7, <1>8 DEF StreamInv

LEMMA SendPublishesKeeps ==
  ASSUME StreamBufferAssumption, StreamInv, SendPublishes
  PROVE  StreamInv' /\ BytesInBuffer' = BytesInBuffer + Prefix + w.count
<1>1. /\ w.at = "publish" /\ Published(w.count) /\ UNCHANGED SharedByWriter /\ ring' = ring
      /\ w.count > 0 /\ Prefix + w.count <= SpacesAvailable
      /\ (Message => ring[head] = w.count) /\ Numbered(ring, head, sent, Prefix, w.count)
      /\ config.writer # "interrupt"
  BY WriterFacts DEF SendPublishes, WriterOK
<1>2. Cursors /\ w \in WriterCalls /\ w.count \in Nat
  BY WriterFacts, Numbers DEF WriterCalls
<1>3. w.count \in Nat \ {0} /\ w.count \in Index
  <2>1. /\ Prefix \in Nat /\ SpacesAvailable \in Nat /\ SpacesAvailable < Length
        /\ Length \in Nat
    BY <1>2, Numbers, Distances
  <2>2. QED
    BY <1>1, <1>2, <2>1 DEF Index
<1>4. w' \in WriterCalls /\ w'.at = "check"
  BY <1>2 DEF SendPublishes, WriterMoves, WriterCalls
<1>5. Notices'
  BY WriterFacts DEF SendPublishes, Notices
<1>6. ring \in [Index -> Nat]
  BY <1>2 DEF Cursors
<1>7. QED
  BY <1>1, <1>3, <1>4, <1>5, <1>6, Publishing

LEMMA SendFromISRKeeps ==
  ASSUME StreamBufferAssumption, StreamInv, SendFromISR
  PROVE  StreamInv'
<1>1. /\ w \in WriterCalls /\ Notices /\ Cursors /\ w.at = "idle" /\ config.writer = "interrupt"
      /\ w' = w /\ UNCHANGED SharedByWriter /\ waitingToSend' = waitingToSend
  BY WriterFacts DEF SendFromISR
<1>2. PICK n \in SendSizes :
        LET m == Outgoing(n, SpacesAvailable)
        IN  /\ m > 0 /\ ring' = Written(Cells(m), head) /\ Published(m)
            /\ IF Triggered(InRing(Length + head' - tail))
                 THEN NotifyReader ELSE UNCHANGED <<waitingToReceive, notify>>
  BY DEF SendFromISR
<1> DEFINE m == Outgoing(n, SpacesAvailable)
<1>3. n \in Nat /\ SpacesAvailable \in Nat /\ SpacesAvailable <= SpacesAvailable
  BY <1>1, Numbers
<1>4. m # 0 /\ ring' = Written(Cells(m), head) /\ Published(m)
  BY <1>2
<1>5. Notices'
  BY <1>1, <1>2 DEF Notices, NotifyReader
<1> HIDE DEF m
<1>6. m \in Nat \ {0} /\ m \in Index /\ Prefix + m <= SpacesAvailable
  BY <1>1, <1>3, <1>4, OutgoingFits DEF m
<1> DEFINE q == ring'
<1>7. /\ q \in [Index -> Nat] /\ (Message => q[head] = m)
      /\ Numbered(q, head, sent, Prefix, m)
      /\ \A j \in 0 .. BytesInBuffer - 1 : q[Slot(tail, j)] = ring[Slot(tail, j)]
  <2> HIDE DEF q
  <2>1. q = Written(Cells(m), head)
    BY <1>4 DEF q
  <2>2. QED
    BY <1>1, <1>6, <2>1, Copied
<1>8. QED
  BY <1>1, <1>4, <1>5, <1>6, <1>7, Publishing

-----------------------------------------------------------------------------
(* The reader's steps.                                                     *)

LEMMA ReaderStep ==
  ASSUME StreamBufferAssumption, StreamInv, r' \in ReaderCalls, Notices',
         UNCHANGED <<SharedByReader, tail, got, lengths>>,
         config.reader = "interrupt" => r'.at = "idle",
         r'.at \in {"try", "wait", "blocked", "unregister", "sample", "copy"} =>
           Prefix <= r'.below /\ (config.kind # "batching" => r'.below = Prefix),
         r'.at = "copy" =>
           /\ r'.bytes <= BytesInBuffer
           /\ Message /\ r'.bytes > 0 => lengths # <<>> /\ Prefix + Head(lengths) <= r'.bytes,
         r'.at = "publish" =>
           /\ r'.data = Bytes(got + Prefix, Len(r'.data))
           /\ Len(r'.data) > 0 /\ Prefix + Len(r'.data) <= BytesInBuffer
           /\ Message => lengths # <<>> /\ Len(r'.data) = Head(lengths)
  PROVE  StreamInv'
<1>1. StreamTypeOK /\ config.trigger < Length /\ RingOK /\ WriterOK /\ ReaderOK
  BY DEF StreamInv
<1>2. /\ SpacesAvailable' = SpacesAvailable /\ BytesInBuffer' = BytesInBuffer
      /\ Message' = Message /\ Prefix' = Prefix
      /\ Cursors /\ Cursors' /\ RingOK' /\ w \in WriterCalls /\ config \in Config
  BY <1>1, TypeParts, Unmoved DEF SharedByReader
<1>3. Bytes(got + Prefix, Len(r.data))' = Bytes(got + Prefix, Len(r'.data))
  BY <1>2 DEF Bytes, Round, SharedByReader
<1>4. ReaderOK'
  BY <1>2, <1>3 DEF ReaderOK, SharedByReader
<1>5. SpacesAvailable <= SpacesAvailable'
  BY <1>2, Numbers
<1>6. WriterOK'
  BY <1>1, <1>2, <1>5, WriterKept DEF SharedByReader
<1>7. StreamTypeOK'
  BY <1>2 DEF SharedByReader, StreamTypeOK, Cursors, Notices, WriterCalls, ReaderCalls
<1>8. QED
  BY <1>1, <1>2, <1>4, <1>6, <1>7 DEF StreamInv, SharedByReader

LEMMA ReaderFacts ==
  ASSUME StreamBufferAssumption, StreamInv
  PROVE  /\ r \in ReaderCalls /\ Notices /\ Cursors /\ RingOK /\ BytesInBuffer \in Index
         /\ BytesInBuffer <= BytesInBuffer /\ config \in Config
         /\ IdleReader \in ReaderCalls /\ IdleReader.at = "idle"
         /\ ReaderOK /\ (config.reader = "interrupt" => r.at = "idle")
<1>1. r \in ReaderCalls /\ Notices /\ Cursors /\ RingOK /\ ReaderOK /\ config \in Config
  BY TypeParts DEF StreamInv
<1>2. BytesInBuffer \in Index /\ BytesInBuffer <= BytesInBuffer
  BY <1>1, Distances, Numbers
<1>3. IdleReader \in ReaderCalls /\ IdleReader.at = "idle"
  <2>1. <<>> \in Seq(Nat)
    BY EmptySeq
  <2>2. QED
    BY <2>1 DEF IdleReader, ReaderCalls, Index, StreamBufferAssumption
<1>4. QED
  BY <1>1, <1>2, <1>3 DEF ReaderOK

(* The next message, as the reader finds it                                *)
LEMMA NextMessage ==
  ASSUME StreamBufferAssumption, Cursors, RingOK, Message
  PROVE  /\ BytesInBuffer > 0 => lengths # <<>>
         /\ lengths # <<>> =>
              /\ Head(lengths) \in Nat \ {0} /\ Prefix + Head(lengths) <= BytesInBuffer
              /\ ring[tail] = Head(lengths)
              /\ Numbered(ring, tail, got, Prefix, Head(lengths))
<1>1. Layout(TRUE, ring, tail, got, BytesInBuffer, lengths)
  <2>1. Message = TRUE
    BY DEF Message
  <2>2. QED
    BY <2>1 DEF RingOK
<1>2. tail \in Index /\ lengths \in Seq(Nat) /\ Prefix = LengthBytes /\ BytesInBuffer \in Nat
  BY Numbers DEF Cursors
<1>3. /\ lengths = <<>> => BytesInBuffer = 0
      /\ lengths # <<>> => /\ Head(lengths) \in Nat \ {0}
                           /\ LengthBytes + Head(lengths) <= BytesInBuffer
                           /\ ring[tail] = Head(lengths)
                           /\ Numbered(ring, tail, got, LengthBytes, Head(lengths))
  BY <1>1, <1>2, FirstMessage
<1>4. QED
  BY <1>2, <1>3

LEMMA IncomingIs ==
  ASSUME StreamBufferAssumption, Cursors, RingOK, NEW c \in Nat, NEW bytes \in Nat,
         Prefix < bytes, bytes <= BytesInBuffer,
         Message => lengths # <<>> /\ Prefix + Head(lengths) <= bytes,
         NEW n, n = Incoming(c, bytes), n # 0
  PROVE  /\ n \in Nat \ {0} /\ Prefix + n <= BytesInBuffer
         /\ Message => lengths # <<>> /\ n = Head(lengths)
         /\ Numbered(ring, tail, got, Prefix, n)
<1>1. /\ Prefix \in Nat /\ BytesInBuffer \in Nat /\ (~Message => Prefix = 0)
  BY Numbers
<1>2. CASE Message
  <2>1. /\ lengths # <<>> /\ Head(lengths) \in Nat \ {0} /\ ring[tail] = Head(lengths)
        /\ Prefix + Head(lengths) <= bytes /\ Prefix + Head(lengths) <= BytesInBuffer
        /\ Numbered(ring, tail, got, Prefix, Head(lengths))
    BY <1>2, NextMessage
  <2> DEFINE h == Head(lengths)
  <2> HIDE DEF h
  <2>2. n = IF h > c THEN Least(0, bytes - Prefix) ELSE Least(h, bytes - Prefix)
    BY <1>2, <2>1 DEF Incoming, h
  <2>3. h \in Nat \ {0} /\ Prefix + h <= bytes
    BY <2>1 DEF h
  <2>4. h <= bytes - Prefix /\ 0 <= bytes - Prefix
    BY <1>1, <2>3
  <2>5. Least(0, bytes - Prefix) = 0 /\ Least(h, bytes - Prefix) = h
    BY <2>4 DEF Least
  <2>6. n = h
    BY <2>2, <2>5
  <2>7. QED
    BY <2>1, <2>6 DEF h
<1>3. CASE ~Message
  <2>1. n = Least(c, bytes - Prefix) /\ Prefix = 0
    BY <1>1, <1>3 DEF Incoming
  <2>2. n \in Nat \ {0} /\ n <= BytesInBuffer
    BY <1>1, <2>1 DEF Least
  <2>3. Message = FALSE
    BY <1>3 DEF Message
  <2>4. Numbered(ring, tail, got, 0, BytesInBuffer)
    BY <2>3 DEF RingOK, Layout
  <2>5. \A j \in 0 .. 0 + n - 1 : j \in 0 .. 0 + BytesInBuffer - 1
    BY <1>1, <2>2
  <2>6. Numbered(ring, tail, got, 0, n)
    BY <2>4, <2>5 DEF Numbered
  <2>7. QED
    BY <1>1, <1>3, <2>1, <2>2, <2>6
<1>4. QED
  BY <1>2, <1>3

LEMMA ReceiveKeeps ==
  ASSUME StreamBufferAssumption, StreamInv, Receive
  PROVE  StreamInv'
<1>1. PICK n \in ReceiveSizes, wait \in Waits :
        r' = [IdleReader EXCEPT !.at = IF wait = "none" THEN "sample" ELSE "try",
                                !.count = n, !.wait = wait, !.below = NotEnough]
  BY DEF Receive
<1>2. wait \in {"none", "some", "forever"} /\ 0 \in Index /\ <<>> \in Seq(Nat)
  BY EmptySeq DEF StreamBufferAssumption, Index
<1>3. /\ NotEnough \in Index /\ Prefix <= NotEnough
      /\ (config.kind # "batching" => NotEnough = Prefix)
  <2>1. /\ config.trigger \in Nat /\ config.trigger < Length /\ Length \in Nat \ {0, 1}
        /\ config.kind \in Kinds
    BY ReaderFacts DEF StreamInv, Config, StreamBufferAssumption
  <2>2. CASE config.kind = "batching"
    BY <2>1, <2>2 DEF NotEnough, Prefix, Message, Index
  <2>3. CASE config.kind = "message"
    <3>1. LengthBytes < Length - 1 /\ LengthBytes \in Nat
      BY <2>1, <2>3 DEF StreamBufferAssumption
    <3>2. QED
      BY <2>1, <2>3, <3>1 DEF NotEnough, Prefix, Message, Index
  <2>4. CASE config.kind \notin {"batching", "message"}
    BY <2>1, <2>4 DEF NotEnough, Prefix, Message, Index
  <2>5. QED
    BY <2>2, <2>3, <2>4
<1>4. r' \in ReaderCalls /\ r'.at \in {"try", "sample"} /\ r'.below = NotEnough
  BY <1>1, <1>2, <1>3 DEF IdleReader, ReaderCalls
<1>5. Notices' /\ config.reader # "interrupt"
  BY ReaderFacts DEF Receive, Notices
<1>6. QED
  BY <1>3, <1>4, <1>5, ReaderStep DEF Receive

LEMMA ReceiveTriesKeeps ==
  ASSUME StreamBufferAssumption, StreamInv, ReceiveTries
  PROVE  StreamInv'
<1>1. /\ r' \in ReaderCalls /\ r'.bytes = BytesInBuffer /\ r'.below = r.below
      /\ r'.at = IF BytesInBuffer <= r.below THEN "wait" ELSE "copy"
  BY ReaderFacts DEF ReceiveTries, ReaderCalls
<1>2. Notices'
  BY ReaderFacts, ClearStateTyped DEF ReceiveTries, Notices
<1>3. /\ Prefix <= r.below /\ (config.kind # "batching" => r.below = Prefix)
      /\ config.reader # "interrupt"
  BY ReaderFacts DEF ReceiveTries, ReaderOK
<1>4. r'.at = "copy" =>
        /\ r'.bytes <= BytesInBuffer
        /\ Message /\ r'.bytes > 0 => lengths # <<>> /\ Prefix + Head(lengths) <= r'.bytes
  BY <1>1, ReaderFacts, NextMessage
<1>5. r'.at # "publish"
  BY <1>1
<1>6. QED
  BY <1>1, <1>2, <1>3, <1>4, <1>5, ReaderStep DEF ReceiveTries

LEMMA ReceiveWaitsKeeps ==
  ASSUME StreamBufferAssumption, StreamInv, ReceiveWaits
  PROVE  StreamInv'
<1>1. PICK next \in {"blocked", "unregister"} :
             NotifyWait("reader", r.at, next) /\ ReaderMoves(next)
  BY DEF ReceiveWaits
<1>2. Notices' /\ r.at \in {"wait", "blocked"}
  BY <1>1, ReaderFacts, NotifyWaitTyped DEF ReceiveWaits, Notices
<1>3. r' \in ReaderCalls /\ r'.at = next /\ r'.below = r.below
  BY <1>1, ReaderFacts DEF ReaderMoves, ReaderCalls
<1>4. /\ Prefix <= r.below /\ (config.kind # "batching" => r.below = Prefix)
      /\ config.reader # "interrupt"
  BY <1>2, ReaderFacts DEF ReaderOK
<1>5. QED
  BY <1>2, <1>3, <1>4, ReaderStep DEF ReceiveWaits

LEMMA ReceiveTimesOutKeeps ==
  ASSUME StreamBufferAssumption, StreamInv, ReceiveTimesOut
  PROVE  StreamInv'
<1>1. r' \in ReaderCalls /\ r'.at = "unregister" /\ r'.below = r.below
  BY ReaderFacts DEF ReceiveTimesOut, ReaderMoves, ReaderCalls
<1>2. /\ Prefix <= r.below /\ (config.kind # "batching" => r.below = Prefix)
      /\ config.reader # "interrupt" /\ Notices'
  BY ReaderFacts DEF ReceiveTimesOut, ReaderOK, Notices
<1>3. QED
  BY <1>1, <1>2, ReaderStep DEF ReceiveTimesOut

LEMMA ReceiveUnregistersKeeps ==
  ASSUME StreamBufferAssumption, StreamInv, ReceiveUnregisters
  PROVE  StreamInv'
<1>1. r' \in ReaderCalls /\ r'.at = "sample" /\ r'.below = r.below
  BY ReaderFacts DEF ReceiveUnregisters, ReaderMoves, ReaderCalls
<1>2. /\ Prefix <= r.below /\ (config.kind # "batching" => r.below = Prefix)
      /\ config.reader # "interrupt" /\ Notices'
  BY ReaderFacts DEF ReceiveUnregisters, ReaderOK, Notices
<1>3. QED
  BY <1>1, <1>2, ReaderStep DEF ReceiveUnregisters

LEMMA ReceiveSamplesKeeps ==
  ASSUME StreamBufferAssumption, StreamInv, ReceiveSamples
  PROVE  StreamInv'
<1>1. r' \in ReaderCalls /\ r'.at = "copy" /\ r'.below = r.below /\ r'.bytes = BytesInBuffer
  BY ReaderFacts DEF ReceiveSamples, ReaderCalls
<1>2. /\ Prefix <= r.below /\ (config.kind # "batching" => r.below = Prefix)
      /\ config.reader # "interrupt" /\ Notices'
  BY ReaderFacts DEF ReceiveSamples, ReaderOK, Notices
<1>3. /\ r'.bytes <= BytesInBuffer
      /\ Message /\ r'.bytes > 0 => lengths # <<>> /\ Prefix + Head(lengths) <= r'.bytes
  BY <1>1, ReaderFacts, NextMessage
<1>4. QED
  BY <1>1, <1>2, <1>3, ReaderStep DEF ReceiveSamples

LEMMA ReceiveCopiesKeeps ==
  ASSUME StreamBufferAssumption, StreamInv, ReceiveCopies
  PROVE  StreamInv'
<1> DEFINE n == IF r.bytes > r.below THEN Incoming(r.count, r.bytes) ELSE 0
<1>1. /\ r.at = "copy" /\ Prefix <= r.below /\ r.bytes <= BytesInBuffer
      /\ (Message /\ r.bytes > 0 => lengths # <<>> /\ Prefix + Head(lengths) <= r.bytes)
      /\ config.reader # "interrupt" /\ UNCHANGED <<SharedByReader, tail, got, lengths>>
  BY ReaderFacts DEF ReceiveCopies, ReaderOK
<1>2. /\ Cursors /\ RingOK /\ r \in ReaderCalls
      /\ r.bytes \in Nat /\ r.below \in Nat /\ r.count \in Nat /\ Prefix \in Nat
  BY ReaderFacts, Numbers DEF ReaderCalls
<1>3. Notices'
  BY ReaderFacts DEF ReceiveCopies, Notices
<1>4. ASSUME n = 0
      PROVE  StreamInv'
  <2>1. r' = IdleReader
    BY <1>4 DEF ReceiveCopies
  <2>2. r' \in ReaderCalls /\ r'.at = "idle"
    BY <2>1, ReaderFacts
  <2>3. QED
    BY <1>1, <1>3, <2>2, ReaderStep
<1>5. ASSUME n # 0
      PROVE  StreamInv'
  <2>1. /\ r.bytes > r.below /\ n = Incoming(r.count, r.bytes)
        /\ r' = [r EXCEPT !.at = "publish", !.data = Read(tail + Prefix, n)]
    BY <1>5 DEF ReceiveCopies
  <2>2. Prefix < r.bytes /\ r.bytes > 0
    BY <1>1, <1>2, <2>1
  <2> HIDE DEF n
  <2>3. /\ n \in Nat \ {0} /\ Prefix + n <= BytesInBuffer
        /\ (Message => lengths # <<>> /\ n = Head(lengths))
        /\ Numbered(ring, tail, got, Prefix, n)
    BY <1>1, <1>2, <1>5, <2>1, <2>2, IncomingIs
  <2> DEFINE d == Read(tail + Prefix, n)
  <2>4. /\ d = Bytes(got + Prefix, n)
        /\ Bytes(got + Prefix, n) \in Seq(Nat) /\ Len(Bytes(got + Prefix, n)) = n
    <3>1. tail \in Nat /\ got \in Nat /\ n \in Nat
      BY <1>2, <2>3 DEF Cursors, Index, Byte, Round, StreamBufferAssumption
    <3>2. d = Bytes(got + Prefix, n)
      BY <1>2, <2>3, <3>1, ReadAre
    <3> HIDE DEF d
    <3>3. Bytes(got + Prefix, n) \in Seq(Nat) /\ Len(Bytes(got + Prefix, n)) = n
      BY <1>2, <3>1, BytesAre
    <3>4. QED
      BY <3>2, <3>3
  <2> HIDE DEF d
  <2>5. r' \in ReaderCalls /\ r'.at = "publish" /\ r'.data = d
    BY <1>2, <2>1, <2>4 DEF ReaderCalls, d
  <2>6. /\ r'.data = Bytes(got + Prefix, Len(r'.data)) /\ Len(r'.data) = n /\ n > 0
    BY <2>3, <2>4, <2>5
  <2>7. QED
    BY <1>1, <1>3, <2>3, <2>5, <2>6, ReaderStep
<1>6. QED
  BY <1>4, <1>5

(* The reader has taken n bytes.                                           *)
LEMMA Taking ==
  ASSUME StreamBufferAssumption, StreamInv, NEW n \in Nat \ {0},
         Prefix + n <= BytesInBuffer, Taken(n), UNCHANGED SharedByReader,
         Message => lengths # <<>> /\ n = Head(lengths),
         r' \in ReaderCalls, Notices', r'.at \in {"idle", "notify"},
         config.reader = "interrupt" => r'.at = "idle"
  PROVE  StreamInv' /\ BytesInBuffer' = BytesInBuffer - (Prefix + n)
<1>1. /\ StreamTypeOK /\ config.trigger < Length /\ RingOK /\ WriterOK /\ ReaderOK
      /\ Cursors /\ w \in WriterCalls /\ config \in Config
  BY TypeParts DEF StreamInv
<1>2. UNCHANGED <<config, ring, head, sent, w>>
  BY DEF SharedByReader
<1>3. Cursors' /\ RingOK' /\ BytesInBuffer' = BytesInBuffer - (Prefix + n)
  BY <1>1, <1>2, TailMoves
<1>4. ReaderOK'
  BY <1>2 DEF ReaderOK
<1>5. SpacesAvailable <= SpacesAvailable'
  <2>1. SpacesAvailable = Length - 1 - BytesInBuffer /\ BytesInBuffer \in Nat /\ Prefix \in Nat
        /\ Length \in Nat
    BY <1>1, Distances, Numbers
  <2>2. SpacesAvailable' = Length - 1 - BytesInBuffer'
    <3>1. head' \in Index /\ tail' \in Index
      BY <1>3 DEF Cursors
    <3>2. QED
      BY <3>1, RingDistance DEF SpacesAvailable, BytesInBuffer
  <2>3. QED
    BY <1>3, <2>1, <2>2
<1>6. WriterOK'
  BY <1>1, <1>2, <1>3, <1>5, WriterKept
<1>7. StreamTypeOK'
  BY <1>1, <1>2, <1>3 DEF StreamTypeOK, Cursors, Notices, WriterCalls, ReaderCalls
<1>8. QED
  BY <1>1, <1>2, <1>3, <1>4, <1>6, <1>7 DEF StreamInv

LEMMA ReceivePublishesKeeps ==
  ASSUME StreamBufferAssumption, StreamInv, ReceivePublishes
  PROVE  StreamInv' /\ BytesInBuffer' = BytesInBuffer - (Prefix + Len(r.data))
<1>1. /\ r.at = "publish" /\ Taken(Len(r.data)) /\ UNCHANGED SharedByReader
      /\ Len(r.data) > 0 /\ Prefix + Len(r.data) <= BytesInBuffer
      /\ (Message => lengths # <<>> /\ Len(r.data) = Head(lengths))
      /\ config.reader # "interrupt"
  BY ReaderFacts DEF ReceivePublishes, ReaderOK
<1>2. Len(r.data) \in Nat
  BY ReaderFacts, LenProperties DEF ReaderCalls
<1>3. Len(r.data) \in Nat \ {0}
  BY <1>1, <1>2
<1>4. r' \in ReaderCalls /\ r'.at = "notify"
  <2>1. r' = [IdleReader EXCEPT !.at = "notify"] /\ IdleReader \in ReaderCalls
    BY ReaderFacts DEF ReceivePublishes
  <2>2. QED
    BY <2>1 DEF ReaderCalls
<1>5. Notices'
  BY ReaderFacts DEF ReceivePublishes, Notices
<1>6. QED
  BY <1>1, <1>3, <1>4, <1>5, Taking

LEMMA ReceiveNotifiesKeeps ==
  ASSUME StreamBufferAssumption, StreamInv, ReceiveNotifies
  PROVE  StreamInv'
<1>1. r' \in ReaderCalls /\ r'.at = "idle"
  BY ReaderFacts DEF ReceiveNotifies
<1>2. Notices'
  BY ReaderFacts DEF ReceiveNotifies, NotifyWriter, Notices
<1>3. QED
  BY <1>1, <1>2, ReaderStep DEF ReceiveNotifies

LEMMA ReceiveFromISRKeeps ==
  ASSUME StreamBufferAssumption, StreamInv, ReceiveFromISR
  PROVE  StreamInv'
<1>1. PICK n \in ReceiveSizes :
        LET m == Incoming(n, BytesInBuffer)
        IN  BytesInBuffer > Prefix /\ m > 0 /\ Taken(m) /\ NotifyWriter
  BY DEF ReceiveFromISR
<1> DEFINE m == Incoming(n, BytesInBuffer)
<1>2. /\ BytesInBuffer > Prefix /\ m # 0 /\ Taken(m) /\ NotifyWriter
      /\ config.reader = "interrupt" /\ r' = r /\ UNCHANGED SharedByReader
      /\ waitingToReceive' = waitingToReceive
  BY <1>1 DEF ReceiveFromISR
<1> HIDE DEF m
<1>3. /\ Cursors /\ RingOK /\ r \in ReaderCalls /\ Notices /\ r.at = "idle"
      /\ n \in Nat /\ BytesInBuffer \in Nat /\ Prefix \in Nat
  BY <1>2, ReaderFacts, Numbers
<1>4. /\ Prefix < BytesInBuffer /\ BytesInBuffer <= BytesInBuffer /\ BytesInBuffer > 0
  BY <1>2, <1>3
<1>5. Message => lengths # <<>> /\ Prefix + Head(lengths) <= BytesInBuffer
  BY <1>3, <1>4, NextMessage
<1>6. /\ m \in Nat \ {0} /\ Prefix + m <= BytesInBuffer
      /\ Message => lengths # <<>> /\ m = Head(lengths)
  BY <1>2, <1>3, <1>4, <1>5, IncomingIs DEF m
<1>7. Notices'
  BY <1>2, <1>3 DEF Notices, NotifyWriter
<1>8. QED
  BY <1>2, <1>3, <1>6, <1>7, Taking

-----------------------------------------------------------------------------
(* The calls about the buffer, and the invariant.                          *)

LEMMA ResetKeeps ==
  ASSUME StreamBufferAssumption, StreamInv, Reset
  PROVE  StreamInv' /\ BytesInBuffer' = 0 /\ SpacesAvailable' = Length - 1
<1>1. /\ Cursors /\ Notices /\ w \in WriterCalls /\ r \in ReaderCalls /\ config \in Config
      /\ config.trigger < Length /\ WriterOK /\ ReaderOK
  BY TypeParts DEF StreamInv
<1>2. /\ head' = 0 /\ tail' = 0 /\ sent' = 0 /\ got' = 0 /\ lengths' = <<>>
      /\ UNCHANGED <<config, ring, waitingToSend, waitingToReceive, notify, w, r>>
      /\ w.at # "publish" /\ r.at \notin {"copy", "publish"}
  BY DEF Reset
<1>3. 0 \in Index /\ 0 \in Byte /\ Length \in Nat \ {0, 1}
  BY DEF Index, Byte, Round, StreamBufferAssumption
<1>4. BytesInBuffer' = 0 /\ SpacesAvailable' = Length - 1
  BY <1>2, <1>3 DEF BytesInBuffer, SpacesAvailable, InRing
<1>5. Cursors'
  BY <1>1, <1>2, <1>3, EmptySeq DEF Cursors
<1>6. Message' = Message /\ Message \in BOOLEAN
  BY <1>2 DEF Message
<1>7. Prefix' = Prefix
  BY <1>6 DEF Prefix
<1>8. Number(0, 0) = 0
  BY DEF Number, Round, StreamBufferAssumption
<1>9. Layout(Message, ring, 0, 0, 0, <<>>)
  BY <1>6, LayoutEmpty
<1>10. RingOK'
  BY <1>2, <1>4, <1>6, <1>8, <1>9 DEF RingOK
<1>11. w.space <= Length - 1
  BY <1>1, <1>3 DEF WriterCalls, Index
<1>12. WriterOK'
  BY <1>1, <1>2, <1>4, <1>11 DEF WriterOK
<1>13. ReaderOK'
  BY <1>1, <1>2, <1>7 DEF ReaderOK
<1>14. StreamTypeOK'
  <2>1. config' \in Config /\ w' \in WriterCalls /\ r' \in ReaderCalls
    BY <1>1, <1>2
  <2>2. Notices'
    BY <1>1, <1>2 DEF Notices
  <2>3. QED
    BY <1>5, <2>1, <2>2 DEF StreamTypeOK, Cursors, Notices, WriterCalls, ReaderCalls
<1>15. QED
  BY <1>1, <1>2, <1>4, <1>10, <1>12, <1>13, <1>14 DEF StreamInv

LEMMA SetTriggerLevelKeeps ==
  ASSUME StreamBufferAssumption, StreamInv, SetTriggerLevel
  PROVE  /\ StreamInv' /\ config'.kind = config.kind
         /\ UNCHANGED <<ring, head, tail, waitingToSend, waitingToReceive, notify, w, r,
                        sent, got, lengths>>
<1>1. /\ Cursors /\ Notices /\ w \in WriterCalls /\ r \in ReaderCalls /\ config \in Config
      /\ config.trigger < Length /\ WriterOK /\ ReaderOK /\ RingOK
  BY TypeParts DEF StreamInv
<1>2. PICK n \in NewTriggers :
        LET t == IF n = 0 THEN 1 ELSE n
        IN  t < Length /\ config' = [config EXCEPT !.trigger = t]
  BY DEF SetTriggerLevel
<1>3. UNCHANGED <<ring, head, tail, waitingToSend, waitingToReceive, notify, w, r,
                  sent, got, lengths>>
  BY DEF SetTriggerLevel
<1>4. n \in Nat /\ Length \in Nat \ {0, 1}
  BY DEF StreamBufferAssumption
<1> DEFINE t == IF n = 0 THEN 1 ELSE n
<1>5. t \in 1 .. Length /\ t < Length /\ config' = [config EXCEPT !.trigger = t]
  BY <1>2, <1>4
<1> HIDE DEF t
<1>6. /\ config' \in Config /\ config'.kind = config.kind /\ config'.trigger = t
      /\ config'.writer = config.writer /\ config'.reader = config.reader
  BY <1>1, <1>5 DEF Config
<1>7. /\ BytesInBuffer' = BytesInBuffer /\ SpacesAvailable' = SpacesAvailable
      /\ Cursors' /\ RingOK'
  BY <1>1, <1>3, <1>6, Unmoved
<1>8. BytesInBuffer <= BytesInBuffer' /\ SpacesAvailable <= SpacesAvailable'
  BY <1>1, <1>7, Numbers
<1>9. WriterOK' /\ ReaderOK'
  BY <1>1, <1>3, <1>6, <1>7, <1>8, WriterKept, ReaderKept
<1>10. StreamTypeOK'
  <2>1. w' \in WriterCalls /\ r' \in ReaderCalls
    BY <1>1, <1>3
  <2>2. Notices'
    BY <1>1, <1>3 DEF Notices
  <2>3. QED
    BY <1>6, <1>7, <2>1, <2>2 DEF StreamTypeOK, Cursors, Notices, WriterCalls, ReaderCalls
<1>11. QED
  BY <1>3, <1>5, <1>6, <1>7, <1>9, <1>10 DEF StreamInv

LEMMA StreamInitInv ==
  ASSUME StreamBufferAssumption, StreamInit
  PROVE  StreamInv
<1>1. 0 \in Index /\ 0 \in Byte /\ Length \in Nat \ {0, 1}
  BY DEF Index, Byte, Round, StreamBufferAssumption
<1>2. config \in Config /\ config.trigger < Length
  <2>1. config \in Config /\ config.trigger \in 1 .. Length - 1
    BY DEF StreamInit, StreamBufferAssumption
  <2>2. QED
    BY <1>1, <2>1
<1>3. Cursors
  BY <1>1, EmptySeq DEF StreamInit, Cursors
<1>4. Notices
  BY DEF StreamInit, Notices
<1>5. w \in WriterCalls /\ r \in ReaderCalls
  BY <1>1, EmptySeq DEF StreamInit, IdleWriter, IdleReader, WriterCalls, ReaderCalls
<1>6. WriterOK /\ ReaderOK
  BY DEF StreamInit, IdleWriter, IdleReader, WriterOK, ReaderOK
<1>7. BytesInBuffer = 0
  <2>1. head = 0 /\ tail = 0
    BY DEF StreamInit
  <2>2. QED
    BY <1>1, <2>1 DEF BytesInBuffer, InRing
<1>8. RingOK
  <2>1. Number(0, 0) = 0 /\ Message \in BOOLEAN
    BY DEF Number, Round, Message, StreamBufferAssumption
  <2>2. Layout(Message, ring, 0, 0, 0, <<>>)
    BY <2>1, LayoutEmpty
  <2>3. QED
    BY <1>7, <2>1, <2>2 DEF StreamInit, RingOK
<1>9. QED
  BY <1>2, <1>3, <1>4, <1>5, <1>6, <1>8, TypeParts DEF StreamInv

LEMMA StreamStep ==
  ASSUME StreamBufferAssumption, StreamInv, StreamNext
  PROVE  StreamInv'
<1>1. CASE SendStep
  BY <1>1, SendTriesKeeps, SendWaitsKeeps, SendTimesOutKeeps, SendUnregistersKeeps,
     SendTriesAgainKeeps, SendSamplesKeeps, SendCopiesKeeps, SendPublishesKeeps,
     SendChecksKeeps, SendNotifiesKeeps DEF SendStep
<1>2. CASE ReceiveStep
  BY <1>2, ReceiveTriesKeeps, ReceiveWaitsKeeps, ReceiveTimesOutKeeps,
     ReceiveUnregistersKeeps, ReceiveSamplesKeeps, ReceiveCopiesKeeps,
     ReceivePublishesKeeps, ReceiveNotifiesKeeps DEF ReceiveStep
<1>3. CASE Send \/ SendFromISR \/ Receive \/ ReceiveFromISR \/ Reset \/ SetTriggerLevel
  BY <1>3, SendKeeps, SendFromISRKeeps, ReceiveKeeps, ReceiveFromISRKeeps, ResetKeeps,
     SetTriggerLevelKeeps
<1>4. QED
  BY <1>1, <1>2, <1>3 DEF StreamNext

LEMMA StreamStutter ==
  ASSUME StreamInv, UNCHANGED vars
  PROVE  StreamInv'
<1>1. UNCHANGED <<config, ring, head, tail, waitingToSend, waitingToReceive, notify, w, r,
                  sent, got, lengths>>
  BY DEF vars
<1>2. /\ BytesInBuffer' = BytesInBuffer /\ SpacesAvailable' = SpacesAvailable
      /\ Message' = Message /\ Prefix' = Prefix /\ RingOK' = RingOK
  BY <1>1, Unmoved
<1>3. Bytes(got + Prefix, Len(r.data))' = Bytes(got + Prefix, Len(r.data))
  BY <1>1, <1>2 DEF Bytes, Round
<1>4. WriterOK' /\ ReaderOK'
  <2>1. WriterOK /\ ReaderOK
    BY DEF StreamInv
  <2>2. WriterOK'
    BY <1>1, <1>2, <2>1 DEF WriterOK
  <2>3. ReaderOK'
    BY <1>1, <1>2, <1>3, <2>1 DEF ReaderOK
  <2>4. QED
    BY <2>2, <2>3
<1>5. StreamTypeOK'
  <2>1. config \in Config /\ Cursors /\ Notices /\ w \in WriterCalls /\ r \in ReaderCalls
    BY TypeParts DEF StreamInv
  <2>2. config' \in Config /\ w' \in WriterCalls /\ r' \in ReaderCalls
    BY <1>1, <2>1
  <2>3. Cursors' /\ Notices'
    BY <1>1, <2>1 DEF Cursors, Notices
  <2>4. QED
    BY <2>2, <2>3 DEF StreamTypeOK, Cursors, Notices, WriterCalls, ReaderCalls
<1>6. QED
  BY <1>1, <1>2, <1>4, <1>5 DEF StreamInv

(* The ring holds the bytes sent and not yet received, numbered in order,  *)
(* and as many whole messages as have been sent, whatever the writer and   *)
(* the reader are in the middle of.                                        *)
THEOREM StreamInvariant ==
  ASSUME StreamBufferAssumption
  PROVE  StreamSpec => []StreamInv
<1>1. StreamInit => StreamInv
  BY StreamInitInv
<1>2. StreamInv /\ [StreamNext]_vars => StreamInv'
  BY StreamStep, StreamStutter
<1>3. QED
  BY <1>1, <1>2, PTL DEF StreamSpec

(* Every call, handle and index stays what its type says.                  *)
THEOREM StreamTyped ==
  ASSUME StreamBufferAssumption
  PROVE  StreamSpec => []StreamTypeOK
<1>1. StreamInv => StreamTypeOK
  BY DEF StreamInv
<1>2. QED
  BY <1>1, StreamInvariant, PTL

LEMMA NumberDistance ==
  ASSUME StreamBufferAssumption, NEW g \in Byte, NEW i \in Index
  PROVE  (Number(g, i) - g) % Round = i
<1>1. /\ i \in 0 .. Round - 1 /\ i \in 0 .. Round /\ g \in 0 .. Round - 1
      /\ Round \in Nat \ {0}
  BY DEF StreamBufferAssumption, Index, Byte, Round
<1> DEFINE y == Number(g, i)
<1>2. Wraps(y, g + i, Round) /\ y \in Byte
  BY <1>1, NumberWraps
<1> HIDE DEF y
<1>3. y \in 0 .. Round - 1
  BY <1>2 DEF Byte
<1>4. /\ g <= y => (y - g) % Round = y - g
      /\ y < g => (y - g) % Round = y - g + Round
  BY <1>1, <1>3, WrapBelow
<1>5. (y - g) % Round = i
  BY <1>1, <1>2, <1>3, <1>4 DEF Wraps
<1>6. QED
  BY <1>5 DEF y

(* Between tail and head are exactly the bytes sent and not yet received:  *)
(* nothing is overwritten before it is read, and nothing is read twice,    *)
(* although neither side locks the ring.                                   *)
THEOREM RingKeepsUnread ==
  ASSUME StreamBufferAssumption
  PROVE  StreamSpec => []RingHoldsUnread
<1>1. ASSUME StreamInv
      PROVE  RingHoldsUnread
  <2> DEFINE b == BytesInBuffer
  <2>1. Cursors /\ RingOK /\ b \in Index /\ b \in Nat
    BY <1>1, ReaderFacts, Numbers
  <2>2. /\ got \in Byte /\ tail \in Nat /\ got \in Nat /\ 0 \in Nat
        /\ tail + 0 = tail /\ got + 0 = got /\ Message \in BOOLEAN
    BY <2>1 DEF Cursors, Byte, Index, Round, StreamBufferAssumption, Message
  <2>3. sent = Number(got, b) /\ Layout(Message, ring, tail, got, b, lengths)
    BY <2>1 DEF RingOK
  <2> HIDE DEF b
  <2>4. (sent - got) % Round = b
    BY <2>1, <2>2, <2>3, NumberDistance
  <2>5. ASSUME Message = FALSE
        PROVE  Read(tail, b) = Bytes(got, b)
    <3>1. Numbered(ring, tail, got, 0, b)
      BY <2>3, <2>5 DEF Layout
    <3>2. Read(tail + 0, b) = Bytes(got + 0, b)
      BY <2>1, <2>2, <3>1, ReadAre
    <3>3. QED
      BY <2>2, <3>2
  <2>6. QED
    BY <2>2, <2>4, <2>5 DEF RingHoldsUnread, b
<1>2. QED
  BY <1>1, StreamInvariant, PTL

(* What a call has read are the next bytes that were sent, and if it is a  *)
(* message, the next message and all of it.                                *)
THEOREM DeliveredInOrder ==
  ASSUME StreamBufferAssumption
  PROVE  StreamSpec => []DeliversInOrder
<1>1. StreamInv => DeliversInOrder
  BY DEF StreamInv, ReaderOK, DeliversInOrder
<1>2. QED
  BY <1>1, StreamInvariant, PTL

-----------------------------------------------------------------------------
(* Nobody sleeps beside what it waits for.                                 *)

(* The writer goes on waiting as before.                                   *)
LEMMA WriterStaysWoken ==
  ASSUME WriterWoken, UNCHANGED <<w, waitingToSend, head, tail>>,
         config'.kind = config.kind, notify'["writer"] = notify["writer"],
         r.at = "notify" => r'.at = "notify"
  PROVE  WriterWoken'
<1>1. SpacesAvailable' = SpacesAvailable /\ Required(w.count)' = Required(w.count)
  BY DEF SpacesAvailable, Required, Message
<1>2. QED
  BY <1>1 DEF WriterWoken

(* A side that is notified need not be told again.                         *)
LEMMA WriterNotified ==
  ASSUME Notices, WriterWoken, w' = w, NotifyWriter
  PROVE  WriterWoken'
<1>1. w.at \in {"wait", "blocked"} => notify'["writer"] = "received"
  BY DEF Notices, WriterWoken, NotifyWriter
<1>2. QED
  BY <1>1 DEF WriterWoken

LEMMA OneNotified ==
  ASSUME Notices, NEW x \in {"writer", "reader"}, NEW y \in {"writer", "reader"}, x # y,
         \/ ClearState(x)
         \/ \E at, next : NotifyWait(x, at, next)
         \/ \E v : notify' = [notify EXCEPT ![x] = v]
  PROVE  notify'[y] = notify[y]
<1>1. CASE ClearState(x)
  BY <1>1 DEF Notices, ClearState
<1>2. CASE \E at, next : NotifyWait(x, at, next)
  BY <1>2 DEF Notices, NotifyWait
<1>3. CASE \E v : notify' = [notify EXCEPT ![x] = v]
  BY <1>3 DEF Notices
<1>4. QED
  BY <1>1, <1>2, <1>3

LEMMA WriterWokenByWriter ==
  ASSUME StreamBufferAssumption, StreamInv, WriterWoken, Send \/ SendStep \/ SendFromISR
  PROVE  WriterWoken'
<1>1. /\ w \in WriterCalls /\ Notices /\ IdleWriter.at = "idle"
      /\ (config.writer = "interrupt" => w.at = "idle")
  BY WriterFacts
<1>2. ASSUME w'.at \notin {"wait", "blocked"}
      PROVE  WriterWoken'
  BY <1>2 DEF WriterWoken
<1>3. CASE Send
  <2>1. w'.at \in {"try", "sample"}
    BY <1>3 DEF Send, IdleWriter
  <2>2. QED
    BY <1>2, <2>1
<1>4. CASE SendTries
  <2>1. CASE SpacesAvailable < Required(w.count)
    <3>1. /\ w'.count = w.count /\ waitingToSend' = TRUE
          /\ UNCHANGED <<head, tail, config>>
      BY <1>1, <1>4, <2>1 DEF SendTries, WriterCalls, SharedByWriter
    <3>2. SpacesAvailable' = SpacesAvailable /\ Required(w.count)' = Required(w.count)
      BY <3>1 DEF SpacesAvailable, Required, Message
    <3>3. QED
      BY <2>1, <3>1, <3>2 DEF WriterWoken
  <2>2. CASE ~(SpacesAvailable < Required(w.count))
    BY <1>1, <1>2, <1>4, <2>2 DEF SendTries, WriterCalls
  <2>3. QED
    BY <2>1, <2>2
<1>5. CASE SendWaits
  <2>1. PICK next \in {"blocked", "unregister"} :
               NotifyWait("writer", w.at, next) /\ WriterMoves(next)
    BY <1>5 DEF SendWaits
  <2>2. w'.at = next /\ w'.count = w.count
    BY <1>1, <2>1 DEF WriterMoves, WriterCalls
  <2>3. CASE next = "blocked"
    <3>1. w.at = "wait" /\ notify["writer"] # "received"
      BY <2>1, <2>3 DEF NotifyWait
    <3>2. UNCHANGED <<head, tail, config, r, waitingToSend>>
      BY <1>5 DEF SendWaits, SharedByWriter
    <3>3. SpacesAvailable' = SpacesAvailable /\ Required(w.count)' = Required(w.count)
      BY <2>2, <3>2 DEF SpacesAvailable, Required, Message
    <3>4. QED
      BY <3>1, <3>2, <3>3 DEF WriterWoken
  <2>4. CASE next = "unregister"
    BY <1>2, <2>2, <2>4
  <2>5. QED
    BY <2>3, <2>4
<1>6. CASE SendTimesOut \/ SendUnregisters \/ SendTriesAgain \/ SendSamples \/ SendPublishes
           \/ SendChecks \/ SendNotifies
  <2>1. w'.at \in {"unregister", "again", "try", "sample", "copy", "check", "notify", "idle"}
    BY <1>1, <1>6 DEF SendTimesOut, SendUnregisters, SendTriesAgain, SendSamples,
       SendPublishes, SendChecks, SendNotifies, WriterMoves, WriterCalls
  <2>2. QED
    BY <1>2, <2>1
<1>7. CASE SendCopies
  <2>1. w'.at \in {"idle", "publish"}
    BY <1>1, <1>7 DEF SendCopies, WriterCalls
  <2>2. QED
    BY <1>2, <2>1
<1>8. CASE SendFromISR
  BY <1>1, <1>2, <1>8 DEF SendFromISR
<1>9. QED
  BY <1>3, <1>4, <1>5, <1>6, <1>7, <1>8 DEF SendStep

LEMMA WriterWokenByReader ==
  ASSUME StreamBufferAssumption, StreamInv, WriterWoken,
         Receive \/ ReceiveStep \/ ReceiveFromISR
  PROVE  WriterWoken'
<1>1. /\ r \in ReaderCalls /\ Notices /\ IdleReader.at = "idle"
      /\ (config.reader = "interrupt" => r.at = "idle")
  BY ReaderFacts
<1>2. CASE ReceiveTries \/ ReceiveWaits \/ ReceiveTimesOut
  <2>1. /\ UNCHANGED <<w, waitingToSend, head, tail, config>> /\ r.at # "notify"
    BY <1>2 DEF ReceiveTries, ReceiveWaits, NotifyWait, ReceiveTimesOut, SharedByReader
  <2>2. CASE ClearState("reader") \/ (\E next : NotifyWait("reader", r.at, next))
             \/ \E v : notify' = [notify EXCEPT !["reader"] = v]
    BY <1>1, <2>1, <2>2, OneNotified, WriterStaysWoken
  <2>3. CASE notify' = notify
    BY <2>1, <2>3, WriterStaysWoken
  <2>4. QED
    BY <1>2, <2>2, <2>3 DEF ReceiveTries, ReceiveWaits, ReceiveTimesOut
<1>3. CASE Receive \/ ReceiveUnregisters \/ ReceiveSamples \/ ReceiveCopies
  <2>1. /\ UNCHANGED <<w, waitingToSend, head, tail, config>> /\ r.at # "notify"
        /\ notify' = notify
    BY <1>3 DEF Receive, ReceiveUnregisters, ReceiveSamples, ReceiveCopies, SharedByReader
  <2>2. QED
    BY <2>1, WriterStaysWoken
<1>4. CASE ReceivePublishes
  <2>1. /\ r'.at = "notify" /\ UNCHANGED <<w, waitingToSend, notify>>
    BY <1>4 DEF ReceivePublishes, SharedByReader, IdleReader
  <2>2. QED
    BY <2>1 DEF WriterWoken
<1>5. CASE ReceiveNotifies \/ ReceiveFromISR
  <2>1. NotifyWriter /\ w' = w
    BY <1>5 DEF ReceiveNotifies, ReceiveFromISR, SharedByReader
  <2>2. QED
    BY <1>1, <2>1, WriterNotified
<1>6. QED
  BY <1>2, <1>3, <1>4, <1>5 DEF ReceiveStep

LEMMA WriterWokenByOthers ==
  ASSUME StreamBufferAssumption, StreamInv, WriterWoken, Reset \/ SetTriggerLevel
  PROVE  WriterWoken'
<1>1. CASE Reset
  BY <1>1 DEF Reset, WriterWoken
<1>2. CASE SetTriggerLevel
  BY <1>2, SetTriggerLevelKeeps, WriterStaysWoken
<1>3. QED
  BY <1>1, <1>2

(* The same of the reader.                                                 *)
LEMMA ReaderStaysWoken ==
  ASSUME ReaderWoken, UNCHANGED <<r, waitingToReceive, head, tail, config>>,
         notify'["reader"] = notify["reader"],
         w.at \in {"check", "notify"} => w'.at \in {"check", "notify"}
  PROVE  ReaderWoken'
<1>1. BytesInBuffer' = BytesInBuffer
  BY DEF BytesInBuffer
<1>2. QED
  BY <1>1 DEF ReaderWoken

LEMMA ReaderNotified ==
  ASSUME Notices, ReaderWoken, r' = r, config' = config, NotifyReader
  PROVE  ReaderWoken'
<1>1. config.kind # "batching" /\ r.at \in {"wait", "blocked"} => notify'["reader"] = "received"
  BY DEF Notices, ReaderWoken, NotifyReader
<1>2. QED
  BY <1>1 DEF ReaderWoken

LEMMA ReaderWokenByReader ==
  ASSUME StreamBufferAssumption, StreamInv, ReaderWoken,
         Receive \/ ReceiveStep \/ ReceiveFromISR
  PROVE  ReaderWoken'
<1>1. /\ r \in ReaderCalls /\ Notices /\ IdleReader.at = "idle" /\ Cursors /\ RingOK
      /\ (config.reader = "interrupt" => r.at = "idle") /\ ReaderOK /\ config \in Config
      /\ Prefix \in Nat /\ (~Message => Prefix = 0) /\ BytesInBuffer \in Nat
  BY ReaderFacts, Numbers
<1>2. ASSUME r'.at \notin {"wait", "blocked"}
      PROVE  ReaderWoken'
  BY <1>2 DEF ReaderWoken
<1>3. CASE Receive
  <2>1. r'.at \in {"try", "sample"}
    BY <1>3 DEF Receive, IdleReader
  <2>2. QED
    BY <1>2, <2>1
<1>4. CASE ReceiveTries
  <2>1. CASE BytesInBuffer <= r.below
    <3>1. r.at = "try" /\ waitingToReceive' = TRUE /\ UNCHANGED <<head, tail, config>>
      BY <1>4, <2>1 DEF ReceiveTries, SharedByReader
    <3>2. BytesInBuffer' = BytesInBuffer
      BY <3>1 DEF BytesInBuffer
    <3>3. ASSUME config.kind # "batching"
          PROVE  BytesInBuffer < config.trigger
      <4>1. BytesInBuffer <= Prefix /\ config.trigger \in Nat \ {0}
        BY <1>1, <2>1, <3>1, <3>3 DEF ReaderOK, Config
      <4>2. BytesInBuffer = 0
        <5>1. CASE Message
          <6>1. ASSUME BytesInBuffer > 0
                PROVE  FALSE
            <7>1. /\ Head(lengths) \in Nat \ {0} /\ Prefix + Head(lengths) <= BytesInBuffer
              BY <1>1, <5>1, <6>1, NextMessage
            <7>2. QED
              BY <1>1, <4>1, <7>1
          <6>2. QED
            BY <1>1, <6>1
        <5>2. CASE ~Message
          BY <1>1, <4>1, <5>2
        <5>3. QED
          BY <5>1, <5>2
      <4>3. QED
        BY <4>1, <4>2
    <3>4. QED
      BY <3>1, <3>2, <3>3 DEF ReaderWoken
  <2>2. CASE ~(BytesInBuffer <= r.below)
    BY <1>1, <1>2, <1>4, <2>2 DEF ReceiveTries, ReaderCalls
  <2>3. QED
    BY <2>1, <2>2
<1>5. CASE ReceiveWaits
  <2>1. PICK next \in {"blocked", "unregister"} :
               NotifyWait("reader", r.at, next) /\ ReaderMoves(next)
    BY <1>5 DEF ReceiveWaits
  <2>2. r'.at = next
    BY <1>1, <2>1 DEF ReaderMoves, ReaderCalls
  <2>3. CASE next = "blocked"
    <3>1. r.at = "wait" /\ notify["reader"] # "received"
      BY <2>1, <2>3 DEF NotifyWait
    <3>2. UNCHANGED <<head, tail, config, w, waitingToReceive>>
      BY <1>5 DEF ReceiveWaits, SharedByReader
    <3>3. BytesInBuffer' = BytesInBuffer
      BY <3>2 DEF BytesInBuffer
    <3>4. QED
      BY <3>1, <3>2, <3>3 DEF ReaderWoken
  <2>4. CASE next = "unregister"
    BY <1>2, <2>2, <2>4
  <2>5. QED
    BY <2>3, <2>4
<1>6. CASE ReceiveTimesOut \/ ReceiveUnregisters \/ ReceiveSamples \/ ReceivePublishes
           \/ ReceiveNotifies
  <2>1. r'.at \in {"unregister", "sample", "copy", "notify", "idle"}
    BY <1>1, <1>6 DEF ReceiveTimesOut, ReceiveUnregisters, ReceiveSamples,
       ReceivePublishes, ReceiveNotifies, ReaderMoves, ReaderCalls, IdleReader
  <2>2. QED
    BY <1>2, <2>1
<1>7. CASE ReceiveCopies
  <2>1. r'.at \in {"idle", "publish"}
    BY <1>1, <1>7 DEF ReceiveCopies, ReaderCalls
  <2>2. QED
    BY <1>2, <2>1
<1>8. CASE ReceiveFromISR
  BY <1>1, <1>2, <1>8 DEF ReceiveFromISR
<1>9. QED
  BY <1>3, <1>4, <1>5, <1>6, <1>7, <1>8 DEF ReceiveStep

LEMMA ReaderWokenByWriter ==
  ASSUME StreamBufferAssumption, StreamInv, ReaderWoken, Send \/ SendStep \/ SendFromISR
  PROVE  ReaderWoken'
<1>1. /\ w \in WriterCalls /\ Notices /\ IdleWriter.at = "idle" /\ Cursors
      /\ (config.writer = "interrupt" => w.at = "idle") /\ config \in Config
      /\ BytesInBuffer \in Nat /\ config.trigger \in Nat
  <2>1. config.trigger \in Nat
    BY ReaderFacts DEF Config
  <2>2. QED
    BY <2>1, WriterFacts, ReaderFacts, Numbers
<1>2. CASE SendTries \/ SendWaits \/ SendTimesOut
  <2>1. /\ UNCHANGED <<r, waitingToReceive, head, tail, config>>
        /\ w.at \notin {"check", "notify"}
    BY <1>2 DEF SendTries, SendWaits, NotifyWait, SendTimesOut, SharedByWriter
  <2>2. CASE ClearState("writer") \/ (\E next : NotifyWait("writer", w.at, next))
             \/ \E v : notify' = [notify EXCEPT !["writer"] = v]
    BY <1>1, <2>1, <2>2, OneNotified, ReaderStaysWoken
  <2>3. CASE notify' = notify
    BY <2>1, <2>3, ReaderStaysWoken
  <2>4. QED
    BY <1>2, <2>2, <2>3 DEF SendTries, SendWaits, SendTimesOut
<1>3. CASE Send \/ SendUnregisters \/ SendTriesAgain \/ SendSamples \/ SendCopies
  <2>1. /\ UNCHANGED <<r, waitingToReceive, head, tail, config>>
        /\ w.at \notin {"check", "notify"} /\ notify' = notify
    BY <1>3 DEF Send, SendUnregisters, SendTriesAgain, SendSamples, SendCopies, SharedByWriter
  <2>2. QED
    BY <2>1, ReaderStaysWoken
<1>4. CASE SendPublishes
  <2>1. /\ w'.at = "check" /\ UNCHANGED <<r, config, waitingToReceive, notify>>
    BY <1>1, <1>4 DEF SendPublishes, SharedByWriter, WriterMoves, WriterCalls
  <2>2. QED
    BY <2>1 DEF ReaderWoken
<1>5. CASE SendChecks
  <2>1. UNCHANGED <<r, waitingToReceive, head, tail, config, notify>>
    BY <1>5 DEF SendChecks, SharedByWriter
  <2>2. BytesInBuffer' = BytesInBuffer
    BY <2>1 DEF BytesInBuffer
  <2>3. w'.at = "notify" \/ BytesInBuffer < config.trigger
    BY <1>1, <1>5 DEF SendChecks, Triggered, WriterCalls
  <2>4. QED
    BY <2>1, <2>2, <2>3 DEF ReaderWoken
<1>6. CASE SendNotifies
  <2>1. NotifyReader /\ r' = r /\ config' = config
    BY <1>6 DEF SendNotifies, SharedByWriter
  <2>2. QED
    BY <1>1, <2>1, ReaderNotified
<1>7. CASE SendFromISR
  <2>1. r' = r /\ config' = config /\ tail' = tail
    BY <1>7 DEF SendFromISR, SharedByWriter
  <2>2. CASE NotifyReader
    BY <1>1, <2>1, <2>2, ReaderNotified
  <2>3. CASE ~Triggered(InRing(Length + head' - tail)) /\ UNCHANGED <<waitingToReceive, notify>>
    <3>1. BytesInBuffer' = InRing(Length + head' - tail)
      BY <2>1 DEF BytesInBuffer
    <3>2. BytesInBuffer' \in Nat
      <4>1. StreamInv'
        BY <1>7, SendFromISRKeeps
      <4>2. head' \in Index /\ tail' \in Index
        BY <4>1 DEF StreamInv, StreamTypeOK
      <4>3. InRing(Length + head' - tail') \in Index
        BY <4>2, RingDistance
      <4>4. QED
        BY <1>1, <2>1, <3>1, <4>3, Numbers
    <3>3. BytesInBuffer' < config.trigger
      BY <1>1, <2>3, <3>1, <3>2 DEF Triggered
    <3>4. QED
      BY <2>1, <2>3, <3>3 DEF ReaderWoken
  <2>4. QED
    BY <1>7, <2>2, <2>3 DEF SendFromISR
<1>8. QED
  BY <1>2, <1>3, <1>4, <1>5, <1>6, <1>7 DEF SendStep

LEMMA ReaderWokenByOthers ==
  ASSUME StreamBufferAssumption, StreamInv, ReaderWoken, Reset \/ SetTriggerLevel,
         config'.trigger >= config.trigger
  PROVE  ReaderWoken'
<1>1. CASE Reset
  BY <1>1 DEF Reset, ReaderWoken
<1>2. CASE SetTriggerLevel
  <2>1. /\ UNCHANGED <<ring, head, tail, waitingToReceive, notify, w, r>>
        /\ config'.kind = config.kind
    BY <1>2, SetTriggerLevelKeeps
  <2>2. BytesInBuffer' = BytesInBuffer
    BY <2>1 DEF BytesInBuffer
  <2>3. BytesInBuffer \in Nat /\ config.trigger \in Nat /\ config'.trigger \in Nat
    <3>1. StreamInv'
      BY <1>2, SetTriggerLevelKeeps
    <3>2. config' \in Config /\ config \in Config
      BY <3>1 DEF StreamInv, StreamTypeOK
    <3>3. QED
      BY <3>2, ReaderFacts, Numbers DEF Config
  <2>4. BytesInBuffer < config.trigger => BytesInBuffer' < config'.trigger
    BY <2>2, <2>3
  <2>5. QED
    BY <2>1, <2>4 DEF ReaderWoken
<1>3. QED
  BY <1>1, <1>2

(* The writer is never left asleep beside the room it waits for: whoever   *)
(* made the room is on its way to notify it.                               *)
THEOREM WriterNeverSleepsInVain ==
  ASSUME StreamBufferAssumption
  PROVE  StreamSpec => []~WriterSleepsInVain
<1>1. StreamInit => StreamInv /\ WriterWoken
  <2>1. ASSUME StreamInit
        PROVE  StreamInv /\ WriterWoken
    <3>1. w.at = "idle"
      BY <2>1 DEF StreamInit, IdleWriter
    <3>2. QED
      BY <2>1, <3>1, StreamInitInv DEF WriterWoken
  <2>2. QED
    BY <2>1
<1>2. (StreamInv /\ WriterWoken) /\ [StreamNext]_vars => (StreamInv /\ WriterWoken)'
  <2>1. ASSUME StreamInv, WriterWoken, StreamNext
        PROVE  (StreamInv /\ WriterWoken)'
    BY <2>1, StreamStep, WriterWokenByWriter, WriterWokenByReader, WriterWokenByOthers
    DEF StreamNext
  <2>2. ASSUME StreamInv, WriterWoken, UNCHANGED vars
        PROVE  (StreamInv /\ WriterWoken)'
    <3>1. /\ UNCHANGED <<w, waitingToSend, head, tail>> /\ config' = config
          /\ notify' = notify /\ r' = r
      BY <2>2 DEF vars
    <3>2. QED
      BY <2>2, <3>1, StreamStutter, WriterStaysWoken
  <2>3. QED
    BY <2>1, <2>2
<1>3. StreamInv /\ WriterWoken => ~WriterSleepsInVain
  <2>1. ASSUME StreamInv, WriterWoken, WriterSleepsInVain
        PROVE  FALSE
    <3>1. SpacesAvailable < Required(w.count) /\ SpacesAvailable >= Required(w.count)
      BY <2>1 DEF WriterWoken, WriterSleepsInVain
    <3>2. SpacesAvailable \in Nat /\ Required(w.count) \in Nat
      <4>1. Cursors /\ w.count \in Nat
        BY <2>1, WriterFacts, Numbers DEF WriterCalls
      <4>2. QED
        BY <4>1, Numbers DEF Required, Least
    <3>3. QED
      BY <3>1, <3>2
  <2>2. QED
    BY <2>1
<1>4. QED
  BY <1>1, <1>2, <1>3, PTL DEF StreamSpec

LevelNeverLowered == [][config'.trigger >= config.trigger]_vars

(* Nor is a reader left asleep beside trigger-level bytes, unless the      *)
(* level is lowered while it sleeps - which the code does without looking  *)
(* for a sleeper - or the buffer is a batching one, whose reader also      *)
(* waits beside the trigger level itself.                                  *)
THEOREM SleepersNeverInVain ==
  ASSUME StreamBufferAssumption, "batching" \notin Kinds
  PROVE  StreamSpec /\ LevelNeverLowered => []NoneSleepsInVain
<1> DEFINE Rises == config'.trigger >= config.trigger
           Woken == StreamInv /\ ReaderWoken
<1>1. StreamInit => Woken
  <2>1. ASSUME StreamInit
        PROVE  Woken
    <3>1. r.at = "idle"
      BY <2>1 DEF StreamInit, IdleReader
    <3>2. QED
      BY <2>1, <3>1, StreamInitInv DEF ReaderWoken
  <2>2. QED
    BY <2>1
<1>2. Woken /\ [StreamNext]_vars /\ [Rises]_vars => Woken'
  <2>1. ASSUME StreamInv, ReaderWoken, StreamNext, Rises
        PROVE  Woken'
    BY <2>1, StreamStep, ReaderWokenByWriter, ReaderWokenByReader, ReaderWokenByOthers
    DEF StreamNext
  <2>2. ASSUME StreamInv, ReaderWoken, UNCHANGED vars
        PROVE  Woken'
    <3>1. UNCHANGED <<r, waitingToReceive, head, tail, config, notify, w>>
      BY <2>2 DEF vars
    <3>2. QED
      BY <2>2, <3>1, StreamStutter, ReaderStaysWoken
  <2>3. QED
    BY <2>1, <2>2
<1>3. Woken => ~ReaderSleepsInVain
  <2>1. ASSUME StreamInv, ReaderWoken, ReaderSleepsInVain
        PROVE  FALSE
    <3>1. /\ BytesInBuffer \in Nat /\ config.trigger \in Nat /\ config.kind # "batching"
      BY <2>1, ReaderFacts, Numbers DEF Config
    <3>2. BytesInBuffer < config.trigger /\ BytesInBuffer >= config.trigger
      BY <2>1, <3>1 DEF ReaderWoken, ReaderSleepsInVain
    <3>3. QED
      BY <3>1, <3>2
  <2>2. QED
    BY <2>1
<1>4. ~ReaderSleepsInVain /\ ~WriterSleepsInVain => NoneSleepsInVain
  BY DEF NoneSleepsInVain
<1> HIDE DEF Woken
<1>5. QED
  BY <1>1, <1>2, <1>3, <1>4, WriterNeverSleepsInVain, PTL DEF StreamSpec, LevelNeverLowered

(* Where the level is only ever set higher than it can have been, it is    *)
(* never lowered.                                                          *)
LEMMA LevelRises ==
  ASSUME StreamBufferAssumption, LevelOnlyRises
  PROVE  StreamSpec => LevelNeverLowered
<1> DEFINE Level == config.trigger \in Triggers \cup NewTriggers \cup {1}
           Rises == config'.trigger >= config.trigger
           Known == StreamInv /\ Level
<1>1. StreamInit => Known
  BY StreamInitInv DEF StreamInit
<1>2. ASSUME StreamInv, Level, StreamNext
      PROVE  Level' /\ Rises
  <2>1. config \in Config /\ config.trigger \in Nat /\ config.trigger >= config.trigger
    BY <1>2, ReaderFacts DEF Config
  <2>2. CASE SetTriggerLevel
    <3>1. PICK n \in NewTriggers : config' = [config EXCEPT !.trigger = IF n = 0 THEN 1 ELSE n]
      BY <2>2 DEF SetTriggerLevel
    <3>2. config'.trigger = IF n = 0 THEN 1 ELSE n
      BY <2>1, <3>1 DEF Config
    <3>3. n \in Nat /\ \A t \in Triggers \cup NewTriggers : (IF n = 0 THEN 1 ELSE n) >= t
      BY DEF LevelOnlyRises, StreamBufferAssumption
    <3>4. Level'
      BY <3>2
    <3>5. config.trigger = 1 => Rises
      BY <3>2, <3>3
    <3>6. config.trigger \in Triggers \cup NewTriggers => Rises
      BY <3>2, <3>3
    <3>7. QED
      BY <1>2, <3>4, <3>5, <3>6
  <2>3. CASE ~SetTriggerLevel
    <3>1. config' = config
      BY <1>2, <2>3
      DEF StreamNext, Send, SendStep, SendTries, SendWaits, SendTimesOut, SendUnregisters,
          SendTriesAgain, SendSamples, SendCopies, SendPublishes, SendChecks, SendNotifies,
          SendFromISR, SharedByWriter, Receive, ReceiveStep, ReceiveTries, ReceiveWaits,
          ReceiveTimesOut, ReceiveUnregisters, ReceiveSamples, ReceiveCopies,
          ReceivePublishes, ReceiveNotifies, ReceiveFromISR, SharedByReader, Reset
    <3>2. QED
      BY <1>2, <2>1, <3>1
  <2>4. QED
    BY <2>2, <2>3
<1>3. Known /\ [StreamNext]_vars => Known' /\ [Rises]_vars
  <2>1. Known /\ UNCHANGED vars => Level'
    BY DEF vars
  <2>2. QED
    BY <1>2, <2>1, StreamStep, StreamStutter
<1> HIDE DEF Known
<1>4. QED
  BY <1>1, <1>3, PTL DEF StreamSpec, LevelNeverLowered

=============================================================================
