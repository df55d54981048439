--------------------------- MODULE StorageProofs ----------------------------
(***************************************************************************)
(* Theorems about what queues hold, for every number of queues, sets and   *)
(* semaphores of any length and any data: that the rings implement bounded *)
(* sequences, that their pointers agree with their counts, and that a set  *)
(* announces each item of its members once.                                *)
(***************************************************************************)
EXTENDS QueueStorage, Integers, FiniteSetTheorems, SequenceTheorems, TLAPS

-----------------------------------------------------------------------------
(* The inductive invariant.                                                *)

(* The index of the i-th item after the read pointer                       *)
Slot(t, i, n) == (t + i) % n

(* A control block of q whose pointers agree with its count: what lies     *)
(* between them are items.  A semaphore has no ring.                       *)
Sound(q, r) ==
  /\ r \in Block(q)
  /\ q \notin Counting =>
       /\ r.write = (r.read + 1 + r.waiting) % Length[q]
       /\ \A i \in 1 .. r.waiting : r.items[Slot(r.read, i, Length[q])] \in Item

(* What the control block r of q holds                                     *)
Held(q, r) ==
  IF q \in Counting THEN [i \in 1 .. r.waiting |-> Token]
  ELSE [i \in 1 .. r.waiting |-> r.items[Slot(r.read, i, Length[q])]]

(* The blocks, and that only queues that exist are in sets, or about to be *)
(* removed from one, or from the heap.                                     *)
BlocksSound ==
  /\ queue = [q \in Queue |-> queue[q]]
  /\ \A q \in Queue : Exists(q) => Sound(q, queue[q])
  /\ \A q \in Queue : Exists(q) /\ queue[q].set # NoQueue =>
       q \notin Sets /\ Exists(queue[q].set)
  /\ removing \subseteq {q \in Queue : Exists(q)}
  /\ selected \in [Queue -> Nat]
  /\ allocated \subseteq {q \in Queue : Exists(q)}
  /\ \A q \in Queue : Exists(q) => (queue[q].static <=> q \notin allocated)

(* A queue that a task has locked is in a set, and stays in it.            *)
LockSound ==
  /\ locked # NoQueue => locked \in Queue /\ Exists(locked) /\ queue[locked].set # NoQueue
  /\ locked = NoQueue => cTxLock = 0
  /\ cTxLock \in Nat /\ miscounts \in Nat

-----------------------------------------------------------------------------
(* Indices that wrap.                                                      *)

LEMMA RemainderWraps ==
  ASSUME NEW n \in Nat \ {0}, NEW a \in 0 .. 2 * n
  PROVE  /\ a % n \in 0 .. n - 1
         /\ a < n => a % n = a
         /\ a >= n /\ a < 2 * n => a % n = a - n
         /\ a = 2 * n => a % n = 0
OBVIOUS

LEMMA SlotWraps ==
  ASSUME NEW n \in Nat \ {0}, NEW t \in 0 .. n - 1, NEW i \in 0 .. n
  PROVE  /\ Slot(t, i, n) \in 0 .. n - 1
         /\ t + i < n => Slot(t, i, n) = t + i
         /\ t + i >= n => Slot(t, i, n) = t + i - n
<1> DEFINE a == t + i
<1>1. a \in 0 .. 2 * n /\ a < 2 * n
  OBVIOUS
<1> HIDE DEF a
<1>2. /\ a % n \in 0 .. n - 1 /\ (a < n => a % n = a) /\ (a >= n => a % n = a - n)
  BY <1>1, RemainderWraps
<1>3. QED
  BY <1>2 DEF a, Slot

LEMMA NextWraps ==
  ASSUME NEW n \in Nat \ {0}, NEW a \in 0 .. 2 * n - 1
  PROVE  ((a % n) + 1) % n = (a + 1) % n
<1> DEFINE b == a % n
           c == b + 1
           d == a + 1
<1>1. b \in 0 .. n - 1 /\ (a < n => b = a) /\ (a >= n => b = a - n)
  <2>1. a \in 0 .. 2 * n /\ a < 2 * n
    OBVIOUS
  <2>2. QED
    BY <2>1, RemainderWraps
<1>2. c \in 0 .. 2 * n /\ d \in 0 .. 2 * n
  BY <1>1
<1> HIDE DEF b, c, d
<1>3. /\ c < n => c % n = c
      /\ c >= n /\ c < 2 * n => c % n = c - n
      /\ d < n => d % n = d
      /\ d >= n /\ d < 2 * n => d % n = d - n
      /\ d = 2 * n => d % n = 0
  BY <1>2, RemainderWraps
<1>4. c % n = d % n
  BY <1>1, <1>2, <1>3 DEF c, d
<1>5. QED
  BY <1>4 DEF b, c, d

(* Different items lie at different places.                                *)
LEMMA SlotsApart ==
  ASSUME NEW n \in Nat \ {0}, NEW t \in 0 .. n - 1, NEW i \in 1 .. n, NEW j \in 1 .. n, i # j
  PROVE  Slot(t, i, n) # Slot(t, j, n)
<1>1. /\ (t + i < n => Slot(t, i, n) = t + i) /\ (t + i >= n => Slot(t, i, n) = t + i - n)
      /\ (t + j < n => Slot(t, j, n) = t + j) /\ (t + j >= n => Slot(t, j, n) = t + j - n)
  BY SlotWraps
<1>2. QED
  BY <1>1

(* One place on, and one place back                                        *)
LEMMA SlotMoves ==
  ASSUME NEW n \in Nat \ {0}, NEW t \in 0 .. n - 1, NEW i \in 0 .. n - 1
  PROVE  /\ (t + 1) % n \in 0 .. n - 1 /\ (t + n - 1) % n \in 0 .. n - 1
         /\ Slot((t + 1) % n, i, n) = Slot(t, i + 1, n)
         /\ Slot((t + n - 1) % n, i + 1, n) = Slot(t, i, n)
         /\ Slot(t, n, n) = t /\ Slot(t, 0, n) = t
<1> DEFINE u == (t + 1) % n
           b == t + n - 1
           d == b % n
<1>1. /\ u \in 0 .. n - 1 /\ (t + 1 < n => u = t + 1) /\ (t + 1 >= n => u = t + 1 - n)
  <2>1. 1 \in 0 .. n
    OBVIOUS
  <2>2. QED
    BY <2>1, SlotWraps DEF Slot
<1>2. b \in 0 .. 2 * n /\ b < 2 * n
  OBVIOUS
<1>3. d \in 0 .. n - 1 /\ (b < n => d = b) /\ (b >= n => d = b - n)
  <2> HIDE DEF b
  <2>1. QED
    BY <1>2, RemainderWraps
<1>4. (t = 0 => d = n - 1) /\ (t > 0 => d = t - 1)
  BY <1>3
<1> HIDE DEF u, d
<1>5. Slot(u, i, n) = Slot(t, i + 1, n)
  <2>1. /\ (u + i < n => Slot(u, i, n) = u + i)
        /\ (u + i >= n => Slot(u, i, n) = u + i - n)
    BY <1>1, SlotWraps
  <2>2. i + 1 \in 0 .. n
    OBVIOUS
  <2>3. /\ (t + (i + 1) < n => Slot(t, i + 1, n) = t + (i + 1))
        /\ (t + (i + 1) >= n => Slot(t, i + 1, n) = t + (i + 1) - n)
    BY <2>2, SlotWraps
  <2>4. QED
    BY <1>1, <2>1, <2>3
<1>6. Slot(d, i + 1, n) = Slot(t, i, n)
  <2>1. /\ (t + i < n => Slot(t, i, n) = t + i)
        /\ (t + i >= n => Slot(t, i, n) = t + i - n)
    BY SlotWraps
  <2>2. i + 1 \in 0 .. n
    OBVIOUS
  <2>3. /\ (d + (i + 1) < n => Slot(d, i + 1, n) = d + (i + 1))
        /\ (d + (i + 1) >= n => Slot(d, i + 1, n) = d + (i + 1) - n)
    BY <1>3, <2>2, SlotWraps
  <2>4. QED
    BY <1>3, <1>4, <2>1, <2>3
<1>7. Slot(t, n, n) = t /\ Slot(t, 0, n) = t
  BY SlotWraps
<1>8. QED
  BY <1>1, <1>3, <1>5, <1>6, <1>7 DEF u, d

-----------------------------------------------------------------------------
(* What an item that comes or goes does to a ring, and to what it holds.   *)

LEMMA BlockFields ==
  ASSUME StorageAssumption, NEW q \in Queue, NEW r \in Block(q)
  PROVE  /\ Length[q] \in Nat \ {0}
         /\ r.items \in [0 .. Length[q] - 1 -> Item \cup {NoQueue}]
         /\ r.write \in 0 .. Length[q] - 1 /\ r.read \in 0 .. Length[q] - 1
         /\ r.waiting \in 0 .. Length[q] /\ r.waiting \in Nat
         /\ r.static \in BOOLEAN /\ r.set \in Sets \cup {NoQueue}
BY DEF StorageAssumption, Block

LEMMA BlockRecord ==
  ASSUME NEW q, NEW r \in Block(q)
  PROVE  /\ r = [items |-> r.items, write |-> r.write, read |-> r.read,
                 waiting |-> r.waiting, static |-> r.static, set |-> r.set]
         /\ DOMAIN r = {"items", "write", "read", "waiting", "static", "set"}
<1>1. r = [items |-> r.items, write |-> r.write, read |-> r.read,
           waiting |-> r.waiting, static |-> r.static, set |-> r.set]
  BY DEF Block
<1>2. QED
  BY <1>1

LEMMA BlockBuilt ==
  ASSUME StorageAssumption, NEW q \in Queue,
         NEW items \in [0 .. Length[q] - 1 -> Item \cup {NoQueue}],
         NEW write \in 0 .. Length[q] - 1, NEW read \in 0 .. Length[q] - 1,
         NEW waiting \in 0 .. Length[q], NEW static \in BOOLEAN, NEW set \in Sets \cup {NoQueue}
  PROVE  [items |-> items, write |-> write, read |-> read, waiting |-> waiting,
          static |-> static, set |-> set] \in Block(q)
BY DEF Block

(* The fields of the blocks after each operation                           *)
LEMMA BackFields ==
  ASSUME NEW q, NEW r \in Block(q), NEW x, NEW n
  PROVE  ToBack(r, x, n) =
           [items |-> [r.items EXCEPT ![r.write] = x], write |-> (r.write + 1) % n,
            read |-> r.read, waiting |-> r.waiting + 1, static |-> r.static, set |-> r.set]
<1>1. ToBack(r, x, n) =
        [[[r EXCEPT !.items = [r.items EXCEPT ![r.write] = x]]
             EXCEPT !.write = (r.write + 1) % n]
             EXCEPT !.waiting = r.waiting + 1]
  BY BlockRecord DEF ToBack
<1>2. QED
  BY <1>1, BlockRecord

LEMMA FrontFields ==
  ASSUME NEW q, NEW r \in Block(q), NEW x, NEW n, NEW m
  PROVE  ToFront(r, x, n, m) =
           [items |-> [r.items EXCEPT ![r.read] = x], write |-> r.write,
            read |-> (r.read + n - 1) % n, waiting |-> m, static |-> r.static, set |-> r.set]
<1>1. ToFront(r, x, n, m) =
        [[[r EXCEPT !.items = [r.items EXCEPT ![r.read] = x]]
             EXCEPT !.read = (r.read + n - 1) % n]
             EXCEPT !.waiting = m]
  BY BlockRecord DEF ToFront
<1>2. QED
  BY <1>1, BlockRecord

LEMMA TakenFields ==
  ASSUME NEW q \in Queue, queue[q] \in Block(q)
  PROVE  LET r == queue[q]
             next == (r.read + 1) % Length[q]
         IN  /\ q \in Counting =>
                  Taken(q) = [items |-> r.items, write |-> r.write, read |-> r.read,
                              waiting |-> r.waiting - 1, static |-> r.static, set |-> r.set]
             /\ q \notin Counting =>
                  Taken(q) = [items |-> [r.items EXCEPT ![next] = NoQueue], write |-> r.write,
                              read |-> next, waiting |-> r.waiting - 1,
                              static |-> r.static, set |-> r.set]
<1> DEFINE r == queue[q]
           next == (r.read + 1) % Length[q]
<1>1. q \in Counting => Taken(q) = [r EXCEPT !.waiting = r.waiting - 1]
  BY BlockRecord DEF Taken
<1>2. q \notin Counting =>
        Taken(q) = [[[r EXCEPT !.items = [r.items EXCEPT ![next] = NoQueue]]
                        EXCEPT !.read = next]
                        EXCEPT !.waiting = r.waiting - 1]
  BY BlockRecord DEF Taken
<1>3. QED
  BY <1>1, <1>2, BlockRecord

(* What is held is a sequence, as long as the count says.                  *)
LEMMA HeldIsSequence ==
  ASSUME StorageAssumption, NEW q \in Queue, NEW r, Sound(q, r)
  PROVE  /\ Held(q, r) \in Seq(Item) /\ Len(Held(q, r)) = r.waiting
         /\ q \in Counting => Held(q, r) = [i \in 1 .. r.waiting |-> Token]
         /\ q \notin Counting =>
              \A i \in 1 .. r.waiting : Held(q, r)[i] = r.items[Slot(r.read, i, Length[q])]
<1>1. r.waiting \in Nat
  BY BlockFields DEF Sound
<1>2. CASE q \in Counting
  <2>1. Held(q, r) \in [1 .. r.waiting -> Item] /\ Held(q, r) = [i \in 1 .. r.waiting |-> Token]
    BY <1>2 DEF Held, Item
  <2>2. QED
    BY <1>1, <1>2, <2>1
<1>3. CASE q \notin Counting
  <2>1. \A i \in 1 .. r.waiting : r.items[Slot(r.read, i, Length[q])] \in Item
    BY <1>3 DEF Sound
  <2>2. Held(q, r) = [i \in 1 .. r.waiting |-> r.items[Slot(r.read, i, Length[q])]]
    BY <1>3 DEF Held
  <2>3. Held(q, r) \in [1 .. r.waiting -> Item]
    BY <2>1, <2>2
  <2>4. QED
    BY <1>1, <1>3, <2>2, <2>3
<1>4. QED
  BY <1>2, <1>3

(* The write pointer is not on an item, unless the ring is full.           *)
LEMMA WriteIsNext ==
  ASSUME StorageAssumption, NEW q \in Queue \ Counting, NEW r, Sound(q, r)
  PROVE  /\ r.waiting < Length[q] => r.write = Slot(r.read, r.waiting + 1, Length[q])
         /\ r.write = Slot((r.read + 1) % Length[q], r.waiting, Length[q])
<1>1. /\ Length[q] \in Nat \ {0} /\ r.read \in 0 .. Length[q] - 1
      /\ r.waiting \in 0 .. Length[q] /\ r.write = (r.read + 1 + r.waiting) % Length[q]
  BY BlockFields DEF Sound
<1> DEFINE n == Length[q]
           t == r.read
           m == r.waiting
           w == r.write
           a == t + 1 + m
           u == (t + 1) % n
<1>2. n \in Nat \ {0} /\ t \in 0 .. n - 1 /\ m \in 0 .. n /\ w = a % n
  BY <1>1
<1> HIDE DEF n, t, m, w
<1>3. a \in 0 .. 2 * n /\ a = t + (m + 1)
  BY <1>2
<1>4. u \in 0 .. n - 1 /\ (t + 1 < n => u = t + 1) /\ (t + 1 = n => u = 0)
  <2> DEFINE c == t + 1
  <2>1. c \in 0 .. 2 * n /\ c <= n
    BY <1>2
  <2> HIDE DEF c
  <2>2. /\ c % n \in 0 .. n - 1 /\ (c < n => c % n = c)
        /\ c >= n /\ c < 2 * n => c % n = c - n
    BY <1>2, <2>1, RemainderWraps
  <2>3. QED
    BY <1>2, <2>1, <2>2 DEF c
<1>5. m < n => w = Slot(t, m + 1, n)
  BY <1>2, <1>3 DEF Slot
<1> HIDE DEF u
<1>6. w = Slot(u, m, n)
  <2>1. /\ (u + m < n => Slot(u, m, n) = u + m)
        /\ (u + m >= n => Slot(u, m, n) = u + m - n)
    BY <1>2, <1>4, SlotWraps
  <2> HIDE DEF a
  <2>2. /\ a < n => w = a
        /\ a >= n /\ a < 2 * n => w = a - n
        /\ a = 2 * n => w = 0
    BY <1>2, <1>3, RemainderWraps
  <2>3. QED
    BY <1>2, <1>3, <1>4, <2>1, <2>2
<1>7. QED
  BY <1>5, <1>6 DEF u, n, t, m, w

(* prvCopyDataToQueue at the back                                          *)
LEMMA BackAppends ==
  ASSUME StorageAssumption, NEW q \in Queue \ Counting, NEW r, Sound(q, r),
         NEW x \in Item, r.waiting < Length[q]
  PROVE  LET s == ToBack(r, x, Length[q])
         IN  /\ Sound(q, s) /\ Held(q, s) = Append(Held(q, r), x)
             /\ s.static = r.static /\ s.set = r.set /\ s.waiting = r.waiting + 1
<1> DEFINE n == Length[q]
           s == ToBack(r, x, n)
           t == r.read
           m == r.waiting
           w == r.write
           v == (w + 1) % n
           f == [r.items EXCEPT ![w] = x]
<1>1. /\ n \in Nat \ {0} /\ t \in 0 .. n - 1 /\ w \in 0 .. n - 1
      /\ m \in 0 .. n /\ m \in Nat /\ m < n /\ w = (t + 1 + m) % n
      /\ r.items \in [0 .. n - 1 -> Item \cup {NoQueue}]
      /\ r.static \in BOOLEAN /\ r.set \in Sets \cup {NoQueue}
  BY BlockFields DEF Sound
<1>3. w = Slot(t, m + 1, n)
  BY <1>1, WriteIsNext
<1>4. s = [items |-> f, write |-> v, read |-> t, waiting |-> m + 1,
           static |-> r.static, set |-> r.set]
  BY BackFields DEF Sound
<1>5. \A i \in 1 .. m : r.items[Slot(t, i, n)] \in Item
  BY DEF Sound
<1> HIDE DEF s, n, t, m, w
<1>6. v = (t + 1 + (m + 1)) % n /\ v \in 0 .. n - 1
  <2> DEFINE a == t + 1 + m
  <2>1. a \in 0 .. 2 * n - 1 /\ a + 1 = t + 1 + (m + 1) /\ w = a % n
    BY <1>1
  <2> HIDE DEF a
  <2>2. ((a % n) + 1) % n = (a + 1) % n
    BY <1>1, <2>1, NextWraps
  <2>3. w + 1 \in 0 .. 2 * n
    BY <1>1
  <2>4. QED
    BY <1>1, <2>1, <2>2, <2>3, RemainderWraps
<1>7. /\ f \in [0 .. n - 1 -> Item \cup {NoQueue}] /\ f[w] = x
      /\ \A i \in 1 .. m : f[Slot(t, i, n)] = r.items[Slot(t, i, n)]
  <2>1. ASSUME NEW i \in 1 .. m
        PROVE  Slot(t, i, n) # w /\ Slot(t, i, n) \in 0 .. n - 1
    <3>1. i \in 1 .. n /\ i \in 0 .. n /\ m + 1 \in 1 .. n /\ i # m + 1
      BY <1>1
    <3>2. Slot(t, i, n) # Slot(t, m + 1, n)
      BY <1>1, <3>1, SlotsApart
    <3>3. Slot(t, i, n) \in 0 .. n - 1
      BY <1>1, <3>1, SlotWraps
    <3>4. QED
      BY <1>3, <3>2, <3>3
  <2>2. QED
    BY <1>1, <2>1
<1> HIDE DEF v, f
<1>8. \A i \in 1 .. m + 1 : f[Slot(t, i, n)] = IF i <= m THEN r.items[Slot(t, i, n)] ELSE x
  <2>1. ASSUME NEW i \in 1 .. m + 1
        PROVE  i \in 1 .. m \/ (i = m + 1 /\ ~(i <= m))
    BY <1>1
  <2>2. QED
    BY <1>3, <1>7, <2>1
<1>9. Sound(q, s)
  <2>1. m + 1 \in 0 .. n
    BY <1>1
  <2>2. s \in Block(q)
    BY <1>1, <1>4, <1>6, <1>7, <2>1, BlockBuilt DEF n
  <2>3. \A i \in 1 .. m + 1 : f[Slot(t, i, n)] \in Item
    <3>1. \A i \in 1 .. m + 1 : i <= m => i \in 1 .. m
      BY <1>1
    <3>2. QED
      BY <1>5, <1>8, <3>1
  <2>4. QED
    BY <1>4, <1>6, <2>2, <2>3 DEF Sound, n
<1>10. Held(q, s) = Append(Held(q, r), x)
  <2>1. /\ Held(q, r) \in Seq(Item) /\ Len(Held(q, r)) = m
        /\ \A i \in 1 .. m : Held(q, r)[i] = r.items[Slot(t, i, n)]
    BY HeldIsSequence DEF m, t, n
  <2>2. /\ Held(q, s) \in Seq(Item) /\ Len(Held(q, s)) = m + 1
        /\ \A i \in 1 .. m + 1 : Held(q, s)[i] = f[Slot(t, i, n)]
    BY <1>4, <1>9, HeldIsSequence DEF n
  <2>3. /\ Append(Held(q, r), x) \in Seq(Item) /\ Len(Append(Held(q, r), x)) = m + 1
        /\ \A i \in 1 .. m : Append(Held(q, r), x)[i] = Held(q, r)[i]
        /\ Append(Held(q, r), x)[m + 1] = x
    BY <2>1, AppendProperties
  <2>4. \A i \in 1 .. m + 1 : Held(q, s)[i] = Append(Held(q, r), x)[i]
    <3>1. ASSUME NEW i \in 1 .. m + 1
          PROVE  i \in 1 .. m \/ (i = m + 1 /\ ~(i <= m))
      BY <1>1
    <3>2. \A i \in 1 .. m : i <= m
      BY <1>1
    <3>3. QED
      BY <1>8, <2>1, <2>2, <2>3, <3>1, <3>2
  <2>5. QED
    BY <2>2, <2>3, <2>4, SeqEqual
<1>11. QED
  BY <1>4, <1>9, <1>10 DEF s, m, n

(* prvCopyDataToQueue at the front                                         *)
LEMMA FrontPrepends ==
  ASSUME StorageAssumption, NEW q \in Queue \ Counting, NEW r, Sound(q, r),
         NEW x \in Item, r.waiting < Length[q]
  PROVE  LET s == ToFront(r, x, Length[q], r.waiting + 1)
         IN  /\ Sound(q, s) /\ Held(q, s) = <<x>> \o Held(q, r)
             /\ s.static = r.static /\ s.set = r.set /\ s.waiting = r.waiting + 1
<1> DEFINE n == Length[q]
           t == r.read
           m == r.waiting
           s == ToFront(r, x, n, m + 1)
           w == r.write
           v == (t + n - 1) % n
           f == [r.items EXCEPT ![t] = x]
<1>1. /\ n \in Nat \ {0} /\ t \in 0 .. n - 1 /\ w \in 0 .. n - 1
      /\ m \in 0 .. n /\ m \in Nat /\ m < n /\ w = (t + 1 + m) % n
      /\ r.items \in [0 .. n - 1 -> Item \cup {NoQueue}]
      /\ r.static \in BOOLEAN /\ r.set \in Sets \cup {NoQueue}
  BY BlockFields DEF Sound
<1>2. s = [items |-> f, write |-> w, read |-> v, waiting |-> m + 1,
           static |-> r.static, set |-> r.set]
  BY FrontFields DEF Sound
<1>3. \A i \in 1 .. m : r.items[Slot(t, i, n)] \in Item
  BY DEF Sound
<1> HIDE DEF s, n, t, m, w
<1>4. /\ v \in 0 .. n - 1 /\ \A i \in 0 .. n - 1 : Slot(v, i + 1, n) = Slot(t, i, n)
      /\ Slot(t, n, n) = t /\ Slot(t, 0, n) = t
  <2>1. 0 \in 0 .. n - 1
    BY <1>1
  <2>2. QED
    BY <1>1, <2>1, SlotMoves
<1>5. w = (v + 1 + (m + 1)) % n
  <2>1. w = Slot(t, m + 1, n) /\ m + 1 \in 0 .. n /\ v \in 0 .. n - 1
    BY <1>1, <1>4, WriteIsNext DEF w, t, m, n
  <2>2. (t + n - 1 < n => v = t + n - 1) /\ (t + n - 1 >= n => v = t - 1)
    <3> DEFINE b == t + n - 1
    <3>1. b \in 0 .. 2 * n /\ b < 2 * n
      BY <1>1
    <3> HIDE DEF b
    <3>2. (b < n => b % n = b) /\ (b >= n => b % n = b - n)
      BY <1>1, <3>1, RemainderWraps
    <3>3. QED
      BY <1>1, <3>2 DEF b
  <2> HIDE DEF v
  <2> DEFINE a == v + 1 + (m + 1)
  <2>3. a \in 0 .. 2 * n
    BY <1>1, <1>4
  <2> HIDE DEF a
  <2>4. /\ a < n => a % n = a
        /\ a >= n /\ a < 2 * n => a % n = a - n
        /\ a = 2 * n => a % n = 0
    BY <1>1, <2>3, RemainderWraps
  <2>5. /\ t + (m + 1) < n => w = t + (m + 1)
        /\ t + (m + 1) >= n => w = t + (m + 1) - n
    BY <1>1, <2>1, SlotWraps
  <2>6. w = a % n
    <3>1. n \in Nat /\ t \in Nat /\ m \in Nat /\ t < n /\ m < n /\ n > 0
      BY <1>1
    <3>2. a = v + 1 + (m + 1) /\ v \in Nat
      BY <1>4 DEF a
    <3>3. CASE t = 0
      <4>1. v = n - 1 /\ a = n + m + 1 /\ (t + (m + 1)) = m + 1
        BY <2>2, <3>1, <3>2, <3>3
      <4>2. QED
        BY <2>4, <2>5, <3>1, <4>1
    <3>4. CASE t > 0
      <4>1. v = t - 1 /\ a = t + (m + 1)
        BY <2>2, <3>1, <3>2, <3>4
      <4>2. QED
        BY <2>4, <2>5, <3>1, <4>1
    <3>5. QED
      BY <3>1, <3>3, <3>4
  <2>7. QED
    BY <2>6 DEF a
<1>6. /\ f \in [0 .. n - 1 -> Item \cup {NoQueue}] /\ f[t] = x
      /\ \A i \in 1 .. m : f[Slot(t, i, n)] = r.items[Slot(t, i, n)]
  <2>1. ASSUME NEW i \in 1 .. m
        PROVE  Slot(t, i, n) # t /\ Slot(t, i, n) \in 0 .. n - 1
    <3>1. i \in 1 .. n /\ i \in 0 .. n /\ n \in 1 .. n /\ i # n
      BY <1>1
    <3>2. Slot(t, i, n) # Slot(t, n, n)
      BY <1>1, <3>1, SlotsApart
    <3>3. Slot(t, i, n) \in 0 .. n - 1
      BY <1>1, <3>1, SlotWraps
    <3>4. QED
      BY <1>4, <3>2, <3>3
  <2>2. QED
    BY <1>1, <2>1
<1> HIDE DEF v, f
<1>7. /\ f[Slot(v, 1, n)] = x
      /\ \A i \in 1 .. m : f[Slot(v, i + 1, n)] = r.items[Slot(t, i, n)]
  <2>1. 0 \in 0 .. n - 1 /\ 0 + 1 = 1 /\ \A i \in 1 .. m : i \in 0 .. n - 1
    BY <1>1
  <2>2. Slot(v, 1, n) = t
    BY <1>4, <2>1
  <2>3. QED
    BY <1>4, <1>6, <2>1, <2>2
<1>8. \A i \in 1 .. m + 1 : i = 1 \/ (i # 1 /\ i - 1 \in 1 .. m /\ (i - 1) + 1 = i)
  BY <1>1
<1>9. Sound(q, s)
  <2>1. m + 1 \in 0 .. n
    BY <1>1
  <2>2. s \in Block(q)
    BY <1>1, <1>2, <1>4, <1>6, <2>1, BlockBuilt DEF n
  <2>3. \A i \in 1 .. m + 1 : f[Slot(v, i, n)] \in Item
    BY <1>3, <1>7, <1>8
  <2>4. QED
    BY <1>2, <1>5, <2>2, <2>3 DEF Sound, n
<1>10. Held(q, s) = <<x>> \o Held(q, r)
  <2>1. /\ Held(q, r) \in Seq(Item) /\ Len(Held(q, r)) = m
        /\ \A i \in 1 .. m : Held(q, r)[i] = r.items[Slot(t, i, n)]
    BY HeldIsSequence DEF m, t, n
  <2>2. /\ Held(q, s) \in Seq(Item) /\ Len(Held(q, s)) = m + 1
        /\ \A i \in 1 .. m + 1 : Held(q, s)[i] = f[Slot(v, i, n)]
    BY <1>2, <1>9, HeldIsSequence DEF n
  <2>3. <<x>> \in Seq(Item) /\ Len(<<x>>) = 1 /\ <<x>>[1] = x
    OBVIOUS
  <2>4. /\ <<x>> \o Held(q, r) \in Seq(Item) /\ Len(<<x>> \o Held(q, r)) = m + 1
        /\ (<<x>> \o Held(q, r))[1] = x
        /\ \A i \in 1 .. m : (<<x>> \o Held(q, r))[i + 1] = Held(q, r)[i]
    <3>1. /\ 1 + m = m + 1 /\ 1 \in 1 .. 1 + m /\ 1 <= 1
          /\ \A i \in 1 .. m : i + 1 \in 1 .. 1 + m /\ ~(i + 1 <= 1) /\ (i + 1) - 1 = i
      BY <1>1
    <3>2. QED
      BY <2>1, <2>3, <3>1, ConcatProperties
  <2>5. \A i \in 1 .. m + 1 : Held(q, s)[i] = (<<x>> \o Held(q, r))[i]
    BY <1>7, <1>8, <2>1, <2>2, <2>4
  <2>6. QED
    BY <2>2, <2>4, <2>5, SeqEqual
<1>11. QED
  BY <1>2, <1>9, <1>10 DEF s, m, n

(* prvCopyDataToQueue over the only item                                   *)
LEMMA FrontReplaces ==
  ASSUME StorageAssumption, NEW q \in Queue \ Counting, NEW r, Sound(q, r),
         NEW x \in Item, Length[q] = 1
  PROVE  LET s == ToFront(r, x, Length[q], 1)
         IN  /\ Sound(q, s) /\ Held(q, s) = <<x>>
             /\ s.static = r.static /\ s.set = r.set /\ s.waiting = 1
<1> DEFINE n == Length[q]
           s == ToFront(r, x, n, 1)
           f == [r.items EXCEPT ![0] = x]
<1>1. /\ n = 1 /\ r.items \in [0 .. n - 1 -> Item \cup {NoQueue}]
      /\ r.write \in 0 .. n - 1 /\ r.read \in 0 .. n - 1
      /\ r.static \in BOOLEAN /\ r.set \in Sets \cup {NoQueue}
  BY BlockFields DEF Sound
<1> HIDE DEF n
<1>2. r.write = 0 /\ r.read = 0 /\ (0 + n - 1) % n = 0
  BY <1>1
<1>3. s = [items |-> f, write |-> 0, read |-> 0, waiting |-> 1,
           static |-> r.static, set |-> r.set]
  BY <1>2, FrontFields DEF Sound
<1>4. /\ f \in [0 .. n - 1 -> Item \cup {NoQueue}] /\ f[0] = x
      /\ 0 \in 0 .. n - 1 /\ 1 \in 0 .. n
  BY <1>1
<1>5. Slot(0, 1, n) = 0 /\ (0 + 1 + 1) % n = 0
  BY <1>1 DEF Slot
<1>6. \A i \in 1 .. 1 : i = 1
  OBVIOUS
<1> HIDE DEF s, f
<1>7. Sound(q, s)
  <2>1. s \in Block(q)
    BY <1>1, <1>3, <1>4, BlockBuilt DEF n
  <2>2. QED
    BY <1>3, <1>4, <1>5, <1>6, <2>1 DEF Sound, n
<1>8. Held(q, s) = <<x>>
  <2>1. /\ Held(q, s) \in Seq(Item) /\ Len(Held(q, s)) = s.waiting
        /\ \A i \in 1 .. s.waiting : Held(q, s)[i] = s.items[Slot(s.read, i, n)]
    BY <1>7, HeldIsSequence DEF n
  <2>2. <<x>> \in Seq(Item) /\ Len(<<x>>) = 1 /\ <<x>>[1] = x
    OBVIOUS
  <2>3. 1 \in 1 .. 1 /\ s.waiting = 1 /\ s.items = f /\ s.read = 0
    BY <1>3
  <2>4. Len(Held(q, s)) = 1 /\ Held(q, s)[1] = x
    BY <1>4, <1>5, <2>1, <2>3
  <2>5. QED
    BY <1>6, <2>1, <2>2, <2>4, SeqEqual
<1>9. QED
  BY <1>3, <1>7, <1>8 DEF s, n

(* prvCopyDataFromQueue, or a semaphore that is taken                      *)
LEMMA TakenTail ==
  ASSUME StorageAssumption, NEW q \in Queue, Sound(q, queue[q]), queue[q].waiting > 0
  PROVE  LET s == Taken(q)
             r == queue[q]
         IN  /\ Sound(q, s) /\ Held(q, r) # <<>> /\ Held(q, s) = Tail(Held(q, r))
             /\ s.static = r.static /\ s.set = r.set /\ s.waiting = r.waiting - 1
<1> DEFINE n == Length[q]
           s == Taken(q)
           r == queue[q]
           t == r.read
           m == r.waiting
           w == r.write
           v == (t + 1) % n
           f == [r.items EXCEPT ![v] = NoQueue]
<1>1. /\ n \in Nat \ {0} /\ t \in 0 .. n - 1 /\ w \in 0 .. n - 1
      /\ m \in 0 .. n /\ m \in Nat /\ m > 0 /\ m - 1 \in Nat /\ m - 1 \in 0 .. n
      /\ r.items \in [0 .. n - 1 -> Item \cup {NoQueue}]
      /\ r.static \in BOOLEAN /\ r.set \in Sets \cup {NoQueue}
  BY BlockFields DEF Sound
<1>2. r \in Block(q)
  BY DEF Sound
<1>3. /\ q \in Counting =>
           s = [items |-> r.items, write |-> w, read |-> t, waiting |-> m - 1,
                static |-> r.static, set |-> r.set]
      /\ q \notin Counting =>
           s = [items |-> f, write |-> w, read |-> v, waiting |-> m - 1,
                static |-> r.static, set |-> r.set]
  BY <1>2, TakenFields
<1>4. /\ Held(q, r) \in Seq(Item) /\ Len(Held(q, r)) = m
      /\ q \in Counting => Held(q, r) = [i \in 1 .. m |-> Token]
      /\ q \notin Counting => \A i \in 1 .. m : Held(q, r)[i] = r.items[Slot(t, i, n)]
  BY HeldIsSequence
<1>5. q \notin Counting =>
        /\ \A i \in 1 .. m : r.items[Slot(t, i, n)] \in Item
        /\ w = Slot(v, m, n) /\ w = (t + 1 + m) % n
  BY WriteIsNext DEF Sound
<1> HIDE DEF s, r, n, t, m, w
<1>6. /\ v \in 0 .. n - 1 /\ v = Slot(t, 1, n)
      /\ \A i \in 0 .. n - 1 : Slot(v, i, n) = Slot(t, i + 1, n)
  <2>1. 0 \in 0 .. n - 1
    BY <1>1
  <2>2. QED
    BY <1>1, <2>1, SlotMoves DEF Slot
<1>7. /\ f \in [0 .. n - 1 -> Item \cup {NoQueue}]
      /\ \A i \in 2 .. m : f[Slot(t, i, n)] = r.items[Slot(t, i, n)]
  <2>1. ASSUME NEW i \in 2 .. m
        PROVE  Slot(t, i, n) # v /\ Slot(t, i, n) \in 0 .. n - 1
    <3>1. i \in 1 .. n /\ i \in 0 .. n /\ 1 \in 1 .. n /\ i # 1
      BY <1>1
    <3>2. Slot(t, i, n) # Slot(t, 1, n)
      BY <1>1, <3>1, SlotsApart
    <3>3. Slot(t, i, n) \in 0 .. n - 1
      BY <1>1, <3>1, SlotWraps
    <3>4. QED
      BY <1>6, <3>2, <3>3
  <2>2. QED
    BY <1>1, <1>6, <2>1
<1> HIDE DEF v, f
<1>8. \A i \in 1 .. m - 1 : f[Slot(v, i, n)] = r.items[Slot(t, i + 1, n)]
  <2>1. \A i \in 1 .. m - 1 : i \in 0 .. n - 1 /\ i + 1 \in 2 .. m
    BY <1>1
  <2>2. QED
    BY <1>6, <1>7, <2>1
<1>9. \A i \in 1 .. m - 1 : i \in 1 .. m /\ i + 1 \in 1 .. m
  BY <1>1
<1>10. q \notin Counting => w = (v + 1 + (m - 1)) % n
  <2>1. v + m = v + 1 + (m - 1)
    BY <1>1, <1>6
  <2>2. QED
    BY <1>5, <2>1 DEF Slot
<1>11. Sound(q, s)
  <2>1. CASE q \in Counting
    BY <1>1, <1>3, <2>1, BlockBuilt DEF Sound, n
  <2>2. CASE q \notin Counting
    <3>1. s \in Block(q)
      BY <1>1, <1>3, <1>6, <1>7, <2>2, BlockBuilt DEF n
    <3>2. \A i \in 1 .. m - 1 : f[Slot(v, i, n)] \in Item
      BY <1>5, <1>8, <1>9, <2>2
    <3>3. QED
      BY <1>3, <1>10, <2>2, <3>1, <3>2 DEF Sound, n
  <2>3. QED
    BY <2>1, <2>2
<1>12. Held(q, r) # <<>>
  BY <1>1, <1>4
<1>13. Held(q, s) = Tail(Held(q, r))
  <2>1. /\ Held(q, s) \in Seq(Item) /\ Len(Held(q, s)) = m - 1
        /\ q \in Counting => Held(q, s) = [i \in 1 .. m - 1 |-> Token]
        /\ q \notin Counting =>
             \A i \in 1 .. m - 1 : Held(q, s)[i] = f[Slot(v, i, n)]
    <3>1. s.waiting = m - 1 /\ (q \notin Counting => s.items = f /\ s.read = v)
      BY <1>3
    <3>2. QED
      BY <1>11, <3>1, HeldIsSequence DEF n
  <2>2. /\ Tail(Held(q, r)) \in Seq(Item) /\ Len(Tail(Held(q, r))) = m - 1
        /\ \A i \in 1 .. m - 1 : Tail(Held(q, r))[i] = Held(q, r)[i + 1]
    BY <1>4, <1>12, HeadTailProperties
  <2>3. \A i \in 1 .. m - 1 : Held(q, s)[i] = Tail(Held(q, r))[i]
    BY <1>4, <1>8, <1>9, <2>1, <2>2
  <2>4. QED
    BY <2>1, <2>2, <2>3, SeqEqual
<1>14. s.static = r.static /\ s.set = r.set /\ s.waiting = m - 1
  BY <1>3
<1>15. QED
  BY <1>11, <1>12, <1>13, <1>14 DEF s, r, m

(* A semaphore that is given                                               *)
LEMMA GivenAppends ==
  ASSUME StorageAssumption, NEW q \in Counting, NEW r, Sound(q, r), r.waiting < Length[q]
  PROVE  LET s == [r EXCEPT !.waiting = @ + 1]
         IN  /\ Sound(q, s) /\ Held(q, s) = Append(Held(q, r), Token)
             /\ s.static = r.static /\ s.set = r.set /\ s.waiting = r.waiting + 1
<1> DEFINE s == [r EXCEPT !.waiting = @ + 1]
           m == r.waiting
<1>1. q \in Queue /\ Token \in Item
  BY DEF StorageAssumption, Item
<1>2. /\ r.items \in [0 .. Length[q] - 1 -> Item \cup {NoQueue}]
      /\ r.write \in 0 .. Length[q] - 1 /\ r.read \in 0 .. Length[q] - 1
      /\ m \in Nat /\ m + 1 \in 0 .. Length[q]
      /\ r.static \in BOOLEAN /\ r.set \in Sets \cup {NoQueue}
  BY <1>1, BlockFields DEF Sound
<1>3. s = [items |-> r.items, write |-> r.write, read |-> r.read, waiting |-> m + 1,
           static |-> r.static, set |-> r.set]
  BY BlockRecord DEF Sound
<1> HIDE DEF s, m
<1>4. Sound(q, s)
  BY <1>1, <1>2, <1>3, BlockBuilt DEF Sound
<1>5. Held(q, s) = Append(Held(q, r), Token)
  <2>1. /\ Held(q, r) \in Seq(Item) /\ Len(Held(q, r)) = m
        /\ Held(q, r) = [i \in 1 .. m |-> Token]
    BY <1>1, HeldIsSequence DEF m
  <2>2. /\ Held(q, s) \in Seq(Item) /\ Len(Held(q, s)) = m + 1
        /\ Held(q, s) = [i \in 1 .. m + 1 |-> Token]
    BY <1>1, <1>3, <1>4, HeldIsSequence
  <2>3. /\ Append(Held(q, r), Token) \in Seq(Item) /\ Len(Append(Held(q, r), Token)) = m + 1
        /\ \A i \in 1 .. m : Append(Held(q, r), Token)[i] = Held(q, r)[i]
        /\ Append(Held(q, r), Token)[m + 1] = Token
    <3>1. Held(q, r) \in Seq(Item) /\ Len(Held(q, r)) = m
      BY <2>1
    <3>2. QED
      BY <1>1, <3>1, AppendProperties
  <2>4. \A i \in 1 .. m + 1 : i \in 1 .. m \/ i = m + 1
    BY <1>2
  <2>5. \A i \in 1 .. m + 1 : Held(q, s)[i] = Append(Held(q, r), Token)[i]
    BY <2>1, <2>2, <2>3, <2>4
  <2>6. QED
    BY <2>2, <2>3, <2>5, SeqEqual
<1>6. QED
  BY <1>3, <1>4, <1>5 DEF s, m

(* prvInitialiseNewQueue and the reset leave an empty ring, a new          *)
(* semaphore its initial count.                                            *)
LEMMA NewHolds ==
  ASSUME StorageAssumption, NEW q \in Queue, NEW static \in BOOLEAN, NEW m \in 0 .. Length[q],
         q \notin Counting => m = 0
  PROVE  LET s == [Cleared(q, static) EXCEPT !.waiting = m]
         IN  /\ Sound(q, s) /\ s.static = static /\ s.set = NoQueue /\ s.waiting = m
             /\ Held(q, s) = [i \in 1 .. m |-> Token]
             /\ m = 0 => s = Cleared(q, static)
<1> DEFINE n == Length[q]
           f == [i \in 0 .. n - 1 |-> NoQueue]
           c == Cleared(q, static)
           s == [c EXCEPT !.waiting = m]
<1>1. n \in Nat \ {0} /\ 0 \in 0 .. n - 1 /\ n - 1 \in 0 .. n - 1 /\ (n - 1 + 1 + 0) % n = 0
  <2>1. n \in Nat \ {0} /\ n - 1 + 1 + 0 = n
    BY DEF StorageAssumption
  <2> HIDE DEF n
  <2>2. n % n = 0
    BY <2>1
  <2>3. QED
    BY <2>1, <2>2
<1>2. s = [items |-> f, write |-> 0, read |-> n - 1, waiting |-> m,
           static |-> static, set |-> NoQueue]
  <2>1. c = [items |-> f, write |-> 0, read |-> n - 1, waiting |-> 0,
             static |-> static, set |-> NoQueue]
    BY DEF Cleared
  <2>2. f \in [0 .. n - 1 -> Item \cup {NoQueue}] /\ 0 \in 0 .. n
    BY <1>1
  <2> HIDE DEF c, f
  <2>3. c \in Block(q)
    BY <1>1, <2>1, <2>2, BlockBuilt
  <2>4. QED
    BY <2>1, <2>3, BlockRecord
<1>3. f \in [0 .. n - 1 -> Item \cup {NoQueue}]
  OBVIOUS
<1>0. m = 0 => s = Cleared(q, static)
  <2>1. c = [items |-> f, write |-> 0, read |-> n - 1, waiting |-> 0,
             static |-> static, set |-> NoQueue]
    BY DEF Cleared
  <2> HIDE DEF s, f, c
  <2>2. m = 0 => s = c
    BY <1>2, <2>1
  <2>3. QED
    BY <2>2 DEF c
<1> HIDE DEF s, f
<1>4. s \in Block(q)
  BY <1>1, <1>2, <1>3, BlockBuilt
<1>5. \A i \in 1 .. 0 : FALSE
  OBVIOUS
<1>6. Sound(q, s)
  BY <1>1, <1>2, <1>4, <1>5 DEF Sound
<1>7. Held(q, s) = [i \in 1 .. m |-> Token]
  <2>1. CASE q \in Counting
    BY <1>2, <2>1 DEF Held
  <2>2. CASE q \notin Counting
    <3>1. m = 0 /\ Held(q, s) = [i \in 1 .. 0 |-> s.items[Slot(s.read, i, n)]]
      BY <1>2, <2>2 DEF Held
    <3>2. [i \in 1 .. 0 |-> s.items[Slot(s.read, i, n)]] = [i \in 1 .. 0 |-> Token]
      BY <1>5
    <3>3. QED
      BY <3>1, <3>2
  <2>3. QED
    BY <2>1, <2>2
<1>8. /\ Sound(q, s) /\ s.static = static /\ s.set = NoQueue /\ s.waiting = m
      /\ Held(q, s) = [i \in 1 .. m |-> Token] /\ (m = 0 => s = Cleared(q, static))
  BY <1>0, <1>2, <1>6, <1>7
<1>9. QED
  BY <1>8 DEF s

(* What a set has to do with a queue does not matter to what it holds.     *)
LEMMA SetDoesNotMatter ==
  ASSUME StorageAssumption, NEW q \in Queue, NEW r, Sound(q, r), NEW x \in Sets \cup {NoQueue}
  PROVE  LET s == [r EXCEPT !.set = x]
         IN  /\ Sound(q, s) /\ Held(q, s) = Held(q, r)
             /\ s.static = r.static /\ s.set = x /\ s.waiting = r.waiting
<1> DEFINE s == [r EXCEPT !.set = x]
<1>1. /\ r.items \in [0 .. Length[q] - 1 -> Item \cup {NoQueue}]
      /\ r.write \in 0 .. Length[q] - 1 /\ r.read \in 0 .. Length[q] - 1
      /\ r.waiting \in 0 .. Length[q] /\ r.static \in BOOLEAN
  BY BlockFields DEF Sound
<1>2. s = [items |-> r.items, write |-> r.write, read |-> r.read, waiting |-> r.waiting,
           static |-> r.static, set |-> x]
  BY BlockRecord DEF Sound
<1> HIDE DEF s
<1>3. s \in Block(q)
  BY <1>1, <1>2, BlockBuilt
<1>4. Sound(q, s)
  BY <1>2, <1>3 DEF Sound
<1>5. Held(q, s) = Held(q, r)
  BY <1>2 DEF Held
<1>6. QED
  BY <1>2, <1>4, <1>5 DEF s

-----------------------------------------------------------------------------
(* The steps of the storage are steps of bounded queues.                   *)

Follows == \A o \in Queue : Contents(o)' \in Abstract!Successors(Contents(o), Length[o])

(* No queue goes, or leaves its set.                                       *)
Keeps == \A o \in Queue : Exists(o) => Exists(o)' /\ queue'[o].set = queue[o].set

(* A block that changes, for its queue                                     *)
GoesOn(q, r, s) ==
  /\ Sound(q, s) /\ s.static = r.static /\ s.set = r.set
  /\ Held(q, s) \in Abstract!Successors(Held(q, r), Length[q])

LEMMA SuccessorsOfSequence ==
  ASSUME StorageAssumption, NEW s \in Seq(Item), NEW n
  PROVE  /\ {s, <<>>, NoQueue} \subseteq Abstract!Successors(s, n)
         /\ Len(s) < n => \A x \in Item : {Append(s, x), <<x>> \o s} \subseteq Abstract!Successors(s, n)
         /\ s # <<>> => Tail(s) \in Abstract!Successors(s, n)
         /\ n = 1 => \A x \in Item : <<x>> \in Abstract!Successors(s, n)
<1>1. s # NoQueue
  BY DEF StorageAssumption
<1> DEFINE longer == {Append(s, x) : x \in Item} \cup {<<x>> \o s : x \in Item}
<1>2. Abstract!Successors(s, n) =
        {s, <<>>, NoQueue} \cup (IF Len(s) < n THEN longer ELSE {})
          \cup (IF s # <<>> THEN {Tail(s)} ELSE {})
          \cup (IF n = 1 THEN {<<x>> : x \in Item} ELSE {})
  BY <1>1 DEF Abstract!Successors, Abstract!Longer
<1>3. \A x \in Item : {Append(s, x), <<x>> \o s} \subseteq longer
  OBVIOUS
<1> HIDE DEF longer
<1>4. QED
  BY <1>2, <1>3

LEMMA SuccessorsOfNone ==
  ASSUME NEW n
  PROVE  /\ NoQueue \in Abstract!Successors(NoQueue, n)
         /\ \A m \in 0 .. n : [i \in 1 .. m |-> Token] \in Abstract!Successors(NoQueue, n)
BY DEF Abstract!Successors, Item

LEMMA SoundExists ==
  ASSUME StorageAssumption, NEW q \in Queue, NEW r, Sound(q, r)
  PROVE  r # NoQueue
BY DEF Sound, StorageAssumption

LEMMA ContentsHeld ==
  ASSUME NEW q \in Queue
  PROVE  /\ Exists(q) => Contents(q) = Held(q, queue[q])
         /\ ~Exists(q) => Contents(q) = NoQueue
         /\ queue'[q] # NoQueue => Contents(q)' = Held(q, queue'[q])
         /\ queue'[q] = NoQueue => Contents(q)' = NoQueue
BY DEF Contents, Held, Exists, Slot

LEMMA SameGoesOn ==
  ASSUME StorageAssumption, NEW q \in Queue, NEW r, Sound(q, r)
  PROVE  GoesOn(q, r, r)
BY HeldIsSequence, SuccessorsOfSequence DEF GoesOn

LEMMA TakenGoesOn ==
  ASSUME StorageAssumption, NEW q \in Queue, Sound(q, queue[q]), queue[q].waiting > 0
  PROVE  GoesOn(q, queue[q], Taken(q))
BY TakenTail, HeldIsSequence, SuccessorsOfSequence DEF GoesOn

LEMMA BackGoesOn ==
  ASSUME StorageAssumption, NEW q \in Queue \ Counting, NEW r, Sound(q, r),
         NEW x \in Item, r.waiting < Length[q]
  PROVE  GoesOn(q, r, ToBack(r, x, Length[q]))
<1>1. Held(q, r) \in Seq(Item) /\ Len(Held(q, r)) < Length[q]
  BY HeldIsSequence
<1>2. Append(Held(q, r), x) \in Abstract!Successors(Held(q, r), Length[q])
  BY <1>1, SuccessorsOfSequence
<1>3. QED
  BY <1>2, BackAppends DEF GoesOn

LEMMA CopyGoesOn ==
  ASSUME StorageAssumption, NEW q \in Queue \ Counting, Sound(q, queue[q]), NEW x \in Item,
         NEW p \in Position(q), IsQueueFull(q) => p = "overwrite"
  PROVE  /\ GoesOn(q, queue[q], CopyDataToQueue(q, x, p))
         /\ CopyDataToQueue(q, x, p).waiting = IF p = "overwrite" THEN 1 ELSE queue[q].waiting + 1
<1> DEFINE r == queue[q]
<1>1. Held(q, r) \in Seq(Item) /\ Len(Held(q, r)) = r.waiting
  BY HeldIsSequence
<1>2. r.waiting \in 0 .. Length[q] /\ Length[q] \in Nat
  BY BlockFields DEF Sound
<1>3. CASE p = "back"
  <2>1. CopyDataToQueue(q, x, p) = ToBack(r, x, Length[q])
    BY <1>3 DEF CopyDataToQueue
  <2>2. r.waiting < Length[q]
    BY <1>2, <1>3 DEF IsQueueFull
  <2>3. QED
    BY <1>3, <2>1, <2>2, BackGoesOn, BackAppends
<1>4. CASE p = "front"
  <2>1. CopyDataToQueue(q, x, p) = ToFront(r, x, Length[q], r.waiting + 1)
    BY <1>4 DEF CopyDataToQueue
  <2>2. r.waiting < Length[q]
    BY <1>2, <1>4 DEF IsQueueFull
  <2>3. <<x>> \o Held(q, r) \in Abstract!Successors(Held(q, r), Length[q])
    BY <1>1, <2>2, SuccessorsOfSequence
  <2>4. LET s == ToFront(r, x, Length[q], r.waiting + 1)
        IN  /\ Sound(q, s) /\ Held(q, s) = <<x>> \o Held(q, r)
            /\ s.static = r.static /\ s.set = r.set /\ s.waiting = r.waiting + 1
    BY <2>2, FrontPrepends
  <2>5. QED
    BY <1>4, <2>1, <2>3, <2>4 DEF GoesOn
<1>5. CASE p = "overwrite" /\ Length[q] = 1
  <2>1. CopyDataToQueue(q, x, p) = ToFront(r, x, Length[q], 1)
    BY <1>5 DEF CopyDataToQueue
  <2>2. <<x>> \in Abstract!Successors(Held(q, r), Length[q])
    BY <1>1, <1>5, SuccessorsOfSequence
  <2>3. QED
    BY <1>5, <2>1, <2>2, FrontReplaces DEF GoesOn
<1>6. QED
  BY <1>3, <1>4, <1>5 DEF Position

(* Steps that change no queue's existence                                  *)
LEMMA UpdatesFollow ==
  ASSUME StorageAssumption, BlocksSound, queue' = [o \in Queue |-> queue'[o]],
         \A o \in Queue : Exists(o) => GoesOn(o, queue[o], queue'[o]),
         \A o \in Queue : ~Exists(o) => queue'[o] = queue[o],
         removing' \subseteq {q \in Queue : Exists(q)}, selected' \in [Queue -> Nat],
         allocated' = allocated
  PROVE  BlocksSound' /\ Follows /\ Keeps
<1>1. \A o \in Queue : Exists(o)' <=> Exists(o)
  BY SoundExists DEF GoesOn, Exists
<1>2. /\ \A q \in Queue : Exists(q) => Sound(q, queue'[q])
      /\ \A q \in Queue : Exists(q) => queue'[q].set = queue[q].set
      /\ \A q \in Queue : Exists(q) => queue'[q].static = queue[q].static
  BY DEF GoesOn
<1>3. \A q \in Queue : Exists(q)' => Sound(q, queue[q])'
  BY <1>1, <1>2 DEF Sound
<1>4. \A q \in Queue : (Exists(q) /\ queue[q].set # NoQueue)' =>
        q \notin Sets /\ Exists(queue[q].set)'
  <2>1. ASSUME NEW q \in Queue, Exists(q), queue'[q].set # NoQueue
        PROVE  q \notin Sets /\ Exists(queue[q].set)' /\ queue'[q].set = queue[q].set
    <3>1. queue[q].set \in Queue /\ queue[q].set = queue'[q].set
      <4>1. queue[q].set \in Sets \cup {NoQueue}
        BY <2>1, BlockFields DEF BlocksSound, Sound
      <4>2. QED
        BY <1>2, <2>1, <4>1 DEF StorageAssumption
    <3>2. q \notin Sets /\ Exists(queue[q].set)
      BY <2>1, <3>1 DEF BlocksSound
    <3>3. QED
      BY <1>1, <3>1, <3>2 DEF Exists
  <2>2. QED
    BY <1>1, <2>1
<1>5. BlocksSound'
  BY <1>1, <1>2, <1>3, <1>4 DEF BlocksSound
<1>6. Follows
  <2>1. ASSUME NEW o \in Queue
        PROVE  Contents(o)' \in Abstract!Successors(Contents(o), Length[o])
    BY <1>1, ContentsHeld, SuccessorsOfNone DEF GoesOn, Exists
  <2>2. QED
    BY <2>1 DEF Follows
<1>7. Keeps
  BY <1>1, <1>2 DEF Keeps
<1>8. QED
  BY <1>5, <1>6, <1>7

(* A set that hears of an item goes on as well.                            *)
LEMMA NotifiedGoesOn ==
  ASSUME StorageAssumption, BlocksSound, NEW s \in Sets, Exists(s), NEW q \in Queue
  PROVE  GoesOn(s, queue[s], NotifyQueueSetContainer(s, q))
<1>1. s \in Queue \ Counting /\ q \in Item /\ Sound(s, queue[s])
  BY DEF StorageAssumption, Item, BlocksSound
<1>2. CASE IsQueueFull(s)
  BY <1>1, <1>2, SameGoesOn DEF NotifyQueueSetContainer
<1>3. CASE ~IsQueueFull(s)
  <2>1. queue[s].waiting < Length[s]
    BY <1>1, <1>3, BlockFields DEF IsQueueFull, Sound
  <2>2. QED
    BY <1>1, <1>3, <2>1, BackGoesOn DEF NotifyQueueSetContainer
<1>4. QED
  BY <1>2, <1>3

LEMMA StoredFollows ==
  ASSUME StorageAssumption, BlocksSound, NEW q \in Queue \ Sets, Exists(q),
         NEW r, GoesOn(q, queue[q], r), NEW p, queue' = Stored(q, r, p),
         UNCHANGED <<removing, selected, allocated>>
  PROVE  BlocksSound' /\ Follows /\ Keeps
<1>1. queue' = [o \in Queue |-> IF o = q THEN r
                               ELSE IF o = queue[q].set /\ Announced(q, p)
                                 THEN NotifyQueueSetContainer(o, q)
                                 ELSE queue[o]]
  BY DEF Stored
<1>2. ASSUME NEW o \in Queue, Exists(o)
      PROVE  GoesOn(o, queue[o], queue'[o])
  <2>1. Sound(o, queue[o]) /\ GoesOn(o, queue[o], queue[o])
    BY <1>2, SameGoesOn DEF BlocksSound
  <2>2. CASE o = q
    BY <1>1, <2>2
  <2>3. CASE o # q /\ o = queue[q].set /\ Announced(q, p)
    <3>1. Sound(q, queue[q]) /\ queue[q].set # NoQueue
      BY <2>3 DEF BlocksSound, Announced
    <3>2. o \in Sets
      BY <2>3, <3>1, BlockFields DEF Sound
    <3>3. queue'[o] = NotifyQueueSetContainer(o, q)
      BY <1>1, <2>3
    <3>4. QED
      BY <1>2, <3>2, <3>3, NotifiedGoesOn
  <2>4. CASE o # q /\ ~(o = queue[q].set /\ Announced(q, p))
    BY <1>1, <2>1, <2>4
  <2>5. QED
    BY <2>2, <2>3, <2>4
<1>3. ASSUME NEW o \in Queue, ~Exists(o)
      PROVE  queue'[o] = queue[o]
  <2>1. o # q
    BY <1>3
  <2>2. ~(o = queue[q].set /\ Announced(q, p))
    BY <1>3 DEF BlocksSound, Announced
  <2>3. QED
    BY <1>1, <2>1, <2>2
<1>4. queue' = [o \in Queue |-> queue'[o]]
  BY <1>1
<1>5. removing' \subseteq {o \in Queue : Exists(o)} /\ selected' \in [Queue -> Nat]
  BY DEF BlocksSound
<1>6. QED
  BY <1>2, <1>3, <1>4, <1>5, UpdatesFollow

LEMMA SendFollows ==
  ASSUME StorageAssumption, BlocksSound, NEW q \in Queue, NEW x \in Data,
         NEW p \in Position(q), Send(q, x, p)
  PROVE  BlocksSound' /\ Follows /\ Keeps
<1>1. /\ Exists(q) /\ q \in Queue \ Sets /\ q \in Queue \ Counting /\ x \in Item
      /\ IsQueueFull(q) => p = "overwrite"
      /\ queue' = Stored(q, CopyDataToQueue(q, x, p), p)
      /\ UNCHANGED <<removing, selected, allocated>>
  BY DEF Send, Item
<1>2. GoesOn(q, queue[q], CopyDataToQueue(q, x, p))
  BY <1>1, CopyGoesOn DEF BlocksSound
<1>3. QED
  BY <1>1, <1>2, StoredFollows

LEMMA GiveFollows ==
  ASSUME StorageAssumption, BlocksSound, NEW q \in Queue, Give(q)
  PROVE  BlocksSound' /\ Follows /\ Keeps
<1> DEFINE r == [queue[q] EXCEPT !.waiting = @ + 1]
<1>1. /\ Exists(q) /\ q \in Queue \ Sets /\ q \in Counting /\ ~IsQueueFull(q)
      /\ queue' = Stored(q, r, "back") /\ UNCHANGED <<removing, selected, allocated>>
  BY DEF Give, StorageAssumption
<1>2. Sound(q, queue[q]) /\ queue[q].waiting < Length[q]
  BY <1>1, BlockFields DEF BlocksSound, Sound, IsQueueFull
<1>3. /\ Sound(q, r) /\ Held(q, r) = Append(Held(q, queue[q]), Token)
      /\ r.static = queue[q].static /\ r.set = queue[q].set
  BY <1>1, <1>2, GivenAppends
<1>4. /\ Held(q, queue[q]) \in Seq(Item) /\ Len(Held(q, queue[q])) < Length[q]
      /\ Token \in Item
  BY <1>2, HeldIsSequence DEF Item
<1>5. Append(Held(q, queue[q]), Token) \in Abstract!Successors(Held(q, queue[q]), Length[q])
  BY <1>4, SuccessorsOfSequence
<1>6. GoesOn(q, queue[q], r)
  BY <1>3, <1>5 DEF GoesOn
<1> HIDE DEF r
<1>7. QED
  BY <1>1, <1>6, StoredFollows

(* The set hears of what was counted while the queue was locked.           *)
LEMMA NotifyFollows ==
  ASSUME StorageAssumption, BlocksSound, LockSound, NotifyCounted
  PROVE  BlocksSound' /\ Follows /\ Keeps
<1>1. /\ locked \in Queue /\ Exists(locked) /\ queue[locked].set # NoQueue
      /\ queue' = [o \in Queue |-> IF o = queue[locked].set THEN NotifyQueueSetContainer(o, locked)
                                                            ELSE queue[o]]
      /\ UNCHANGED <<removing, selected, allocated>>
  BY DEF NotifyCounted, LockSound
<1>2. Sound(locked, queue[locked]) /\ Exists(queue[locked].set)
  BY <1>1 DEF BlocksSound
<1>3. queue[locked].set \in Sets
  BY <1>1, <1>2, BlockFields DEF Sound
<1>4. ASSUME NEW o \in Queue, Exists(o)
      PROVE  GoesOn(o, queue[o], queue'[o])
  <2>1. CASE o = queue[locked].set
    BY <1>1, <1>3, <1>4, <2>1, NotifiedGoesOn
  <2>2. CASE o # queue[locked].set
    <3>1. Sound(o, queue[o]) /\ queue'[o] = queue[o]
      BY <1>1, <1>4, <2>2 DEF BlocksSound
    <3>2. QED
      BY <3>1, SameGoesOn
  <2>3. QED
    BY <2>1, <2>2
<1>5. \A o \in Queue : ~Exists(o) => queue'[o] = queue[o]
  BY <1>1, <1>2
<1>6. queue' = [o \in Queue |-> queue'[o]]
  BY <1>1
<1>7. removing' \subseteq {o \in Queue : Exists(o)} /\ selected' \in [Queue -> Nat]
  BY <1>1 DEF BlocksSound
<1>8. QED
  BY <1>1, <1>4, <1>5, <1>6, <1>7, UpdatesFollow

(* An item is taken, and the handle or the semaphore counted as read.      *)
LEMMA TakeFollows ==
  ASSUME StorageAssumption, BlocksSound, NEW q \in Queue, Exists(q), ~IsQueueEmpty(q),
         queue' = [queue EXCEPT ![q] = Taken(q)], selected' \in [Queue -> Nat],
         UNCHANGED <<removing, allocated>>
  PROVE  BlocksSound' /\ Follows /\ Keeps
<1>1. Sound(q, queue[q]) /\ queue[q].waiting > 0
  BY BlockFields DEF BlocksSound, IsQueueEmpty, Sound
<1>2. GoesOn(q, queue[q], Taken(q))
  BY <1>1, TakenGoesOn
<1>3. queue' = [o \in Queue |-> IF o = q THEN Taken(q) ELSE queue[o]]
  BY DEF BlocksSound
<1>4. \A o \in Queue : Exists(o) => GoesOn(o, queue[o], queue'[o])
  BY <1>2, <1>3, SameGoesOn DEF BlocksSound
<1>5. \A o \in Queue : ~Exists(o) => queue'[o] = queue[o]
  BY <1>3
<1>6. queue' = [o \in Queue |-> queue'[o]] /\ removing' \subseteq {o \in Queue : Exists(o)}
  BY <1>3 DEF BlocksSound
<1>7. QED
  BY <1>4, <1>5, <1>6, UpdatesFollow

LEMMA ReceiveFollows ==
  ASSUME StorageAssumption, BlocksSound, NEW q \in Queue, Receive(q)
  PROVE  BlocksSound' /\ Follows /\ Keeps
<1>1. selected' \in [Queue -> Nat]
  <2>1. selected' = [selected EXCEPT ![q] = IF queue[q].set # NoQueue THEN selected[q] - 1
                                           ELSE selected[q]]
    BY DEF Receive
  <2>2. selected \in [Queue -> Nat] /\ (queue[q].set # NoQueue => selected[q] > 0)
    BY DEF Receive, BlocksSound
  <2>3. (IF queue[q].set # NoQueue THEN selected[q] - 1 ELSE selected[q]) \in Nat
    BY <2>2
  <2>4. QED
    BY <2>1, <2>2, <2>3
<1>2. QED
  BY <1>1, TakeFollows DEF Receive

LEMMA SelectFollows ==
  ASSUME StorageAssumption, BlocksSound, NEW q \in Queue, SelectFromSet(q)
  PROVE  BlocksSound' /\ Follows /\ Keeps
<1>1. selected' \in [Queue -> Nat]
  <2>1. PICK h : selected' = [selected EXCEPT ![h] = selected[h] + 1]
    BY DEF SelectFromSet
  <2>2. selected \in [Queue -> Nat]
    BY DEF BlocksSound
  <2>3. CASE h \in Queue
    BY <2>1, <2>2, <2>3
  <2>4. CASE h \notin Queue
    BY <2>1, <2>2, <2>4
  <2>5. QED
    BY <2>3, <2>4
<1>2. QED
  BY <1>1, TakeFollows DEF SelectFromSet

(* Steps that give one queue another block, or none                        *)
LEMMA OneFollows ==
  ASSUME StorageAssumption, BlocksSound, NEW q \in Queue, NEW b,
         queue' = [queue EXCEPT ![q] = b],
         b # NoQueue => Sound(q, b) /\ (b.set # NoQueue => q \notin Sets /\ Exists(b.set)),
         b = NoQueue => q \notin Sets,
         (IF b = NoQueue THEN NoQueue ELSE Held(q, b))
           \in Abstract!Successors(Contents(q), Length[q]),
         removing' \subseteq {o \in Queue : Exists(o)'}, selected' = selected,
         allocated' \ {q} = allocated \ {q},
         b = NoQueue => q \notin allocated',
         b # NoQueue => (b.static <=> q \notin allocated')
  PROVE  BlocksSound' /\ Follows
<1>1. queue' = [o \in Queue |-> IF o = q THEN b ELSE queue[o]]
  BY DEF BlocksSound
<1>2. /\ queue' = [o \in Queue |-> queue'[o]] /\ queue'[q] = b
      /\ \A o \in Queue : o # q => queue'[o] = queue[o]
  BY <1>1
<1>3. \A o \in Queue : queue'[o] # NoQueue => Sound(o, queue'[o])
  BY <1>2 DEF BlocksSound, Exists
<1>4. ASSUME NEW o \in Queue, queue'[o] # NoQueue, queue'[o].set # NoQueue
      PROVE  o \notin Sets /\ queue'[queue'[o].set] # NoQueue
  <2>1. queue'[o].set \in Sets
    BY <1>3, <1>4, BlockFields DEF Sound
  <2>2. o \notin Sets /\ Exists(queue'[o].set)
    BY <1>2, <1>4 DEF BlocksSound, Exists
  <2>3. queue'[o].set \in Queue
    BY <2>1 DEF StorageAssumption
  <2>4. CASE queue'[o].set # q
    BY <1>2, <2>2, <2>3, <2>4 DEF Exists
  <2>5. CASE queue'[o].set = q
    BY <1>2, <2>1, <2>2, <2>5
  <2>6. QED
    BY <2>2, <2>4, <2>5
<1>5. /\ \A o \in Queue : Exists(o)' <=> queue'[o] # NoQueue
      /\ \A o \in Queue : Exists(o) <=> queue[o] # NoQueue
  BY DEF Exists
<1>6. \A o \in Queue : o # q => (o \in allocated' <=> o \in allocated)
  OBVIOUS
<1>7. allocated' \subseteq {o \in Queue : Exists(o)'}
  BY <1>2, <1>5, <1>6 DEF BlocksSound
<1>8. \A o \in Queue : queue'[o] # NoQueue => (queue'[o].static <=> o \notin allocated')
  BY <1>2, <1>5, <1>6 DEF BlocksSound
<1>9. BlocksSound'
  <2>1. /\ (\A o \in Queue : Exists(o) => Sound(o, queue[o]))'
        /\ (\A o \in Queue : Exists(o) /\ queue[o].set # NoQueue =>
              o \notin Sets /\ Exists(queue[o].set))'
    BY <1>3, <1>4, <1>5 DEF Sound, Exists
  <2>2. selected' \in [Queue -> Nat]
    BY DEF BlocksSound
  <2>3. (\A o \in Queue : Exists(o) => (queue[o].static <=> o \notin allocated))'
    BY <1>5, <1>8
  <2>4. QED
    BY <1>2, <1>7, <2>1, <2>2, <2>3 DEF BlocksSound
<1>10. ASSUME NEW o \in Queue
       PROVE  Contents(o)' \in Abstract!Successors(Contents(o), Length[o])
  <2>1. CASE o = q
    BY <1>2, <2>1, ContentsHeld
  <2>2. CASE o # q
    <3>1. queue'[o] = queue[o]
      BY <1>2, <2>2
    <3>2. CASE Exists(o)
      <4>1. Sound(o, queue[o]) /\ Contents(o)' = Held(o, queue[o])
            /\ Contents(o) = Held(o, queue[o])
        BY <1>5, <3>1, <3>2, ContentsHeld DEF BlocksSound
      <4>2. QED
        BY <4>1, SameGoesOn DEF GoesOn
    <3>3. CASE ~Exists(o)
      BY <1>5, <3>1, <3>3, ContentsHeld, SuccessorsOfNone
    <3>4. QED
      BY <3>2, <3>3
  <2>3. QED
    BY <2>1, <2>2
<1>11. QED
  BY <1>9, <1>10 DEF Follows

LEMMA CreateFollows ==
  ASSUME StorageAssumption, BlocksSound, NEW q \in Queue, NEW static \in BOOLEAN,
         Create(q, static)
  PROVE  BlocksSound' /\ Follows
<1>1. PICK m \in (IF q \in Counting THEN 0 .. Length[q] ELSE {0}) :
        queue' = [queue EXCEPT ![q] = [Cleared(q, static) EXCEPT !.waiting = m]]
  BY DEF Create
<1> DEFINE b == [Cleared(q, static) EXCEPT !.waiting = m]
<1>2. m \in 0 .. Length[q] /\ (q \notin Counting => m = 0)
  BY <1>1 DEF StorageAssumption
<1>3. /\ Sound(q, b) /\ b.static = static /\ b.set = NoQueue
      /\ Held(q, b) = [i \in 1 .. m |-> Token]
  BY <1>2, NewHolds
<1>4. queue' = [queue EXCEPT ![q] = b]
  BY <1>1
<1> HIDE DEF b
<1>5. b # NoQueue
  BY <1>3, SoundExists
<1>6. /\ ~Exists(q) /\ allocated' = IF static THEN allocated ELSE allocated \cup {q}
      /\ UNCHANGED <<removing, selected>>
  BY DEF Create
<1>7. Held(q, b) \in Abstract!Successors(Contents(q), Length[q])
  BY <1>2, <1>3, <1>6, ContentsHeld, SuccessorsOfNone
<1>8. q \notin allocated
  BY <1>6 DEF BlocksSound
<1>9. removing' \subseteq {o \in Queue : Exists(o)'}
  BY <1>4, <1>6 DEF BlocksSound, Exists
<1>10. allocated' \ {q} = allocated \ {q} /\ (b.static <=> q \notin allocated')
  BY <1>3, <1>6, <1>8
<1>11. QED
  BY <1>3, <1>4, <1>5, <1>6, <1>7, <1>9, <1>10, OneFollows

LEMMA ResetFollows ==
  ASSUME StorageAssumption, BlocksSound, NEW q \in Queue, Reset(q)
  PROVE  BlocksSound' /\ Follows
<1> DEFINE r == queue[q]
           b == [Cleared(q, r.static) EXCEPT !.waiting = 0]
<1>1. /\ Exists(q) /\ queue' = [queue EXCEPT ![q] = Cleared(q, r.static)]
      /\ UNCHANGED <<removing, selected, allocated>>
  BY DEF Reset
<1>2. Sound(q, r) /\ r.static \in BOOLEAN /\ (r.static <=> q \notin allocated)
  BY <1>1, BlockFields DEF BlocksSound, Sound
<1>3. 0 \in 0 .. Length[q] /\ (q \notin Counting => 0 = 0)
  BY DEF StorageAssumption
<1>4. /\ Sound(q, b) /\ b.static = r.static /\ b.set = NoQueue
      /\ Held(q, b) = [i \in 1 .. 0 |-> Token] /\ b = Cleared(q, r.static)
  <2> DEFINE static == r.static
  <2>1. static \in BOOLEAN
    BY <1>2
  <2> HIDE DEF static
  <2>2. \A m \in 0 .. Length[q] : (q \notin Counting => m = 0) =>
          LET c == [Cleared(q, static) EXCEPT !.waiting = m]
          IN  /\ Sound(q, c) /\ c.static = static /\ c.set = NoQueue
              /\ Held(q, c) = [i \in 1 .. m |-> Token] /\ (m = 0 => c = Cleared(q, static))
    BY <2>1, NewHolds
  <2>3. QED
    BY <1>3, <2>2 DEF static
<1>5. b = Cleared(q, r.static)
  BY <1>4
<1> HIDE DEF b
<1>6. b # NoQueue
  BY <1>4, SoundExists
<1>7. Held(q, b) \in Abstract!Successors(Contents(q), Length[q])
  <2>1. Held(q, b) = <<>>
    BY <1>4
  <2>2. Contents(q) \in Seq(Item)
    BY <1>1, <1>2, ContentsHeld, HeldIsSequence
  <2>3. QED
    BY <2>1, <2>2, SuccessorsOfSequence
<1>8. removing' \subseteq {o \in Queue : Exists(o)'}
  BY <1>1, <1>5, <1>6 DEF BlocksSound, Exists
<1>9. QED
  BY <1>1, <1>2, <1>4, <1>5, <1>6, <1>7, <1>8, OneFollows

LEMMA DeleteFollows ==
  ASSUME StorageAssumption, BlocksSound, NEW q \in Queue, Delete(q)
  PROVE  BlocksSound' /\ Follows
<1>1. /\ Exists(q) /\ q \notin Sets \cup removing /\ queue' = [queue EXCEPT ![q] = NoQueue]
      /\ allocated' = IF queue[q].static THEN allocated ELSE allocated \ {q}
      /\ UNCHANGED <<removing, selected>>
  BY DEF Delete
<1>2. Sound(q, queue[q]) /\ (queue[q].static <=> q \notin allocated)
  BY <1>1 DEF BlocksSound
<1>3. NoQueue \in Abstract!Successors(Contents(q), Length[q])
  <2>1. Contents(q) \in Seq(Item)
    BY <1>1, <1>2, ContentsHeld, HeldIsSequence
  <2>2. QED
    BY <2>1, SuccessorsOfSequence
<1>4. removing' \subseteq {o \in Queue : Exists(o)'}
  BY <1>1 DEF BlocksSound, Exists
<1>5. allocated' \ {q} = allocated \ {q} /\ q \notin allocated'
  BY <1>1, <1>2
<1>6. QED
  BY <1>1, <1>3, <1>4, <1>5, OneFollows

(* A queue joins a set, or leaves it.                                      *)
LEMMA MemberFollows ==
  ASSUME StorageAssumption, BlocksSound, NEW q \in Queue, Exists(q),
         NEW x \in Sets \cup {NoQueue}, x # NoQueue => Exists(x) /\ q \notin Sets,
         queue' = [queue EXCEPT ![q].set = x], removing' \subseteq removing,
         UNCHANGED <<selected, allocated>>
  PROVE  BlocksSound' /\ Follows
<1> DEFINE r == queue[q]
           b == [r EXCEPT !.set = x]
<1>1. Sound(q, r) /\ (r.static <=> q \notin allocated)
  BY DEF BlocksSound
<1>2. /\ Sound(q, b) /\ Held(q, b) = Held(q, r) /\ b.static = r.static /\ b.set = x
  BY <1>1, SetDoesNotMatter
<1>3. queue' = [queue EXCEPT ![q] = b]
  OBVIOUS
<1> HIDE DEF b
<1>4. b # NoQueue
  BY <1>2, SoundExists
<1>5. Held(q, b) \in Abstract!Successors(Contents(q), Length[q])
  BY <1>1, <1>2, ContentsHeld, SameGoesOn DEF GoesOn
<1>6. removing' \subseteq {o \in Queue : Exists(o)'}
  BY <1>3, <1>4 DEF BlocksSound, Exists
<1>7. QED
  BY <1>1, <1>2, <1>3, <1>4, <1>5, <1>6, OneFollows

LEMMA InitSound ==
  ASSUME StorageAssumption, StorageInit
  PROVE  BlocksSound /\ LockSound
BY DEF StorageInit, BlocksSound, LockSound, Exists

LEMMA StutterFollows ==
  ASSUME StorageAssumption, BlocksSound, UNCHANGED queue, UNCHANGED <<selected, allocated>>,
         removing' \subseteq {q \in Queue : Exists(q)}
  PROVE  BlocksSound' /\ Follows
<1>1. \A o \in Queue : Exists(o) => GoesOn(o, queue[o], queue'[o])
  BY SameGoesOn DEF BlocksSound
<1>2. queue' = [o \in Queue |-> queue'[o]] /\ selected' \in [Queue -> Nat]
  BY DEF BlocksSound
<1>3. QED
  BY <1>1, <1>2, UpdatesFollow

(* Interrupts leave a lock to the task that has it; tasks find none.       *)
LEMMA LockKept ==
  ASSUME LockSound, Keeps, locked' = locked, cTxLock' \in Nat, miscounts' \in Nat,
         locked = NoQueue => cTxLock' = 0
  PROVE  LockSound'
BY DEF LockSound, Keeps, Exists

LEMMA LockCounts ==
  ASSUME LockSound, Keeps, NEW q, NEW p, q # NoQueue, IncrementQueueTxLock(q, p)
  PROVE  LockSound'
<1>1. /\ cTxLock \in Nat /\ miscounts \in Nat /\ (locked = NoQueue => cTxLock = 0)
      /\ locked' = locked
  BY DEF LockSound, IncrementQueueTxLock
<1>2. cTxLock' \in Nat /\ miscounts' \in Nat
  BY <1>1 DEF IncrementQueueTxLock
<1>3. locked = NoQueue => cTxLock' = 0
  BY <1>1 DEF IncrementQueueTxLock, Counts
<1>4. QED
  BY <1>1, <1>2, <1>3, LockKept

LEMMA NoLock ==
  ASSUME LockSound, TasksRun, UNCHANGED lockVars
  PROVE  LockSound'
BY DEF LockSound, TasksRun, lockVars

LEMMA QueueIsNotNull ==
  ASSUME StorageAssumption, NEW q \in Queue
  PROVE  q # NoQueue
BY DEF StorageAssumption, Item

LEMMA StepLocks ==
  ASSUME StorageAssumption, BlocksSound, LockSound, [StorageNext]_vars
  PROVE  LockSound'
<1>1. ASSUME NEW q \in Queue, NEW x \in Data, NEW p \in Position(q), Send(q, x, p)
      PROVE  LockSound'
  <2>1. Keeps /\ q # NoQueue /\ IncrementQueueTxLock(q, p)
    BY <1>1, SendFollows, QueueIsNotNull DEF Send
  <2>2. QED
    BY <2>1, LockCounts
<1>2. ASSUME NEW q \in Queue, Give(q)
      PROVE  LockSound'
  <2>1. Keeps /\ q # NoQueue /\ IncrementQueueTxLock(q, "back")
    BY <1>2, GiveFollows, QueueIsNotNull DEF Give
  <2>2. QED
    BY <2>1, LockCounts
<1>3. ASSUME NEW q \in Queue, Receive(q) \/ SelectFromSet(q)
      PROVE  LockSound'
  <2>1. Keeps /\ UNCHANGED lockVars
    BY <1>3, ReceiveFollows, SelectFollows DEF Receive, SelectFromSet
  <2>2. QED
    BY <2>1, LockKept DEF LockSound, lockVars
<1>4. ASSUME NEW q \in Queue,
             \/ Create(q, q \in Buffered) \/ Reset(q) \/ Delete(q)
             \/ RemoveFromSet(q) \/ Removed(q) \/ \E s \in Sets : AddToSet(q, s)
      PROVE  LockSound'
  <2>1. TasksRun /\ UNCHANGED lockVars
    BY <1>4 DEF Create, Reset, Delete, RemoveFromSet, Removed, AddToSet
  <2>2. QED
    BY <2>1, NoLock
<1>5. ASSUME NEW q \in Queue, LockQueue(q)
      PROVE  LockSound'
  BY <1>5, QueueIsNotNull DEF LockQueue, LockSound, TasksRun, Exists
<1>6. CASE NotifyCounted
  <2>1. /\ Keeps /\ locked # NoQueue /\ locked' = locked /\ miscounts' = miscounts
        /\ cTxLock \in Nat /\ cTxLock > 0 /\ cTxLock' = cTxLock - 1
    BY <1>6, NotifyFollows DEF NotifyCounted, LockSound
  <2>2. QED
    BY <2>1, LockKept DEF LockSound
<1>7. CASE UnlockQueue
  BY <1>7 DEF UnlockQueue, LockSound
<1>8. CASE UNCHANGED vars
  BY <1>8 DEF vars, lockVars, LockSound, Exists
<1>9. QED
  BY <1>1, <1>2, <1>3, <1>4, <1>5, <1>6, <1>7, <1>8 DEF StorageNext

LEMMA StepFollows ==
  ASSUME StorageAssumption, BlocksSound, LockSound, [StorageNext]_vars
  PROVE  BlocksSound' /\ Follows
<1>1. ASSUME NEW q \in Queue, Create(q, q \in Buffered)
      PROVE  BlocksSound' /\ Follows
  <2>1. (q \in Buffered) \in BOOLEAN
    OBVIOUS
  <2>2. QED
    BY <1>1, <2>1, CreateFollows
<1>2. ASSUME NEW q \in Queue, NEW x \in Data, NEW p \in Position(q), Send(q, x, p)
      PROVE  BlocksSound' /\ Follows
  BY <1>2, SendFollows
<1>3. ASSUME NEW q \in Queue, NEW s \in Sets, AddToSet(q, s)
      PROVE  BlocksSound' /\ Follows
  <2>1. /\ Exists(q) /\ Exists(s) /\ q \notin Sets /\ queue' = [queue EXCEPT ![q].set = s]
        /\ UNCHANGED <<removing, selected, allocated>>
    BY <1>3 DEF AddToSet
  <2>2. QED
    BY <2>1, MemberFollows
<1>4. ASSUME NEW q \in Queue, RemoveFromSet(q)
      PROVE  BlocksSound' /\ Follows
  <2>1. Exists(q) /\ removing' = removing \cup {q} /\ UNCHANGED <<queue, selected, allocated>>
    BY <1>4 DEF RemoveFromSet
  <2>2. removing' \subseteq {o \in Queue : Exists(o)}
    BY <2>1 DEF BlocksSound
  <2>3. QED
    BY <2>1, <2>2, StutterFollows
<1>5. ASSUME NEW q \in Queue, Removed(q)
      PROVE  BlocksSound' /\ Follows
  <2>1. /\ Exists(q) /\ removing' \subseteq removing /\ queue' = [queue EXCEPT ![q].set = NoQueue]
        /\ UNCHANGED <<selected, allocated>>
    BY <1>5 DEF Removed, BlocksSound
  <2>2. QED
    BY <2>1, MemberFollows
<1>6. ASSUME NEW q \in Queue, Reset(q) \/ Delete(q) \/ Receive(q) \/ SelectFromSet(q) \/ Give(q)
      PROVE  BlocksSound' /\ Follows
  BY <1>6, ResetFollows, DeleteFollows, ReceiveFollows, SelectFollows, GiveFollows
<1>7. CASE (\E q \in Queue : LockQueue(q)) \/ UnlockQueue \/ UNCHANGED vars
  <2>1. UNCHANGED queue /\ UNCHANGED <<selected, allocated>> /\ UNCHANGED removing
    BY <1>7 DEF vars, LockQueue, UnlockQueue
  <2>2. removing' \subseteq {o \in Queue : Exists(o)}
    BY <2>1 DEF BlocksSound
  <2>3. QED
    BY <2>1, <2>2, StutterFollows
<1>8. CASE NotifyCounted
  BY <1>8, NotifyFollows
<1>9. QED
  BY <1>1, <1>2, <1>3, <1>4, <1>5, <1>6, <1>7, <1>8 DEF StorageNext

(* From a ring to what it stands for: BoundedQueues.                       *)
LEMMA InitEmpty ==
  StorageInit => Abstract!BoundedInit
BY DEF StorageInit, Abstract!BoundedInit, Contents, Exists

LEMMA FollowsBounded ==
  ASSUME Follows
  PROVE  [Abstract!BoundedNext]_[q \in Queue |-> Contents(q)]
BY DEF Follows, Abstract!BoundedNext

LEMMA SoundAgrees ==
  ASSUME StorageAssumption, BlocksSound
  PROVE  PointersAgree
BY BlockFields DEF BlocksSound, Sound, PointersAgree

-----------------------------------------------------------------------------
(* Queue sets.  Handles(c, q): where the handle of q is among the items c  *)
(* of a set                                                                *)
Handles(c, q) == {i \in 1 .. Len(c) : c[i] = q}

Member(q) == Exists(q) /\ queue[q].set # NoQueue

(* What a set holds are handles of its members; as many of each as there   *)
(* are items in it that were neither selected nor counted by the lock; and *)
(* a queue that is removed from a set is an empty member of one.           *)
SetsSound ==
  /\ \A s \in Sets : Exists(s) =>
       \A i \in 1 .. Len(Contents(s)) :
         Contents(s)[i] \in {h \in Queue : Member(h) /\ queue[h].set = s}
  /\ \A q \in Queue :
       IF Member(q)
         THEN Cardinality(Handles(Contents(queue[q].set), q)) + selected[q] + Counted(q)
                = queue[q].waiting
         ELSE selected[q] = 0
  /\ \A q \in removing : q \in Removable /\ Member(q) /\ queue[q].waiting = 0

LEMMA HandlesFinite ==
  ASSUME NEW c \in Seq(Item), NEW q
  PROVE  /\ IsFiniteSet(Handles(c, q)) /\ Cardinality(Handles(c, q)) \in Nat
         /\ Cardinality(Handles(c, q)) = 0 <=> \A i \in 1 .. Len(c) : c[i] # q
         /\ Handles(<<>>, q) = {} /\ Cardinality(Handles(<<>>, q)) = 0
<1>1. Len(c) \in Nat /\ 1 \in Int
  OBVIOUS
<1>2. IsFiniteSet(1 .. Len(c)) /\ Handles(c, q) \subseteq 1 .. Len(c)
  BY <1>1, FS_Interval DEF Handles
<1>3. IsFiniteSet(Handles(c, q))
  BY <1>2, FS_Subset
<1>4. Cardinality(Handles(c, q)) \in Nat
  BY <1>3, FS_CardinalityType
<1>5. Cardinality(Handles(c, q)) = 0 <=> Handles(c, q) = {}
  BY <1>3, FS_EmptySet
<1>6. Handles(<<>>, q) = {}
  BY DEF Handles
<1>7. QED
  BY <1>3, <1>4, <1>5, <1>6, FS_EmptySet DEF Handles

LEMMA HandlesAppended ==
  ASSUME NEW c \in Seq(Item), NEW x \in Item, NEW q
  PROVE  Cardinality(Handles(Append(c, x), q)) =
           Cardinality(Handles(c, q)) + (IF x = q THEN 1 ELSE 0)
<1>1. /\ Len(c) \in Nat /\ Len(Append(c, x)) = Len(c) + 1
      /\ \A i \in 1 .. Len(c) : Append(c, x)[i] = c[i]
      /\ Append(c, x)[Len(c) + 1] = x
  OBVIOUS
<1>2. Handles(Append(c, x), q) = Handles(c, q) \cup (IF x = q THEN {Len(c) + 1} ELSE {})
  BY <1>1 DEF Handles
<1>3. Len(c) + 1 \notin Handles(c, q)
  BY <1>1 DEF Handles
<1>4. IsFiniteSet(Handles(c, q)) /\ Cardinality(Handles(c, q)) \in Nat
  BY HandlesFinite
<1>5. CASE x = q
  BY <1>2, <1>3, <1>4, <1>5, FS_AddElement
<1>6. CASE x # q
  BY <1>2, <1>4, <1>6
<1>7. QED
  BY <1>5, <1>6

LEMMA HandlesTaken ==
  ASSUME NEW c \in Seq(Item), c # <<>>, NEW q
  PROVE  Cardinality(Handles(c, q)) =
           Cardinality(Handles(Tail(c), q)) + (IF Head(c) = q THEN 1 ELSE 0)
<1> DEFINE t == Tail(c)
           S == Handles(c, q) \ {1}
           T == Handles(t, q)
           f == [i \in S |-> i - 1]
<1>1. /\ Len(c) \in Nat \ {0} /\ t \in Seq(Item) /\ Len(t) = Len(c) - 1 /\ Head(c) = c[1]
      /\ \A i \in 1 .. Len(c) - 1 : t[i] = c[i + 1]
  OBVIOUS
<1>2. S \subseteq 2 .. Len(c) /\ \A i \in 2 .. Len(c) : i \in S <=> c[i] = q
  BY <1>1 DEF Handles
<1>3. T \subseteq 1 .. Len(c) - 1 /\ \A i \in 1 .. Len(c) - 1 : i \in T <=> c[i + 1] = q
  BY <1>1 DEF Handles
<1>4. IsFiniteSet(Handles(c, q)) /\ Cardinality(Handles(c, q)) \in Nat
  BY HandlesFinite
<1>5. 1 \in Handles(c, q) <=> Head(c) = q
  BY <1>1 DEF Handles
<1>6. IsFiniteSet(S) /\ Cardinality(S) = Cardinality(Handles(c, q)) - (IF Head(c) = q THEN 1 ELSE 0)
  BY <1>4, <1>5, FS_RemoveElement
<1> HIDE DEF S, T, t
<1>7. ExistsBijection(S, T)
  <2>1. f \in [S -> T]
    <3>1. ASSUME NEW i \in S
          PROVE  i - 1 \in T
      <4>1. i \in 2 .. Len(c) /\ c[i] = q
        BY <1>2
      <4>2. i - 1 \in 1 .. Len(c) - 1 /\ i - 1 + 1 = i
        BY <1>1, <4>1
      <4>3. QED
        BY <1>3, <4>1, <4>2
    <3>2. QED
      BY <3>1
  <2>2. ASSUME NEW j \in T
        PROVE  \E i \in S : f[i] = j
    <3>1. j \in 1 .. Len(c) - 1 /\ c[j + 1] = q
      BY <1>3
    <3>2. j + 1 \in 2 .. Len(c) /\ j + 1 - 1 = j
      BY <1>1, <3>1
    <3>3. j + 1 \in S
      BY <1>2, <3>1, <3>2
    <3>4. \A k \in S : f[k] = k - 1
      OBVIOUS
    <3> HIDE DEF f
    <3>5. f[j + 1] = j
      BY <1>1, <3>1, <3>3, <3>4
    <3>6. QED
      BY <3>3, <3>5
  <2>3. ASSUME NEW i \in S, NEW j \in S, f[i] = f[j]
        PROVE  i = j
    <3>1. i \in Int /\ j \in Int /\ i - 1 = j - 1
      BY <1>1, <1>2, <2>3
    <3>2. QED
      BY <3>1
  <2> HIDE DEF f
  <2>4. f \in Bijection(S, T)
    BY <2>1, <2>2, <2>3 DEF Bijection, Injection, Surjection, IsInjective
  <2>5. QED
    BY <2>4 DEF ExistsBijection
<1>8. Cardinality(T) = Cardinality(S)
  BY <1>6, <1>7, FS_Bijection
<1>9. QED
  BY <1>4, <1>6, <1>8 DEF t, T

(* The position of a handle among those of its queue: no two handles have  *)
(* the same queue and rank.                                                *)
Rank(c, i) == Cardinality({j \in 1 .. i : c[j] = c[i]})

LEMMA RanksApart ==
  ASSUME NEW c \in Seq(Item), NEW i \in 1 .. Len(c), NEW j \in 1 .. Len(c), i < j, c[i] = c[j]
  PROVE  Rank(c, i) # Rank(c, j)
<1> DEFINE S == {k \in 1 .. i : c[k] = c[i]}
           T == {k \in 1 .. j : c[k] = c[j]}
<1>1. i \in Int /\ j \in Int /\ 1 \in Int
  OBVIOUS
<1>2. IsFiniteSet(1 .. j) /\ T \subseteq 1 .. j
  BY <1>1, FS_Interval
<1>3. IsFiniteSet(T)
  BY <1>2, FS_Subset
<1>4. S \subseteq T /\ j \in T /\ j \notin S
  BY <1>1
<1> HIDE DEF S, T
<1>5. S \in SUBSET T /\ S # T
  BY <1>4
<1>6. Cardinality(S) # Cardinality(T)
  BY <1>3, <1>5, FS_Subset
<1>7. QED
  BY <1>6 DEF Rank, S, T

LEMMA RankBounded ==
  ASSUME NEW c \in Seq(Item), NEW i \in 1 .. Len(c)
  PROVE  Rank(c, i) \in 1 .. Cardinality(Handles(c, c[i]))
<1> DEFINE S == {k \in 1 .. i : c[k] = c[i]}
           H == Handles(c, c[i])
<1>1. IsFiniteSet(H) /\ Cardinality(H) \in Nat
  BY HandlesFinite
<1>2. S \subseteq H /\ i \in S
  BY DEF Handles
<1> HIDE DEF S, H
<1>3. IsFiniteSet(S) /\ Cardinality(S) <= Cardinality(H)
  BY <1>1, <1>2, FS_Subset
<1>4. Cardinality(S) \in Nat /\ Cardinality(S) # 0
  BY <1>2, <1>3, FS_CardinalityType, FS_EmptySet
<1>5. Cardinality(S) \in 1 .. Cardinality(H)
  BY <1>1, <1>3, <1>4
<1>6. QED
  BY <1>5 DEF Rank, S, H

LEMMA PlacesFinite ==
  ASSUME StorageAssumption
  PROVE  /\ IsFiniteSet(Places) /\ Cardinality(Places) \in Nat
         /\ \A q \in Queue \ Sets : \A i \in 1 .. Length[q] : <<q, i>> \in Places
<1> DEFINE of == [q \in Queue \ Sets |-> {q} \X (1 .. Length[q])]
           S == {{q} \X (1 .. Length[q]) : q \in Queue \ Sets}
<1>1. IsFiniteSet(Queue \ Sets)
  BY FS_Difference DEF StorageAssumption
<1>2. of \in Surjection(Queue \ Sets, S)
  BY DEF Surjection
<1>3. IsFiniteSet(S)
  BY <1>1, <1>2, FS_Surjection
<1>4. ASSUME NEW T \in S
      PROVE  IsFiniteSet(T)
  <2>1. PICK q \in Queue \ Sets : T = {q} \X (1 .. Length[q])
    OBVIOUS
  <2>2. Length[q] \in Int /\ 1 \in Int
    BY DEF StorageAssumption
  <2>3. IsFiniteSet(1 .. Length[q]) /\ IsFiniteSet({q})
    BY <2>2, FS_Interval, FS_Singleton
  <2>4. QED
    BY <2>1, <2>3, FS_Product
<1>5. IsFiniteSet(Places)
  BY <1>3, <1>4, FS_UNION DEF Places
<1>6. \A q \in Queue \ Sets : \A i \in 1 .. Length[q] : <<q, i>> \in Places
  BY DEF Places
<1>7. QED
  BY <1>5, <1>6, FS_CardinalityType

(* What a set holds, as a sequence, and what is not in any                 *)
LEMMA SetHolds ==
  ASSUME StorageAssumption, BlocksSound, NEW s \in Sets, Exists(s)
  PROVE  /\ s \in Queue /\ Sound(s, queue[s]) /\ Contents(s) = Held(s, queue[s])
         /\ Contents(s) \in Seq(Item) /\ Len(Contents(s)) = queue[s].waiting
<1>1. s \in Queue /\ Sound(s, queue[s])
  BY DEF StorageAssumption, BlocksSound
<1>2. QED
  BY <1>1, HeldIsSequence, ContentsHeld

LEMMA MemberFacts ==
  ASSUME StorageAssumption, BlocksSound, LockSound, SetsSound, NEW q \in Queue, Member(q)
  PROVE  /\ Exists(q) /\ queue[q].set \in Sets /\ Exists(queue[q].set) /\ q \notin Sets
         /\ Contents(queue[q].set) \in Seq(Item) /\ selected[q] \in Nat /\ Counted(q) \in Nat
         /\ Cardinality(Handles(Contents(queue[q].set), q)) \in Nat
         /\ Cardinality(Handles(Contents(queue[q].set), q)) + selected[q] + Counted(q)
              = queue[q].waiting
<1>1. Exists(q) /\ queue[q].set # NoQueue /\ Sound(q, queue[q])
  BY DEF Member, BlocksSound
<1>2. queue[q].set \in Sets
  BY <1>1, BlockFields DEF Sound
<1>3. Exists(queue[q].set) /\ q \notin Sets /\ selected[q] \in Nat
  BY <1>1 DEF BlocksSound
<1>4. Contents(queue[q].set) \in Seq(Item)
  BY <1>2, <1>3, SetHolds
<1>5. Counted(q) \in Nat
  BY DEF Counted, LockSound
<1>6. QED
  BY <1>1, <1>2, <1>3, <1>4, <1>5, HandlesFinite DEF SetsSound

LEMMA SetHasRoom ==
  ASSUME StorageAssumption, SetAssumption, BlocksSound, LockSound, SetsSound,
         NEW q \in Queue, Member(q),
         Cardinality(Handles(Contents(queue[q].set), q)) < Length[q]
  PROVE  queue[queue[q].set].waiting < Length[queue[q].set]
<1> DEFINE s == queue[q].set
           c == Contents(s)
           P == Places \ {<<q, Length[q]>>}
           f == [i \in 1 .. Len(c) |-> <<c[i], Rank(c, i)>>]
<1>1. /\ s \in Sets /\ s \in Queue /\ Exists(s) /\ q \notin Sets /\ c \in Seq(Item)
      /\ Len(c) = queue[s].waiting /\ Len(c) \in Nat
  BY MemberFacts, SetHolds
<1>2. Length[q] \in Nat \ {0} /\ Length[s] \in Nat \ {0} /\ Cardinality(Places) <= Length[s]
  BY <1>1 DEF StorageAssumption, SetAssumption
<1>3. ASSUME NEW i \in 1 .. Len(c)
      PROVE  <<c[i], Rank(c, i)>> \in P
  <2> DEFINE h == c[i]
  <2>1. h \in Queue /\ Member(h) /\ queue[h].set = s
    BY <1>1 DEF SetsSound
  <2>2. /\ h \notin Sets /\ Cardinality(Handles(c, h)) \in Nat
        /\ selected[h] \in Nat /\ Counted(h) \in Nat
        /\ Cardinality(Handles(c, h)) + selected[h] + Counted(h) = queue[h].waiting
    BY <2>1, MemberFacts
  <2>3. Rank(c, i) \in 1 .. Cardinality(Handles(c, h))
    BY <1>1, RankBounded
  <2>4. queue[h].waiting <= Length[h] /\ Length[h] \in Nat /\ queue[h].waiting \in Nat
    <3>1. Exists(h) /\ Sound(h, queue[h])
      BY <2>1 DEF Member, BlocksSound
    <3>2. QED
      BY <2>1, <3>1, BlockFields DEF Sound
  <2> HIDE DEF h
  <2>5. Rank(c, i) \in 1 .. queue[h].waiting
    BY <2>2, <2>3, <2>4
  <2>6. Rank(c, i) \in 1 .. Length[h]
    BY <2>4, <2>5
  <2>7. <<h, Rank(c, i)>> \in Places
    BY <2>1, <2>2, <2>6, PlacesFinite
  <2>8. h = q => Rank(c, i) # Length[q]
    BY <2>2, <2>3, <1>2
  <2>9. QED
    BY <2>7, <2>8 DEF h
<1>4. ASSUME NEW i \in 1 .. Len(c), NEW j \in 1 .. Len(c), f[i] = f[j]
      PROVE  i = j
  <2>1. c[i] = c[j] /\ Rank(c, i) = Rank(c, j)
    BY <1>4
  <2>2. ~(i < j) /\ ~(j < i)
    BY <1>1, <2>1, RanksApart
  <2>3. QED
    BY <1>1, <2>2
<1>5. f \in Injection(1 .. Len(c), P)
  BY <1>3, <1>4 DEF Injection, IsInjective
<1> HIDE DEF f, P, c, s
<1>6. <<q, Length[q]>> \in Places
  <2>1. Length[q] \in 1 .. Length[q]
    BY <1>2
  <2>2. QED
    BY <1>1, <2>1, PlacesFinite
<1>7. IsFiniteSet(P) /\ Cardinality(P) = Cardinality(Places) - 1
  BY <1>6, PlacesFinite, FS_RemoveElement DEF P
<1>8. Cardinality(1 .. Len(c)) <= Cardinality(P)
  BY <1>5, <1>7, FS_Injection
<1>9. Cardinality(1 .. Len(c)) = Len(c)
  <2>1. 1 \in Int /\ Len(c) \in Int /\ (1 > Len(c) => Len(c) = 0) /\ Len(c) - 1 + 1 = Len(c)
    BY <1>1
  <2>2. QED
    BY <2>1, FS_Interval
<1>10. Len(c) < Length[s]
  BY <1>1, <1>2, <1>7, <1>8, <1>9, PlacesFinite
<1>11. QED
  BY <1>1, <1>10 DEF s

(* A queue that no set holds                                               *)
Unannounced(q) ==
  \A s \in Sets : Exists(s) => \A i \in 1 .. Len(Contents(s)) : Contents(s)[i] # q

LEMMA WhenUnannounced ==
  ASSUME StorageAssumption, BlocksSound, LockSound, SetsSound, NEW q \in Queue,
         ~Member(q) \/ queue[q].waiting = 0
  PROVE  Unannounced(q) /\ selected[q] = 0
<1>1. CASE ~Member(q)
  BY <1>1 DEF Unannounced, SetsSound
<1>2. CASE Member(q) /\ queue[q].waiting = 0
  <2> DEFINE s == queue[q].set
             n == Cardinality(Handles(Contents(s), q))
  <2>1. /\ n \in Nat /\ selected[q] \in Nat /\ Counted(q) \in Nat
        /\ n + selected[q] + Counted(q) = 0
        /\ Contents(s) \in Seq(Item) /\ s \in Sets
    BY <1>2, MemberFacts
  <2>2. n = 0 /\ selected[q] = 0
    BY <2>1
  <2>3. \A i \in 1 .. Len(Contents(s)) : Contents(s)[i] # q
    BY <2>1, <2>2, HandlesFinite
  <2>4. ASSUME NEW t \in Sets, Exists(t), NEW i \in 1 .. Len(Contents(t)), Contents(t)[i] = q
        PROVE  FALSE
    BY <2>3, <2>4 DEF SetsSound
  <2>5. QED
    BY <2>2, <2>4 DEF Unannounced
<1>3. QED
  BY <1>1, <1>2

(* A step that changes one queue that is no set: what the sets hold stays, *)
(* so it has to stay true of this queue.                                   *)
LEMMA OtherSetsSound ==
  ASSUME StorageAssumption, BlocksSound, BlocksSound', LockSound, SetsSound, NEW q \in Queue \ Sets,
         \A o \in Queue \ {q} : queue'[o] = queue[o] /\ selected'[o] = selected[o]
                                 /\ Counted(o)' = Counted(o),
         Unannounced(q) \/ (Member(q) /\ Member(q)' /\ queue'[q].set = queue[q].set),
         IF Member(q)'
           THEN Cardinality(Handles(Contents(queue'[q].set), q)) + selected'[q] + Counted(q)'
                  = queue'[q].waiting
           ELSE selected'[q] = 0,
         removing' \subseteq removing \cup {q},
         q \in removing' => q \in Removable /\ Member(q)' /\ queue'[q].waiting = 0
  PROVE  SetsSound'
<1>1. \A s \in Sets : queue'[s] = queue[s] /\ (Exists(s)' <=> Exists(s))
  BY DEF StorageAssumption, Exists
<1>2. \A s \in Sets : Contents(s)' = Contents(s)
  BY <1>1, ContentsHeld DEF StorageAssumption, Exists
<1>3. \A o \in Queue \ {q} : Member(o)' <=> Member(o)
  BY DEF Member, Exists
<1>4. ASSUME NEW s \in Sets, Exists(s)', NEW i \in 1 .. Len(Contents(s)')
      PROVE  Contents(s)'[i] \in {h \in Queue : Member(h)' /\ queue'[h].set = s}
  <2> DEFINE h == Contents(s)[i]
  <2>1. /\ Exists(s) /\ i \in 1 .. Len(Contents(s)) /\ Contents(s)'[i] = h
    BY <1>1, <1>2, <1>4
  <2>2. h \in Queue /\ Member(h) /\ queue[h].set = s
    BY <2>1 DEF SetsSound
  <2>3. h = q => ~Unannounced(q)
    BY <2>1 DEF Unannounced
  <2> HIDE DEF h
  <2>4. CASE h = q
    BY <2>1, <2>2, <2>3, <2>4
  <2>5. CASE h # q
    BY <2>1, <2>2, <2>5, <1>3
  <2>6. QED
    BY <2>4, <2>5
<1>5. ASSUME NEW o \in Queue
      PROVE  IF Member(o)'
               THEN Cardinality(Handles(Contents(queue[o].set)', o)) + selected'[o] + Counted(o)'
                      = queue'[o].waiting
               ELSE selected'[o] = 0
  <2>1. CASE o = q
    <3>1. ASSUME Member(q)'
          PROVE  Contents(queue[q].set)' = Contents(queue'[q].set)
      <4>1. queue'[q].set \in Sets
        BY <3>1, BlockFields DEF Member, BlocksSound, Sound, Exists
      <4>2. QED
        BY <4>1, <1>2
    <3>2. QED
      BY <2>1, <3>1
  <2>2. CASE o # q
    <3>1. /\ queue'[o] = queue[o] /\ selected'[o] = selected[o] /\ Counted(o)' = Counted(o)
          /\ Member(o)' <=> Member(o)
      BY <2>2, <1>3
    <3>2. ASSUME Member(o)
          PROVE  Contents(queue[o].set)' = Contents(queue[o].set)
      <4>1. queue[o].set \in Sets
        BY <3>2, MemberFacts
      <4>2. QED
        BY <4>1, <3>1, <1>2
    <3>3. QED
      BY <3>1, <3>2 DEF SetsSound
  <2>3. QED
    BY <2>1, <2>2
<1>6. ASSUME NEW o \in removing'
      PROVE  o \in Removable /\ Member(o)' /\ queue'[o].waiting = 0
  <2>1. o \in Queue
    BY DEF BlocksSound
  <2>2. CASE o # q
    BY <2>1, <2>2, <1>3 DEF SetsSound
  <2>3. QED
    BY <2>2
<1>7. QED
  BY <1>4, <1>5, <1>6 DEF SetsSound

(* A step that changes what the set s holds, its members, or both, and     *)
(* where these still agree                                                 *)
Of(o, s) == Member(o) /\ queue[o].set = s

LEMMA SetChangesSound ==
  ASSUME StorageAssumption, BlocksSound, BlocksSound', LockSound, SetsSound, NEW s \in Sets, Exists(s)',
         queue'[s].set = NoQueue, Exists(s) => queue[s].set = NoQueue, removing' = removing,
         \A i \in 1 .. Len(Contents(s)') : Contents(s)'[i] \in {h \in Queue : Of(h, s)},
         \A o \in Queue : Of(o, s) =>
           /\ Member(o)' /\ queue'[o].set = s
           /\ Cardinality(Handles(Contents(s)', o)) + selected'[o] + Counted(o)'
                = queue'[o].waiting
           /\ o \in removing => queue'[o].waiting = 0,
         \A o \in Queue \ {s} : ~Of(o, s) => queue'[o] = queue[o],
         \A o \in Queue : ~Of(o, s) => selected'[o] = selected[o] /\ Counted(o)' = Counted(o)
  PROVE  SetsSound'
<1>1. \A o \in Queue : ~Of(o, s) => /\ Member(o)' <=> Member(o)
                                    /\ Member(o) => queue'[o] = queue[o]
  <2>1. ~Member(s) /\ ~Member(s)'
    BY DEF Member
  <2>2. QED
    BY <2>1 DEF Member, Exists
<1>2. \A t \in Sets \ {s} : (Exists(t)' <=> Exists(t)) /\ Contents(t)' = Contents(t)
  <2>1. \A t \in Sets : ~Of(t, s)
    BY DEF Of, Member, BlocksSound, StorageAssumption
  <2>2. QED
    BY <2>1, ContentsHeld DEF StorageAssumption, Exists
<1>3. ASSUME NEW t \in Sets, Exists(t)', NEW i \in 1 .. Len(Contents(t)')
      PROVE  Contents(t)'[i] \in {h \in Queue : Member(h)' /\ queue'[h].set = t}
  <2>1. CASE t = s
    BY <1>3, <2>1
  <2>2. CASE t # s
    <3>1. Contents(t)'[i] \in {h \in Queue : Of(h, t)}
      BY <1>2, <1>3, <2>2 DEF SetsSound, Of
    <3>2. QED
      BY <1>1, <2>2, <3>1 DEF Of
  <2>3. QED
    BY <2>1, <2>2
<1>4. ASSUME NEW o \in Queue
      PROVE  IF Member(o)'
               THEN Cardinality(Handles(Contents(queue[o].set)', o)) + selected'[o] + Counted(o)'
                      = queue'[o].waiting
               ELSE selected'[o] = 0
  <2>1. CASE Of(o, s)
    BY <2>1
  <2>2. CASE Member(o) /\ queue[o].set # s
    <3>1. queue[o].set \in Sets \ {s} /\ ~Of(o, s)
      BY <2>2, MemberFacts DEF Of
    <3>2. Contents(queue[o].set)' = Contents(queue[o].set)
      BY <1>1, <1>2, <2>2, <3>1
    <3>3. QED
      BY <1>1, <2>2, <3>1, <3>2 DEF SetsSound
  <2>3. CASE ~Member(o)
    BY <1>1, <2>3 DEF SetsSound, Of
  <2>4. QED
    BY <2>1, <2>2, <2>3 DEF Of
<1>5. ASSUME NEW o \in removing'
      PROVE  o \in Removable /\ Member(o)' /\ queue'[o].waiting = 0
  BY <1>1 DEF BlocksSound, SetsSound
<1>6. QED
  BY <1>3, <1>4, <1>5 DEF SetsSound

LEMMA CountsStay ==
  ASSUME UNCHANGED lockVars, NEW q
  PROVE  Counted(q)' = Counted(q)
BY DEF lockVars, Counted

LEMMA CreateSound ==
  ASSUME StorageAssumption, BlocksSound, BlocksSound', LockSound, SetsSound, NEW q \in Queue,
         NEW static \in BOOLEAN, Create(q, static)
  PROVE  SetsSound'
<1>1. PICK m \in (IF q \in Counting THEN 0 .. Length[q] ELSE {0}) :
        queue' = [queue EXCEPT ![q] = [Cleared(q, static) EXCEPT !.waiting = m]]
  BY DEF Create
<1> DEFINE b == [Cleared(q, static) EXCEPT !.waiting = m]
<1>2. m \in 0 .. Length[q] /\ (q \notin Counting => m = 0)
  BY <1>1 DEF StorageAssumption
<1>3. b.set = NoQueue /\ Held(q, b) = [i \in 1 .. m |-> Token] /\ Sound(q, b)
  BY <1>2, NewHolds
<1>4. queue' = [queue EXCEPT ![q] = b]
  BY <1>1
<1> HIDE DEF b
<1>5. /\ ~Exists(q) /\ removing' = removing /\ selected' = selected /\ ~Member(q)
      /\ q \notin removing
  BY DEF Create, Member, BlocksSound
<1>6. queue'[q] = b /\ \A o \in Queue \ {q} : queue'[o] = queue[o]
  BY <1>4 DEF BlocksSound
<1>7. ~Member(q)' /\ Unannounced(q) /\ selected[q] = 0
  BY <1>3, <1>5, <1>6, WhenUnannounced DEF Member
<1>11. \A o \in Queue : Counted(o)' = Counted(o)
  BY CountsStay DEF Create
<1>8. CASE q \notin Sets
  BY <1>5, <1>11, <1>6, <1>7, <1>8, OtherSetsSound
<1>9. CASE q \in Sets
  <2>1. Exists(q)' /\ queue'[q].set = NoQueue
    BY <1>3, <1>6, SoundExists DEF Exists
  <2>2. m = 0
    BY <1>2, <1>9 DEF StorageAssumption
  <2>3. Contents(q)' = <<>>
    <3>1. Contents(q)' = Held(q, b)
      BY <1>3, <1>6, SoundExists, ContentsHeld
    <3>2. QED
      BY <1>3, <2>2, <3>1
  <2>4. \A i \in 1 .. Len(Contents(q)') : FALSE
    BY <2>3
  <2>5. \A o \in Queue : ~Of(o, q)
    BY <1>5 DEF Of, Member, BlocksSound
  <2>6. QED
    BY <1>5, <1>6, <1>9, <1>11, <2>1, <2>4, <2>5, SetChangesSound
<1>10. QED
  BY <1>8, <1>9

LEMMA ResetSound ==
  ASSUME StorageAssumption, BlocksSound, BlocksSound', LockSound, SetsSound, NEW q \in Queue, Reset(q)
  PROVE  SetsSound'
<1>1. /\ Exists(q) /\ queue[q].set = NoQueue /\ q \notin Sets
      /\ queue' = [queue EXCEPT ![q] = Cleared(q, @.static)]
      /\ UNCHANGED <<removing, selected>>
  BY DEF Reset
<1>2. queue'[q].set = NoQueue /\ \A o \in Queue \ {q} : queue'[o] = queue[o]
  BY <1>1 DEF BlocksSound, Cleared
<1>3. ~Member(q) /\ ~Member(q)' /\ q \notin removing
  BY <1>1, <1>2 DEF Member, SetsSound
<1>4. \A o \in Queue : Counted(o)' = Counted(o)
  BY CountsStay DEF Reset
<1>5. QED
  BY <1>4, <1>1, <1>2, <1>3, WhenUnannounced, OtherSetsSound

LEMMA DeleteSound ==
  ASSUME StorageAssumption, BlocksSound, BlocksSound', LockSound, SetsSound, NEW q \in Queue, Delete(q)
  PROVE  SetsSound'
<1>1. /\ Exists(q) /\ queue[q].set = NoQueue /\ q \notin Sets \cup removing
      /\ queue' = [queue EXCEPT ![q] = NoQueue] /\ UNCHANGED <<removing, selected>>
  BY DEF Delete
<1>2. queue'[q] = NoQueue /\ \A o \in Queue \ {q} : queue'[o] = queue[o]
  BY <1>1 DEF BlocksSound
<1>3. ~Member(q) /\ ~Member(q)'
  BY <1>1, <1>2 DEF Member, Exists
<1>4. \A o \in Queue : Counted(o)' = Counted(o)
  BY CountsStay DEF Delete
<1>5. QED
  BY <1>4, <1>1, <1>2, <1>3, WhenUnannounced, OtherSetsSound

LEMMA ReceiveSound ==
  ASSUME StorageAssumption, BlocksSound, BlocksSound', LockSound, SetsSound, NEW q \in Queue, Receive(q)
  PROVE  SetsSound'
<1>1. /\ Exists(q) /\ queue[q].waiting # 0 /\ q \notin Sets
      /\ queue[q].set # NoQueue => selected[q] > 0
      /\ queue' = [queue EXCEPT ![q] = Taken(q)]
      /\ selected' = [selected EXCEPT ![q] = IF queue[q].set # NoQueue THEN @ - 1 ELSE @]
      /\ removing' = removing
  BY DEF Receive, IsQueueEmpty
<1>2. Sound(q, queue[q]) /\ queue[q].waiting \in Nat /\ queue[q].waiting > 0
  <2>1. Sound(q, queue[q])
    BY <1>1 DEF BlocksSound
  <2>2. queue[q].waiting \in Nat
    BY <2>1, BlockFields DEF Sound
  <2>3. QED
    BY <1>1, <2>1, <2>2
<1>3. Sound(q, Taken(q)) /\ Taken(q).set = queue[q].set /\ Taken(q).waiting = queue[q].waiting - 1
  BY <1>2, TakenTail
<1>4. queue'[q] = Taken(q) /\ \A o \in Queue \ {q} : queue'[o] = queue[o]
  BY <1>1 DEF BlocksSound
<1>5. /\ selected'[q] = IF queue[q].set # NoQueue THEN selected[q] - 1 ELSE selected[q]
      /\ \A o \in Queue \ {q} : selected'[o] = selected[o]
  BY <1>1 DEF BlocksSound
<1>6. /\ Member(q)' <=> Member(q)
      /\ Member(q) <=> queue[q].set # NoQueue
  BY <1>1, <1>3, <1>4, SoundExists DEF Member, Exists
<1>7. q \notin removing
  BY <1>1 DEF SetsSound
<1>11. \A o \in Queue : Counted(o)' = Counted(o)
  BY CountsStay DEF Receive
<1>8. CASE Member(q)
  <2> DEFINE n == Cardinality(Handles(Contents(queue[q].set), q))
  <2>1. /\ n \in Nat /\ selected[q] \in Nat /\ Counted(q) \in Nat
        /\ n + selected[q] + Counted(q) = queue[q].waiting
    BY <1>8, MemberFacts
  <2>2. n + selected'[q] + Counted(q)' = queue'[q].waiting
    <3>1. /\ selected'[q] = selected[q] - 1 /\ queue'[q].waiting = queue[q].waiting - 1
          /\ Counted(q)' = Counted(q)
      BY <1>3, <1>4, <1>5, <1>6, <1>8, <1>11
    <3> HIDE DEF n
    <3>2. QED
      BY <1>2, <2>1, <3>1
  <2>3. queue'[q].set = queue[q].set
    BY <1>3, <1>4
  <2>4. QED
    BY <1>1, <1>4, <1>5, <1>6, <1>7, <1>8, <1>11, <2>2, <2>3, OtherSetsSound
<1>9. CASE ~Member(q)
  <2>1. Unannounced(q) /\ selected'[q] = 0
    BY <1>5, <1>6, <1>9, WhenUnannounced
  <2>2. QED
    BY <1>1, <1>4, <1>5, <1>6, <1>7, <1>9, <1>11, <2>1, OtherSetsSound
<1>10. QED
  BY <1>8, <1>9

LEMMA SetWritten ==
  ASSUME StorageAssumption, BlocksSound, NEW q \in Queue, Sound(q, queue[q]),
         NEW x \in Sets \cup {NoQueue}, queue' = [queue EXCEPT ![q] = [queue[q] EXCEPT !.set = x]]
  PROVE  /\ queue'[q].set = x /\ queue'[q].waiting = queue[q].waiting
         /\ \A o \in Queue \ {q} : queue'[o] = queue[o]
<1> DEFINE b == [queue[q] EXCEPT !.set = x]
<1>1. b.set = x /\ b.waiting = queue[q].waiting
  BY SetDoesNotMatter
<1>2. queue' = [queue EXCEPT ![q] = b]
  OBVIOUS
<1> HIDE DEF b
<1>3. queue'[q] = b /\ \A o \in Queue \ {q} : queue'[o] = queue[o]
  BY <1>2 DEF BlocksSound
<1>4. QED
  BY <1>1, <1>3

LEMMA MembershipSound ==
  ASSUME StorageAssumption, BlocksSound, BlocksSound', LockSound, SetsSound, NEW q \in Queue,
         RemoveFromSet(q) \/ Removed(q) \/ \E s \in Sets : AddToSet(q, s)
  PROVE  SetsSound'
<1>0. locked = NoQueue /\ \A o \in Queue : Counted(o)' = Counted(o)
  BY CountsStay DEF RemoveFromSet, Removed, AddToSet, TasksRun
<1>1. CASE RemoveFromSet(q)
  <2>1. /\ Exists(q) /\ q \in Removable /\ queue[q].set # NoQueue /\ queue[q].waiting = 0
        /\ removing' = removing \cup {q} /\ queue' = queue /\ selected' = selected
    BY <1>1 DEF RemoveFromSet, IsQueueEmpty
  <2>2. q \notin Sets /\ Member(q) /\ Member(q)'
    BY <2>1 DEF BlocksSound, Member, Exists
  <2>3. Cardinality(Handles(Contents(queue[q].set), q)) + selected[q] + Counted(q)
          = queue[q].waiting
    BY <2>2, MemberFacts
  <2>4. QED
    BY <1>0, <2>1, <2>2, <2>3, OtherSetsSound
<1>2. CASE Removed(q)
  <2>1. /\ q \in removing /\ removing' = removing \ {q} /\ selected' = selected
        /\ queue' = [queue EXCEPT ![q].set = NoQueue]
    BY <1>2 DEF Removed
  <2>2. Member(q) /\ queue[q].waiting = 0
    BY <2>1 DEF SetsSound
  <2>3. q \notin Sets /\ Sound(q, queue[q])
    BY <2>2 DEF BlocksSound, Member
  <2>4. Unannounced(q) /\ selected[q] = 0
    BY <2>2, WhenUnannounced
  <2>5. queue' = [queue EXCEPT ![q] = [queue[q] EXCEPT !.set = NoQueue]]
    BY <2>1 DEF BlocksSound
  <2>6. queue'[q].set = NoQueue /\ \A o \in Queue \ {q} : queue'[o] = queue[o]
    BY <2>3, <2>5, SetWritten
  <2>7. ~Member(q)'
    BY <2>6 DEF Member
  <2>8. QED
    BY <1>0, <2>1, <2>3, <2>4, <2>6, <2>7, OtherSetsSound
<1>3. ASSUME NEW s \in Sets, AddToSet(q, s)
      PROVE  SetsSound'
  <2>1. /\ Exists(q) /\ q \notin Sets /\ queue[q].set = NoQueue /\ queue[q].waiting = 0
        /\ queue' = [queue EXCEPT ![q].set = s] /\ removing' = removing /\ selected' = selected
        /\ Exists(s)
    BY <1>3 DEF AddToSet, IsQueueEmpty
  <2>2. ~Member(q) /\ Sound(q, queue[q])
    BY <2>1 DEF BlocksSound, Member
  <2>3. Unannounced(q) /\ selected[q] = 0
    BY <2>2, WhenUnannounced
  <2>4. queue' = [queue EXCEPT ![q] = [queue[q] EXCEPT !.set = s]]
    BY <2>1 DEF BlocksSound
  <2>5. /\ queue'[q].set = s /\ queue'[q].waiting = 0
        /\ \A o \in Queue \ {q} : queue'[o] = queue[o]
    BY <2>1, <2>2, <2>4, SetWritten
  <2>6. Cardinality(Handles(Contents(s), q)) = 0
    BY <2>1, <2>3, SetHolds, HandlesFinite DEF Unannounced
  <2>7. IF Member(q)'
          THEN Cardinality(Handles(Contents(queue'[q].set), q)) + selected'[q] + Counted(q)'
                 = queue'[q].waiting
          ELSE selected'[q] = 0
    <3>1. Counted(q)' = 0
      BY <1>0, QueueIsNotNull DEF Counted
    <3>2. QED
      BY <2>1, <2>3, <2>5, <2>6, <3>1
  <2>8. q \notin removing
    BY <2>2 DEF SetsSound
  <2>9. QED
    BY <1>0, <2>1, <2>3, <2>5, <2>7, <2>8, OtherSetsSound
<1>4. QED
  BY <1>1, <1>2, <1>3

LEMMA SelectSound ==
  ASSUME StorageAssumption, BlocksSound, BlocksSound', LockSound, SetsSound, NEW s \in Queue, SelectFromSet(s)
  PROVE  SetsSound'
<1> DEFINE c == Contents(s)
           h == Head(c)
<1>1. /\ Exists(s) /\ s \in Sets /\ queue[s].waiting # 0
      /\ queue' = [queue EXCEPT ![s] = Taken(s)]
      /\ selected' = [selected EXCEPT ![h] = @ + 1] /\ removing' = removing
  BY DEF SelectFromSet, IsQueueEmpty
<1>2. /\ Sound(s, queue[s]) /\ c = Held(s, queue[s]) /\ c \in Seq(Item)
      /\ Len(c) = queue[s].waiting
  BY <1>1, SetHolds
<1>3. queue[s].waiting > 0
  BY <1>1, <1>2
<1>4. /\ Sound(s, Taken(s)) /\ c # <<>> /\ Held(s, Taken(s)) = Tail(c)
      /\ Taken(s).set = queue[s].set
  BY <1>2, <1>3, TakenTail
<1>5. queue'[s] = Taken(s) /\ \A o \in Queue \ {s} : queue'[o] = queue[o]
  BY <1>1 DEF BlocksSound
<1>6. queue[s].set = NoQueue /\ queue'[s].set = NoQueue
  BY <1>1, <1>4, <1>5 DEF BlocksSound
<1>7. Exists(s)' /\ Contents(s)' = Tail(c)
  <2>1. queue'[s] # NoQueue
    BY <1>4, <1>5, SoundExists
  <2>2. QED
    BY <1>4, <1>5, <2>1, ContentsHeld DEF Exists
<1>8. /\ Tail(c) \in Seq(Item) /\ Len(Tail(c)) = Len(c) - 1 /\ h = c[1] /\ Len(c) \in Nat \ {0}
      /\ \A i \in 1 .. Len(c) - 1 : Tail(c)[i] = c[i + 1]
  BY <1>2, <1>4
<1>9. \A i \in 1 .. Len(c) : c[i] \in {o \in Queue : Of(o, s)}
  BY <1>1 DEF SetsSound, Of
<1>10. h \in Queue /\ Of(h, s)
  <2>1. 1 \in 1 .. Len(c)
    BY <1>8
  <2>2. QED
    BY <1>8, <1>9, <2>1
<1>11. /\ selected'[h] = selected[h] + 1
       /\ \A o \in Queue \ {h} : selected'[o] = selected[o]
  BY <1>1, <1>10 DEF BlocksSound
<1>18. \A o \in Queue : Counted(o)' = Counted(o)
  BY CountsStay DEF SelectFromSet
<1> HIDE DEF c, h
<1>12. ASSUME NEW i \in 1 .. Len(Tail(c))
       PROVE  Tail(c)[i] \in {o \in Queue : Of(o, s)}
  <2>1. i \in 1 .. Len(c) - 1 /\ i + 1 \in 1 .. Len(c)
    BY <1>8
  <2>2. QED
    BY <1>8, <1>9, <2>1
<1>13. ASSUME NEW o \in Queue, Of(o, s)
       PROVE  /\ Member(o)' /\ queue'[o].set = s
              /\ Cardinality(Handles(Tail(c), o)) + selected'[o] + Counted(o)' = queue'[o].waiting
              /\ o \in removing => queue'[o].waiting = 0
  <2> DEFINE n == Cardinality(Handles(c, o))
             m == Cardinality(Handles(Tail(c), o))
  <2>1. /\ n \in Nat /\ selected[o] \in Nat /\ Counted(o) \in Nat
        /\ n + selected[o] + Counted(o) = queue[o].waiting
    BY <1>13, MemberFacts DEF c, Of
  <2>2. m \in Nat /\ n = m + (IF h = o THEN 1 ELSE 0)
    BY <1>2, <1>4, <1>8, HandlesFinite, HandlesTaken DEF h
  <2>3. selected'[o] = selected[o] + (IF h = o THEN 1 ELSE 0)
    BY <1>11, <2>1
  <2> HIDE DEF n, m
  <2>4. m + selected'[o] + Counted(o)' = queue[o].waiting
    BY <1>18, <2>1, <2>2, <2>3
  <2>5. queue'[o] = queue[o] /\ Member(o) /\ Member(o)' /\ queue[o].set = s
    <3>1. o # s
      BY <1>6, <1>13 DEF Of, Member
    <3>2. QED
      BY <1>5, <1>13, <3>1 DEF Of, Member, Exists
  <2>6. QED
    BY <2>4, <2>5 DEF m, SetsSound
<1>14. \A o \in Queue : ~Of(o, s) => selected'[o] = selected[o] /\ Counted(o)' = Counted(o)
  BY <1>10, <1>11, <1>18
<1>15. \A i \in 1 .. Len(Contents(s)') : Contents(s)'[i] \in {o \in Queue : Of(o, s)}
  BY <1>7, <1>12
<1>16. \A o \in Queue : Of(o, s) =>
         /\ Member(o)' /\ queue'[o].set = s
         /\ Cardinality(Handles(Contents(s)', o)) + selected'[o] + Counted(o)'
              = queue'[o].waiting
         /\ o \in removing => queue'[o].waiting = 0
  BY <1>7, <1>13
<1>17. QED
  BY <1>1, <1>5, <1>6, <1>7, <1>14, <1>15, <1>16, SetChangesSound

(* The set hears of an item: there is room for its handle.                 *)
LEMMA AnnouncedSound ==
  ASSUME StorageAssumption, SetAssumption, BlocksSound, BlocksSound', LockSound, SetsSound,
         NEW q \in Queue, Member(q), q \notin removing, NEW s, s = queue[q].set,
         Cardinality(Handles(Contents(s), q)) < Length[q],
         queue'[s] = NotifyQueueSetContainer(s, q), Member(q)', queue'[q].set = s,
         \A o \in Queue \ {q, s} : queue'[o] = queue[o], UNCHANGED <<removing, selected>>,
         \A o \in Queue \ {q} : Counted(o)' = Counted(o),
         Cardinality(Handles(Contents(s), q)) + 1 + selected[q] + Counted(q)' = queue'[q].waiting,
         Counted(q)' \in Nat
  PROVE  SetsSound'
<1> DEFINE c == Contents(s)
           b == ToBack(queue[s], q, Length[s])
<1>1. /\ s \in Sets /\ s \in Queue \ Counting /\ Exists(s) /\ Sound(s, queue[s])
      /\ c = Held(s, queue[s]) /\ c \in Seq(Item) /\ Len(c) = queue[s].waiting
  BY MemberFacts, SetHolds DEF StorageAssumption
<1>2. queue[s].waiting < Length[s]
  BY SetHasRoom
<1>3. ~IsQueueFull(s)
  BY <1>1, <1>2, BlockFields DEF IsQueueFull, Sound
<1>4. queue'[s] = b
  BY <1>3 DEF NotifyQueueSetContainer
<1>5. q \in Item
  BY DEF Item
<1>6. Sound(s, b) /\ Held(s, b) = Append(c, q) /\ b.set = queue[s].set
  BY <1>1, <1>2, <1>5, BackAppends
<1>7. queue[s].set = NoQueue
  BY <1>1 DEF BlocksSound
<1>8. Of(q, s)
  BY DEF Of
<1> HIDE DEF c, b
<1>9. Exists(s)' /\ Contents(s)' = Append(c, q)
  <2>1. queue'[s] # NoQueue
    BY <1>1, <1>4, <1>6, SoundExists
  <2>2. QED
    BY <1>1, <1>4, <1>6, <2>1, ContentsHeld DEF Exists
<1>10. \A i \in 1 .. Len(c) : c[i] \in {h \in Queue : Of(h, s)}
  BY <1>1 DEF SetsSound, Of, c
<1>11. ASSUME NEW i \in 1 .. Len(Append(c, q))
       PROVE  Append(c, q)[i] \in {h \in Queue : Of(h, s)}
  BY <1>1, <1>8, <1>10
<1>12. ASSUME NEW o \in Queue, Of(o, s)
       PROVE  /\ Member(o)' /\ queue'[o].set = s
              /\ Cardinality(Handles(Append(c, q), o)) + selected'[o] + Counted(o)'
                   = queue'[o].waiting
              /\ o \in removing => queue'[o].waiting = 0
  <2> DEFINE n == Cardinality(Handles(c, o))
             m == Cardinality(Handles(Append(c, q), o))
  <2>1. /\ n \in Nat /\ selected[o] \in Nat /\ Counted(o) \in Nat
        /\ n + selected[o] + Counted(o) = queue[o].waiting /\ o \notin Sets
    BY <1>12, MemberFacts DEF c, Of
  <2>2. m = n + (IF q = o THEN 1 ELSE 0)
    BY <1>1, <1>5, HandlesAppended
  <2>3. q = o => n + 1 + selected[o] + Counted(o)' = queue'[o].waiting /\ Counted(o)' \in Nat
    BY DEF c
  <2> HIDE DEF n, m
  <2>4. CASE o = q
    <3>1. m + selected'[q] + Counted(q)' = queue'[q].waiting
      BY <2>1, <2>2, <2>3, <2>4
    <3>2. QED
      BY <2>4, <3>1 DEF m
  <2>5. CASE o # q
    <3>1. queue'[o] = queue[o] /\ Member(o) /\ Member(o)' /\ queue[o].set = s
      BY <1>1, <1>12, <2>1, <2>5 DEF Of, Member, Exists
    <3>2. m + selected'[o] + Counted(o)' = queue'[o].waiting
      BY <2>1, <2>2, <2>5, <3>1
    <3>3. QED
      BY <3>1, <3>2 DEF m, SetsSound
  <2>6. QED
    BY <2>4, <2>5
<1>13. /\ \A o \in Queue \ {s} : ~Of(o, s) => queue'[o] = queue[o]
       /\ \A o \in Queue : ~Of(o, s) => selected'[o] = selected[o] /\ Counted(o)' = Counted(o)
  BY <1>8
<1>14. \A i \in 1 .. Len(Contents(s)') : Contents(s)'[i] \in {h \in Queue : Of(h, s)}
  BY <1>9, <1>11
<1>15. \A o \in Queue : Of(o, s) =>
         /\ Member(o)' /\ queue'[o].set = s
         /\ Cardinality(Handles(Contents(s)', o)) + selected'[o] + Counted(o)'
              = queue'[o].waiting
         /\ o \in removing => queue'[o].waiting = 0
  BY <1>9, <1>12
<1>16. QED
  BY <1>1, <1>4, <1>6, <1>7, <1>9, <1>13, <1>14, <1>15, SetChangesSound

(* What the lock of a queue counts, when it counts right: its new items    *)
LEMMA CountsNew ==
  ASSUME LockSound, NEW q \in Queue, NEW p, IncrementQueueTxLock(q, p), miscounts' = 0
  PROVE  /\ locked = q => Counted(q)' = Counted(q) + (IF IsNew(q, p) THEN 1 ELSE 0)
         /\ locked # q => Counted(q)' = Counted(q)
         /\ \A o \in Queue \ {q} : Counted(o)' = Counted(o)
         /\ Counted(q)' \in Nat
<1>1. cTxLock \in Nat /\ miscounts \in Nat
  BY DEF LockSound
<1>2. locked' = locked /\ cTxLock' = IF Counts(q) THEN cTxLock + 1 ELSE cTxLock
  BY DEF IncrementQueueTxLock
<1>3. ~Miscounts(q, p)
  BY <1>1 DEF IncrementQueueTxLock
<1>4. locked = q => (Counts(q) <=> IsNew(q, p))
  BY <1>3 DEF Miscounts
<1>5. locked # q => ~Counts(q)
  BY DEF Counts
<1>6. CASE locked = q
  BY <1>1, <1>2, <1>4, <1>6 DEF Counted
<1>7. CASE locked # q
  BY <1>1, <1>2, <1>5, <1>7 DEF Counted
<1>8. QED
  BY <1>6, <1>7

LEMMA StoredSound ==
  ASSUME StorageAssumption, SetAssumption, BlocksSound, BlocksSound', LockSound, SetsSound,
         NEW q \in Queue \ Sets, Exists(q), q \notin removing, NEW r, Sound(q, r),
         r.set = queue[q].set, NEW p, queue' = Stored(q, r, p),
         UNCHANGED <<removing, selected>>,
         IncrementQueueTxLock(q, p), miscounts' = 0,
         r.waiting = IF p = "overwrite" /\ queue[q].waiting # 0 THEN queue[q].waiting
                     ELSE queue[q].waiting + 1,
         p = "overwrite" \/ queue[q].waiting < Length[q]
  PROVE  SetsSound'
<1>1. Sound(q, queue[q]) /\ queue[q].waiting \in Nat /\ Length[q] \in Nat \ {0}
  <2>1. Sound(q, queue[q])
    BY DEF BlocksSound
  <2>2. QED
    BY <2>1, BlockFields DEF Sound
<1>2. queue'[q] = r
  BY DEF Stored
<1>3. Member(q)' <=> Member(q)
  BY <1>2, SoundExists DEF Member, Exists
<1>4. /\ locked = q => Counted(q)' = Counted(q) + (IF IsNew(q, p) THEN 1 ELSE 0)
      /\ locked # q => Counted(q)' = Counted(q)
      /\ \A o \in Queue \ {q} : Counted(o)' = Counted(o)
      /\ Counted(q)' \in Nat
  BY CountsNew
<1>5. r.waiting = IF IsNew(q, p) THEN queue[q].waiting + 1 ELSE queue[q].waiting
  BY DEF IsNew
<1>6. CASE ~Announced(q, p)
  <2>1. \A o \in Queue \ {q} : queue'[o] = queue[o]
    BY <1>6 DEF Stored
  <2>2. CASE Member(q)
    <3> DEFINE n == Cardinality(Handles(Contents(queue[q].set), q))
    <3>1. /\ n \in Nat /\ selected[q] \in Nat /\ Counted(q) \in Nat
          /\ n + selected[q] + Counted(q) = queue[q].waiting
      BY <2>2, MemberFacts
    <3>2. locked = q \/ ~IsNew(q, p)
      BY <1>6, <2>2 DEF Announced, Member
    <3> HIDE DEF n
    <3>3. n + selected[q] + Counted(q)' = r.waiting
      BY <1>1, <1>4, <1>5, <3>1, <3>2
    <3>4. n + selected'[q] + Counted(q)' = queue'[q].waiting
      BY <1>2, <3>3
    <3>5. QED
      BY <1>2, <1>3, <1>4, <2>1, <2>2, <3>4, OtherSetsSound DEF n
  <2>3. CASE ~Member(q)
    <3>1. Unannounced(q) /\ selected'[q] = 0
      BY <2>3, WhenUnannounced
    <3>2. QED
      BY <1>2, <1>3, <1>4, <2>1, <2>3, <3>1, OtherSetsSound
  <2>4. QED
    BY <2>2, <2>3
<1>7. CASE Announced(q, p)
  <2>1. Member(q) /\ locked # q /\ IsNew(q, p)
    BY <1>7 DEF Announced, Member
  <2>2. PICK s \in Sets : s = queue[q].set
    BY <2>1, MemberFacts
  <2>3. r.waiting = queue[q].waiting + 1 /\ queue[q].waiting < Length[q]
    BY <1>1, <1>5, <2>1 DEF IsNew
  <2>4. /\ queue'[s] = NotifyQueueSetContainer(s, q) /\ queue'[q].set = s /\ Member(q)'
        /\ \A o \in Queue \ {q, s} : queue'[o] = queue[o]
    BY <1>2, <1>3, <1>7, <2>1, <2>2 DEF Stored, StorageAssumption
  <2> DEFINE n == Cardinality(Handles(Contents(s), q))
  <2>5. /\ n \in Nat /\ selected[q] \in Nat /\ Counted(q) \in Nat
        /\ n + selected[q] + Counted(q) = queue[q].waiting
    BY <2>1, <2>2, MemberFacts
  <2> HIDE DEF n
  <2>6. n < Length[q] /\ n + 1 + selected[q] + Counted(q)' = queue'[q].waiting
    BY <1>1, <1>2, <1>4, <2>1, <2>3, <2>5
  <2>7. QED
    BY <1>4, <2>1, <2>2, <2>4, <2>6, AnnouncedSound DEF n
<1>8. QED
  BY <1>6, <1>7

(* prvUnlockQueue announces one that was counted.                          *)
LEMMA NotifySound ==
  ASSUME StorageAssumption, SetAssumption, BlocksSound, BlocksSound', LockSound, SetsSound,
         NotifyCounted
  PROVE  SetsSound'
<1>1. PICK q \in Queue : q = locked /\ Member(q)
  BY DEF LockSound, NotifyCounted, Member
<1>2. PICK s \in Sets : s = queue[q].set /\ s # q /\ Exists(s)
  BY <1>1, MemberFacts
<1>3. /\ queue'[s] = NotifyQueueSetContainer(s, q) /\ s \in Queue
      /\ \A o \in Queue \ {s} : queue'[o] = queue[o]
      /\ UNCHANGED <<removing, selected>> /\ locked' = locked
      /\ cTxLock > 0 /\ cTxLock' = cTxLock - 1 /\ cTxLock \in Nat
  BY <1>1, <1>2 DEF NotifyCounted, LockSound, StorageAssumption
<1>4. queue'[q] = queue[q] /\ Member(q)'
  BY <1>1, <1>2, <1>3 DEF Member, Exists
<1>5. /\ Counted(q) = cTxLock /\ Counted(q)' = cTxLock - 1 /\ Counted(q)' \in Nat
      /\ \A o \in Queue \ {q} : Counted(o)' = Counted(o)
  BY <1>1, <1>3 DEF Counted
<1> DEFINE n == Cardinality(Handles(Contents(s), q))
           k == Counted(q)'
<1>6. /\ n \in Nat /\ selected[q] \in Nat
      /\ n + selected[q] + Counted(q) = queue[q].waiting
  BY <1>1, <1>2, MemberFacts
<1>7. queue[q].waiting <= Length[q] /\ Length[q] \in Nat /\ queue[q].waiting \in Nat
  <2>1. Sound(q, queue[q])
    BY <1>1 DEF Member, BlocksSound
  <2>2. QED
    BY <2>1, BlockFields DEF Sound
<1>8. k = cTxLock - 1
  BY <1>5
<1> HIDE DEF n, k
<1>9. n < Length[q] /\ n + 1 + selected[q] + k = queue[q].waiting /\ queue[q].waiting # 0
  BY <1>3, <1>5, <1>6, <1>7, <1>8
<1>10. q \notin removing
  BY <1>9 DEF SetsSound
<1>11. n + 1 + selected[q] + Counted(q)' = queue'[q].waiting
  BY <1>4, <1>9 DEF k
<1>12. queue'[q].set = s
  BY <1>2, <1>4
<1>13. QED
  BY <1>1, <1>2, <1>3, <1>4, <1>5, <1>9, <1>10, <1>11, <1>12, AnnouncedSound DEF n

LEMMA SendSound ==
  ASSUME StorageAssumption, SetAssumption, BlocksSound, BlocksSound', LockSound, SetsSound,
         NEW q \in Queue, NEW x \in Data, NEW p \in Position(q), Send(q, x, p), miscounts' = 0
  PROVE  SetsSound'
<1> DEFINE r == CopyDataToQueue(q, x, p)
<1>1. /\ Exists(q) /\ q \in Queue \ (Sets \cup Counting) /\ (q \in removing => q \in Shared)
      /\ IsQueueFull(q) => p = "overwrite"
      /\ queue' = Stored(q, r, p) /\ UNCHANGED <<removing, selected>>
      /\ IncrementQueueTxLock(q, p)
  BY DEF Send
<1>2. Sound(q, queue[q]) /\ x \in Item
  BY <1>1 DEF BlocksSound, Item
<1>3. GoesOn(q, queue[q], r) /\ r.waiting = IF p = "overwrite" THEN 1 ELSE queue[q].waiting + 1
  BY <1>1, <1>2, CopyGoesOn
<1>4. q \notin removing
  BY <1>1 DEF SetAssumption, SetsSound
<1>5. queue[q].waiting \in 0 .. Length[q] /\ Length[q] \in Nat \ {0}
  BY <1>2, BlockFields DEF Sound
<1>6. p = "overwrite" => Length[q] = 1
  BY DEF Position
<1> HIDE DEF r
<1>7. r.waiting = IF p = "overwrite" /\ queue[q].waiting # 0 THEN queue[q].waiting
                  ELSE queue[q].waiting + 1
  BY <1>3, <1>5, <1>6
<1>8. p = "overwrite" \/ queue[q].waiting < Length[q]
  BY <1>1, <1>5 DEF IsQueueFull
<1>9. Sound(q, r) /\ r.set = queue[q].set
  BY <1>3 DEF GoesOn
<1>10. QED
  BY <1>1, <1>4, <1>7, <1>8, <1>9, StoredSound

LEMMA GiveSound ==
  ASSUME StorageAssumption, SetAssumption, BlocksSound, BlocksSound', LockSound, SetsSound,
         NEW q \in Queue, Give(q), miscounts' = 0
  PROVE  SetsSound'
<1> DEFINE r == [queue[q] EXCEPT !.waiting = @ + 1]
<1>1. /\ Exists(q) /\ q \in Counting /\ q \in Queue \ Sets /\ (q \in removing => q \in Shared)
      /\ queue[q].waiting # Length[q] /\ queue' = Stored(q, r, "back")
      /\ UNCHANGED <<removing, selected>> /\ IncrementQueueTxLock(q, "back")
  BY DEF Give, IsQueueFull, StorageAssumption
<1>2. Sound(q, queue[q])
  BY <1>1 DEF BlocksSound
<1>3. queue[q].waiting \in 0 .. Length[q] /\ Length[q] \in Nat \ {0}
  BY <1>2, BlockFields DEF Sound
<1>4. queue[q].waiting < Length[q]
  BY <1>1, <1>3
<1>5. Sound(q, r) /\ r.set = queue[q].set /\ r.waiting = queue[q].waiting + 1
  BY <1>1, <1>2, <1>4, GivenAppends
<1>6. q \notin removing
  BY <1>1 DEF SetAssumption, SetsSound
<1> HIDE DEF r
<1>7. QED
  BY <1>1, <1>4, <1>5, <1>6, StoredSound

LEMMA StepSound ==
  ASSUME StorageAssumption, SetAssumption, BlocksSound, BlocksSound', LockSound, SetsSound,
         [StorageNext]_vars, miscounts' = 0
  PROVE  SetsSound'
<1>1. ASSUME NEW q \in Queue, Create(q, q \in Buffered)
      PROVE  SetsSound'
  <2>1. (q \in Buffered) \in BOOLEAN
    OBVIOUS
  <2>2. QED
    BY <1>1, <2>1, CreateSound
<1>2. ASSUME NEW q \in Queue,
             \/ Reset(q) \/ Delete(q) \/ Receive(q) \/ SelectFromSet(q)
             \/ RemoveFromSet(q) \/ Removed(q) \/ Give(q)
             \/ \E x \in Data, p \in Position(q) : Send(q, x, p)
             \/ \E s \in Sets : AddToSet(q, s)
      PROVE  SetsSound'
  BY <1>2, ResetSound, DeleteSound, ReceiveSound, MembershipSound, SelectSound, SendSound,
     GiveSound
<1>3. CASE NotifyCounted
  BY <1>3, NotifySound
<1>4. CASE (\E q \in Queue : LockQueue(q)) \/ UnlockQueue \/ UNCHANGED vars
  <2>1. queue' = queue /\ selected' = selected /\ removing' = removing
    BY <1>4 DEF vars, LockQueue, UnlockQueue
  <2>9. \A o \in Queue : Counted(o)' = Counted(o)
    <3>1. ASSUME NEW q \in Queue, LockQueue(q)
          PROVE  cTxLock = 0 /\ cTxLock' = 0
      BY <3>1 DEF LockQueue, TasksRun, LockSound
    <3>2. CASE UnlockQueue
      BY <3>2 DEF UnlockQueue, Counted
    <3>3. CASE UNCHANGED vars
      BY <3>3, CountsStay DEF vars
    <3>4. QED
      BY <1>4, <3>1, <3>2, <3>3 DEF Counted
  <2>2. \A s \in Sets : Contents(s)' = Contents(s)
    BY <2>1, ContentsHeld DEF StorageAssumption, Exists
  <2>3. \A q \in Queue : /\ Member(q)' <=> Member(q)
                         /\ Member(q) => queue[q].set \in Sets
    BY <2>1, MemberFacts DEF Member, Exists
  <2>4. \A s \in Sets : Exists(s)' <=> Exists(s)
    BY <2>1 DEF Exists
  <2>5. ASSUME NEW s \in Sets, Exists(s)', NEW i \in 1 .. Len(Contents(s)')
        PROVE  Contents(s)'[i] \in {h \in Queue : Member(h)' /\ queue'[h].set = s}
    <3>1. Contents(s)'[i] \in {h \in Queue : Member(h) /\ queue[h].set = s}
      BY <2>2, <2>4, <2>5 DEF SetsSound
    <3>2. QED
      BY <2>1, <2>3, <3>1
  <2>6. ASSUME NEW o \in Queue
        PROVE  IF Member(o)'
                 THEN Cardinality(Handles(Contents(queue[o].set)', o)) + selected'[o] + Counted(o)'
                        = queue'[o].waiting
                 ELSE selected'[o] = 0
    <3>1. Member(o) => Contents(queue[o].set)' = Contents(queue[o].set)
      BY <2>1, <2>2, <2>3
    <3>2. QED
      BY <2>1, <2>3, <2>9, <3>1 DEF SetsSound
  <2>7. \A o \in removing' : o \in Removable /\ Member(o)' /\ queue'[o].waiting = 0
    BY <2>1, <2>3 DEF SetsSound, BlocksSound
  <2>8. QED
    BY <2>5, <2>6, <2>7 DEF SetsSound
<1>5. QED
  BY <1>1, <1>2, <1>3, <1>4 DEF StorageNext

(* As long as nothing is miscounted                                        *)
Announces == miscounts = 0 => SetsSound

LEMMA StepAnnounces ==
  ASSUME StorageAssumption, SetAssumption, BlocksSound, BlocksSound', LockSound, Announces,
         [StorageNext]_vars
  PROVE  Announces'
<1>1. SUFFICES ASSUME miscounts' = 0
               PROVE  SetsSound'
  BY DEF Announces
<1>2. miscounts = 0
  <2>1. miscounts \in Nat
    BY DEF LockSound
  <2>2. miscounts' = miscounts \/ miscounts' = miscounts + 1
    BY DEF StorageNext, Create, Reset, Delete, Receive, SelectFromSet, RemoveFromSet, Removed,
           AddToSet, Give, Send, IncrementQueueTxLock, LockQueue, NotifyCounted, UnlockQueue,
           lockVars, vars
  <2>3. QED
    BY <1>1, <2>1, <2>2
<1>3. QED
  BY <1>1, <1>2, StepSound DEF Announces

LEMMA InitSetsSound ==
  ASSUME StorageAssumption, StorageInit
  PROVE  SetsSound
BY DEF StorageInit, SetsSound, Member, Exists, StorageAssumption

LEMMA SoundAnnounces ==
  ASSUME StorageAssumption, BlocksSound, LockSound, SetsSound
  PROVE  \A q \in Queue : Exists(q) /\ queue[q].set # NoQueue =>
           AnnouncedFor(q) + Counted(q) = queue[q].waiting
<1>1. ASSUME NEW q \in Queue, Exists(q), queue[q].set # NoQueue
      PROVE  AnnouncedFor(q) + Counted(q) = queue[q].waiting
  <2> DEFINE s == queue[q].set
  <2>1. Member(q)
    BY <1>1 DEF Member
  <2>2. /\ Cardinality(Handles(Contents(s), q)) + selected[q] + Counted(q) = queue[q].waiting
        /\ s \in Sets /\ Exists(s)
    BY <2>1, MemberFacts
  <2>3. Len(Contents(s)) = queue[s].waiting
    BY <2>2, SetHolds
  <2>4. AnnouncedFor(q) = Cardinality(Handles(Contents(s), q)) + selected[q]
    BY <2>3 DEF AnnouncedFor, Handles
  <2>5. QED
    BY <2>2, <2>4
<1>2. QED
  BY <1>1

-----------------------------------------------------------------------------
(* The rings of items of queue.c implement bounded queues, whichever ends  *)
(* are written, for all lengths and numbers of queues, sets and            *)
(* semaphores: what a queue holds changes only at its ends.                *)
THEOREM RingsAreQueues ==
  ASSUME StorageAssumption
  PROVE  StorageSpec => ImplementsQueues
<1>1. BlocksSound /\ LockSound /\ [StorageNext]_vars => BlocksSound' /\ LockSound' /\ Follows
  BY StepFollows, StepLocks
<1>2. StorageInit => BlocksSound /\ LockSound /\ Abstract!BoundedInit
  BY InitSound, InitEmpty
<1>3. Follows => [Abstract!BoundedNext]_[q \in Queue |-> Contents(q)]
  BY FollowsBounded
<1>4. QED
  BY <1>1, <1>2, <1>3, PTL DEF StorageSpec, ImplementsQueues, Abstract!BoundedSpec

(* Every item in a member of a set is announced once, or counted by the    *)
(* lock of the member to be announced when that is unlocked, whatever the  *)
(* number of queues, sets and members, as long as each set has room for    *)
(* what its members can hold, and no interrupt has overwritten the item of *)
(* a locked member, or sent it more than there are tasks.                  *)
THEOREM EveryItemIsAnnounced ==
  ASSUME StorageAssumption, SetAssumption
  PROVE  StorageSpec => []EveryItemAnnounced
<1>1. StorageInit => BlocksSound /\ LockSound /\ Announces
  BY InitSound, InitSetsSound DEF Announces
<1>2. BlocksSound /\ LockSound /\ Announces /\ [StorageNext]_vars
        => BlocksSound' /\ LockSound' /\ Announces'
  BY StepFollows, StepLocks, StepAnnounces
<1>3. BlocksSound /\ LockSound /\ Announces => EveryItemAnnounced
  BY SoundAnnounces DEF Announces, EveryItemAnnounced
<1>4. QED
  BY <1>1, <1>2, <1>3, PTL DEF StorageSpec

(* pcWriteTo and pcReadFrom agree with uxMessagesWaiting, and the heap has *)
(* given memory to exactly the queues made from it.                        *)
THEOREM PointersAlwaysAgree ==
  ASSUME StorageAssumption
  PROVE  StorageSpec => []PointersAgree
<1>1. StorageInit => BlocksSound /\ LockSound
  BY InitSound
<1>2. BlocksSound /\ LockSound /\ [StorageNext]_vars => BlocksSound' /\ LockSound'
  BY StepFollows, StepLocks
<1>3. BlocksSound => PointersAgree
  BY SoundAgrees
<1>4. QED
  BY <1>1, <1>2, <1>3, PTL DEF StorageSpec

=============================================================================
