----------------------------- MODULE TinyMalloc -----------------------------
(***************************************************************************)
(* The C library's allocator of the SDK, tiny-malloc.c, and heap_3.c, which *)
(* is the kernel's allocator on top of it.  The memory from __malloc_start *)
(* to __malloc_end is in blocks that touch; the free ones are on a list in *)
(* the order of their addresses.  What no free block can hold is taken     *)
(* behind __malloc_end, which may move up to a gap below the stack of the  *)
(* caller; the last block grows, if it is free.  It does not support       *)
(* threads: heap_3.c suspends the scheduler around each call, so each is   *)
(* one step.                                                               *)
(***************************************************************************)
EXTENDS Naturals, SequencesExt, FiniteSetsExt, Functions

CONSTANTS
  Word,       \* sizeof(size_t)
  MallocLimit,  \* MALLOC_LIMIT less MALLOC_MINIMUM_GAP, counted from __malloc_start
  Requests,   \* the sizes asked for
  Aligns      \* the alignments asked for

VARIABLES
  chain,      \* the free list: the addresses of its blocks
  sizes,      \* [a block's address -> its size]
  top,        \* __malloc_end
  inUse       \* the blocks handed out: [address -> what was asked for]

mvars == <<chain, sizes, top, inUse>>

Entry == 2 * Word      \* sizeof(struct freelist_entry)
Nowhere == [b \in {} |-> 0]

TinyMallocAssumption == Word \in Nat \ {0} /\ MallocLimit \in Nat /\ Requests \subseteq Nat /\ Aligns \subseteq Nat

MallocInit == chain = <<>> /\ sizes = Nowhere /\ top = 0 /\ inUse = Nowhere

-----------------------------------------------------------------------------
Pad(n, align) == (align - (n % align)) % align                        \* M_ALIGN

\* Faulty: without rounding up to a word
RealSize_Unaligned(n) == IF n < Entry - Word THEN Entry ELSE n + Word

\* REAL_SIZE, for sizes far below the greatest a size_t holds
RealSize(n) == IF n < Entry - Word THEN Entry ELSE n + Word + Pad(n, Word)

CanAlloc(n) == top + n <= MallocLimit                                 \* CAN_ALLOC_P

EndOf(b) == b + sizes[b]
LastTouchesTop == chain # <<>> /\ EndOf(Last(chain)) = top
Bind(f, x, v) == [y \in DOMAIN f \cup {x} |-> IF y = x THEN v ELSE f[y]]
Serve(b, n, align) == inUse' = Bind(inUse, b, [n |-> n, align |-> align])
LargeEnough(real) == {i \in DOMAIN chain : sizes[chain[i]] >= real}

\* The first block that is large enough is taken; if there would be room for
\* an entry of the list behind what is needed, that becomes a block.
MallocFromList(n) ==
  LET real == RealSize(n)
      i == Min(LargeEnough(real))
      b == chain[i]
  IN  /\ LargeEnough(real) # {}
      /\ IF sizes[b] < real + Entry
           THEN chain' = RemoveAt(chain, i) /\ UNCHANGED sizes
           ELSE /\ chain' = ReplaceAt(chain, i, b + real)
                /\ sizes' = Bind(Bind(sizes, b + real, sizes[b] - real), b, real)
      /\ Serve(b, n, 1)
      /\ UNCHANGED top

\* The last block of the list grows, if nothing is behind it.
MallocGrowsLast(n) ==
  LET real == RealSize(n)
      b == Last(chain)
  IN  /\ LargeEnough(real) = {} /\ LastTouchesTop
      /\ CanAlloc(real - sizes[b])
      /\ chain' = Front(chain)
      /\ sizes' = [sizes EXCEPT ![b] = real]
      /\ top' = b + real
      /\ Serve(b, n, 1)

MallocAtTop(n) ==
  LET real == RealSize(n) IN
  /\ LargeEnough(real) = {} /\ ~LastTouchesTop
  /\ CanAlloc(real)
  /\ sizes' = Bind(sizes, top, real)
  /\ top' = top + real
  /\ Serve(top, n, 1)
  /\ UNCHANGED chain

\* Otherwise malloc returns NULL.
LibraryMalloc(n) == MallocFromList(n) \/ MallocGrowsLast(n) \/ MallocAtTop(n)

-----------------------------------------------------------------------------
\* Where the block b goes in the list l
PlaceInList(l, b) == Cardinality({i \in DOMAIN l : l[i] < b}) + 1

\* Faulty: the block that follows is forgotten
Joined_NotNext(l, z, b) ==
  LET i == PlaceInList(l, b) IN {b} \cup {l[j] : j \in {k \in {i - 1} : k >= 1 /\ l[k] + z[l[k]] = b}}

\* The blocks of the list l, of sizes z, that b touches, and b
Joined(l, z, b) ==
  LET i == PlaceInList(l, b)
  IN  {b} \cup {l[j] : j \in {k \in {i - 1} : k >= 1 /\ l[k] + z[l[k]] = b}}
          \cup {l[j] : j \in {k \in {i} : k <= Len(l) /\ b + z[b] = l[k]}}

\* free puts b on the list and joins it with its neighbours.
Released(l, z, b) ==
  LET joined == Joined(l, z, b)
      kept == SelectSeq(l, LAMBDA c : c \notin joined)
  IN  [chain |-> InsertAt(kept, PlaceInList(kept, Min(joined)), Min(joined)),
       sizes |-> Bind(Restrict(z, DOMAIN z \ joined), Min(joined), MapThenSumSet(LAMBDA c : z[c], joined))]

LibraryFree(b) ==
  LET r == Released(chain, sizes, b) IN
  /\ chain' = r.chain /\ sizes' = r.sizes
  /\ inUse' = Restrict(inUse, DOMAIN inUse \ {b})
  /\ UNCHANGED top

\* realloc to a size that fits where the block is: the rest is freed, if it
\* can hold an entry of the list.
ReallocInPlace(b, n) ==
  LET real == RealSize(n)
      rest == sizes[b] - real
      r == Released(chain, Bind(Bind(sizes, b + real, rest), b, real), b + real)
  IN  /\ sizes[b] >= real
      /\ IF rest >= Entry THEN chain' = r.chain /\ sizes' = r.sizes ELSE UNCHANGED <<chain, sizes>>
      /\ Serve(b, n, inUse[b].align)
      /\ UNCHANGED top

\* realloc to a greater size allocates a new block, copies what the old one
\* holds and frees it; if there is no memory it leaves the old one alone.
\* (An alignment that memalign gave is lost with the old block.)
ReallocMoves(b, n) ==
  LET real == RealSize(n)
      fits == LargeEnough(real)
      i == Min(fits)
      new == IF fits # {} THEN chain[i] ELSE IF LastTouchesTop THEN Last(chain) ELSE top
      split == fits # {} /\ sizes[new] >= real + Entry
      length == IF fits # {} /\ ~split THEN sizes[new] ELSE real
      z == IF split THEN Bind(Bind(sizes, new + real, sizes[new] - real), new, real) ELSE Bind(sizes, new, length)
      l == IF split THEN ReplaceAt(chain, i, new + real) ELSE SelectSeq(chain, LAMBDA c : c # new)
      r == Released(l, z, b)
  IN  /\ sizes[b] < real
      /\ fits # {} \/ new + real <= MallocLimit
      /\ chain' = r.chain /\ sizes' = r.sizes
      /\ top' = IF fits # {} THEN top ELSE new + real
      /\ inUse' = Bind(Restrict(inUse, DOMAIN inUse \ {b}), new, [n |-> n, align |-> 1])

-----------------------------------------------------------------------------
\* Faulty: the pad alone, in which an entry may not fit
Before_NoEntry(b, align) == Pad(b + Word, align)

\* The bytes memalign leaves free in front of an aligned block in the block
\* b: none, or room for an entry and what it takes to the next alignment.
Before(b, align) == IF Pad(b + Word, align) = 0 THEN 0 ELSE Entry + Pad(b + Entry + Word, align)

\* An aligned block is cut from the free block at position i of the list l,
\* in memory of sizes z: the bytes before it stay on the list, those behind
\* it go there if they can hold more than an entry.
Cut(l, z, i, n, align) ==
  LET b == l[i]
      real == RealSize(n)
      new == b + Before(b, align)
      left == z[b] - Before(b, align)
      whole == left <= real + Entry
      front == IF new = b THEN <<>> ELSE <<b>>
      back == IF whole THEN <<>> ELSE <<new + real>>
      fresh == Bind(IF whole THEN z ELSE Bind(z, new + real, left - real), new, IF whole THEN left ELSE real)
  IN  /\ chain' = SubSeq(l, 1, i - 1) \o front \o back \o SubSeq(l, i + 1, Len(l))
      /\ sizes' = IF new = b THEN fresh ELSE [fresh EXCEPT ![b] = Before(b, align)]
      /\ Serve(new, n, align)

Suits(n, align) == {i \in DOMAIN chain : sizes[chain[i]] >= RealSize(n) + Before(chain[i], align)}

MemalignFromList(n, align) ==
  /\ Suits(n, align) # {}
  /\ Cut(chain, sizes, Min(Suits(n, align)), n, align)
  /\ UNCHANGED top

\* The block b, last of the list l and at the end of the memory, has grown to
\* what is needed.
GrowAndCut(l, b, n, align) ==
  LET size == Before(b, align) + RealSize(n) IN
  /\ b + size <= MallocLimit
  /\ Cut(l, Bind(sizes, b, size), Len(l), n, align)
  /\ top' = b + size

MemalignGrowsLast(n, align) ==
  /\ Suits(n, align) = {} /\ LastTouchesTop
  /\ GrowAndCut(chain, Last(chain), n, align)

\* A block at the end that has the size with the pad; with an entry to fit
\* before it, it grows once more, and if that is refused, stays on the list.
MemalignAtTop(n, align) ==
  LET size == RealSize(n) + Pad(top + Word, align) IN
  /\ Suits(n, align) = {} /\ ~LastTouchesTop
  /\ CanAlloc(size)
  /\ IF top + Before(top, align) + RealSize(n) <= MallocLimit
       THEN IF size >= RealSize(n) + Before(top, align)
              THEN Cut(Append(chain, top), Bind(sizes, top, size), Len(chain) + 1, n, align) /\ top' = top + size
              ELSE GrowAndCut(Append(chain, top), top, n, align)
       ELSE /\ chain' = Append(chain, top) /\ sizes' = Bind(sizes, top, size) /\ top' = top + size
            /\ UNCHANGED inUse

LibraryMemalign(n, align) ==
  MemalignFromList(n, align) \/ MemalignGrowsLast(n, align) \/ MemalignAtTop(n, align)

\* mallinfo: the bytes of the blocks in use
UsedBytes == top - MapThenSumSet(LAMBDA b : sizes[b], Range(chain))

MallocNext ==
  \/ \E n \in Requests : LibraryMalloc(n)
  \/ \E n \in Requests, align \in Aligns : LibraryMemalign(n, align)
  \/ \E b \in DOMAIN inUse : LibraryFree(b)
  \/ \E b \in DOMAIN inUse, n \in Requests : ReallocInPlace(b, n) \/ ReallocMoves(b, n)

MallocSpec == MallocInit /\ [][MallocNext]_mvars

-----------------------------------------------------------------------------
(* Properties. *)

\* The blocks fill the memory up to its end side by side, each is free or
\* handed out, and none is too small for an entry of the list.
BlocksTileArena ==
  /\ DOMAIN sizes = Range(chain) \cup DOMAIN inUse /\ Range(chain) \cap DOMAIN inUse = {}
  /\ \A b \in DOMAIN sizes : sizes[b] >= Entry /\ EndOf(b) \in DOMAIN sizes \cup {top}
  /\ top > 0 => 0 \in DOMAIN sizes
  /\ \A b, c \in DOMAIN sizes : b < c => EndOf(b) <= c
  /\ UsedBytes = MapThenSumSet(LAMBDA b : sizes[b], DOMAIN inUse)
  /\ top <= MallocLimit

\* The free list is in the order of addresses, and no two of its blocks touch.
ChainJoined == \A i \in 1 .. Len(chain) - 1 : EndOf(chain[i]) < chain[i + 1]

\* What malloc, memalign and realloc return holds what was asked for, aligned
\* to a word and as memalign was asked to, and does not move when it shrinks.
HoldsWhatWasAsked == \A b \in DOMAIN inUse :
  /\ inUse[b].n <= sizes[b] - Word                   \* malloc_usable_size
  /\ (b + Word) % Word = 0 /\ (b + Word) % inUse[b].align = 0
=============================================================================
