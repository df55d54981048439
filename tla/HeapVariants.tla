---------------------------- MODULE HeapVariants ----------------------------
(***************************************************************************)
(* The allocators that the kernel comes with besides heap_4.c, beside it:  *)
(* heap_1.c never frees; heap_2.c takes the smallest block that is large   *)
(* enough and does not join blocks; heap_5.c is heap_4.c over several      *)
(* regions of memory.  An application is built with one of them: scheme    *)
(* is its number.                                                          *)
(***************************************************************************)
EXTENDS Heap4, TLC

CONSTANT Regions    \* the argument of vPortDefineHeapRegions: pairs of a start and a size

VARIABLE scheme

hvars == <<vars, scheme>>

\* configADJUSTED_HEAP_SIZE
Adjusted == TotalSize - Alignment

RegionStart(r) == RoundUp(Regions[r][1])
RegionEnd(r) == RoundDown(RegionStart(r) + (Regions[r][2] - (RegionStart(r) - Regions[r][1])) - Header)

HeapVariantsAssumption ==
  /\ HeapAssumption
  /\ \A r \in DOMAIN Regions :
       RegionStart(r) + MinimumBlock < RegionEnd(r) /\ Regions[r][1] + Regions[r][2] <= Base + TotalSize
  /\ \A r \in 1 .. Len(Regions) - 1 : Regions[r + 1][1] > RegionEnd(r)   \* the code's assertion

-----------------------------------------------------------------------------
(* heap_5.c *)

\* vPortDefineHeapRegions: one block for each region, with a block of no
\* bytes behind it that links it to the next region.
DefinedRegions ==
  LET marks == 1 .. Len(Regions) - 1
      sizes == [b \in {RegionStart(r) : r \in DOMAIN Regions} |->
                  LET r == CHOOSE q \in DOMAIN Regions : RegionStart(q) = b IN RegionEnd(r) - b]
               @@ [b \in {RegionEnd(r) : r \in marks} |-> 0]
      total == MapThenSumSet(LAMBDA b : sizes[b], DOMAIN sizes)
  IN  [ready |-> TRUE, free |-> SetToSortSeq(DOMAIN sizes, <), size |-> sizes, asked |-> None,
       remaining |-> total, minimum |-> total]

\* Allocation and freeing are those of heap_4.c: the blocks that mark the end
\* of a region are joined like others.
RegionMalloc == scheme = 5 /\ Malloc
RegionCalloc == scheme = 5 /\ Calloc
RegionFreeBegins == scheme = 5 /\ FreeBegins
RegionInsert == scheme = 5 /\ FreeInserts

-----------------------------------------------------------------------------
(* heap_2.c *)

\* prvHeapInit
InitialisedWhole ==
  [ready |-> TRUE, free |-> <<First>>, size |-> [b \in {First} |-> Adjusted], asked |-> None,
   remaining |-> Adjusted, minimum |-> Adjusted]

\* Faulty: at the head of the list
SizePlace_First(s, b) == 1

\* Where a block goes in the list: in front of the first that is not smaller
SizePlace(s, b) == Min({i \in 1 .. Len(s.free) + 1 : i > Len(s.free) \/ s.size[s.free[i]] >= s.size[b]})

\* prvInsertBlockIntoFreeList
InsertBySize(s, b) == [s EXCEPT !.free = InsertAt(@, SizePlace(s, b), b)]

\* The block that was found is taken off the list and what it has beyond the
\* bytes wanted, if that is worth it, put on it.
TakeSmallest(s, want, n) ==
  LET i == Min(Fits(s, want))
      b == s.free[i]
      length == s.size[b]
      t == [s EXCEPT !.free = RemoveAt(@, i)]
      u == IF Splits(length, want)
             THEN InsertBySize([t EXCEPT !.size = With(With(@, b + want, length - want), b, want)], b + want)
             ELSE t
  IN  [u EXCEPT !.asked = With(@, b, n), !.remaining = @ - Taken(length, want)]

SmallestMalloc(size, n) ==
  LET s == IF h.ready THEN h ELSE InitialisedWhole
      want == Wanted(size)
  IN  /\ scheme = 2
      /\ IF Found(s, want)
           THEN h' = TakeSmallest(s, want, n) /\ answer' = [size |-> size, at |-> s.free[Min(Fits(s, want))] + Header]
           ELSE h' = s /\ answer' = [size |-> size, at |-> Null]
      /\ UNCHANGED freeing

SmallestCalloc == \E x \in Arrays :
  ~MultiplyOverflows(x[1], x[2]) /\ SmallestMalloc((x[1] * x[2]) % SizeMod, x[1] * x[2])

\* vPortFree takes the allocated bit off, and later, with the scheduler
\* suspended, puts the block on the list.
SmallestFreeBegins == scheme = 2 /\ FreeBegins

SmallestInserts ==
  /\ scheme = 2
  /\ \E b \in freeing :
       /\ freeing' = freeing \ {b}
       /\ h' = InsertBySize([h EXCEPT !.remaining = @ + h.size[b]], b)
  /\ answer' = NoCall

-----------------------------------------------------------------------------
(* heap_1.c: what is not handed out is the end of the heap. *)

\* Faulty: the sum may wrap
BumpFits_Wraps(next, want) == want > 0 /\ (next + want) % SizeMod < Adjusted

BumpFits(next, want) ==
  LET sum == (next + want) % SizeMod IN want > 0 /\ sum < Adjusted /\ sum > next

BumpMalloc(n) ==
  LET next == Adjusted - h.remaining        \* xNextFreeByte
      want == IF RoundUp(n) <= SizeMax THEN RoundUp(n) ELSE 0
  IN  /\ scheme = 1
      /\ IF BumpFits(next, want)
           THEN /\ h' = [h EXCEPT !.asked = With(@, First + next, n), !.size = With(@, First + next, want),
                                  !.remaining = @ - want]
                /\ answer' = [size |-> n, at |-> First + next]
           ELSE h' = h /\ answer' = [size |-> n, at |-> Null]
      /\ UNCHANGED freeing

-----------------------------------------------------------------------------
HeapsInit ==
  /\ scheme \in {1, 2, 4, 5}
  /\ h = CASE scheme = 5 -> DefinedRegions
           [] scheme = 1 -> [ready |-> TRUE, free |-> <<>>, size |-> None, asked |-> None,
                             remaining |-> Adjusted, minimum |-> Adjusted]
           [] OTHER -> [ready |-> FALSE, free |-> <<>>, size |-> None, asked |-> None, remaining |-> 0, minimum |-> 0]
  /\ freeing = {} /\ answer = NoCall

HeapsNext ==
  /\ \/ \E n \in Sizes : BumpMalloc(n) \/ SmallestMalloc(n, n)
     \/ SmallestCalloc \/ SmallestFreeBegins \/ SmallestInserts
     \/ scheme = 4 /\ HeapNext
     \/ RegionMalloc \/ RegionCalloc \/ RegionFreeBegins \/ RegionInsert
  /\ UNCHANGED scheme

HeapsSpec == HeapsInit /\ [][HeapsNext]_hvars

-----------------------------------------------------------------------------
(* Properties. *)

\* The spans of memory that the blocks of a heap fill: pairs of a start and an end
Spans ==
  CASE scheme = 1 -> {<<First, First + Adjusted - h.remaining>>}
    [] scheme = 2 -> {<<First, First + Adjusted>>}
    [] scheme = 4 -> {<<First, End>>}
    [] scheme = 5 -> {<<RegionStart(r), RegionEnd(r)>> : r \in DOMAIN Regions}
SpanEnds == {span[2] : span \in Spans}

\* The blocks of a heap fill its memory side by side, each is on the free
\* list, allocated, or on its way back, and the count of free bytes is exact:
\* no byte is lost or in two blocks, whatever sequence of calls was made.
BlocksTileMemory ==
  h.ready /\ Blocks # {} =>
    /\ \A span \in Spans : span[1] \in Blocks
    /\ \A b \in Blocks : After(b) \in Blocks \cup SpanEnds
    /\ \A b, c \in Blocks : b < c => After(b) <= c
    /\ Blocks = OnList \cup DOMAIN h.asked \cup freeing
    /\ OnList \cap (DOMAIN h.asked \cup freeing) = {} /\ DOMAIN h.asked \cap freeing = {}
    /\ scheme # 1 => h.remaining = MapThenSumSet(LAMBDA b : h.size[b], OnList)

\* The free list is in its order: by address with no two blocks that touch,
\* in heap_4.c and heap_5.c, where only the blocks that mark the end of a
\* region are exempt; by size in heap_2.c, so that the first block large enough
\* is the smallest.
ListInOrder == \A i \in 1 .. Len(h.free) - 1 :
  LET b == h.free[i]  c == h.free[i + 1] IN
  CASE scheme = 2 -> h.size[b] <= h.size[c]
    [] scheme = 4 -> After(b) < c
    [] scheme = 5 -> After(b) < c \/ (h.size[c] = 0 /\ After(b) = c)

\* pvPortMalloc fails only if there is no gap between the blocks in use, and
\* those on their way back, that is large enough; in heap_2.c, no block.
FailsOnlyForWantOfMemory ==
  answer.size > 0 /\ answer.at = Null =>
    LET want == RoundUp(answer.size + Header)
        busy == DOMAIN h.asked \cup freeing
    IN  CASE scheme = 1 -> RoundUp(answer.size) >= h.remaining
          [] scheme = 2 -> \A b \in OnList : h.size[b] < want
          [] OTHER -> \A span \in Spans : \A a \in span[1] .. span[2] - want :
               a % Alignment = 0 => \E b \in busy : b < a + want /\ a < After(b)

\* Each heap keeps the promise of an allocator to its callers.
HeaderOf == IF scheme = 1 THEN 0 ELSE Header
PromiseOfAll == INSTANCE Allocator
  WITH Low <- First, High <- Base + TotalSize,
       used <- {[at |-> b + HeaderOf, length |-> h.asked[b]] : b \in DOMAIN h.asked}

AllImplementAllocator == PromiseOfAll!AllocatorSpec
=============================================================================
