------------------------------- MODULE Heap4 --------------------------------
(***************************************************************************)
(* The allocator of heap_4.c: first fit, with blocks split when they are   *)
(* taken and joined with their neighbours when they come back.             *)
(*                                                                         *)
(* The work on the free list is done with the scheduler suspended, so it   *)
(* is one step; vPortFree begins before that, and other tasks may allocate *)
(* and free in between.  The list is the sequence of the blocks' addresses *)
(* that its pointers make.                                                 *)
(***************************************************************************)
EXTENDS Integers, Sequences, SequencesExt, FiniteSetsExt, Functions

CONSTANTS
  Base,        \* the address of ucHeap
  TotalSize,   \* configTOTAL_HEAP_SIZE
  Alignment,   \* portBYTE_ALIGNMENT
  Header,      \* xHeapStructSize
  SizeMod,     \* 2 ^ (width of size_t)
  Sizes,       \* arguments of pvPortMalloc
  Arrays,      \* arguments of pvPortCalloc: pairs of a number and a size
  MaxFreeing   \* bound: calls of vPortFree under way

SizeMax == SizeMod - 1                 \* heapSIZE_MAX
TopBit == SizeMod \div 2               \* heapBLOCK_ALLOCATED_BITMASK
MinimumBlock == 2 * Header             \* heapMINIMUM_BLOCK_SIZE

RoundDown(n) == n - (n % Alignment)
RoundUp(n) == RoundDown(n + Alignment - 1)

(* The heap's first block and its end mark, as prvHeapInit finds them *)
First == RoundUp(Base)
End == RoundDown(First + (TotalSize - (First - Base)) - Header)

HeapAssumption ==
  /\ Base \in Nat /\ TotalSize \in Nat /\ Alignment \in Nat \ {0}
  /\ Header \in Nat \ {0} /\ Header % Alignment = 0
  /\ SizeMod \in Nat /\ SizeMod % 2 = 0
  /\ First + MinimumBlock < End /\ TotalSize < TopBit
  /\ Sizes \subseteq 0 .. SizeMax /\ Arrays \subseteq (0 .. SizeMax) \X (0 .. SizeMax)
  /\ MaxFreeing \in Nat

VARIABLES
  h,        \* the heap's data: pxEnd # NULL, the list from xStart, the blocks'
            \* sizes, the bytes asked for in those with the allocated bit,
            \* xFreeBytesRemaining and xMinimumEverFreeBytesRemaining
  freeing,  \* the blocks of calls of vPortFree under way
  answer    \* what the last step's pvPortMalloc was asked and returned

vars == <<h, freeing, answer>>

Addr == First .. End
Null == 0
NoCall == [size |-> 0, at |-> Null]

None == [b \in {} |-> 0]

HeapInit ==
  /\ h = [ready |-> FALSE, free |-> <<>>, size |-> None, asked |-> None,
          remaining |-> 0, minimum |-> 0]
  /\ freeing = {} /\ answer = NoCall

-----------------------------------------------------------------------------
(* prvHeapInit *)
Initialised ==
  [ready |-> TRUE, free |-> <<First>>, size |-> [b \in {First} |-> End - First],
   asked |-> None, remaining |-> End - First, minimum |-> End - First]

Ready(s) == IF s.ready THEN s ELSE Initialised

(* Faulty: the sum may be greater than a size_t holds *)
Wanted_Overflows(n) == IF n = 0 THEN 0 ELSE RoundUp(n + Header) % SizeMod

(* The bytes a block must have to hold n, or 0 if there is none that large *)
Wanted(n) ==
  IF n > 0 /\ RoundUp(n + Header) <= SizeMax THEN RoundUp(n + Header) ELSE 0

(* Faulty: a block of exactly that size is passed over *)
Fits_Greater(s, want) == {i \in DOMAIN s.free : s.size[s.free[i]] > want}

(* The blocks on the list that are large enough; the first one is taken. *)
Fits(s, want) == {i \in DOMAIN s.free : s.size[s.free[i]] >= want}

Found(s, want) ==
  want > 0 /\ want < TopBit /\ want <= s.remaining /\ Fits(s, want) # {}

(* Faulty: an empty rest is split off *)
Splits_NoMinimum(length, want) == length - want >= 0

(* What a block has beyond the bytes wanted becomes a block of its own, if *)
(* that is worth it.                                                       *)
Splits(length, want) == length - want > MinimumBlock

Taken(length, want) == IF Splits(length, want) THEN want ELSE length

(* f with the value v at x *)
With(f, x, v) == [y \in DOMAIN f \cup {x} |-> IF y = x THEN v ELSE f[y]]

(* The i-th block of the list is taken for n bytes. *)
Take(s, i, want, n) ==
  LET b      == s.free[i]
      length == s.size[b]
      left   == s.remaining - Taken(length, want)
      t      == IF Splits(length, want)
                  THEN [s EXCEPT !.free = ReplaceAt(@, i, b + want),
                                 !.size = With(With(@, b + want, length - want), b, want)]
                  ELSE [s EXCEPT !.free = RemoveAt(@, i)]
  IN  [t EXCEPT !.asked = With(@, b, n),
                !.remaining = left,
                !.minimum = IF left < @ THEN left ELSE @]

(* pvPortMalloc for size bytes, of which the caller will use n *)
Allocate(size, n) ==
  LET s    == Ready(h)
      want == Wanted(size)
      i    == Min(Fits(s, want))
  IN  /\ IF Found(s, want)
           THEN h' = Take(s, i, want, n) /\ answer' = [size |-> size, at |-> s.free[i] + Header]
           ELSE h' = s /\ answer' = [size |-> size, at |-> Null]
      /\ UNCHANGED freeing

Malloc == \E n \in Sizes : Allocate(n, n)

(* Faulty: the product is not checked *)
MultiplyOverflows_Never(a, b) == FALSE

MultiplyOverflows(a, b) == a > 0 /\ b > SizeMax \div a

(* pvPortCalloc *)
Calloc ==
  \E x \in Arrays :
    /\ ~MultiplyOverflows(x[1], x[2])
    /\ Allocate((x[1] * x[2]) % SizeMod, x[1] * x[2])

-----------------------------------------------------------------------------
(* vPortFree takes the allocated bit off, *)
FreeBegins ==
  /\ Cardinality(freeing) < MaxFreeing
  /\ \E b \in DOMAIN h.asked :
       /\ freeing' = freeing \cup {b}
       /\ h' = [h EXCEPT !.asked = Restrict(@, DOMAIN @ \ {b})]
  /\ answer' = NoCall

(* Where a block goes in the list: in front of the first one at a higher  *)
(* address                                                                 *)
Place(s, b) == Min({i \in 1 .. Len(s.free) + 1 : i > Len(s.free) \/ s.free[i] >= b})

(* Faulty: a block is never joined with the one before it *)
TouchesLast_Never(s, b) == FALSE

TouchesLast(s, b) ==
  LET i == Place(s, b) - 1 IN i > 0 /\ s.free[i] + s.size[s.free[i]] = b

TouchesNext(s, b) ==
  LET i == Place(s, b) IN i <= Len(s.free) /\ b + s.size[b] = s.free[i]

(* prvInsertBlockIntoFreeList: the block is joined with those it touches. *)
InsertIntoFreeList(s, b) ==
  LET i      == Place(s, b)
      first  == IF TouchesLast(s, b) THEN i - 1 ELSE i
      next   == IF TouchesNext(s, b) THEN i + 1 ELSE i
      joined == {b} \cup {s.free[j] : j \in first .. next - 1}
  IN  [s EXCEPT
         !.free = SubSeq(@, 1, first - 1) \o <<Min(joined)>> \o SubSeq(@, next, Len(@)),
         !.size = With(Restrict(@, DOMAIN @ \ joined), Min(joined),
                       MapThenSumSet(LAMBDA c : s.size[c], joined))]

(* ... and with the scheduler suspended puts the block on the list. *)
FreeInserts ==
  /\ \E b \in freeing :
       /\ freeing' = freeing \ {b}
       /\ h' = InsertIntoFreeList([h EXCEPT !.remaining = @ + h.size[b]], b)
  /\ answer' = NoCall

HeapNext == Malloc \/ Calloc \/ FreeBegins \/ FreeInserts

HeapSpec == HeapInit /\ [][HeapNext]_vars

-----------------------------------------------------------------------------
(* The blocks, for the properties of HeapVariants. *)

Blocks == DOMAIN h.size
OnList == Range(h.free)
After(b) == b + h.size[b]

=============================================================================
