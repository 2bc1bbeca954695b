-------------------------------- MODULE Heap --------------------------------
(***************************************************************************)
(* The heap of one task (src/src/bootstrap/heap.c): first fit over a list  *)
(* of blocks in address order, split on allocation, joined on release.     *)
(* Every operation runs with interrupts masked and works on the heap of    *)
(* the running task only, so one heap, one operation at a time, is all.    *)
(* Addresses count from heap_base; a block is [at, size, used], where at   *)
(* is the address of its header.                                           *)
(***************************************************************************)
EXTENDS Integers, Sequences

CONSTANTS
  HeapSize,  \* TASK_HEAP_SIZE
  Header,    \* sizeof(heap_block_t), 5
  Word,      \* 2^16: sizes are uint16_t
  Requests   \* the sizes asked for

ASSUME HeapAssumption ==
  /\ HeapSize \in Nat /\ Header \in Nat \ {0} /\ Word \in Nat
  /\ Header < HeapSize /\ HeapSize < Word /\ Word % 2 = 0
  /\ Requests \subseteq 0 .. Word - 1

VARIABLES
  blocks,  \* the list from heap_first
  grants   \* history: what the task was given and has not freed, [ptr, req]

vars == <<blocks, grants>>

Down(n) == n - (n % 2)               \* heap_align_even_down

\* Mutant: rounded down.
EvenMutant(n) == Down(n)

Even(n) == Down((n + 1) % Word)       \* heap_align_even: 0xFFFF becomes 0
End(b)  == b.at + Header + b.size
Ptr(b)  == b.at + Header
Whole   == <<[at |-> 0, size |-> Down(HeapSize - Header), used |-> FALSE]>>

\* rtos_heap_reset_task
Init == blocks = Whole /\ grants = {}

Reset == blocks' = Whole /\ grants' = {}

Fits(b, n) == ~b.used /\ b.size >= n

FirstFit(i, n) == Fits(blocks[i], n) /\ \A j \in 1 .. i - 1 : ~Fits(blocks[j], n)

\* Mutant: the room for the new header is forgotten.
SplitMutant(b, n) ==
  IF b.size - n > Header + 2
  THEN << [b EXCEPT !.size = n, !.used = TRUE],
          [at |-> b.at + Header + n, size |-> b.size - n, used |-> FALSE] >>
  ELSE << [b EXCEPT !.used = TRUE] >>

\* The block b taken for n bytes, and what is left of it if that is enough
\* for another block.
Split(b, n) ==
  IF b.size - n > Header + 2
  THEN << [b EXCEPT !.size = n, !.used = TRUE],
          [at |-> b.at + Header + n, size |-> b.size - n - Header, used |-> FALSE] >>
  ELSE << [b EXCEPT !.used = TRUE] >>

\* rtos_malloc, when it returns a block
Malloc(req) ==
  /\ req # 0
  /\ \E i \in DOMAIN blocks :
       /\ FirstFit(i, Even(req))
       /\ blocks' = SubSeq(blocks, 1, i - 1) \o Split(blocks[i], Even(req))
                      \o SubSeq(blocks, i + 1, Len(blocks))
       /\ grants' = grants \cup {[ptr |-> Ptr(blocks[i]), req |-> req]}

\* Mutant: the block before is left alone.
JoinsMutant(i) == FALSE

\* Block i, being freed, joins the block before it.
Joins(i) == i > 1 /\ ~blocks[i - 1].used /\ End(blocks[i - 1]) = blocks[i].at

\* The last of the free blocks that follow block i without a gap.
LastFree(i, k) ==
  LET Follows(j) == ~blocks[j].used /\ blocks[j].at = End(blocks[j - 1])
  IN  /\ \A j \in i + 1 .. k : Follows(j)
      /\ k < Len(blocks) => ~Follows(k + 1)

\* rtos_free(ptr), when it returns 1: ptr is that of a block in use.
Free(ptr) ==
  \E i, k \in DOMAIN blocks :
    /\ Ptr(blocks[i]) = ptr /\ blocks[i].used
    /\ i <= k /\ LastFree(i, k)
    /\ LET first == IF Joins(i) THEN i - 1 ELSE i
           from  == blocks[first]
       IN  blocks' = SubSeq(blocks, 1, first - 1)
                       \o << [at |-> from.at, size |-> End(blocks[k]) - Ptr(from), used |-> FALSE] >>
                       \o SubSeq(blocks, k + 1, Len(blocks))
    /\ grants' = {g \in grants : g.ptr # ptr}

Next ==
  \/ \E req \in Requests : Malloc(req)
  \/ \E ptr \in 0 .. HeapSize - 1 : Free(ptr)
  \/ Reset

Spec == Init /\ [][Next]_vars

----------------------------------------------------------------------------
TypeOK ==
  /\ blocks \in Seq([at : 0 .. HeapSize - 1, size : 0 .. HeapSize, used : BOOLEAN])
  /\ \A g \in grants : g.ptr \in 0 .. HeapSize /\ g.req \in Requests \ {0}

\* The blocks tile the area: no overlap, no gap, no byte lost, whatever was
\* allocated and freed in whatever order (heap.c:110-131, 176-196).
Tiled ==
  /\ blocks[1].at = 0
  /\ \A i \in 1 .. Len(blocks) - 1 : End(blocks[i]) = blocks[i + 1].at
  /\ End(blocks[Len(blocks)]) = Header + Down(HeapSize - Header)

\* There are never two free blocks side by side: a request is refused only
\* when no run of free bytes can hold it.
Coalesced ==
  \A i \in 1 .. Len(blocks) - 1 : blocks[i].used \/ blocks[i + 1].used

\* Each thing granted is a used block of its own, and big enough; the one
\* request the arithmetic gets wrong is the largest, 0xFFFF.
GrantsAreGood ==
  /\ {Ptr(blocks[i]) : i \in {i \in DOMAIN blocks : blocks[i].used}} = {g.ptr : g \in grants}
  /\ \A g, h \in grants : g.ptr = h.ptr => g = h
  /\ \A g \in grants : \A i \in DOMAIN blocks :
       Ptr(blocks[i]) = g.ptr => blocks[i].size >= g.req \/ g.req = Word - 1

=============================================================================
