--------------------------------- MODULE Heap ---------------------------------
(***************************************************************************)
(* kernel/src/memory.c: heap_init, kmalloc and kfree.                      *)
(*                                                                         *)
(* The heap is a doubly linked list of blocks inside one region.  A block  *)
(* is named by the offset of its header in the region; heap maps the       *)
(* headers on the list to their four fields.  kmalloc's walk is modelled   *)
(* block by block.  One call runs at a time: the kernel has one thread and *)
(* no interrupt handler allocates.                                         *)
(***************************************************************************)
EXTENDS Integers, FiniteSets

CONSTANTS
  HeapBytes,  \* heap_total_bytes: 256 pages in the code
  SizeRange,  \* size_t wraps at 2^64
  Requests,   \* the sizes a caller may ask for
  NULL

Header == 32  \* sizeof(HeapBlock)
Unit == 16    \* the alignment of sizes, and the smallest payload of a split

ASSUME HeapAssumption ==
  /\ HeapBytes \in Nat /\ HeapBytes >= Header + Unit /\ HeapBytes % Unit = 0
  /\ SizeRange \in Nat /\ SizeRange > HeapBytes /\ SizeRange % Unit = 0
  /\ Requests \subseteq 0 .. SizeRange - 1
  /\ NULL \notin Int

VARIABLES
  heap_head,   \* 0, the first block's offset, or NULL
  heap,        \* block -> [size, free, next, prev]
  live,        \* history: block handed out -> bytes its owner asked for
  pc,          \* "idle", or "walk" inside kmalloc
  request,     \* kmalloc's argument
  size,        \* the same, rounded up
  block        \* kmalloc's cursor

locals == <<request, size, block>>
vars == <<heap_head, heap, live, pc, locals>>

Offset == 0 .. HeapBytes - 1
Block == [size : 0 .. HeapBytes, free : BOOLEAN,
          next : Offset \cup {NULL}, prev : Offset \cup {NULL}]

\* The first byte after a block.
End(h, b) == b + Header + h[b].size

-----------------------------------------------------------------------------
\* heap_init: one free block, or no heap when page_alloc found no room.
Init ==
  /\ heap_head \in {0, NULL}
  /\ heap = [b \in (IF heap_head = NULL THEN {} ELSE {0}) |->
               [size |-> HeapBytes - Header, free |-> TRUE, next |-> NULL, prev |-> NULL]]
  /\ live = [b \in {} |-> 0]
  /\ pc = "idle"
  /\ request = 0 /\ size = 0 /\ block = NULL

-----------------------------------------------------------------------------
\* kmalloc.

\* Mutant: sizes are rounded down.
align_down(value) == (value \div Unit) * Unit

\* align_up_uintptr(value, 16) on 64-bit integers: the sum may wrap.
align_up(value) == (((value + Unit - 1) % SizeRange) \div Unit) * Unit

\* kmalloc(0), or no heap: returns 0 at once and changes nothing.
RefuseAtOnce(n) ==
  /\ pc = "idle"
  /\ n = 0 \/ heap_head = NULL
  /\ UNCHANGED vars

\* The locals of kmalloc are gone when it returns.
Return ==
  /\ pc' = "idle"
  /\ request' = 0 /\ size' = 0 /\ block' = NULL

kmalloc(n) ==
  /\ pc = "idle"
  /\ n # 0 /\ heap_head # NULL
  /\ request' = n /\ size' = align_up(n)
  /\ block' = heap_head
  /\ pc' = "walk"
  /\ UNCHANGED <<heap_head, heap, live>>

\* Mutant: a block that fits exactly is passed over.
SuitableStrictly(b) == heap[b].free /\ heap[b].size > size

Suitable(b) == heap[b].free /\ heap[b].size >= size

\* Mutant: blocks without room for a second header are passed over.
SkipUnsplittable ==
  /\ pc = "walk" /\ block # NULL
  /\ ~(heap[block].free /\ heap[block].size >= size + Header)
  /\ block' = heap[block].next
  /\ UNCHANGED <<heap_head, heap, live, pc, request, size>>

\* if (!block->free || block->size < size) continue;
Skip ==
  /\ pc = "walk" /\ block # NULL
  /\ ~Suitable(block)
  /\ block' = heap[block].next
  /\ UNCHANGED <<heap_head, heap, live, pc, request, size>>

\* Mutant: no room is left for the second header.
SplitTight(b) == heap[b].size >= size + Unit

\* Room for a second header and a smallest payload.
Splits(b) == heap[b].size >= size + Header + Unit

\* The list after block b was cut in two and its first part taken.
SplitBlock(b) ==
  LET split == b + Header + size
  IN  [x \in DOMAIN heap \cup {split} |->
         CASE x = split ->
                [size |-> heap[b].size - size - Header, free |-> TRUE,
                 next |-> heap[b].next, prev |-> b]
           [] x = b -> [heap[b] EXCEPT !.size = size, !.free = FALSE, !.next = split]
           [] x = heap[b].next -> [heap[x] EXCEPT !.prev = split]
           [] OTHER -> heap[x]]

TakeBlock(b) == [heap EXCEPT ![b].free = FALSE]

Take ==
  /\ pc = "walk" /\ block # NULL
  /\ Suitable(block)
  /\ heap' = IF Splits(block) THEN SplitBlock(block) ELSE TakeBlock(block)
  /\ live' = [b \in DOMAIN live \cup {block} |-> IF b = block THEN request ELSE live[b]]
  /\ Return
  /\ UNCHANGED heap_head

\* The end of the list.
Fail ==
  /\ pc = "walk" /\ block = NULL
  /\ Return
  /\ UNCHANGED <<heap_head, heap, live>>

-----------------------------------------------------------------------------
\* kfree.

\* Mutant: the absorbed block's header is not counted.
AbsorbHeaderLost(h, b) ==
  LET n == h[b].next
  IN  [x \in DOMAIN h \ {n} |->
         CASE x = b -> [h[b] EXCEPT !.size = h[b].size + h[n].size, !.next = h[n].next]
           [] x = h[n].next -> [h[x] EXCEPT !.prev = b]
           [] OTHER -> h[x]]

\* Block b swallows the next block of the list, header and all.
Absorb(h, b) ==
  LET n == h[b].next
  IN  [x \in DOMAIN h \ {n} |->
         CASE x = b -> [h[b] EXCEPT !.size = h[b].size + Header + h[n].size,
                                    !.next = h[n].next]
           [] x = h[n].next -> [h[x] EXCEPT !.prev = b]
           [] OTHER -> h[x]]

MergeNext(h, b) ==
  IF h[b].next # NULL /\ h[h[b].next].free THEN Absorb(h, b) ELSE h

\* Mutant: a block is never merged into the one before it.
KeepPrev(h, b) == h

MergePrev(h, b) ==
  IF h[b].prev # NULL /\ h[h[b].prev].free THEN Absorb(h, h[b].prev) ELSE h

SetFree(h, b) == [h EXCEPT ![b].free = TRUE]

\* The owner of block b returns it.  kfree(0) does nothing.
kfree(b) ==
  /\ pc = "idle"
  /\ heap' = MergePrev(MergeNext(SetFree(heap, b), b), b)
  /\ live' = [x \in DOMAIN live \ {b} |-> live[x]]
  /\ UNCHANGED <<heap_head, pc, locals>>

Next ==
  \/ \E n \in Requests : RefuseAtOnce(n)
  \/ \E n \in Requests : kmalloc(n)
  \/ Skip \/ Take \/ Fail
  \/ \E b \in DOMAIN live : kfree(b)

Spec == Init /\ [][Next]_vars

-----------------------------------------------------------------------------
(***************************************************************************)
(* Type invariant: no field ever points or reaches out of the region.      *)
(***************************************************************************)
TypeOK ==
  /\ heap_head \in {0, NULL}
  /\ DOMAIN heap \subseteq Offset
  /\ heap \in [DOMAIN heap -> Block]
  /\ DOMAIN live \subseteq DOMAIN heap
  /\ live \in [DOMAIN live -> Requests]
  /\ pc \in {"idle", "walk"}
  /\ request \in Requests \cup {0}
  /\ size \in 0 .. SizeRange - 1
  /\ block \in Offset \cup {NULL}

(***************************************************************************)
(* The list describes the region exactly: the blocks follow each other     *)
(* without a gap or an overlap from the first byte to the last, next and   *)
(* prev are each other's inverse, and headers and payloads stay aligned.   *)
(***************************************************************************)
ListTiles(h) ==
  \A b \in DOMAIN h :
    /\ b % Unit = 0 /\ h[b].size % Unit = 0
    /\ IF h[b].next = NULL
         THEN End(h, b) = HeapBytes
         ELSE /\ h[b].next = End(h, b)
              /\ h[b].next \in DOMAIN h
              /\ h[h[b].next].prev = b
    /\ IF h[b].prev = NULL
         THEN b = 0
         ELSE h[b].prev \in DOMAIN h /\ h[h[b].prev].next = b
    /\ \A c \in DOMAIN h : b < c => End(h, b) <= c

Tiled == ListTiles(heap) /\ (heap_head # NULL => heap_head \in DOMAIN heap)

(***************************************************************************)
(* The blocks in use are the ones handed out, and each has the room its    *)
(* owner asked for, unless the request is within 15 bytes of 2^64, where   *)
(* align_up_uintptr wraps to 0.                                            *)
(***************************************************************************)
GrantsHold ==
  /\ DOMAIN live = {b \in DOMAIN heap : ~heap[b].free}
  /\ \A b \in DOMAIN live : live[b] <= SizeRange - Unit => live[b] <= heap[b].size

(***************************************************************************)
(* kfree merges in both directions, so two free blocks are never adjacent. *)
(***************************************************************************)
NoFreeNeighbours(h) ==
  \A b \in DOMAIN h : h[b].free /\ h[b].next # NULL => ~h[h[b].next].free

Coalesced == NoFreeNeighbours(heap)

(***************************************************************************)
(* A walk of kmalloc stays on the list and has passed only unsuitable      *)
(* blocks.                                                                 *)
(***************************************************************************)
Passed(b) == block = NULL \/ b < block

WalkOnList ==
  pc = "walk" =>
    /\ block # NULL => block \in DOMAIN heap
    /\ \A b \in DOMAIN heap : Passed(b) => ~Suitable(b)

\* The bytes s .. e - 1 lie in the region and touch no block in use.
Unused(s, e) ==
  /\ e <= HeapBytes
  /\ \A b \in DOMAIN heap : ~heap[b].free => End(heap, b) <= s \/ e <= b

(***************************************************************************)
(* kmalloc fails only when nowhere in the region, whatever the blocks,     *)
(* there is an unused stretch that holds a header and the rounded request: *)
(* memory is never lost to fragmentation that merging could undo.          *)
(***************************************************************************)
FailsOnlyWhenFull ==
  [][ Fail => \A s \in Offset : ~Unused(s, s + Header + size) ]_vars
=============================================================================
