------------------------------ MODULE HeapProofs ------------------------------
(***************************************************************************)
(* The heap of memory.c keeps its region tiled, its grants whole and its   *)
(* free space merged, for every size of the region and of the requests.    *)
(***************************************************************************)
EXTENDS Heap, TLAPS

-----------------------------------------------------------------------------
\* Facts about sizes.

\* A size that was rounded up is a multiple of the unit, and large enough unless it wrapped.
LEMMA AlignUp ==
  ASSUME NEW n \in 0 .. SizeRange - 1
  PROVE  /\ align_up(n) \in 0 .. SizeRange - 1
         /\ align_up(n) % Unit = 0
         /\ n <= SizeRange - Unit => n <= align_up(n)
<1>1. SizeRange \in Nat /\ SizeRange % 16 = 0 /\ SizeRange > 0
  BY HeapAssumption DEF Unit, Header
<1> DEFINE m == (n + 15) % SizeRange
<1>2. m \in 0 .. SizeRange - 1
  BY <1>1
<1>3. n <= SizeRange - 16 => m = n + 15
  BY <1>1
<1>4. QED BY <1>1, <1>2, <1>3 DEF align_up, Unit

\* Multiples of the unit are closed under sums and differences, and a header is one.
LEMMA Multiples ==
  ASSUME NEW a \in Int, NEW b \in Int, a % Unit = 0, b % Unit = 0
  PROVE  /\ (a + Header + b) % Unit = 0
         /\ (a - b - Header) % Unit = 0
BY DEF Unit, Header

-----------------------------------------------------------------------------
\* Facts about lists.

Typed(h) == DOMAIN h \subseteq Offset /\ h \in [DOMAIN h -> Block]

GoodList(h) == Typed(h) /\ ListTiles(h)

\* Every byte of the region belongs to a block.
Covers(h) == \A s \in Offset : \E b \in DOMAIN h : b <= s /\ s < End(h, b)

\* The fields of a block on a good list.
LEMMA Fields ==
  ASSUME NEW h, Typed(h), NEW b \in DOMAIN h
  PROVE  /\ b \in Int /\ 0 <= b /\ b < HeapBytes /\ b # NULL
         /\ h[b] \in Block
         /\ h[b].size \in Int /\ 0 <= h[b].size /\ h[b].size <= HeapBytes
         /\ h[b].free \in BOOLEAN
         /\ h[b].next \in Offset \cup {NULL} /\ h[b].prev \in Offset \cup {NULL}
         /\ End(h, b) \in Int /\ b + Header <= End(h, b) /\ End(h, b) = b + 32 + h[b].size
         /\ HeapBytes \in Nat
<1>1. HeapBytes \in Nat /\ NULL \notin Int
  BY HeapAssumption
<1>2. h[b] \in Block /\ b \in Offset
  BY DEF Typed
<1>3. QED BY <1>1, <1>2 DEF Block, Offset, End, Header

\* A good list read off its neighbours.
LEMMA Neighbours ==
  ASSUME NEW h, GoodList(h), NEW b \in DOMAIN h
  PROVE  /\ b % Unit = 0 /\ h[b].size % Unit = 0
         /\ End(h, b) <= HeapBytes
         /\ h[b].next = NULL => End(h, b) = HeapBytes
         /\ h[b].next # NULL => /\ h[b].next \in DOMAIN h /\ h[b].next = End(h, b)
                                /\ h[h[b].next].prev = b
                                /\ b < h[b].next
         /\ h[b].prev = NULL => b = 0
         /\ h[b].prev # NULL => /\ h[b].prev \in DOMAIN h /\ h[h[b].prev].next = b
                                /\ h[b].prev < b
         /\ \A c \in DOMAIN h : b < c => End(h, b) <= c
<1>1. /\ b % Unit = 0 /\ h[b].size % Unit = 0
      /\ h[b].next = NULL => End(h, b) = HeapBytes
      /\ h[b].next # NULL => /\ h[b].next \in DOMAIN h /\ h[b].next = End(h, b)
                             /\ h[h[b].next].prev = b
      /\ h[b].prev = NULL => b = 0
      /\ h[b].prev # NULL => h[b].prev \in DOMAIN h /\ h[h[b].prev].next = b
      /\ \A c \in DOMAIN h : b < c => End(h, b) <= c
  BY DEF GoodList, ListTiles
<1>2. \A c \in DOMAIN h : c \in Int /\ c < HeapBytes /\ c + 32 <= End(h, c) /\ End(h, c) \in Int
  BY Fields DEF GoodList, Header
<1>3. HeapBytes \in Nat
  BY HeapAssumption
<1>4. h[b].next # NULL => b < h[b].next
  BY <1>1, <1>2
<1>5. End(h, b) <= HeapBytes
  BY <1>1, <1>2, <1>3
<1>6. ASSUME h[b].prev # NULL PROVE h[b].prev < b
  <2>1. h[b].prev \in DOMAIN h /\ h[h[b].prev].next = b /\ h[h[b].prev].next # NULL
    BY <1>1, <1>6, Fields DEF GoodList
  <2>2. b = End(h, h[b].prev)
    BY <2>1 DEF GoodList, ListTiles
  <2>3. QED BY <2>1, <2>2, <1>2
<1>7. QED BY <1>1, <1>4, <1>5, <1>6

\* List g is list h after b has swallowed n.
Absorbed(h, b, n, g) ==
  /\ n \in DOMAIN h /\ b < n /\ b # n
  /\ DOMAIN g = DOMAIN h \ {n} /\ Typed(g)
  /\ g[b].size = h[b].size + 32 + h[n].size /\ g[b].free = h[b].free
  /\ g[b].next = h[n].next /\ g[b].prev = h[b].prev
  /\ \A x \in DOMAIN g : x # b =>
       /\ g[x].size = h[x].size /\ g[x].free = h[x].free /\ g[x].next = h[x].next
       /\ g[x].prev = IF x = h[n].next THEN b ELSE h[x].prev

\* That is what Absorb does.
LEMMA AbsorbFields ==
  ASSUME NEW h, GoodList(h), NEW b \in DOMAIN h, NEW n, n = h[b].next, n # NULL,
         NEW g, g = Absorb(h, b)
  PROVE  Absorbed(h, b, n, g)
<1>1. n \in DOMAIN h /\ b < n /\ b # n /\ b \in Int /\ n \in Int /\ n = End(h, b)
  BY Neighbours, Fields DEF GoodList
<1>2. \A x \in DOMAIN h : h[x] \in Block /\ x \in Offset
  BY DEF GoodList, Typed
<1>3. DOMAIN g = DOMAIN h \ {n} /\ b \in DOMAIN g
  BY <1>1 DEF Absorb
<1>4. g[b] = [h[b] EXCEPT !.size = h[b].size + Header + h[n].size, !.next = h[n].next]
  <2>1. h[n].next # b
    BY <1>1, Neighbours, Fields DEF GoodList
  <2>2. QED BY <1>1, <1>3, <2>1 DEF Absorb
<1>5. ASSUME NEW x \in DOMAIN g, x # b
      PROVE  g[x] = IF x = h[n].next THEN [h[x] EXCEPT !.prev = b] ELSE h[x]
  BY <1>3, <1>5 DEF Absorb
<1>6. /\ g[b].size = h[b].size + 32 + h[n].size /\ g[b].free = h[b].free
      /\ g[b].next = h[n].next /\ g[b].prev = h[b].prev
  BY <1>2, <1>4 DEF Block, Header
<1>7. ASSUME NEW x \in DOMAIN g, x # b
      PROVE  /\ g[x].size = h[x].size /\ g[x].free = h[x].free /\ g[x].next = h[x].next
             /\ g[x].prev = IF x = h[n].next THEN b ELSE h[x].prev
             /\ g[x] \in Block
  <2>1. h[x] \in Block /\ b \in Offset
    BY <1>2, <1>3
  <2>2. QED BY <1>5, <1>7, <2>1 DEF Block
<1>8. g[b] \in Block
  <2>1. h[b].size + Header + h[n].size \in 0 .. HeapBytes
    <3>1. End(h, n) <= HeapBytes /\ End(h, n) = n + 32 + h[n].size /\ n = b + 32 + h[b].size
      BY <1>1, Neighbours, Fields DEF GoodList
    <3>2. b >= 0 /\ h[b].size \in Nat /\ h[n].size \in Nat /\ HeapBytes \in Nat
      BY <1>1, Fields DEF GoodList
    <3>3. QED BY <1>1, <3>1, <3>2 DEF Header
  <2>2. h[b] \in Block /\ h[n] \in Block
    BY <1>1, <1>2
  <2>3. QED BY <1>4, <2>1, <2>2 DEF Block
<1>9. Typed(g)
  <2>1. g = [x \in DOMAIN g |-> g[x]]
    BY DEF Absorb
  <2>2. QED BY <1>2, <1>3, <1>7, <1>8, <2>1 DEF Typed
<1>10. QED BY <1>1, <1>3, <1>6, <1>7, <1>9 DEF Absorbed

\* A good list stays good when a block swallows the next.
LEMMA AbsorbGood ==
  ASSUME NEW h, GoodList(h), NEW b \in DOMAIN h, NEW n, n = h[b].next, n # NULL,
         NEW g, g = Absorb(h, b)
  PROVE  GoodList(g) /\ (Covers(h) => Covers(g))
<1>0. Absorbed(h, b, n, g)
  BY AbsorbFields
<1>1. n \in DOMAIN h /\ b < n /\ b # n /\ b \in DOMAIN g
  BY <1>0 DEF Absorbed
<1>2. DOMAIN g = DOMAIN h \ {n} /\ Typed(g)
  BY <1>0 DEF Absorbed
<1>3. /\ g[b].size = h[b].size + 32 + h[n].size
      /\ g[b].next = h[n].next /\ g[b].prev = h[b].prev
  BY <1>0 DEF Absorbed
<1>4. \A x \in DOMAIN g : x # b => g[x].size = h[x].size /\ g[x].next = h[x].next
  BY <1>0 DEF Absorbed
<1>5. \A x \in DOMAIN g : x # b => g[x].prev = IF x = h[n].next THEN b ELSE h[x].prev
  BY <1>0 DEF Absorbed
<1>6. \A x \in DOMAIN h : x \in Int /\ x # NULL /\ h[x].size \in Nat /\ End(h, x) = x + 32 + h[x].size
  BY Fields DEF GoodList
<1>7. \A x \in DOMAIN h : x % Unit = 0 /\ h[x].size % Unit = 0
  BY Neighbours
<1>8. \A x \in DOMAIN h : h[x].next # NULL =>
         /\ h[x].next \in DOMAIN h /\ h[x].next = End(h, x)
         /\ h[h[x].next].prev = x /\ x < h[x].next
  BY Neighbours
<1>9. \A x \in DOMAIN h : h[x].next = NULL => End(h, x) = HeapBytes
  BY Neighbours
<1>10. \A x \in DOMAIN h : h[x].prev # NULL =>
          h[x].prev \in DOMAIN h /\ h[h[x].prev].next = x /\ h[x].prev < x
  BY Neighbours
<1>11. \A x \in DOMAIN h : h[x].prev = NULL => x = 0
  BY Neighbours
<1>12. \A x, c \in DOMAIN h : x < c => End(h, x) <= c
  BY Neighbours
\* The new block ends where the old one did; the other ends stay.
<1>13. n = End(h, b) /\ End(g, b) = End(h, n)
  BY <1>1, <1>3, <1>6, <1>8 DEF End, Header
<1>14. \A x \in DOMAIN g : x # b => End(g, x) = End(h, x)
  BY <1>4 DEF End
<1>15. \A c \in DOMAIN g : c % Unit = 0 /\ g[c].size % Unit = 0
  <2>1. (h[b].size + Header + h[n].size) % Unit = 0
    BY <1>1, <1>6, <1>7, Multiples
  <2>2. QED BY <1>2, <1>3, <1>4, <1>7, <2>1 DEF Header
<1>16. \A c \in DOMAIN g : g[c].next = NULL => End(g, c) = HeapBytes
  BY <1>1, <1>2, <1>3, <1>4, <1>9, <1>13, <1>14
<1>17. ASSUME NEW c \in DOMAIN g, g[c].next # NULL
       PROVE  g[c].next = End(g, c) /\ g[c].next \in DOMAIN g /\ g[g[c].next].prev = c
  <2>1. CASE c = b
    <3>1. h[n].next \in DOMAIN h /\ h[n].next = End(h, n) /\ n < h[n].next
      BY <1>1, <1>3, <1>8, <1>17, <2>1
    <3>2. h[n].next # n /\ h[n].next # b
      BY <1>1, <1>6, <3>1
    <3>3. h[n].next \in DOMAIN g /\ g[h[n].next].prev = b
      BY <1>2, <1>5, <3>1, <3>2
    <3>4. QED BY <1>3, <1>13, <2>1, <3>1, <3>3
  <2>2. CASE c # b
    <3>1. c \in DOMAIN h /\ g[c].next = h[c].next
      BY <1>2, <1>4, <2>2
    <3>2. h[c].next \in DOMAIN h /\ h[c].next = End(h, c) /\ h[h[c].next].prev = c
      BY <1>8, <1>17, <3>1
    <3>3. h[c].next # n
      BY <1>1, <1>8, <2>2, <3>2
    <3>4. h[c].next \in DOMAIN g
      BY <1>2, <3>2, <3>3
    <3>5. h[n].next # NULL => h[h[n].next].prev = n
      BY <1>1, <1>8
    <3>6. h[c].next # h[n].next
      BY <1>2, <1>17, <3>1, <3>2, <3>5
    <3>7. g[h[c].next].prev = h[h[c].next].prev
      BY <1>3, <1>5, <3>4, <3>6
    <3>8. QED BY <1>14, <2>2, <3>1, <3>2, <3>4, <3>7
  <2>3. QED BY <2>1, <2>2
<1>18. \A c \in DOMAIN g : g[c].prev = NULL => c = 0
  BY <1>1, <1>2, <1>3, <1>5, <1>6, <1>11
<1>19. ASSUME NEW c \in DOMAIN g, g[c].prev # NULL
       PROVE  g[c].prev \in DOMAIN g /\ g[g[c].prev].next = c
  <2>1. CASE c = b
    <3>1. h[b].prev \in DOMAIN h /\ h[h[b].prev].next = b /\ h[b].prev < b
      BY <1>1, <1>3, <1>10, <1>19, <2>1
    <3>2. h[b].prev # n /\ h[b].prev # b
      BY <1>1, <1>6, <3>1
    <3>3. QED BY <1>2, <1>3, <1>4, <2>1, <3>1, <3>2
  <2>2. CASE c # b /\ c = h[n].next
    BY <1>1, <1>3, <1>5, <2>2
  <2>3. CASE c # b /\ c # h[n].next
    <3>1. c \in DOMAIN h /\ c # n /\ g[c].prev = h[c].prev
      BY <1>2, <1>5, <2>3
    <3>2. h[c].prev \in DOMAIN h /\ h[h[c].prev].next = c
      BY <1>10, <1>19, <3>1
    <3>3. h[c].prev # n /\ h[c].prev # b
      BY <2>3, <3>1, <3>2
    <3>4. QED BY <1>2, <1>4, <3>1, <3>2, <3>3
  <2>4. QED BY <2>1, <2>2, <2>3
<1>20. ASSUME NEW c \in DOMAIN g, NEW d \in DOMAIN g, c < d PROVE End(g, c) <= d
  <2>1. c \in DOMAIN h /\ d \in DOMAIN h /\ d # n
    BY <1>2
  <2>2. CASE c # b
    BY <1>12, <1>14, <1>20, <2>1, <2>2
  <2>3. CASE c = b
    <3>1. n <= d
      BY <1>12, <1>13, <1>20, <2>1, <2>3
    <3>2. n < d
      BY <1>1, <1>6, <2>1, <3>1
    <3>3. QED BY <1>1, <1>12, <1>13, <2>1, <2>3, <3>2
  <2>4. QED BY <2>2, <2>3
<1>21. ListTiles(g)
  BY <1>15, <1>16, <1>17, <1>18, <1>19, <1>20 DEF ListTiles
<1>22. ASSUME Covers(h) PROVE Covers(g)
  <2> SUFFICES ASSUME NEW s \in Offset PROVE \E c \in DOMAIN g : c <= s /\ s < End(g, c)
    BY DEF Covers
  <2>1. PICK c \in DOMAIN h : c <= s /\ s < End(h, c)
    BY <1>22 DEF Covers
  <2>2. s \in Int
    BY HeapAssumption DEF Offset
  <2>3. CASE c = n \/ c = b
    <3>1. b <= s /\ s < End(g, b)
      BY <1>1, <1>6, <1>13, <2>1, <2>2, <2>3
    <3>2. QED BY <1>1, <3>1
  <2>4. CASE c # n /\ c # b
    BY <1>2, <1>14, <2>1, <2>4
  <2>5. QED BY <2>3, <2>4
<1>23. QED BY <1>2, <1>21, <1>22 DEF GoodList

\* List g is the heap after b was cut at c, of which the first part is taken.
Cut(b, c, g) ==
  /\ c \in Offset /\ c \notin DOMAIN heap
  /\ DOMAIN g = DOMAIN heap \cup {c} /\ Typed(g)
  /\ g[b].size = size /\ ~g[b].free /\ g[b].next = c /\ g[b].prev = heap[b].prev
  /\ g[c].size = heap[b].size - size - 32 /\ g[c].free
  /\ g[c].next = heap[b].next /\ g[c].prev = b
  /\ \A x \in DOMAIN heap : x # b =>
       /\ g[x].size = heap[x].size /\ g[x].free = heap[x].free /\ g[x].next = heap[x].next
       /\ g[x].prev = IF x = heap[b].next THEN c ELSE heap[x].prev

\* That is what SplitBlock does.
LEMMA SplitFields ==
  ASSUME GoodList(heap), NEW b \in DOMAIN heap, size \in Nat, Splits(b),
         NEW c, c = b + Header + size, NEW g, g = SplitBlock(b)
  PROVE  Cut(b, c, g)
<1>1. /\ b \in Int /\ 0 <= b /\ heap[b].size \in Nat /\ End(heap, b) = b + 32 + heap[b].size
      /\ End(heap, b) <= HeapBytes /\ HeapBytes \in Nat
  BY Fields, Neighbours DEF GoodList
<1>2. heap[b].size >= size + 48 /\ c = b + 32 + size
  BY <1>1 DEF Splits, Header, Unit
<1>3. c \in Offset /\ b < c /\ c < End(heap, b) /\ c \in Int /\ c # b
  BY <1>1, <1>2 DEF Offset
<1>4. c \notin DOMAIN heap
  BY <1>1, <1>3, Neighbours
<1>5. \A x \in DOMAIN heap : heap[x] \in Block /\ x \in Offset
  BY DEF GoodList, Typed
<1>6. heap[b].next # b /\ heap[b].next # c
  <2>1. heap[b].next # NULL => heap[b].next \in DOMAIN heap /\ b < heap[b].next
    BY Neighbours
  <2>2. c # NULL /\ b # NULL
    BY <1>1, <1>3, HeapAssumption
  <2>3. QED BY <1>1, <1>4, <2>1, <2>2
<1>7. DOMAIN g = DOMAIN heap \cup {c} /\ g = [x \in DOMAIN g |-> g[x]]
  BY DEF SplitBlock
<1>8. g[c] = [size |-> heap[b].size - size - Header, free |-> TRUE,
              next |-> heap[b].next, prev |-> b]
  BY <1>3, <1>6 DEF SplitBlock
<1>9. g[b] = [heap[b] EXCEPT !.size = size, !.free = FALSE, !.next = c]
  BY <1>3, <1>6 DEF SplitBlock
<1>10. ASSUME NEW x \in DOMAIN heap, x # b
       PROVE  g[x] = IF x = heap[b].next THEN [heap[x] EXCEPT !.prev = c] ELSE heap[x]
  BY <1>4, <1>6, <1>10 DEF SplitBlock
<1>11. /\ g[b].size = size /\ ~g[b].free /\ g[b].next = c /\ g[b].prev = heap[b].prev
       /\ g[b] \in Block
  <2>1. heap[b] \in Block /\ size \in 0 .. HeapBytes
    BY <1>1, <1>2, <1>5
  <2>2. QED BY <1>3, <1>9, <2>1 DEF Block
<1>12. /\ g[c].size = heap[b].size - size - 32 /\ g[c].free
       /\ g[c].next = heap[b].next /\ g[c].prev = b /\ g[c] \in Block
  <2>1. heap[b].size - size - Header \in 0 .. HeapBytes
    BY <1>1, <1>2 DEF Header
  <2>2. heap[b] \in Block /\ b \in Offset
    BY <1>5
  <2>3. QED BY <1>8, <2>1, <2>2 DEF Block, Header
<1>13. ASSUME NEW x \in DOMAIN heap, x # b
       PROVE  /\ g[x].size = heap[x].size /\ g[x].free = heap[x].free
              /\ g[x].next = heap[x].next
              /\ g[x].prev = IF x = heap[b].next THEN c ELSE heap[x].prev
              /\ g[x] \in Block
  <2>1. heap[x] \in Block
    BY <1>5
  <2>2. QED BY <1>3, <1>10, <1>13, <2>1 DEF Block
<1>14. Typed(g)
  BY <1>3, <1>5, <1>7, <1>11, <1>12, <1>13 DEF Typed
<1>15. QED BY <1>3, <1>4, <1>7, <1>11, <1>12, <1>13, <1>14 DEF Cut

\* A good list stays good when a block is cut in two.
LEMMA SplitGood ==
  ASSUME GoodList(heap), NEW b \in DOMAIN heap, size \in Nat, size % Unit = 0, Splits(b),
         NEW c, c = b + Header + size, NEW g, g = SplitBlock(b)
  PROVE  GoodList(g) /\ (Covers(heap) => Covers(g))
<1>0. Cut(b, c, g)
  BY SplitFields
<1>1. c \notin DOMAIN heap /\ b # c /\ c \in Offset
  BY <1>0 DEF Cut
<1>2. DOMAIN g = DOMAIN heap \cup {c} /\ Typed(g)
  BY <1>0 DEF Cut
<1>3. g[b].size = size /\ g[b].next = c /\ g[b].prev = heap[b].prev
  BY <1>0 DEF Cut
<1>4. g[c].size = heap[b].size - size - 32 /\ g[c].next = heap[b].next /\ g[c].prev = b
  BY <1>0 DEF Cut
<1>5. \A x \in DOMAIN heap : x # b => g[x].size = heap[x].size /\ g[x].next = heap[x].next
  BY <1>0 DEF Cut
<1>6. \A x \in DOMAIN heap : x # b =>
         g[x].prev = IF x = heap[b].next THEN c ELSE heap[x].prev
  BY <1>0 DEF Cut
<1>7. \A x \in DOMAIN heap :
         /\ x \in Int /\ x # NULL /\ heap[x].size \in Nat
         /\ End(heap, x) = x + 32 + heap[x].size
  BY Fields DEF GoodList
<1>8. \A x \in DOMAIN heap : x % Unit = 0 /\ heap[x].size % Unit = 0
  BY Neighbours
<1>9. \A x \in DOMAIN heap : heap[x].next # NULL =>
         /\ heap[x].next \in DOMAIN heap /\ heap[x].next = End(heap, x)
         /\ heap[heap[x].next].prev = x /\ x < heap[x].next
  BY Neighbours
<1>10. \A x \in DOMAIN heap : heap[x].next = NULL => End(heap, x) = HeapBytes
  BY Neighbours
<1>11. \A x \in DOMAIN heap : heap[x].prev # NULL =>
          heap[x].prev \in DOMAIN heap /\ heap[heap[x].prev].next = x /\ heap[x].prev < x
  BY Neighbours
<1>12. \A x \in DOMAIN heap : heap[x].prev = NULL => x = 0
  BY Neighbours
<1>13. \A x, d \in DOMAIN heap : x < d => End(heap, x) <= d
  BY Neighbours
\* The two parts meet at c and end where the block ended.
<1>14. /\ c = b + 32 + size /\ c \in Int /\ c # NULL /\ b < c /\ c < End(heap, b)
       /\ End(g, b) = c /\ End(g, c) = End(heap, b)
  <2>1. b \in Int /\ heap[b].size \in Nat /\ heap[b].size >= size + 48
    BY <1>7 DEF Splits, Header, Unit
  <2>2. c = b + 32 + size
    BY DEF Header
  <2>3. End(g, b) = c /\ End(g, c) = End(heap, b)
    BY <1>3, <1>4, <2>1, <2>2 DEF End, Header
  <2>4. End(heap, b) = b + 32 + heap[b].size
    BY <1>7
  <2>5. QED BY <2>1, <2>2, <2>3, <2>4, HeapAssumption
<1>15. \A x \in DOMAIN heap : x # b => End(g, x) = End(heap, x)
  BY <1>5 DEF End
<1>16. \A x \in DOMAIN g : x % Unit = 0 /\ g[x].size % Unit = 0
  <2>1. (b + Header + size) % Unit = 0 /\ (heap[b].size - size - Header) % Unit = 0
    BY <1>7, <1>8, Multiples
  <2>2. g[c].size % Unit = 0 /\ c % Unit = 0
    BY <1>4, <2>1 DEF Header
  <2>3. QED BY <1>2, <1>3, <1>5, <1>8, <2>2
<1>17. ASSUME NEW x \in DOMAIN g, g[x].next = NULL PROVE End(g, x) = HeapBytes
  BY <1>2, <1>3, <1>4, <1>5, <1>10, <1>14, <1>15, <1>17
<1>18. ASSUME NEW x \in DOMAIN g, g[x].next # NULL
       PROVE  g[x].next = End(g, x) /\ g[x].next \in DOMAIN g /\ g[g[x].next].prev = x
  <2>1. CASE x = b
    BY <1>2, <1>3, <1>4, <1>14, <2>1
  <2>2. CASE x = c
    <3>1. heap[b].next \in DOMAIN heap /\ heap[b].next = End(heap, b) /\ b < heap[b].next
      BY <1>4, <1>9, <1>18, <2>2
    <3>2. g[heap[b].next].prev = c
      BY <1>6, <1>7, <3>1
    <3>3. QED BY <1>2, <1>4, <1>14, <2>2, <3>1, <3>2
  <2>3. CASE x # b /\ x # c
    <3>1. x \in DOMAIN heap /\ g[x].next = heap[x].next
      BY <1>2, <1>5, <2>3
    <3>2. /\ heap[x].next \in DOMAIN heap /\ heap[x].next = End(heap, x)
          /\ heap[heap[x].next].prev = x
      BY <1>9, <1>18, <3>1
    <3>3. heap[b].next # NULL => heap[heap[b].next].prev = b
      BY <1>9
    <3>4. heap[x].next # heap[b].next
      BY <1>18, <2>3, <3>1, <3>2, <3>3
    <3>5. g[heap[x].next].prev = heap[heap[x].next].prev
      BY <1>3, <1>6, <3>2, <3>4
    <3>6. QED BY <1>2, <1>15, <2>3, <3>1, <3>2, <3>5
  <2>4. QED BY <2>1, <2>2, <2>3
<1>19. ASSUME NEW x \in DOMAIN g, g[x].prev = NULL PROVE x = 0
  BY <1>2, <1>3, <1>4, <1>6, <1>7, <1>12, <1>14, <1>19
<1>20. ASSUME NEW x \in DOMAIN g, g[x].prev # NULL
       PROVE  g[x].prev \in DOMAIN g /\ g[g[x].prev].next = x
  <2>1. CASE x = c
    BY <1>2, <1>3, <1>4, <2>1
  <2>2. CASE x = b
    <3>1. heap[b].prev \in DOMAIN heap /\ heap[heap[b].prev].next = b /\ heap[b].prev < b
      BY <1>3, <1>11, <1>20, <2>2
    <3>2. heap[b].prev # b
      BY <1>7, <3>1
    <3>3. QED BY <1>2, <1>3, <1>5, <2>2, <3>1, <3>2
  <2>3. CASE x # b /\ x # c /\ x = heap[b].next
    BY <1>2, <1>4, <1>6, <2>3
  <2>4. CASE x # b /\ x # c /\ x # heap[b].next
    <3>1. x \in DOMAIN heap /\ g[x].prev = heap[x].prev
      BY <1>2, <1>6, <2>4
    <3>2. heap[x].prev \in DOMAIN heap /\ heap[heap[x].prev].next = x
      BY <1>11, <1>20, <3>1
    <3>3. heap[x].prev # b
      BY <2>4, <3>2
    <3>4. QED BY <1>2, <1>5, <3>1, <3>2, <3>3
  <2>5. QED BY <2>1, <2>2, <2>3, <2>4
<1>21. ASSUME NEW x \in DOMAIN g, NEW d \in DOMAIN g, x < d PROVE End(g, x) <= d
  <2>1. CASE x # c /\ d # c /\ x # b
    BY <1>2, <1>13, <1>15, <1>21, <2>1
  <2>2. CASE x = b /\ d # c
    <3>1. d \in DOMAIN heap /\ End(heap, b) <= d
      BY <1>2, <1>13, <1>21, <2>2
    <3>2. QED BY <1>7, <1>14, <2>2, <3>1
  <2>3. CASE x = b /\ d = c
    BY <1>14, <2>3
  <2>4. CASE x = c
    <3>1. d \in DOMAIN heap /\ b < d
      BY <1>2, <1>7, <1>14, <1>21, <2>4
    <3>2. QED BY <1>13, <1>14, <2>4, <3>1
  <2>5. CASE x # c /\ x # b /\ d = c
    <3>1. x \in DOMAIN heap /\ x \in Int /\ x < c
      BY <1>2, <1>7, <1>21, <2>5
    <3>2. x < b
      <4>1. ~(b < x)
        BY <1>7, <1>13, <1>14, <3>1
      <4>2. QED BY <1>7, <2>5, <3>1, <4>1
    <3>3. End(heap, x) <= b /\ End(heap, x) \in Int
      BY <1>7, <1>13, <3>1, <3>2
    <3>4. QED BY <1>7, <1>14, <1>15, <2>5, <3>1, <3>3
  <2>6. QED BY <2>1, <2>2, <2>3, <2>4, <2>5
<1>22. ListTiles(g)
  BY <1>16, <1>17, <1>18, <1>19, <1>20, <1>21 DEF ListTiles
<1>23. ASSUME Covers(heap) PROVE Covers(g)
  <2> SUFFICES ASSUME NEW s \in Offset PROVE \E x \in DOMAIN g : x <= s /\ s < End(g, x)
    BY DEF Covers
  <2>1. PICK x \in DOMAIN heap : x <= s /\ s < End(heap, x)
    BY <1>23 DEF Covers
  <2>2. s \in Int
    BY HeapAssumption DEF Offset
  <2>3. CASE x # b
    BY <1>2, <1>15, <2>1, <2>3
  <2>4. CASE x = b /\ s < c
    BY <1>2, <1>14, <2>1, <2>4
  <2>5. CASE x = b /\ ~(s < c)
    <3>1. c <= s /\ s < End(g, c)
      BY <1>14, <2>1, <2>2, <2>5
    <3>2. QED BY <1>2, <3>1
  <2>6. QED BY <2>3, <2>4, <2>5
<1>24. QED BY <1>2, <1>22, <1>23 DEF GoodList

-----------------------------------------------------------------------------
\* Facts about kfree.

UsedIn(h) == {x \in DOMAIN h : ~h[x].free}

\* Two lists have the same blocks in use, of the same sizes, and both or neither start at 0.
SameUsed(h, g) ==
  /\ UsedIn(g) = UsedIn(h)
  /\ \A x \in UsedIn(h) : g[x].size = h[x].size
  /\ 0 \in DOMAIN h => 0 \in DOMAIN g

\* No two free blocks are adjacent, except that b may be next to free ones; or only behind one.
FreeAround(h, b) ==
  \A c \in DOMAIN h : c # b /\ h[c].free /\ h[c].next # NULL /\ h[c].next # b => ~h[h[c].next].free

FreeBefore(h, b) ==
  \A c \in DOMAIN h : h[c].free /\ h[c].next # NULL /\ h[c].next # b => ~h[h[c].next].free

\* List g is the heap with another flag in b.
Flagged(b, flag, g) ==
  /\ DOMAIN g = DOMAIN heap /\ g[b].free = flag
  /\ GoodList(g) /\ (Covers(heap) => Covers(g))
  /\ \A x \in DOMAIN g : g[x].size = heap[x].size /\ g[x].next = heap[x].next
  /\ \A x \in DOMAIN g : x # b => g[x].free = heap[x].free

\* A good list stays good when a flag changes.
LEMMA FlagGood ==
  ASSUME GoodList(heap), NEW b \in DOMAIN heap, NEW flag \in BOOLEAN,
         NEW g, g = [heap EXCEPT ![b].free = flag]
  PROVE  Flagged(b, flag, g)
<1>1. \A x \in DOMAIN heap : heap[x] \in Block /\ x \in Offset
  BY DEF GoodList, Typed
<1>2. DOMAIN g = DOMAIN heap /\ g = [x \in DOMAIN g |-> g[x]]
  OBVIOUS
<1>3. g[b] = [heap[b] EXCEPT !.free = flag] /\ \A x \in DOMAIN g : x # b => g[x] = heap[x]
  OBVIOUS
<1>4. /\ g[b].size = heap[b].size /\ g[b].next = heap[b].next /\ g[b].prev = heap[b].prev
      /\ g[b].free = flag /\ g[b] \in Block
  <2>1. heap[b] \in Block
    BY <1>1
  <2>2. QED BY <1>3, <2>1 DEF Block
<1>5. \A x \in DOMAIN g :
         g[x].size = heap[x].size /\ g[x].next = heap[x].next /\ g[x].prev = heap[x].prev
  BY <1>3, <1>4
<1>6. Typed(g)
  BY <1>1, <1>2, <1>3, <1>4 DEF Typed
<1>7. \A x \in DOMAIN g : End(g, x) = End(heap, x)
  BY <1>5 DEF End
<1>8. ListTiles(g)
  <2>1. ListTiles(heap)
    BY DEF GoodList
  <2> SUFFICES ASSUME NEW x \in DOMAIN g
      PROVE  /\ x % Unit = 0 /\ g[x].size % Unit = 0
             /\ g[x].next = NULL => End(g, x) = HeapBytes
             /\ g[x].next # NULL => /\ g[x].next = End(g, x) /\ g[x].next \in DOMAIN g
                                    /\ g[g[x].next].prev = x
             /\ g[x].prev = NULL => x = 0
             /\ g[x].prev # NULL => g[x].prev \in DOMAIN g /\ g[g[x].prev].next = x
             /\ \A d \in DOMAIN g : x < d => End(g, x) <= d
    BY DEF ListTiles
  <2>2. x % Unit = 0 /\ g[x].size % Unit = 0
    BY <1>2, <1>5, <2>1 DEF ListTiles
  <2>3. g[x].next = NULL => End(g, x) = HeapBytes
    BY <1>2, <1>5, <1>7, <2>1 DEF ListTiles
  <2>4. g[x].next # NULL => /\ g[x].next = End(g, x) /\ g[x].next \in DOMAIN g
                            /\ g[g[x].next].prev = x
    <3>1. x \in DOMAIN heap /\ g[x].next = heap[x].next /\ End(g, x) = End(heap, x)
      BY <1>2, <1>5, <1>7
    <3>2. heap[x].next # NULL => /\ heap[x].next = End(heap, x) /\ heap[x].next \in DOMAIN heap
                                 /\ heap[heap[x].next].prev = x
      BY <2>1, <3>1 DEF ListTiles
    <3>3. QED BY <1>2, <1>5, <3>1, <3>2
  <2>5. g[x].prev = NULL => x = 0
    BY <1>2, <1>5, <2>1 DEF ListTiles
  <2>6. g[x].prev # NULL => g[x].prev \in DOMAIN g /\ g[g[x].prev].next = x
    BY <1>2, <1>5, <2>1 DEF ListTiles
  <2>7. \A d \in DOMAIN g : x < d => End(g, x) <= d
    BY <1>2, <1>7, <2>1 DEF ListTiles
  <2>8. QED BY <2>2, <2>3, <2>4, <2>5, <2>6, <2>7
<1>9. Covers(heap) => Covers(g)
  BY <1>2, <1>7 DEF Covers
<1>10. QED BY <1>2, <1>3, <1>4, <1>5, <1>6, <1>8, <1>9 DEF GoodList, Flagged

\* Setting the flag of a block in use.
LEMMA SetFreeGood ==
  ASSUME GoodList(heap), Coalesced, NEW b \in DOMAIN heap, NEW g, g = SetFree(heap, b)
  PROVE  /\ GoodList(g) /\ (Covers(heap) => Covers(g))
         /\ b \in DOMAIN g /\ g[b].free /\ FreeAround(g, b)
         /\ UsedIn(g) = UsedIn(heap) \ {b}
         /\ \A x \in UsedIn(g) : g[x].size = heap[x].size
         /\ 0 \in DOMAIN heap => 0 \in DOMAIN g
<1>0. Flagged(b, TRUE, g)
  BY FlagGood DEF SetFree
<1>1. /\ DOMAIN g = DOMAIN heap /\ g[b].free
      /\ GoodList(g) /\ (Covers(heap) => Covers(g))
  BY <1>0 DEF Flagged
<1>2. \A x \in DOMAIN g : g[x].size = heap[x].size /\ g[x].next = heap[x].next
  BY <1>0 DEF Flagged
<1>3. \A x \in DOMAIN g : x # b => g[x].free = heap[x].free
  BY <1>0 DEF Flagged
<1>4. FreeAround(g, b)
  <2> SUFFICES ASSUME NEW c \in DOMAIN g, c # b, g[c].free, g[c].next # NULL, g[c].next # b
               PROVE  ~g[g[c].next].free
    BY DEF FreeAround
  <2>0. c \in DOMAIN heap /\ heap[c].free /\ heap[c].next = g[c].next
    BY <1>1, <1>2, <1>3
  <2>1. heap[c].free /\ heap[c].next # NULL /\ heap[c].next # b /\ heap[c].next \in DOMAIN heap
    BY <2>0, Neighbours
  <2>2. ~heap[heap[c].next].free
    BY <1>1, <2>1 DEF Coalesced, NoFreeNeighbours
  <2>3. QED BY <1>1, <1>2, <1>3, <2>1, <2>2
<1>5. UsedIn(g) = UsedIn(heap) \ {b}
  BY <1>1, <1>3 DEF UsedIn
<1>6. \A x \in UsedIn(g) : g[x].size = heap[x].size
  BY <1>2 DEF UsedIn
<1>7. QED BY <1>1, <1>4, <1>5, <1>6

\* Swallowing a free block leaves the blocks in use alone.
LEMMA AbsorbFree ==
  ASSUME NEW h, GoodList(h), NEW b \in DOMAIN h, NEW n, n = h[b].next, n # NULL,
         h[b].free, h[n].free, NEW g, g = Absorb(h, b)
  PROVE  SameUsed(h, g) /\ b \in DOMAIN g /\ g[b].free
<1>0. Absorbed(h, b, n, g)
  BY AbsorbFields
<1>1. /\ n \in DOMAIN h /\ b # n /\ b < n /\ DOMAIN g = DOMAIN h \ {n} /\ g[b].free
      /\ \A x \in DOMAIN g : x # b => g[x].free = h[x].free /\ g[x].size = h[x].size
  BY <1>0 DEF Absorbed
<1>2. b \in Int /\ 0 <= b
  BY Fields DEF GoodList
<1>3. n # 0
  BY <1>1, <1>2
<1>4. UsedIn(g) = UsedIn(h)
  BY <1>1 DEF UsedIn
<1>5. \A x \in UsedIn(h) : g[x].size = h[x].size
  BY <1>1 DEF UsedIn
<1>6. QED BY <1>1, <1>3, <1>4, <1>5 DEF SameUsed

\* After the first merge only the block before b may be a free neighbour.
LEMMA MergeNextGood ==
  ASSUME NEW h, GoodList(h), NEW b \in DOMAIN h, h[b].free, FreeAround(h, b),
         NEW g, g = MergeNext(h, b)
  PROVE  /\ GoodList(g) /\ (Covers(h) => Covers(g)) /\ SameUsed(h, g)
         /\ b \in DOMAIN g /\ g[b].free /\ FreeBefore(g, b)
<1> DEFINE n == h[b].next
<1>1. CASE n = NULL \/ ~h[n].free
  <2>1. g = h
    BY <1>1 DEF MergeNext
  <2>2. FreeBefore(h, b)
    BY <1>1 DEF FreeAround, FreeBefore
  <2>3. QED BY <2>1, <2>2 DEF SameUsed
<1>2. CASE n # NULL /\ h[n].free
  <2>0. g = Absorb(h, b)
    BY <1>2 DEF MergeNext
  <2>1. /\ GoodList(g) /\ (Covers(h) => Covers(g)) /\ SameUsed(h, g)
        /\ b \in DOMAIN g /\ g[b].free
    BY <1>2, <2>0, AbsorbGood, AbsorbFree
  <2>2. Absorbed(h, b, n, g)
    BY <1>2, <2>0, AbsorbFields
  <2>3. /\ n \in DOMAIN h /\ DOMAIN g = DOMAIN h \ {n} /\ b # n /\ b < n
        /\ g[b].next = h[n].next
        /\ \A x \in DOMAIN g : x # b => g[x].free = h[x].free /\ g[x].next = h[x].next
    BY <2>2 DEF Absorbed
  <2>4. ASSUME NEW c \in DOMAIN g, g[c].free, g[c].next # NULL, g[c].next # b
        PROVE  ~g[g[c].next].free
    <3>1. g[c].next \in DOMAIN g
      BY <2>1, <2>4, Neighbours
    <3>2. CASE c = b
      <4>1. h[n].next # NULL /\ h[n].next # b
        BY <2>3, <2>4, <3>2
      <4>2. ~h[h[n].next].free
        BY <1>2, <2>3, <4>1 DEF FreeAround
      <4>3. QED BY <2>3, <2>4, <3>1, <3>2, <4>2
    <3>3. CASE c # b
      <4>1. h[c].free /\ h[c].next # NULL /\ h[c].next # b /\ c \in DOMAIN h
        BY <2>3, <2>4, <3>3
      <4>2. ~h[h[c].next].free
        BY <3>3, <4>1 DEF FreeAround
      <4>3. QED BY <2>3, <2>4, <3>1, <3>3, <4>2
    <3>4. QED BY <3>2, <3>3
  <2>5. FreeBefore(g, b)
    BY <2>4 DEF FreeBefore
  <2>6. QED BY <2>1, <2>5
<1>3. QED BY <1>1, <1>2

\* After the second no free block has a free neighbour.
LEMMA MergePrevGood ==
  ASSUME NEW h, GoodList(h), NEW b \in DOMAIN h, h[b].free, FreeBefore(h, b),
         NEW g, g = MergePrev(h, b)
  PROVE  GoodList(g) /\ (Covers(h) => Covers(g)) /\ SameUsed(h, g) /\ NoFreeNeighbours(g)
<1> DEFINE p == h[b].prev
<1>0. \A c \in DOMAIN h : h[c].next = b => c = p
  BY Neighbours, Fields DEF GoodList
<1>1. CASE p = NULL \/ ~h[p].free
  <2>1. g = h
    BY <1>1 DEF MergePrev
  <2>2. ASSUME NEW c \in DOMAIN h, h[c].free, h[c].next # NULL PROVE ~h[h[c].next].free
    <3>1. h[c].next # b
      <4>1. SUFFICES ASSUME h[c].next = b PROVE FALSE
        OBVIOUS
      <4>2. c = p /\ p # NULL
        BY <1>0, <4>1, Fields DEF GoodList
      <4>3. QED BY <1>1, <2>2, <4>2
    <3>2. QED BY <2>2, <3>1 DEF FreeBefore
  <2>3. QED BY <2>1, <2>2 DEF SameUsed, NoFreeNeighbours
<1>2. CASE p # NULL /\ h[p].free
  <2>0. g = Absorb(h, p) /\ p \in DOMAIN h /\ h[p].next = b /\ b # NULL
    BY <1>2, Neighbours, Fields DEF MergePrev, GoodList
  <2>1. GoodList(g) /\ (Covers(h) => Covers(g)) /\ SameUsed(h, g)
    BY <1>2, <2>0, AbsorbGood, AbsorbFree
  <2>2. Absorbed(h, p, b, g)
    BY <2>0, AbsorbFields
  <2>3. /\ DOMAIN g = DOMAIN h \ {b} /\ p # b /\ p < b /\ g[p].free = h[p].free
        /\ g[p].next = h[b].next
        /\ \A x \in DOMAIN g : x # p => g[x].free = h[x].free /\ g[x].next = h[x].next
    BY <2>2 DEF Absorbed
  <2>4. ASSUME NEW c \in DOMAIN g, g[c].free, g[c].next # NULL PROVE ~g[g[c].next].free
    <3>1. g[c].next \in DOMAIN g
      BY <2>1, <2>4, Neighbours
    <3>2. PICK d \in DOMAIN h : g[c].next = h[d].next /\ h[d].free
      BY <2>0, <2>3, <2>4
    <3>3. g[c].next # b
      BY <2>3, <3>1
    <3>4. ~h[g[c].next].free
      BY <2>4, <3>2, <3>3 DEF FreeBefore
    <3>5. QED BY <2>3, <3>1, <3>4
  <2>5. QED BY <2>1, <2>4 DEF NoFreeNeighbours
<1>3. QED BY <1>1, <1>2

-----------------------------------------------------------------------------
\* The invariant.

\* The blocks of a heap cover its region; without a heap there is none.
Covered == IF heap_head = NULL THEN DOMAIN heap = {} ELSE Covers(heap)

\* What kmalloc's locals say of the request.
Rounded ==
  pc = "walk" =>
    /\ heap_head # NULL
    /\ request \in Requests /\ size % Unit = 0
    /\ request <= SizeRange - Unit => request <= size

HeapInv ==
  TypeOK /\ Tiled /\ GrantsHold /\ Coalesced /\ WalkOnList /\ Covered /\ Rounded

\* The constants as the proofs use them.
LEMMA Constants ==
  /\ HeapBytes \in Nat /\ HeapBytes >= 48 /\ HeapBytes % 16 = 0
  /\ SizeRange \in Nat /\ SizeRange > HeapBytes
  /\ Requests \subseteq 0 .. SizeRange - 1 /\ NULL \notin Int
BY HeapAssumption DEF Header, Unit

\* The typing part of the list.
LEMMA InvGood ==
  ASSUME HeapInv
  PROVE  /\ GoodList(heap) /\ Coalesced /\ DOMAIN live = UsedIn(heap)
         /\ heap_head # NULL => heap_head = 0 /\ 0 \in DOMAIN heap
BY DEF HeapInv, TypeOK, Tiled, GoodList, Typed, GrantsHold, UsedIn

\* heap_init makes one free block.
LEMMA InitHolds == Init => HeapInv
<1> SUFFICES ASSUME Init PROVE HeapInv
  OBVIOUS
<1> USE Constants
<1>1. CASE heap_head = NULL
  <2>1. DOMAIN heap = {} /\ DOMAIN live = {} /\ pc = "idle" /\ heap = [b \in {} |-> heap[b]]
    BY <1>1 DEF Init
  <2>2. TypeOK
    BY <1>1, <2>1 DEF Init, TypeOK
  <2>3. QED BY <1>1, <2>1, <2>2 DEF HeapInv, Tiled, ListTiles, GrantsHold, Coalesced,
          NoFreeNeighbours, WalkOnList, Covered, Rounded
<1>2. CASE heap_head # NULL
  <2>1. /\ DOMAIN heap = {0} /\ DOMAIN live = {} /\ pc = "idle" /\ heap_head = 0
        /\ heap[0] = [size |-> HeapBytes - Header, free |-> TRUE, next |-> NULL, prev |-> NULL]
        /\ heap = [b \in DOMAIN heap |-> heap[b]]
    BY <1>2 DEF Init
  <2>2. /\ heap[0].size = HeapBytes - 32 /\ heap[0].free /\ heap[0].next = NULL
        /\ heap[0].prev = NULL
    BY <2>1 DEF Header
  <2>3. heap[0] \in Block
    BY <2>1 DEF Block, Header
  <2>4. TypeOK
    BY <1>2, <2>1, <2>3 DEF Init, TypeOK, Offset
  <2>5. End(heap, 0) = HeapBytes
    BY <2>2 DEF End, Header
  <2>6. Tiled
    <3>1. 0 % Unit = 0 /\ heap[0].size % Unit = 0
      BY <2>2 DEF Unit
    <3>2. QED BY <2>1, <2>2, <2>5, <3>1 DEF Tiled, ListTiles
  <2>7. Covered
    BY <2>1, <2>5 DEF Covered, Covers, Offset
  <2>8. QED BY <2>1, <2>2, <2>4, <2>6, <2>7 DEF HeapInv, GrantsHold, Coalesced,
          NoFreeNeighbours, WalkOnList, Rounded
<1>3. QED BY <1>1, <1>2

\* kmalloc rounds the request and starts at the head.
LEMMA KmallocKeepsInv ==
  ASSUME HeapInv, NEW n \in Requests, kmalloc(n)
  PROVE  HeapInv'
<1> USE DEF kmalloc
<1>1. heap_head = 0 /\ 0 \in DOMAIN heap /\ DOMAIN heap \subseteq Offset /\ NULL # 0
  BY InvGood, Constants DEF GoodList, Typed
<1>2. /\ align_up(n) \in 0 .. SizeRange - 1 /\ align_up(n) % Unit = 0
      /\ n <= SizeRange - Unit => n <= align_up(n)
  BY AlignUp, Constants
<1>3. TypeOK'
  BY <1>1, <1>2, Constants DEF HeapInv, TypeOK, Offset
<1>4. Tiled' /\ GrantsHold' /\ Coalesced' /\ Covered'
  BY DEF HeapInv, Tiled, GrantsHold, Coalesced, Covered, ListTiles, End, NoFreeNeighbours, Covers
<1>5. WalkOnList'
  BY <1>1, Constants DEF WalkOnList, Passed, Offset
<1>6. Rounded'
  BY <1>2 DEF Rounded
<1>7. QED BY <1>3, <1>4, <1>5, <1>6 DEF HeapInv

\* The walk goes on to the next block, which is too.
LEMMA SkipKeepsInv ==
  ASSUME HeapInv, Skip
  PROVE  HeapInv'
<1> USE DEF Skip
<1>1. block \in DOMAIN heap /\ GoodList(heap)
  BY InvGood DEF HeapInv, WalkOnList
<1>2. /\ block \in Int /\ heap[block].next \in Offset \cup {NULL}
      /\ End(heap, block) \in Int
  BY <1>1, Fields DEF GoodList
<1>3. TypeOK'
  BY <1>2 DEF HeapInv, TypeOK
<1>4. Tiled' /\ GrantsHold' /\ Coalesced' /\ Covered'
  BY DEF HeapInv, Tiled, GrantsHold, Coalesced, Covered, ListTiles, End, NoFreeNeighbours, Covers
<1>5. Rounded'
  BY DEF HeapInv, Rounded
<1>6. WalkOnList'
  <2>1. block' # NULL => block' \in DOMAIN heap
    BY <1>1, Neighbours
  <2>2. ASSUME NEW b \in DOMAIN heap, block' = NULL \/ b < block' PROVE ~Suitable(b)
    <3>1. b \in Int /\ b < HeapBytes /\ HeapBytes \in Nat
      BY <1>1, Fields DEF GoodList
    <3>2. CASE b = block
      BY <3>2
    <3>3. CASE b < block
      BY <3>3 DEF HeapInv, WalkOnList, Passed
    <3>4. CASE block < b
      <4>1. End(heap, block) <= b
        BY <1>1, <3>4, Neighbours
      <4>2. CASE heap[block].next = NULL
        BY <1>1, <3>1, <4>1, <4>2, Neighbours
      <4>3. CASE heap[block].next # NULL
        <5>1. block' = End(heap, block)
          BY <1>1, <4>3, Neighbours
        <5>2. QED BY <1>2, <2>2, <3>1, <4>1, <4>3, <5>1
      <4>4. QED BY <4>2, <4>3
    <3>5. QED BY <1>2, <3>1, <3>2, <3>3, <3>4
  <2>3. QED BY <2>1, <2>2 DEF WalkOnList, Passed, Suitable
<1>7. QED BY <1>3, <1>4, <1>5, <1>6 DEF HeapInv

\* The parts of the invariant that a list carries, for the two calls that change it.
LEMMA ListPart ==
  ASSUME GoodList(heap'), heap_head' = 0,
         0 \in DOMAIN heap', Covers(heap)', pc' = "idle"
  PROVE  Tiled' /\ Covered' /\ WalkOnList' /\ Rounded'
<1>1. ListTiles(heap)'
  BY DEF GoodList, ListTiles, End
<1>2. QED BY <1>1, Constants DEF Tiled, Covered, WalkOnList, Rounded

\* A block in use that was taken is not a free neighbour of anyone.
LEMMA TakeKeepsInv ==
  ASSUME HeapInv, Take
  PROVE  HeapInv'
<1> DEFINE g == heap'
<1>1. /\ block \in DOMAIN heap /\ heap_head = 0 /\ 0 \in DOMAIN heap /\ GoodList(heap)
      /\ Covers(heap) /\ DOMAIN live = UsedIn(heap)
  BY InvGood DEF Take, HeapInv, WalkOnList, Rounded, Covered
<1>2. /\ heap[block].free /\ heap[block].size >= size
      /\ size \in Nat /\ size % Unit = 0
  BY Constants DEF Take, Suitable, HeapInv, TypeOK, Rounded
<1>3. \A x \in DOMAIN heap : heap[x].free /\ heap[x].next # NULL => ~heap[heap[x].next].free
  BY DEF HeapInv, Coalesced, NoFreeNeighbours
<1>4. /\ GoodList(g) /\ Covers(g) /\ 0 \in DOMAIN g
      /\ UsedIn(g) = UsedIn(heap) \cup {block} /\ g[block].size >= size
      /\ \A x \in UsedIn(heap) : g[x].size = heap[x].size
      /\ NoFreeNeighbours(g)
  <2>1. CASE Splits(block)
    <3>0. g = SplitBlock(block)
      BY <2>1 DEF Take
    <3> DEFINE c == block + Header + size
    <3>1. Cut(block, c, g)
      BY <1>1, <1>2, <2>1, <3>0, SplitFields
    <3>2. GoodList(g) /\ Covers(g)
      BY <1>1, <1>2, <2>1, <3>0, SplitGood
    <3> HIDE DEF c
    <3>3. /\ c \notin DOMAIN heap /\ DOMAIN g = DOMAIN heap \cup {c} /\ g[c].free
          /\ g[c].next = heap[block].next
      BY <3>1 DEF Cut
    <3>4. g[block].size = size /\ ~g[block].free /\ g[block].next = c
      BY <3>1 DEF Cut
    <3>5. \A x \in DOMAIN heap : x # block =>
            g[x].size = heap[x].size /\ g[x].free = heap[x].free /\ g[x].next = heap[x].next
      BY <3>1 DEF Cut
    <3>6. UsedIn(g) = UsedIn(heap) \cup {block}
      BY <1>1, <3>3, <3>4, <3>5 DEF UsedIn
    <3>7. \A x \in UsedIn(heap) : g[x].size = heap[x].size
      BY <1>2, <3>5 DEF UsedIn
    <3>8. ASSUME NEW x \in DOMAIN g, g[x].free, g[x].next # NULL PROVE ~g[g[x].next].free
      <4>0. \A y \in DOMAIN heap : ~heap[y].free => ~g[y].free
        BY <3>4, <3>5
      <4>1. PICK y \in DOMAIN heap : heap[y].free /\ g[x].next = heap[y].next
        BY <1>1, <1>2, <3>3, <3>4, <3>5, <3>8
      <4>2. heap[y].next \in DOMAIN heap /\ ~heap[heap[y].next].free
        BY <1>1, <1>3, <3>8, <4>1, Neighbours
      <4>3. QED BY <4>0, <4>1, <4>2
    <3>9. NoFreeNeighbours(g)
      BY <3>8 DEF NoFreeNeighbours
    <3>10. QED BY <1>1, <1>2, <3>2, <3>3, <3>4, <3>6, <3>7, <3>9
  <2>2. CASE ~Splits(block)
    <3>0. g = [heap EXCEPT ![block].free = FALSE]
      BY <2>2 DEF Take, TakeBlock
    <3>1. Flagged(block, FALSE, g)
      BY <1>1, <3>0, FlagGood
    <3>2. GoodList(g) /\ Covers(g) /\ DOMAIN g = DOMAIN heap /\ ~g[block].free
      BY <1>1, <3>1 DEF Flagged
    <3>3. \A x \in DOMAIN g : g[x].size = heap[x].size /\ g[x].next = heap[x].next
      BY <3>1 DEF Flagged
    <3>4. \A x \in DOMAIN g : x # block => g[x].free = heap[x].free
      BY <3>1 DEF Flagged
    <3>5. UsedIn(g) = UsedIn(heap) \cup {block}
      BY <1>1, <3>2, <3>4 DEF UsedIn
    <3>6. \A x \in UsedIn(heap) : g[x].size = heap[x].size
      BY <3>2, <3>3 DEF UsedIn
    <3>7. ASSUME NEW x \in DOMAIN g, g[x].free, g[x].next # NULL PROVE ~g[g[x].next].free
      <4>1. x \in DOMAIN heap /\ heap[x].free /\ g[x].next = heap[x].next
        BY <3>2, <3>3, <3>4, <3>7
      <4>2. heap[x].next \in DOMAIN heap /\ ~heap[heap[x].next].free
        BY <1>1, <1>3, <3>7, <4>1, Neighbours
      <4>3. QED BY <3>2, <3>4, <4>1, <4>2
    <3>8. NoFreeNeighbours(g)
      BY <3>7 DEF NoFreeNeighbours
    <3>9. g[block].size >= size /\ 0 \in DOMAIN g
      BY <1>1, <1>2, <3>2, <3>3
    <3>10. QED BY <3>2, <3>5, <3>6, <3>8, <3>9
  <2>3. QED BY <2>1, <2>2
<1>5. Tiled' /\ Covered' /\ WalkOnList' /\ Rounded'
  <2>1. Covers(heap)'
    BY <1>4 DEF Covers, End
  <2>2. QED BY <1>1, <1>4, <2>1, ListPart DEF Take, Return
<1>6. Coalesced'
  BY <1>4 DEF Coalesced, NoFreeNeighbours
<1>7. /\ DOMAIN live' = DOMAIN live \cup {block} /\ live'[block] = request
      /\ \A x \in DOMAIN live : x # block => live'[x] = live[x]
      /\ live' = [x \in DOMAIN live' |-> live'[x]]
  BY DEF Take
<1>8. DOMAIN live' = UsedIn(heap') /\ block \notin DOMAIN live
  BY <1>1, <1>2, <1>4, <1>7 DEF UsedIn
<1>9. GrantsHold'
  <2>1. ASSUME NEW x \in DOMAIN live', live'[x] <= SizeRange - Unit PROVE live'[x] <= heap'[x].size
    <3>1. CASE x = block
      <4>1. request <= size /\ request \in Int /\ size \in Int
        BY <1>7, <2>1, <3>1, Constants DEF HeapInv, Rounded, TypeOK, Take
      <4>2. heap'[block].size \in Int
        BY <1>4, <1>7, <1>8, Fields DEF GoodList, UsedIn
      <4>3. QED BY <1>4, <1>7, <3>1, <4>1, <4>2
    <3>2. CASE x # block
      <4>1. x \in DOMAIN live /\ live'[x] = live[x] /\ heap'[x].size = heap[x].size
        BY <1>1, <1>4, <1>7, <3>2
      <4>2. QED BY <2>1, <4>1 DEF HeapInv, GrantsHold
    <3>3. QED BY <3>1, <3>2
  <2>2. QED BY <1>8, <2>1 DEF GrantsHold, UsedIn
<1>10. TypeOK'
  <2>1. DOMAIN heap' \subseteq Offset /\ heap' \in [DOMAIN heap' -> Block]
    BY <1>4 DEF GoodList, Typed
  <2>2. DOMAIN live' \subseteq DOMAIN heap'
    BY <1>8 DEF UsedIn
  <2>3. live' \in [DOMAIN live' -> Requests]
    BY <1>7 DEF HeapInv, TypeOK, Rounded, Take
  <2>4. heap_head' \in {0, NULL} /\ pc' = "idle" /\ request' = 0 /\ size' = 0 /\ block' = NULL
    BY <1>1 DEF Take, Return
  <2>5. QED BY <2>1, <2>2, <2>3, <2>4, Constants DEF TypeOK
<1>11. QED BY <1>5, <1>6, <1>9, <1>10 DEF HeapInv

\* The walk has come to the end of the list.
LEMMA FailKeepsInv ==
  ASSUME HeapInv, Fail
  PROVE  HeapInv'
<1> USE DEF Fail, Return
<1>1. TypeOK'
  BY Constants DEF HeapInv, TypeOK
<1>2. Tiled' /\ GrantsHold' /\ Coalesced' /\ Covered'
  BY DEF HeapInv, Tiled, GrantsHold, Coalesced, Covered, ListTiles, End, NoFreeNeighbours, Covers
<1>3. WalkOnList' /\ Rounded'
  BY DEF WalkOnList, Rounded
<1>4. QED BY <1>1, <1>2, <1>3 DEF HeapInv

\* The block given back is merged with both neighbours; no other block in use is touched.
LEMMA KfreeKeepsInv ==
  ASSUME HeapInv, NEW b \in DOMAIN live, kfree(b)
  PROVE  HeapInv'
<1>1. /\ GoodList(heap) /\ Coalesced /\ DOMAIN live = UsedIn(heap)
      /\ b \in DOMAIN heap
  BY InvGood DEF UsedIn
<1>2. heap_head = 0 /\ 0 \in DOMAIN heap /\ Covers(heap)
  <2>1. heap_head # NULL
    BY <1>1 DEF HeapInv, Covered
  <2>2. QED BY <2>1, InvGood DEF HeapInv, Covered
<1> DEFINE f == SetFree(heap, b)
<1> DEFINE m == MergeNext(f, b)
<1>3. /\ GoodList(f) /\ Covers(f) /\ b \in DOMAIN f /\ f[b].free /\ FreeAround(f, b)
      /\ UsedIn(f) = UsedIn(heap) \ {b} /\ 0 \in DOMAIN f
      /\ \A x \in UsedIn(f) : f[x].size = heap[x].size
  BY <1>1, <1>2, SetFreeGood
<1> HIDE DEF f
<1>4. /\ GoodList(m) /\ Covers(m) /\ SameUsed(f, m)
      /\ b \in DOMAIN m /\ m[b].free /\ FreeBefore(m, b)
  BY <1>3, MergeNextGood
<1> HIDE DEF m
<1>5. heap' = MergePrev(m, b)
  BY DEF kfree, m, f
<1>6. /\ GoodList(heap') /\ Covers(heap') /\ SameUsed(m, heap') /\ NoFreeNeighbours(heap')
  BY <1>4, <1>5, MergePrevGood
<1>7. /\ UsedIn(heap') = UsedIn(heap) \ {b} /\ 0 \in DOMAIN heap'
      /\ \A x \in UsedIn(heap') : heap'[x].size = heap[x].size
  BY <1>3, <1>4, <1>6 DEF SameUsed
<1>8. Coalesced'
  BY <1>6 DEF Coalesced, NoFreeNeighbours
<1>9. Tiled' /\ Covered' /\ WalkOnList' /\ Rounded'
  <2>1. Covers(heap)'
    BY <1>6 DEF Covers, End
  <2>2. QED BY <1>2, <1>6, <1>7, <2>1, ListPart DEF kfree
<1>10. /\ DOMAIN live' = DOMAIN live \ {b} /\ live' = [x \in DOMAIN live' |-> live'[x]]
       /\ \A x \in DOMAIN live' : live'[x] = live[x]
  BY DEF kfree
<1>11. DOMAIN live' = UsedIn(heap')
  BY <1>1, <1>7, <1>10
<1>12. GrantsHold'
  <2>1. ASSUME NEW x \in DOMAIN live', live'[x] <= SizeRange - Unit PROVE live'[x] <= heap'[x].size
    <3>1. x \in DOMAIN live /\ live'[x] = live[x] /\ heap'[x].size = heap[x].size
      BY <1>7, <1>10, <1>11
    <3>2. QED BY <2>1, <3>1 DEF HeapInv, GrantsHold
  <2>2. QED BY <1>11, <2>1 DEF GrantsHold, UsedIn
<1>13. TypeOK'
  <2>1. DOMAIN heap' \subseteq Offset /\ heap' \in [DOMAIN heap' -> Block]
    BY <1>6 DEF GoodList, Typed
  <2>2. DOMAIN live' \subseteq DOMAIN heap'
    BY <1>11 DEF UsedIn
  <2>3. live' \in [DOMAIN live' -> Requests]
    BY <1>10 DEF HeapInv, TypeOK
  <2>4. UNCHANGED <<heap_head, pc, request, size, block>>
    BY DEF kfree, locals
  <2>5. QED BY <2>1, <2>2, <2>3, <2>4 DEF HeapInv, TypeOK
<1>14. QED BY <1>8, <1>9, <1>12, <1>13 DEF HeapInv

-----------------------------------------------------------------------------
\* Every step of memory.c's heap keeps the invariant, for every region, range and request.
THEOREM HeapInvariance == Spec => []HeapInv
<1>1. Init => HeapInv
  BY InitHolds
<1>2. HeapInv /\ [Next]_vars => HeapInv'
  <2> SUFFICES ASSUME HeapInv, [Next]_vars PROVE HeapInv'
    OBVIOUS
  <2>1. ASSUME UNCHANGED vars PROVE HeapInv'
    BY <2>1 DEF vars, locals, HeapInv, TypeOK, Tiled, GrantsHold, Coalesced, WalkOnList, Passed,
       Suitable, Covered, Rounded, ListTiles, End, NoFreeNeighbours, Covers
  <2>2. ASSUME NEW n \in Requests, RefuseAtOnce(n) PROVE HeapInv'
    BY <2>1, <2>2 DEF RefuseAtOnce
  <2>3. ASSUME NEW n \in Requests, kmalloc(n) PROVE HeapInv'
    BY <2>3, KmallocKeepsInv
  <2>4. CASE Skip
    BY <2>4, SkipKeepsInv
  <2>5. CASE Take
    BY <2>5, TakeKeepsInv
  <2>6. CASE Fail
    BY <2>6, FailKeepsInv
  <2>7. ASSUME NEW b \in DOMAIN live, kfree(b) PROVE HeapInv'
    BY <2>7, KfreeKeepsInv
  <2>8. QED BY <2>1, <2>2, <2>3, <2>4, <2>5, <2>6, <2>7 DEF Next
<1>3. QED BY <1>1, <1>2, PTL DEF Spec

\* No header field of the heap's list ever points or reaches out of the region.
THEOREM TypeCorrect == Spec => []TypeOK
<1>1. HeapInv => TypeOK
  BY DEF HeapInv
<1>2. QED BY <1>1, HeapInvariance, PTL

\* Splitting in kmalloc and merging in kfree leave blocks that tile the region, doubly linked.
THEOREM RegionTiled == Spec => []Tiled
<1>1. HeapInv => Tiled
  BY DEF HeapInv
<1>2. QED BY <1>1, HeapInvariance, PTL

\* The blocks in use are those kmalloc handed out, each as large as its owner asked for.
THEOREM GrantsAreHeld == Spec => []GrantsHold
<1>1. HeapInv => GrantsHold
  BY DEF HeapInv
<1>2. QED BY <1>1, HeapInvariance, PTL

\* kfree never leaves two free blocks next to each other.
THEOREM AlwaysCoalesced == Spec => []Coalesced
<1>1. HeapInv => Coalesced
  BY DEF HeapInv
<1>2. QED BY <1>1, HeapInvariance, PTL

\* kmalloc's cursor stays on the list and has passed no block it could have taken.
THEOREM WalkStaysOnList == Spec => []WalkOnList
<1>1. HeapInv => WalkOnList
  BY DEF HeapInv
<1>2. QED BY <1>1, HeapInvariance, PTL

\* A walk that reached the end of the list has left no stretch of the region large enough.
LEMMA NoRoomAtTheEnd ==
  ASSUME HeapInv, pc = "walk", block = NULL, NEW s \in Offset
  PROVE  ~Unused(s, s + Header + size)
<1> SUFFICES ASSUME Unused(s, s + Header + size) PROVE FALSE
  OBVIOUS
<1>1. GoodList(heap) /\ Covers(heap) /\ Coalesced /\ size \in Nat
  BY InvGood, Constants DEF HeapInv, Rounded, Covered, TypeOK
<1>2. PICK b \in DOMAIN heap : b <= s /\ s < End(heap, b)
  BY <1>1 DEF Covers
<1>3. /\ b \in Int /\ s \in Int /\ End(heap, b) \in Int /\ heap[b].size \in Int
      /\ End(heap, b) = b + 32 + heap[b].size /\ heap[b].free \in BOOLEAN
  BY <1>1, Fields, Constants DEF GoodList, Offset
<1>4. heap[b].free
  BY <1>1, <1>2, <1>3 DEF Unused, Header
<1>5. heap[b].size < size
  <2>1. ~Suitable(b)
    BY DEF HeapInv, WalkOnList, Passed
  <2>2. QED BY <1>1, <1>3, <1>4, <2>1 DEF Suitable
\* The stretch runs past the end of the block that holds its first byte.
<1>6. End(heap, b) < s + 32 + size
  BY <1>1, <1>2, <1>3, <1>5
<1>7. CASE heap[b].next = NULL
  <2>1. End(heap, b) = HeapBytes
    BY <1>1, <1>7, Neighbours
  <2>2. QED BY <1>1, <1>3, <1>6, <2>1, Constants DEF Unused, Header
<1>8. CASE heap[b].next # NULL
  <2> DEFINE n == heap[b].next
  <2>1. n \in DOMAIN heap /\ n = End(heap, b) /\ ~heap[n].free
    BY <1>1, <1>4, <1>8, Neighbours DEF Coalesced, NoFreeNeighbours
  <2>2. End(heap, n) \in Int /\ n + 32 <= End(heap, n)
    BY <1>1, <2>1, Fields DEF GoodList, Header
  <2>3. End(heap, n) <= s \/ s + 32 + size <= n
    BY <2>1 DEF Unused, Header
  <2>4. QED BY <1>1, <1>2, <1>3, <1>6, <2>1, <2>2, <2>3
<1>9. QED BY <1>7, <1>8

\* kmalloc returns 0 only when no unused stretch of the region would hold the request.
THEOREM FailureMeansFull == Spec => FailsOnlyWhenFull
<1>1. HeapInv /\ [Next]_vars => [Fail => \A s \in Offset : ~Unused(s, s + Header + size)]_vars
  BY NoRoomAtTheEnd DEF Fail
<1>2. QED BY <1>1, HeapInvariance, PTL DEF Spec, FailsOnlyWhenFull
=============================================================================
