-------------------------- MODULE PageAllocatorProofs --------------------------
(***************************************************************************)
(* The page allocator of memory.c is exact and first-fit, for every amount *)
(* of memory, every kernel size, every window and every request.           *)
(***************************************************************************)
EXTENDS PageAllocator, TLAPS

-----------------------------------------------------------------------------
\* Facts about division by the page size.

\* The quotient is the number of whole pages.
LEMMA DivBounds ==
  ASSUME NEW a \in Nat, NEW d \in Nat \ {0}
  PROVE  a \div d \in Nat /\ (a \div d) * d <= a /\ a < (a \div d) * d + d
OBVIOUS

\* x pages that start before the end of page y: x is at most y.
LEMMA DivCancel ==
  ASSUME NEW x \in Nat, NEW y \in Nat, NEW d \in Nat \ {0}, x * d < y * d + d
  PROVE  x <= y
<1>1. SUFFICES ASSUME x >= y + 1 PROVE FALSE
  OBVIOUS
<1>2. x * d >= (y + 1) * d
  BY <1>1
<1>3. QED BY <1>2

\* More bytes are not fewer pages.
LEMMA DivMonotone ==
  ASSUME NEW a \in Nat, NEW b \in Nat, a <= b, NEW d \in Nat \ {0}
  PROVE  a \div d <= b \div d
<1> DEFINE x == a \div d  y == b \div d
<1>1. x \in Nat /\ y \in Nat /\ x * d <= a /\ b < y * d + d
  BY DivBounds
<1> HIDE DEF x, y
<1>2. x * d \in Nat /\ y * d \in Nat
  BY <1>1
<1>3. x * d < y * d + d
  BY <1>1, <1>2
<1>4. QED BY <1>1, <1>3, DivCancel DEF x, y

\* A page at or behind last_page(end) starts at or behind the byte end.
LEMMA BehindRange ==
  ASSUME NEW end \in Nat, NEW p \in Nat, p >= last_page(end)
  PROVE  p * PageSize >= end
<1> DEFINE n == last_page(end)
<1>0. PageSize \in Nat \ {0} /\ end + PageSize - 1 \in Nat
  BY PageAllocatorAssumption
<1>1. n \in Nat /\ end + PageSize - 1 < n * PageSize + PageSize
  BY <1>0, DivBounds DEF last_page
<1> HIDE DEF n
<1>2. n * PageSize \in Nat /\ p * PageSize \in Nat
  BY <1>0, <1>1
<1>3. p >= n
  BY DEF n
<1>4. n * PageSize <= p * PageSize
  BY <1>0, <1>1, <1>3
<1>5. QED BY <1>0, <1>1, <1>2, <1>4

\* A page before first_page(start) ends at or before the byte start.
LEMMA BeforeRange ==
  ASSUME NEW start \in Nat, NEW p \in Nat, p < first_page(start)
  PROVE  p * PageSize + PageSize <= start
<1> DEFINE n == first_page(start)
<1>0. PageSize \in Nat \ {0}
  BY PageAllocatorAssumption
<1>1. n \in Nat /\ n * PageSize <= start
  BY <1>0, DivBounds DEF first_page
<1> HIDE DEF n
<1>2. p + 1 <= n
  BY <1>1 DEF n
<1>3. (p + 1) * PageSize <= n * PageSize
  BY <1>0, <1>1, <1>2
<1>4. QED BY <1>0, <1>1, <1>3

\* The bitmap covers what memory_init maps, and memory_init maps something.
LEMMA MappedPages ==
  ASSUME NEW mb \in Nat
  PROVE  (MappedMegabytes(mb) * Megabyte) \div PageSize \in 1 .. MaxPages
<1>0. /\ PageSize \in Nat \ {0} /\ Megabyte \in Nat /\ PageSize <= Megabyte
      /\ MaxMegabytes \in Nat \ {0}
  BY PageAllocatorAssumption
<1> DEFINE m == MappedMegabytes(mb)
<1>1. m \in Nat /\ 1 <= m /\ m <= MaxMegabytes
  BY <1>0 DEF MappedMegabytes
<1> HIDE DEF m
<1>2. m * Megabyte \in Nat /\ MaxMegabytes * Megabyte \in Nat
  BY <1>0, <1>1
<1>3. m * Megabyte <= MaxMegabytes * Megabyte /\ Megabyte <= m * Megabyte
  BY <1>0, <1>1
<1>4. (m * Megabyte) \div PageSize <= MaxPages
  BY <1>0, <1>2, <1>3, DivMonotone DEF MaxPages
<1>5. PageSize \div PageSize <= (m * Megabyte) \div PageSize
  BY <1>0, <1>2, <1>3, DivMonotone
<1>6. PageSize \div PageSize = 1
  BY <1>0
<1>7. (m * Megabyte) \div PageSize \in Nat /\ MaxPages \in Nat
  BY <1>0, <1>2, DivBounds DEF MaxPages
<1>8. QED BY <1>4, <1>5, <1>6, <1>7 DEF m

-----------------------------------------------------------------------------
(***************************************************************************)
(* The inductive invariant.  BitmapExact says what was granted; that the   *)
(* next grant is as good needs to know that every page outside of fixed is *)
(* ordinary.                                                               *)
(***************************************************************************)
Covered ==
  IF pc = "boot"
    THEN total_page_count = 0
    ELSE /\ reserved_top >= Megabyte
         /\ \A p \in 0 .. total_page_count - 1 : p \notin fixed => Ordinary(p)

Inv == TypeOK /\ BitmapExact /\ ScanRun /\ Covered

\* What the arithmetic below needs of the constants.
LEMMA Constants ==
  /\ PageSize \in Nat \ {0} /\ Megabyte \in Nat
  /\ MaxPages \in Nat
  /\ HeapPages \in Nat \ {0} /\ HeapPages \in Requests /\ Requests \subseteq Nat
  /\ NULL \notin Nat
<1>1. MaxMegabytes * Megabyte \in Nat
  BY PageAllocatorAssumption
<1>2. QED BY <1>1, PageAllocatorAssumption, DivBounds DEF MaxPages

\* memory_init reserves everything that is not ordinary.
LEMMA InitReserves ==
  ASSUME NEW mapped_memory_mb \in BootMemory, NEW kernel_end \in KernelEnds,
         memory_init(mapped_memory_mb, kernel_end)
  PROVE  /\ total_page_count' \in 1 .. MaxPages
         /\ fixed' \subseteq 0 .. total_page_count' - 1
         /\ reserved_top' \in Nat /\ reserved_top' >= Megabyte
         /\ \A p \in 0 .. total_page_count' - 1 : p \notin fixed' => Ordinary(p)'
<1> DEFINE N == (MappedMegabytes(mapped_memory_mb) * Megabyte) \div PageSize
           top == Larger(kernel_end, Megabyte)
           F == {p \in first_page(0) .. last_page(top) - 1 : p < N}
                \cup {p \in first_page(WindowStart)
                             .. last_page(WindowStart + WindowSize) - 1 : p < N}
<1>0. /\ mapped_memory_mb \in Nat /\ kernel_end \in Nat
      /\ WindowStart \in Nat /\ WindowSize \in Nat
      /\ PageSize \in Nat \ {0} /\ Megabyte \in Nat
  BY PageAllocatorAssumption
<1>1. total_page_count' = N /\ reserved_top' = top /\ fixed' = F
  BY DEF memory_init, MarkRange
<1>2. N \in 1 .. MaxPages
  BY <1>0, MappedPages
<1>3. top \in Nat /\ top >= Megabyte
  BY <1>0 DEF Larger
<1>4. first_page(0) = 0 /\ first_page(WindowStart) \in Nat
  BY <1>0, DivBounds DEF first_page
<1>5. last_page(top) \in Nat /\ last_page(WindowStart + WindowSize) \in Nat
  <2>1. top + PageSize - 1 \in Nat /\ WindowStart + WindowSize + PageSize - 1 \in Nat
    BY <1>0, <1>3
  <2> HIDE DEF top
  <2>2. QED BY <1>0, <2>1, DivBounds DEF last_page
<1> HIDE DEF N, top
<1>6. N \in Nat /\ MaxPages \in Nat
  BY <1>2, Constants
<1>7. F \subseteq 0 .. N - 1
  BY <1>4, <1>5, <1>6
<1>8. ASSUME NEW p \in 0 .. N - 1, p \notin F
      PROVE  /\ p * PageSize >= top
             /\ \/ p * PageSize + PageSize <= WindowStart
                \/ p * PageSize >= WindowStart + WindowSize
  <2>1. p \in Nat /\ p < N
    BY <1>6
  <2>2. p >= last_page(top)
    BY <1>4, <1>5, <1>8, <2>1
  <2>3. p < first_page(WindowStart) \/ p >= last_page(WindowStart + WindowSize)
    BY <1>4, <1>5, <1>8, <2>1
  <2>4. WindowStart + WindowSize \in Nat
    BY <1>0
  <2>5. QED BY <1>0, <1>3, <2>1, <2>2, <2>3, <2>4, BehindRange, BeforeRange
<1> HIDE DEF F
<1>9. \A p \in 0 .. N - 1 : p \notin F => Ordinary(p)'
  BY <1>1, <1>8 DEF Ordinary
<1>10. QED BY <1>1, <1>2, <1>3, <1>7, <1>9

\* The run that a free page extends begins at RunStart and is free.
LEMMA RunSoFar ==
  ASSUME TypeOK, ScanRun, pc = "scan", page < total_page_count, page \notin page_bitmap
  PROVE  /\ RunStart \in 0 .. page /\ RunStart + run_length = page
         /\ \A p \in RunStart .. page : p \notin page_bitmap
         /\ RunStart > 0 => RunStart - 1 \in page_bitmap
         /\ run_length \in Nat /\ page \in Nat /\ page_count \in Nat
         /\ total_page_count \in Nat /\ total_page_count <= MaxPages
<1>1. /\ page \in Nat /\ run_length \in Nat /\ run_start \in Nat /\ page_count \in Nat
      /\ total_page_count \in Nat /\ total_page_count <= MaxPages
  BY Constants DEF TypeOK
<1>2. QED BY <1>1 DEF ScanRun, RunStart

\* No run that fits ends at or before a page that is used or leaves the run short.
LEMMA StillNoFit ==
  ASSUME TypeOK, ScanRun, pc = "scan", page < total_page_count,
         page \in page_bitmap \/ run_length + 1 # page_count
  PROVE  \A start \in 0 .. page + 1 - page_count :
           \E p \in start .. start + page_count - 1 : p \in page_bitmap
<1>1. /\ page \in Nat /\ run_length \in Nat /\ page_count \in Nat /\ page_count > run_length
  BY Constants DEF TypeOK, ScanRun
<1>2. SUFFICES ASSUME NEW start \in 0 .. page + 1 - page_count
               PROVE  \E p \in start .. start + page_count - 1 : p \in page_bitmap
  OBVIOUS
<1>3. CASE start <= page - page_count
  <2>1. start \in 0 .. page - page_count
    BY <1>1, <1>3
  <2>2. \A s \in 0 .. page - page_count :
          \E p \in s .. s + page_count - 1 : p \in page_bitmap
    BY DEF ScanRun
  <2>3. QED BY <2>1, <2>2
<1>4. CASE start = page + 1 - page_count
  <2>1. CASE page \in page_bitmap
    BY <1>1, <1>4, <2>1
  <2>2. CASE page \notin page_bitmap
    <3>1. RunStart \in 0 .. page /\ RunStart + run_length = page
      BY <2>2, RunSoFar
    <3>2. RunStart > 0 => RunStart - 1 \in page_bitmap
      BY <2>2, RunSoFar
    <3>3. RunStart - 1 \in start .. start + page_count - 1 /\ RunStart > 0
      BY <1>1, <1>4, <2>2, <3>1
    <3>4. QED BY <3>2, <3>3
  <2>3. QED BY <2>1, <2>2
<1>5. QED BY <1>1, <1>2, <1>3, <1>4

\* A step of the search other than the last keeps all four parts.
LEMMA SearchKeepsInv ==
  ASSUME Inv, ScanUsed \/ ScanFree
  PROVE  Inv'
<1> USE DEF Inv
<1>0. /\ pc = "scan" /\ page < total_page_count /\ pc' = "scan"
      /\ page' = page + 1 /\ page_count' = page_count
      /\ UNCHANGED <<page_bitmap, total_page_count, reserved_top, fixed, granted,
                     heap_region, caller, requested, result>>
  BY DEF ScanUsed, ScanFree
<1>1. /\ page \in Nat /\ run_length \in Nat /\ run_start \in Nat /\ page_count \in Nat
      /\ total_page_count \in Nat /\ total_page_count <= MaxPages /\ MaxPages \in Nat
      /\ page_count > run_length
  BY <1>0, Constants DEF TypeOK, ScanRun
<1>2. \A start \in 0 .. page + 1 - page_count :
        \E p \in start .. start + page_count - 1 : p \in page_bitmap
  BY <1>0, <1>1, StillNoFit DEF ScanUsed, ScanFree
<1>3. BitmapExact' /\ Covered'
  BY <1>0 DEF BitmapExact, Covered, Ordinary
<1>4. CASE ScanUsed
  <2>1. run_length' = 0 /\ run_start' = run_start /\ page \in page_bitmap
    BY <1>4 DEF ScanUsed
  <2>2. TypeOK'
    BY <1>0, <1>1, <2>1 DEF TypeOK
  <2>3. ScanRun'
    BY <1>0, <1>1, <1>2, <2>1 DEF ScanRun
  <2>4. QED BY <1>3, <2>2, <2>3
<1>5. CASE ScanFree
  <2>1. /\ run_length' = run_length + 1 /\ run_start' = RunStart
        /\ run_length + 1 # page_count /\ page \notin page_bitmap
    BY <1>5 DEF ScanFree
  <2>2. /\ RunStart \in 0 .. page /\ RunStart + run_length = page
        /\ \A p \in RunStart .. page : p \notin page_bitmap
        /\ RunStart > 0 => RunStart - 1 \in page_bitmap
    BY <1>0, <2>1, RunSoFar
  <2> HIDE DEF Inv
  <2>3. TypeOK'
    BY <1>0, <1>1, <2>1, <2>2 DEF TypeOK, Inv
  <2>4. ScanRun'
    BY <1>0, <1>1, <1>2, <2>1, <2>2 DEF ScanRun
  <2>5. QED BY <1>3, <2>3, <2>4 DEF Inv
<1>6. QED BY <1>4, <1>5

\* The granted run: free, inside the memory, and ordinary.
LEMMA GrantIsGood ==
  ASSUME Inv, ScanFound
  PROVE  /\ Marked \subseteq 0 .. total_page_count - 1
         /\ Marked \cap page_bitmap = {}
         /\ RunStart \in 0 .. MaxPages /\ RunStart + page_count = page + 1
         /\ \A p \in Marked : Ordinary(p)
<1>1. pc = "scan" /\ page < total_page_count /\ page \notin page_bitmap
  BY DEF ScanFound
<1>2. /\ RunStart \in 0 .. page /\ RunStart + run_length = page
      /\ \A p \in RunStart .. page : p \notin page_bitmap
      /\ run_length \in Nat /\ page \in Nat
      /\ total_page_count \in Nat /\ total_page_count <= MaxPages
  BY <1>1, RunSoFar DEF Inv
<1>3. page_count = run_length + 1
  BY DEF ScanFound
<1>4. Marked = RunStart .. page
  BY <1>2, <1>3 DEF Marked
<1>5. Marked \subseteq 0 .. total_page_count - 1 /\ Marked \cap page_bitmap = {}
  BY <1>1, <1>2, <1>4
<1>6. \A p \in Marked : p \notin fixed
  BY <1>5 DEF Inv, BitmapExact
<1>7. \A p \in Marked : Ordinary(p)
  BY <1>1, <1>5, <1>6 DEF Inv, Covered
<1>8. QED BY <1>1, <1>2, <1>3, <1>5, <1>7, Constants

\* All four parts hold initially and every step keeps them.
THEOREM Invariance == Spec => []Inv
<1>1. Init => Inv
  <2> SUFFICES ASSUME Init PROVE Inv
    OBVIOUS
  <2>1. TypeOK
    BY Constants DEF Init, TypeOK
  <2>2. QED BY <2>1 DEF Init, Inv, BitmapExact, ScanRun, Covered
<1>2. Inv /\ [Next]_vars => Inv'
  <2> SUFFICES ASSUME Inv, [Next]_vars PROVE Inv'
    OBVIOUS
  <2>1. ASSUME NEW mapped_memory_mb \in BootMemory, NEW kernel_end \in KernelEnds,
               memory_init(mapped_memory_mb, kernel_end)
        PROVE  Inv'
    <3>1. /\ total_page_count' \in 1 .. MaxPages
          /\ fixed' \subseteq 0 .. total_page_count' - 1
          /\ reserved_top' \in Nat /\ reserved_top' >= Megabyte
          /\ \A p \in 0 .. total_page_count' - 1 : p \notin fixed' => Ordinary(p)'
      BY <2>1, InitReserves
    <3>2. /\ granted = {} /\ granted' = {} /\ page_bitmap' = fixed'
          /\ UNCHANGED <<heap_region, requested, result>>
          /\ pc' = "scan" /\ caller' = "heap_init" /\ page_count' = HeapPages
          /\ page' = 0 /\ run_start' = 0 /\ run_length' = 0
      <4>1. total_page_count = 0
        BY <2>1 DEF memory_init, Inv, Covered
      <4>2. granted = {}
        BY <4>1 DEF Inv, TypeOK
      <4>3. QED BY <2>1, <4>2 DEF memory_init, StartScan
    <3>3. TypeOK'
      <4>1. total_page_count' \in 0 .. MaxPages /\ 0 \in 0 .. total_page_count'
        BY <3>1, Constants
      <4>2. /\ heap_region' \in (0 .. MaxPages) \cup {NULL}
            /\ requested' \in Requests \cup {0}
            /\ result' \in (0 .. MaxPages) \cup {NULL}
        BY <3>2 DEF Inv, TypeOK
      <4>3. /\ page_bitmap' \subseteq 0 .. total_page_count' - 1
            /\ fixed' \subseteq 0 .. total_page_count' - 1
            /\ granted' \subseteq 0 .. total_page_count' - 1
        BY <3>1, <3>2
      <4>4. /\ page_count' \in Requests \cup {0}
            /\ run_start' \in 0 .. MaxPages /\ run_length' \in 0 .. MaxPages
        BY <3>2, Constants
      <4>5. page' \in 0 .. total_page_count'
        BY <3>2, <4>1
      <4>6. QED BY <3>1, <3>2, <4>1, <4>2, <4>3, <4>4, <4>5, Zenon DEF TypeOK
    <3>4. BitmapExact' /\ Covered'
      BY <3>1, <3>2 DEF BitmapExact, Covered
    <3>5. ScanRun'
      BY <3>2, Constants DEF ScanRun
    <3>6. QED BY <3>3, <3>4, <3>5 DEF Inv
  <2>2. ASSUME NEW n \in Requests, page_alloc(n)
        PROVE  Inv'
    <3>1. n \in Nat /\ n # 0
      BY <2>2, Constants DEF page_alloc
    <3>2. TypeOK'
      BY <2>2, <3>1, Constants DEF page_alloc, StartScan, Inv, TypeOK
    <3>3. BitmapExact' /\ Covered'
      BY <2>2 DEF page_alloc, StartScan, Inv, BitmapExact, Covered, Ordinary
    <3>4. ScanRun'
      BY <2>2, <3>1 DEF page_alloc, StartScan, ScanRun
    <3>5. QED BY <3>2, <3>3, <3>4 DEF Inv
  <2>3. CASE AllocNothing
    BY <2>3 DEF AllocNothing, Inv, TypeOK, BitmapExact, ScanRun, Covered, Ordinary, scanVars
  <2>4. CASE ScanUsed
    BY <2>4, SearchKeepsInv
  <2>5. CASE ScanFree
    BY <2>5, SearchKeepsInv
  <2>6. CASE ScanFound
    <3>1. /\ Marked \subseteq 0 .. total_page_count - 1
          /\ Marked \cap page_bitmap = {}
          /\ RunStart \in 0 .. MaxPages
          /\ \A p \in Marked : Ordinary(p)
      BY <2>6, GrantIsGood
    <3>2. /\ page_bitmap' = page_bitmap \cup Marked /\ granted' = granted \cup Marked
          /\ run_start' = RunStart /\ run_length' = run_length + 1
          /\ pc = "scan" /\ pc' = "idle" /\ requested' = page_count /\ result' = RunStart
          /\ heap_region' \in {RunStart, heap_region}
          /\ UNCHANGED <<total_page_count, reserved_top, fixed, page_count, page, caller>>
      BY <2>6 DEF ScanFound, Return, Marked
    <3>3. run_length + 1 \in 0 .. MaxPages
      <4>1. /\ RunStart + run_length = page /\ RunStart \in 0 .. page
            /\ run_length \in Nat /\ page \in Nat
            /\ total_page_count \in Nat /\ total_page_count <= MaxPages
        BY <2>6, RunSoFar DEF ScanFound, Inv
      <4>2. page < total_page_count
        BY <2>6 DEF ScanFound
      <4>3. QED BY <4>1, <4>2, Constants
    <3>4. TypeOK'
      BY <3>1, <3>2, <3>3 DEF Inv, TypeOK
    <3>5. BitmapExact' /\ Covered'
      BY <3>1, <3>2 DEF Inv, BitmapExact, Covered, Ordinary
    <3>6. ScanRun'
      BY <3>2 DEF ScanRun
    <3>7. QED BY <3>4, <3>5, <3>6 DEF Inv
  <2>7. CASE ScanFailed
    <3>1. /\ pc' = "idle" /\ pc = "scan" /\ requested' = page_count /\ result' = NULL
          /\ heap_region' \in {NULL, heap_region}
          /\ UNCHANGED <<page_bitmap, total_page_count, reserved_top, fixed, granted, page_count,
                         page, run_start, run_length, caller>>
      BY <2>7 DEF ScanFailed, Return
    <3>2. QED BY <3>1 DEF Inv, TypeOK, BitmapExact, ScanRun, Covered, Ordinary
  <2>8. ASSUME NEW start \in 0 .. MaxPages, NEW count \in 1 .. MaxPages,
               page_free(start, count)
        PROVE  Inv'
    <3>1. start .. start + count - 1 \subseteq granted
      BY <2>8 DEF page_free
    <3>2. Freed(start, count) = start .. start + count - 1
      BY <3>1 DEF Freed, Inv, TypeOK
    <3>3. /\ page_bitmap' = page_bitmap \ Freed(start, count)
          /\ granted' = granted \ Freed(start, count)
          /\ pc = "idle"
          /\ UNCHANGED <<total_page_count, reserved_top, fixed, heap_region, pc, page_count, page,
                         run_start, run_length, caller, requested, result>>
      BY <2>8, <3>2 DEF page_free, scanVars
    <3>4. Freed(start, count) \subseteq granted
      BY <3>1, <3>2
    <3>5. TypeOK'
      BY <3>3 DEF Inv, TypeOK
    <3>6. BitmapExact' /\ Covered' /\ ScanRun'
      BY <3>3, <3>4 DEF Inv, BitmapExact, Covered, ScanRun, Ordinary
    <3>7. QED BY <3>5, <3>6 DEF Inv
  <2>9. CASE UNCHANGED vars
    BY <2>9 DEF vars, scanVars, Inv, TypeOK, BitmapExact, ScanRun, Covered, Ordinary
  <2>10. QED BY <2>1, <2>2, <2>3, <2>4, <2>5, <2>6, <2>7, <2>8, <2>9 DEF Next
<1>3. QED BY <1>1, <1>2, PTL DEF Spec

(***************************************************************************)
(* Whatever memory the loader reports and wherever the kernel ends, no     *)
(* page index of memory.c leaves the bitmap.                               *)
(***************************************************************************)
THEOREM TypeCorrect == Spec => []TypeOK
BY Invariance, PTL DEF Inv

(***************************************************************************)
(* No page is handed out twice, leaked, or taken from the kernel, the      *)
(* legacy area or the application window.                                  *)
(***************************************************************************)
THEOREM BitmapIsExact == Spec => []BitmapExact
BY Invariance, PTL DEF Inv

(***************************************************************************)
(* At every page of its search page_alloc holds the free run that ends     *)
(* there and has missed no earlier one.                                    *)
(***************************************************************************)
THEOREM ScanIsExact == Spec => []ScanRun
BY Invariance, PTL DEF Inv

(***************************************************************************)
(* memory.c implements the page pool: first fit, and NULL only when no run *)
(* of free pages is long enough.                                           *)
(***************************************************************************)
THEOREM PoolRefinement == Spec => ImplementsPool
<1>1. Init => Pool!PoolInit
  BY DEF Init, Pool!PoolInit
<1>2. Inv /\ [Next]_vars => [Pool!PoolNext]_(Pool!poolVars)
  <2> SUFFICES ASSUME Inv, [Next]_vars PROVE Pool!PoolNext \/ UNCHANGED Pool!poolVars
    OBVIOUS
  <2>1. ASSUME NEW mapped_memory_mb \in BootMemory, NEW kernel_end \in KernelEnds,
               memory_init(mapped_memory_mb, kernel_end)
        PROVE  Pool!PoolNext
    <3>1. total_page_count' \in 1 .. MaxPages /\ fixed' \subseteq 0 .. total_page_count' - 1
      BY <2>1, InitReserves
    <3>2. total_page_count = 0
      BY <2>1 DEF memory_init, Inv, Covered
    <3>3. Pool!SetUp(total_page_count', fixed')
      BY <2>1, <3>2 DEF memory_init, Pool!SetUp
    <3>4. fixed' \in SUBSET (0 .. total_page_count' - 1)
      BY <3>1
    <3>5. QED BY <3>1, <3>3, <3>4, Zenon DEF Pool!PoolNext
  <2>2. CASE \E n \in Requests : page_alloc(n)
    BY <2>2 DEF page_alloc, Pool!poolVars
  <2>3. CASE AllocNothing
    <3>1. Pool!Deny(0)
      BY <2>3 DEF AllocNothing, Pool!Deny
    <3>2. QED BY <3>1 DEF Pool!PoolNext
  <2>4. CASE ScanUsed \/ ScanFree
    BY <2>4 DEF ScanUsed, ScanFree, Pool!poolVars
  <2>5. CASE ScanFound
    <3>1. /\ Marked \subseteq 0 .. total_page_count - 1 /\ Marked \cap page_bitmap = {}
          /\ RunStart \in 0 .. MaxPages /\ RunStart + page_count = page + 1
      BY <2>5, GrantIsGood
    <3>2. /\ pc = "scan" /\ page < total_page_count /\ page_count = run_length + 1
          /\ page_bitmap' = page_bitmap \cup Marked /\ granted' = granted \cup Marked
          /\ requested' = page_count /\ result' = RunStart
          /\ total_page_count' = total_page_count
      BY <2>5 DEF ScanFound, Return, Marked
    <3>3. /\ page \in Nat /\ total_page_count \in Nat /\ run_length \in Nat
          /\ page_count \in Requests \cup {0}
      BY Constants DEF Inv, TypeOK
    <3>4. page_count \in Requests \ {0}
      BY <3>2, <3>3
    <3>5. Pool!Fits(RunStart, page_count)
      BY <3>1, <3>2, <3>3 DEF Pool!Fits, Pool!Run, Marked
    <3>6. \A lower \in 0 .. RunStart - 1 : ~Pool!Fits(lower, page_count)
      <4>1. \A lower \in 0 .. page - page_count :
              \E p \in lower .. lower + page_count - 1 : p \in page_bitmap
        BY <3>2 DEF Inv, ScanRun
      <4>2. 0 .. RunStart - 1 \subseteq 0 .. page - page_count
        BY <3>1, <3>2, <3>3
      <4>3. QED BY <4>1, <4>2 DEF Pool!Fits, Pool!Run
    <3>7. Pool!Grant(RunStart, page_count)
      BY <3>2, <3>5, <3>6 DEF Pool!Grant, Pool!Run, Marked
    <3>8. QED BY <3>1, <3>4, <3>7 DEF Pool!PoolNext
  <2>6. CASE ScanFailed
    <3>1. /\ pc = "scan" /\ page >= total_page_count
          /\ requested' = page_count /\ result' = NULL
          /\ UNCHANGED <<page_bitmap, granted, total_page_count>>
      BY <2>6 DEF ScanFailed, Return
    <3>2. /\ page \in Nat /\ total_page_count \in Nat /\ page <= total_page_count
          /\ page_count \in Nat /\ page_count \in Requests \cup {0}
      BY Constants DEF Inv, TypeOK
    <3>3. \A start \in 0 .. total_page_count : ~Pool!Fits(start, page_count)
      <4>1. \A start \in 0 .. page - page_count :
              \E p \in start .. start + page_count - 1 : p \in page_bitmap
        BY <3>1 DEF Inv, ScanRun
      <4>2. \A start \in 0 .. total_page_count :
              start + page_count <= total_page_count => start \in 0 .. page - page_count
        BY <3>1, <3>2
      <4>3. QED BY <4>1, <4>2 DEF Pool!Fits, Pool!Run
    <3>4. Pool!Deny(page_count)
      BY <3>1, <3>3 DEF Pool!Deny
    <3>5. QED BY <3>2, <3>4 DEF Pool!PoolNext
  <2>7. ASSUME NEW start \in 0 .. MaxPages, NEW count \in 1 .. MaxPages,
               page_free(start, count)
        PROVE  Pool!PoolNext
    <3>1. start .. start + count - 1 \subseteq granted
      BY <2>7 DEF page_free
    <3>2. Freed(start, count) = start .. start + count - 1
      BY <3>1 DEF Freed, Inv, TypeOK
    <3>3. Pool!Release(start, count)
      BY <2>7, <3>1, <3>2 DEF page_free, Pool!Release, Pool!Run
    <3>4. QED BY <3>3 DEF Pool!PoolNext
  <2>8. CASE UNCHANGED vars
    BY <2>8 DEF vars, Pool!poolVars
  <2>9. QED BY <2>1, <2>2, <2>3, <2>4, <2>5, <2>6, <2>7, <2>8 DEF Next
<1>3. QED BY <1>1, <1>2, Invariance, PTL DEF Spec, ImplementsPool, Pool!PoolSpec
=============================================================================
