----------------------------- MODULE PageAllocator -----------------------------
(***************************************************************************)
(* kernel/src/memory.c: memory_init, page_alloc and page_free.             *)
(*                                                                         *)
(* The search of page_alloc is modelled page by page, so that what it has  *)
(* established half-way through can be stated.  The kernel has one thread  *)
(* and no interrupt handler allocates, so one call runs at a time.         *)
(* page_bitmap is the set of the pages whose bit is set.                   *)
(***************************************************************************)
EXTENDS Integers, FiniteSets

CONSTANTS
  PageSize,     \* SNSX_PAGE_SIZE, 4096
  Megabyte,     \* 1024 * 1024 bytes; also the end of the legacy area
  MaxMegabytes, \* 64: what stage 2 maps and the bitmap covers
  HeapPages,    \* SNSX_HEAP_PAGES, 256
  WindowStart,  \* SNSX_APP_WINDOW_START, 4 MB
  WindowSize,   \* SNSX_APP_WINDOW_SIZE, 4 MB
  BootMemory,   \* the values boot_info->mapped_memory_mb may have
  KernelEnds,   \* the addresses __kernel_end may have
  Requests,     \* the page counts a caller may ask for
  NULL

MaxPages == (MaxMegabytes * Megabyte) \div PageSize

ASSUME PageAllocatorAssumption ==
  /\ PageSize \in Nat \ {0}
  /\ Megabyte \in Nat /\ MaxMegabytes \in Nat \ {0}
  /\ PageSize <= Megabyte
  /\ HeapPages \in Nat \ {0}
  /\ WindowStart \in Nat /\ WindowSize \in Nat
  /\ BootMemory \subseteq Nat
  /\ KernelEnds \subseteq Nat
  /\ Requests \subseteq Nat /\ HeapPages \in Requests
  /\ NULL \notin Nat

VARIABLES
  page_bitmap,       \* the pages marked used
  total_page_count,
  reserved_top,      \* memory_init: the end of the kernel or of the first megabyte
  fixed,             \* history: the pages memory_init reserved
  granted,           \* history: pages handed out and not freed
  heap_region,       \* heap_head: the first page of the heap, or NULL
  pc,                \* "boot", "idle", or "scan" inside page_alloc
  caller,            \* who waits for page_alloc: "heap_init" or "client"
  page_count, page, run_start, run_length,   \* page_alloc's variables
  requested, result  \* argument and value of the last finished page_alloc

scanVars == <<page_count, page, run_start, run_length, caller>>
vars == <<page_bitmap, total_page_count, reserved_top, fixed, granted, heap_region, pc, scanVars,
          requested, result>>

-----------------------------------------------------------------------------
\* mark_range's bounds: the page of start, and the page after the last byte.
first_page(value) == value \div PageSize
last_page(value) == (value + PageSize - 1) \div PageSize

\* Mutant: the first and last page are both rounded down.
RangeTruncated(start, end) ==
  {p \in first_page(start) .. first_page(end) - 1 : p < total_page_count'}

\* Mutant: the last page is not limited to total_page_count.
RangeUnclamped(start, end) == first_page(start) .. last_page(end) - 1

\* mark_range: every page that the bytes start .. end - 1 touch and that exists.
MarkRange(start, end) ==
  {p \in first_page(start) .. last_page(end) - 1 : p < total_page_count'}

Larger(a, b) == IF a > b THEN a ELSE b

-----------------------------------------------------------------------------
Init ==
  /\ page_bitmap = {} /\ total_page_count = 0
  /\ reserved_top = 0
  /\ fixed = {} /\ granted = {}
  /\ heap_region = NULL
  /\ pc = "boot" /\ caller = "client"
  /\ page_count = 0 /\ page = 0 /\ run_start = 0 /\ run_length = 0
  /\ requested = 0 /\ result = NULL

\* The call page_alloc(n), for n > 0.
StartScan(n, who) ==
  /\ pc' = "scan" /\ caller' = who
  /\ page_count' = n
  /\ page' = 0 /\ run_start' = 0 /\ run_length' = 0

\* boot_info may be missing or hold 0: then 64 MB are assumed.
MappedMegabytes(mapped_memory_mb) ==
  IF mapped_memory_mb = 0 \/ mapped_memory_mb > MaxMegabytes
    THEN MaxMegabytes ELSE mapped_memory_mb

\* memory_init up to heap_init's call of page_alloc.
memory_init(mapped_memory_mb, kernel_end) ==
  /\ pc = "boot"
  /\ total_page_count' = (MappedMegabytes(mapped_memory_mb) * Megabyte) \div PageSize
  /\ reserved_top' = Larger(kernel_end, Megabyte)
  /\ fixed' = MarkRange(0, Larger(kernel_end, Megabyte))
                \cup MarkRange(WindowStart, WindowStart + WindowSize)
  /\ page_bitmap' = fixed'
  /\ StartScan(HeapPages, "heap_init")
  /\ UNCHANGED <<granted, heap_region, requested, result>>

-----------------------------------------------------------------------------
\* page_alloc.

page_alloc(n) ==
  /\ pc = "idle"
  /\ n # 0
  /\ StartScan(n, "client")
  /\ UNCHANGED <<page_bitmap, total_page_count, reserved_top, fixed, granted, heap_region, requested,
                 result>>

\* page_alloc(0)
AllocNothing ==
  /\ pc = "idle"
  /\ requested' = 0 /\ result' = NULL
  /\ UNCHANGED <<page_bitmap, total_page_count, reserved_top, fixed, granted, heap_region, pc, scanVars>>

\* Back in the caller; heap_init keeps the answer in heap_head.
Return(value) ==
  /\ requested' = page_count /\ result' = value
  /\ pc' = "idle"
  /\ heap_region' = IF caller = "heap_init" THEN value ELSE heap_region
  /\ UNCHANGED caller

\* Mutant: the run goes on across a used page.
ScanUsedKeepsRun ==
  /\ pc = "scan" /\ page < total_page_count
  /\ page \in page_bitmap
  /\ page' = page + 1
  /\ UNCHANGED <<page_bitmap, total_page_count, reserved_top, fixed, granted, heap_region, pc, caller,
                 page_count, run_start, run_length, requested, result>>

\* A used page ends the run.
ScanUsed ==
  /\ pc = "scan" /\ page < total_page_count
  /\ page \in page_bitmap
  /\ run_length' = 0
  /\ page' = page + 1
  /\ UNCHANGED <<page_bitmap, total_page_count, reserved_top, fixed, granted, heap_region, pc, caller,
                 page_count, run_start, requested, result>>

RunStart == IF run_length = 0 THEN page ELSE run_start

\* A free page that leaves the run too short.
ScanFree ==
  /\ pc = "scan" /\ page < total_page_count
  /\ page \notin page_bitmap
  /\ run_length + 1 # page_count
  /\ run_start' = RunStart
  /\ run_length' = run_length + 1
  /\ page' = page + 1
  /\ UNCHANGED <<page_bitmap, total_page_count, reserved_top, fixed, granted, heap_region, pc, caller,
                 page_count, requested, result>>

\* for (mark = run_start; mark < run_start + page_count; ++mark)
Marked == RunStart .. RunStart + page_count - 1

\* The page that completes the run.
ScanFound ==
  /\ pc = "scan" /\ page < total_page_count
  /\ page \notin page_bitmap
  /\ run_length + 1 = page_count
  /\ run_start' = RunStart
  /\ run_length' = run_length + 1
  /\ page_bitmap' = page_bitmap \cup Marked
  /\ granted' = granted \cup (RunStart .. RunStart + page_count - 1)
  /\ Return(RunStart)
  /\ UNCHANGED <<total_page_count, reserved_top, fixed, page_count, page>>

\* Mutant: the loop leaves out the last page.
LastPageSkipped ==
  /\ pc = "scan" /\ page + 1 >= total_page_count
  /\ Return(NULL)
  /\ UNCHANGED <<page_bitmap, total_page_count, reserved_top, fixed, granted, page_count, page,
                 run_start, run_length>>

\* The end of the bitmap.
ScanFailed ==
  /\ pc = "scan" /\ page >= total_page_count
  /\ Return(NULL)
  /\ UNCHANGED <<page_bitmap, total_page_count, reserved_top, fixed, granted, page_count, page,
                 run_start, run_length>>

-----------------------------------------------------------------------------
HeapRun == IF heap_region = NULL THEN {} ELSE heap_region .. heap_region + HeapPages - 1

Freed(start, count) == {p \in start .. start + count - 1 : p < total_page_count}

\* A client gives back pages it holds, all of a grant or a part of it.
page_free(start, count) ==
  /\ pc = "idle"
  /\ count > 0
  /\ start .. start + count - 1 \subseteq granted \ HeapRun
  /\ page_bitmap' = page_bitmap \ Freed(start, count)
  /\ granted' = granted \ (start .. start + count - 1)
  /\ UNCHANGED <<total_page_count, reserved_top, fixed, heap_region, pc, scanVars, requested, result>>

Next ==
  \/ \E mapped_memory_mb \in BootMemory, kernel_end \in KernelEnds :
       memory_init(mapped_memory_mb, kernel_end)
  \/ \E n \in Requests : page_alloc(n)
  \/ AllocNothing
  \/ ScanUsed \/ ScanFree \/ ScanFound \/ ScanFailed
  \/ \E start \in 0 .. MaxPages, count \in 1 .. MaxPages : page_free(start, count)

Spec == Init /\ [][Next]_vars

-----------------------------------------------------------------------------
(***************************************************************************)
(* Type invariant: every index the bitmap is read or written at exists.    *)
(***************************************************************************)
TypeOK ==
  /\ total_page_count \in 0 .. MaxPages
  /\ page_bitmap \subseteq 0 .. total_page_count - 1
  /\ reserved_top \in Nat
  /\ fixed \subseteq 0 .. total_page_count - 1
  /\ granted \subseteq 0 .. total_page_count - 1
  /\ heap_region \in (0 .. MaxPages) \cup {NULL}
  /\ pc \in {"boot", "idle", "scan"}
  /\ caller \in {"heap_init", "client"}
  /\ page_count \in Requests \cup {0} /\ requested \in Requests \cup {0}
  /\ page \in 0 .. total_page_count
  /\ run_start \in 0 .. MaxPages
  /\ run_length \in 0 .. MaxPages
  /\ result \in (0 .. MaxPages) \cup {NULL}

\* A page that holds no byte of the legacy area, of the kernel or of the application window.
Ordinary(p) ==
  /\ p * PageSize >= reserved_top
  /\ p * PageSize + PageSize <= WindowStart \/ p * PageSize >= WindowStart + WindowSize

(***************************************************************************)
(* The bitmap is exact: a page is marked iff memory_init reserved it or    *)
(* somebody holds it, and never both.  So no page is handed out twice or   *)
(* leaked, and no grant touches the kernel, the legacy area or the window  *)
(* that runtime.c loads applications into; page 0 is never granted, so the *)
(* address 0 always means failure.                                         *)
(***************************************************************************)
BitmapExact ==
  /\ page_bitmap = fixed \cup granted
  /\ fixed \cap granted = {}
  /\ pc # "boot" =>
       /\ reserved_top >= Megabyte
       /\ \A p \in granted : Ordinary(p)

(***************************************************************************)
(* Half-way through page_alloc: the run ends at the page under the cursor, *)
(* is free, is too short, and starts where the free pages before the       *)
(* cursor start; and no run that ends before the cursor would have done.   *)
(***************************************************************************)
ScanRun ==
  pc = "scan" =>
    /\ run_length < page_count
    /\ run_length > 0 => /\ run_start + run_length = page
                         /\ \A p \in run_start .. page - 1 : p \notin page_bitmap
                         /\ run_start > 0 => run_start - 1 \in page_bitmap
    /\ run_length = 0 /\ page > 0 => page - 1 \in page_bitmap
    /\ \A start \in 0 .. page - page_count :
         \E p \in start .. start + page_count - 1 : p \in page_bitmap

(***************************************************************************)
(* First fit: a request is granted the lowest run of free pages that is    *)
(* long enough, and page_alloc returns NULL only when there is none.       *)
(***************************************************************************)
Pool == INSTANCE PagePool WITH
  total <- total_page_count,
  used <- page_bitmap,
  held <- granted,
  asked <- requested,
  answer <- result

ImplementsPool == Pool!PoolSpec
=============================================================================
