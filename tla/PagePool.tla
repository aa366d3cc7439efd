------------------------------- MODULE PagePool -------------------------------
(***************************************************************************)
(* What the page allocator promises: it owns the pages 0 .. total - 1.     *)
(* Some are fixed from the start.  A request is granted the lowest run of  *)
(* free pages that is long enough, and is denied only when there is none.  *)
(* Pages come back when their holder releases them.                        *)
(***************************************************************************)
EXTENDS Integers

CONSTANTS
  MaxPages,  \* the most pages a pool may own
  Requests,  \* how many pages a caller may ask for
  NULL       \* the answer to a denied request

VARIABLES
  total,     \* how many pages the pool owns; 0 until it is set up
  used,      \* the pages that are not free
  held,      \* the pages granted and not released
  asked,     \* the last request answered
  answer     \* the first page it was granted, or NULL

poolVars == <<total, used, held, asked, answer>>

Run(start, count) == start .. start + count - 1

\* No page of the run is used, and all of it belongs to the pool.
Fits(start, count) ==
  start + count <= total /\ \A p \in Run(start, count) : p \notin used

PoolInit ==
  /\ total = 0
  /\ used = {} /\ held = {}
  /\ asked = 0
  /\ answer = NULL

\* The owner of the memory says how much there is and what is fixed.
SetUp(pages, fixed) ==
  /\ total = 0
  /\ total' = pages
  /\ used' = fixed
  /\ UNCHANGED <<held, asked, answer>>

Grant(start, count) ==
  /\ Fits(start, count)
  /\ \A lower \in 0 .. start - 1 : ~Fits(lower, count)
  /\ used' = used \cup Run(start, count)
  /\ held' = held \cup Run(start, count)
  /\ asked' = count
  /\ answer' = start
  /\ UNCHANGED total

\* No run is long enough; a request for no pages is refused whatever is free.
Deny(count) ==
  /\ count # 0 => \A start \in 0 .. total : ~Fits(start, count)
  /\ asked' = count
  /\ answer' = NULL
  /\ UNCHANGED <<total, used, held>>

Release(start, count) ==
  /\ Run(start, count) \subseteq held
  /\ used' = used \ Run(start, count)
  /\ held' = held \ Run(start, count)
  /\ UNCHANGED <<total, asked, answer>>

PoolNext ==
  \/ \E pages \in 1 .. MaxPages : \E fixed \in SUBSET (0 .. pages - 1) :
       SetUp(pages, fixed)
  \/ \E start \in 0 .. MaxPages, count \in Requests \ {0} : Grant(start, count)
  \/ \E count \in Requests \cup {0} : Deny(count)
  \/ \E start \in 0 .. MaxPages, count \in 1 .. MaxPages : Release(start, count)

PoolSpec == PoolInit /\ [][PoolNext]_poolVars
=============================================================================
