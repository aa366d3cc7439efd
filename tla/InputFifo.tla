------------------------------ MODULE InputFifo ------------------------------
(***************************************************************************)
(* What the keyboard driver promises the shell: a bounded first-in         *)
(* first-out queue of characters.  A character is refused only when the    *)
(* queue holds Capacity characters, and the reader is told "nothing" (NUL) *)
(* only when the queue is empty.  This is the abstract specification that  *)
(* module Keyboard is shown to implement.                                  *)
(***************************************************************************)
EXTENDS Naturals, Sequences

CONSTANTS
  Capacity,   \* how many characters the queue holds
  Char,       \* the characters a key can produce
  NUL         \* what a read of the empty queue returns

VARIABLES
  queue,      \* the characters accepted and not yet read, oldest first
  delivered,  \* what the last completed read returned
  overrun     \* TRUE iff the last character offered was refused

fifoVars == <<queue, delivered, overrun>>

FifoInit ==
  /\ queue = << >>
  /\ delivered = NUL
  /\ overrun = FALSE

Put(c) ==
  /\ Len(queue) < Capacity
  /\ queue' = Append(queue, c)
  /\ overrun' = FALSE
  /\ UNCHANGED delivered

Refuse ==
  /\ Len(queue) = Capacity
  /\ overrun' = TRUE
  /\ UNCHANGED <<queue, delivered>>

Get ==
  /\ queue # << >>
  /\ delivered' = Head(queue)
  /\ queue' = Tail(queue)
  /\ overrun' = FALSE

GetNothing ==
  /\ queue = << >>
  /\ delivered' = NUL
  /\ UNCHANGED <<queue, overrun>>

FifoNext ==
  \/ \E c \in Char : Put(c)
  \/ Refuse
  \/ Get
  \/ GetNothing

FifoSpec == FifoInit /\ [][FifoNext]_fifoVars
=============================================================================
