------------------------------- MODULE Keyboard -------------------------------
(***************************************************************************)
(* kernel/src/keyboard.c: scan code translation and the ring of characters *)
(* between the IRQ 1 handler (the only writer of buffer_head) and          *)
(* keyboard_pop, called by the shell (the only writer of buffer_tail).     *)
(*                                                                         *)
(* The handler runs behind an interrupt gate on the only CPU, so it is one *)
(* step.  keyboard_pop runs with interrupts enabled: the handler may run   *)
(* between any two of its accesses to the volatile variables, so it is     *)
(* three steps.  Nothing else synchronises the two.                        *)
(***************************************************************************)
EXTENDS Naturals, Sequences

CONSTANTS
  BufferSize,      \* KEYBOARD_BUFFER_SIZE, 256 in the code
  IndexRange,      \* the indices are uint8_t: they wrap at 2^8
  Char,            \* the characters of the two key maps
  NUL,             \* '\0': no character
  keymap,          \* scan code -> character, without shift
  shifted_keymap,  \* scan code -> character, with shift
  ScanCodes        \* the codes the keyboard may send

MakeCode == 0 .. 127

(***************************************************************************)
(* In the code IndexRange = BufferSize = 256.  What the ring needs is only *)
(* that every value an index can take is a slot of the buffer.             *)
(***************************************************************************)
ASSUME KeyboardAssumption ==
  /\ IndexRange \in Nat /\ IndexRange >= 2
  /\ BufferSize \in Nat /\ IndexRange <= BufferSize
  /\ NUL \notin Char
  /\ keymap \in [MakeCode -> Char \cup {NUL}]
  /\ shifted_keymap \in [MakeCode -> Char \cup {NUL}]
  /\ ScanCodes \subseteq 0 .. 255

VARIABLES
  keyboard_buffer, \* the slots of the ring
  buffer_head,     \* where the handler writes next
  buffer_tail,     \* where keyboard_pop reads next
  shift_pressed,   \* the translation state
  pop_pc,          \* where keyboard_pop is: "idle", "read" or "advance"
  character,       \* keyboard_pop's local variable
  popped,          \* what the last finished keyboard_pop returned
  dropped          \* history: TRUE iff the last character offered was discarded

ring == <<keyboard_buffer, buffer_head, dropped>>
popVars == <<buffer_tail, pop_pc, character, popped>>
keyboardVars == <<ring, shift_pressed, popVars>>

\* Mutant: the cast to uint8_t is missing.
AdvanceUncast(i) == i + 1

\* The uint8_t increment of an index.
Advance(i) == (i + 1) % IndexRange

(***************************************************************************)
(* The characters in the ring, oldest first.                               *)
(***************************************************************************)
Count ==
  IF buffer_head >= buffer_tail
    THEN buffer_head - buffer_tail
    ELSE buffer_head + IndexRange - buffer_tail

Slot(i) ==
  IF buffer_tail + i <= IndexRange
    THEN buffer_tail + i - 1
    ELSE buffer_tail + i - 1 - IndexRange

Queue == [i \in 1 .. Count |-> keyboard_buffer[Slot(i)]]

-----------------------------------------------------------------------------
\* keyboard_init: the static initialisers again.
keyboard_init ==
  /\ buffer_head = 0
  /\ buffer_tail = 0
  /\ shift_pressed = FALSE

Init ==
  /\ keyboard_init
  /\ keyboard_buffer = [i \in 0 .. BufferSize - 1 |-> NUL]
  /\ pop_pc = "idle"
  /\ character = NUL
  /\ popped = NUL
  /\ dropped = FALSE

-----------------------------------------------------------------------------
\* The producer: the IRQ 1 handler.

\* Mutant: a push that discards the test for a full ring.
PushOverwriting(c) ==
  /\ keyboard_buffer' = [keyboard_buffer EXCEPT ![buffer_head] = c]
  /\ buffer_head' = Advance(buffer_head)
  /\ dropped' = FALSE

\* Mutant: the test for a full ring is one slot too early.
PushEarlyFull(c) ==
  IF Advance(Advance(buffer_head)) = buffer_tail
    THEN dropped' = TRUE /\ UNCHANGED <<keyboard_buffer, buffer_head>>
    ELSE PushOverwriting(c)

buffer_push(c) ==
  IF Advance(buffer_head) = buffer_tail
    THEN dropped' = TRUE /\ UNCHANGED <<keyboard_buffer, buffer_head>>
    ELSE /\ keyboard_buffer' = [keyboard_buffer EXCEPT ![buffer_head] = c]
         /\ buffer_head' = Advance(buffer_head)
         /\ dropped' = FALSE

ShiftMake == {42, 54}        \* 0x2A, 0x36
ShiftBreak == {170, 182}     \* 0xAA, 0xB6

ShiftDown(scan_code) ==
  /\ scan_code \in ShiftMake
  /\ shift_pressed' = TRUE
  /\ UNCHANGED ring

ShiftUp(scan_code) ==
  /\ scan_code \in ShiftBreak
  /\ shift_pressed' = FALSE
  /\ UNCHANGED ring

\* Every other code with the top bit set: a release, or the 0xE0 prefix.
IgnoreBreak(scan_code) ==
  /\ scan_code > 127 /\ scan_code \notin ShiftBreak
  /\ UNCHANGED <<ring, shift_pressed>>

Translate(scan_code) ==
  IF shift_pressed THEN shifted_keymap[scan_code] ELSE keymap[scan_code]

KeyDown(scan_code) ==
  /\ scan_code \in MakeCode \ ShiftMake
  /\ IF Translate(scan_code) # NUL
       THEN buffer_push(Translate(scan_code))
       ELSE UNCHANGED ring
  /\ UNCHANGED shift_pressed

keyboard_irq_handler(scan_code) ==
  /\ \/ ShiftDown(scan_code)
     \/ ShiftUp(scan_code)
     \/ IgnoreBreak(scan_code)
     \/ KeyDown(scan_code)
  /\ UNCHANGED popVars

-----------------------------------------------------------------------------
\* The consumer: keyboard_pop, one step per access to shared state.

\* if (buffer_head == buffer_tail) return '\0';
PopTest ==
  /\ pop_pc = "idle"
  /\ IF buffer_head = buffer_tail
       THEN popped' = NUL /\ UNCHANGED pop_pc
       ELSE pop_pc' = "read" /\ UNCHANGED popped
  /\ UNCHANGED <<ring, shift_pressed, buffer_tail, character>>

\* character = keyboard_buffer[buffer_tail];
PopRead ==
  /\ pop_pc = "read"
  /\ character' = keyboard_buffer[buffer_tail]
  /\ pop_pc' = "advance"
  /\ UNCHANGED <<ring, shift_pressed, buffer_tail, popped>>

\* buffer_tail = (uint8_t)(buffer_tail + 1u); return character;
PopAdvance ==
  /\ pop_pc = "advance"
  /\ buffer_tail' = Advance(buffer_tail)
  /\ popped' = character
  /\ dropped' = FALSE
  /\ pop_pc' = "idle"
  /\ UNCHANGED <<keyboard_buffer, buffer_head, shift_pressed, character>>

keyboard_pop == PopTest \/ PopRead \/ PopAdvance

Next ==
  \/ \E scan_code \in ScanCodes : keyboard_irq_handler(scan_code)
  \/ keyboard_pop

Spec == Init /\ [][Next]_keyboardVars

-----------------------------------------------------------------------------
(***************************************************************************)
(* Type invariant: the uint8_t indices stay inside the buffer.             *)
(***************************************************************************)
TypeOK ==
  /\ keyboard_buffer \in [0 .. BufferSize - 1 -> Char \cup {NUL}]
  /\ buffer_head \in 0 .. IndexRange - 1
  /\ buffer_tail \in 0 .. IndexRange - 1
  /\ shift_pressed \in BOOLEAN
  /\ pop_pc \in {"idle", "read", "advance"}
  /\ character \in Char \cup {NUL}
  /\ popped \in Char \cup {NUL}
  /\ dropped \in BOOLEAN

(***************************************************************************)
(* keyboard.c:94-95: between the read of a slot and the increment of the   *)
(* tail the handler never reuses that slot, and once the test for an empty *)
(* ring succeeded the ring stays non-empty until the pop finishes.  Every  *)
(* slot in use holds a real character, so a pop never returns '\0' for a   *)
(* ring that has something in it.                                          *)
(***************************************************************************)
PopUndisturbed ==
  /\ pop_pc # "idle" => buffer_head # buffer_tail
  /\ pop_pc = "advance" => character = keyboard_buffer[buffer_tail]
  /\ \A i \in 1 .. Count : keyboard_buffer[Slot(i)] \in Char

(***************************************************************************)
(* The ring is a FIFO queue of IndexRange - 1 characters: nothing is lost, *)
(* duplicated or reordered under any interleaving of handler and pop, and  *)
(* a key is discarded only when the queue is full.                         *)
(***************************************************************************)
Fifo == INSTANCE InputFifo WITH
  Capacity <- IndexRange - 1,
  queue <- Queue,
  delivered <- popped,
  overrun <- dropped

ImplementsFifo == Fifo!FifoSpec
=============================================================================
