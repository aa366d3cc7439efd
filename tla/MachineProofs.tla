----------------------------- MODULE MachineProofs -----------------------------
(***************************************************************************)
(* First the keyboard driver by itself: the ring of keyboard.c is a FIFO   *)
(* queue, for every buffer size, every pair of key maps and every sequence *)
(* of scan codes.  Then interrupts under the kernel's one thread: they     *)
(* come alone, each reaches its own handler and is acknowledged, and the   *)
(* ring is used as module Keyboard says, whatever the scan codes and their *)
(* timing.                                                                 *)
(***************************************************************************)
EXTENDS Machine, SequenceTheorems, TLAPS

\* The (uint8_t) cast takes the last index to the first slot.
LEMMA AdvanceStep ==
  ASSUME NEW i \in 0 .. IndexRange - 1
  PROVE  /\ Advance(i) = IF i = IndexRange - 1 THEN 0 ELSE i + 1
         /\ Advance(i) \in 0 .. IndexRange - 1
BY KeyboardAssumption DEF Advance

\* Where the characters of the ring are: Count of them, from the tail up to
\* the head, which is the next slot to be written and is never in use.
LEMMA RingGeometry ==
  ASSUME TypeOK
  PROVE  /\ Count \in 0 .. IndexRange - 1
         /\ \A i \in 1 .. IndexRange : Slot(i) \in 0 .. IndexRange - 1
         /\ Slot(1) = buffer_tail
         /\ Slot(Count + 1) = buffer_head
         /\ \A i \in 1 .. Count : Slot(i) # buffer_head
         /\ Count = 0 <=> buffer_head = buffer_tail
         /\ Count = IndexRange - 1 <=> Advance(buffer_head) = buffer_tail
<1>1. /\ IndexRange \in Nat /\ IndexRange >= 2
      /\ buffer_head \in 0 .. IndexRange - 1
      /\ buffer_tail \in 0 .. IndexRange - 1
  BY KeyboardAssumption DEF TypeOK
<1>2. Advance(buffer_head) = IF buffer_head = IndexRange - 1 THEN 0 ELSE buffer_head + 1
  BY <1>1, AdvanceStep
<1>3. QED BY <1>1, <1>2 DEF Count, Slot

\* What a push does to the ring: one more character at the end.
LEMMA PushEffect ==
  ASSUME TypeOK, NEW c \in Char, buffer_push(c), UNCHANGED buffer_tail,
         Advance(buffer_head) # buffer_tail
  PROVE  /\ Count' = Count + 1
         /\ \A i \in Nat : Slot(i)' = Slot(i)
         /\ \A i \in 1 .. Count : keyboard_buffer'[Slot(i)] = keyboard_buffer[Slot(i)]
         /\ keyboard_buffer'[Slot(Count + 1)] = c
<1>1. /\ IndexRange \in Nat /\ IndexRange >= 2
      /\ BufferSize \in Nat /\ IndexRange <= BufferSize
      /\ buffer_head \in 0 .. IndexRange - 1
      /\ buffer_tail \in 0 .. IndexRange - 1
      /\ keyboard_buffer \in [0 .. BufferSize - 1 -> Char \cup {NUL}]
  BY KeyboardAssumption DEF TypeOK
<1>2. /\ keyboard_buffer' = [keyboard_buffer EXCEPT ![buffer_head] = c]
      /\ buffer_head' = IF buffer_head = IndexRange - 1 THEN 0 ELSE buffer_head + 1
      /\ buffer_head' # buffer_tail
      /\ buffer_tail' = buffer_tail
  BY <1>1, AdvanceStep DEF buffer_push
<1>3. Count' = Count + 1
  BY <1>1, <1>2 DEF Count
<1>4. \A i \in Nat : Slot(i)' = Slot(i)
  BY <1>2 DEF Slot
<1>5. \A i \in 1 .. Count : Slot(i) \in 0 .. BufferSize - 1 /\ Slot(i) # buffer_head
  BY <1>1, RingGeometry
<1>6. QED BY <1>1, <1>2, <1>3, <1>4, <1>5, RingGeometry

\* What finishing a pop does to the ring: its first character is gone.
LEMMA AdvanceEffect ==
  ASSUME TypeOK, PopAdvance, buffer_head # buffer_tail
  PROVE  /\ Count' = Count - 1
         /\ \A i \in 1 .. Count - 1 : Slot(i)' = Slot(i + 1)
<1>1. /\ IndexRange \in Nat /\ IndexRange >= 2
      /\ buffer_head \in 0 .. IndexRange - 1
      /\ buffer_tail \in 0 .. IndexRange - 1
  BY KeyboardAssumption DEF TypeOK
<1>2. /\ buffer_tail' = IF buffer_tail = IndexRange - 1 THEN 0 ELSE buffer_tail + 1
      /\ buffer_head' = buffer_head
  BY <1>1, AdvanceStep DEF PopAdvance
<1>3. QED BY <1>1, <1>2 DEF Count, Slot

(***************************************************************************)
(* No index of keyboard.c leaves the ring buffer, whichever scan codes     *)
(* arrive and wherever keyboard_pop is when they do.                       *)
(***************************************************************************)
THEOREM TypeCorrect == Spec => []TypeOK
<1>1. Init => TypeOK
  <2>1. Init => shift_pressed \in BOOLEAN /\ dropped \in BOOLEAN
    BY DEF Init, keyboard_init
  <2>2. Init => /\ buffer_head \in 0 .. IndexRange - 1
                /\ buffer_tail \in 0 .. IndexRange - 1
    BY KeyboardAssumption DEF Init, keyboard_init
  <2>3. QED BY <2>1, <2>2 DEF Init, TypeOK
<1>2. TypeOK /\ [Next]_keyboardVars => TypeOK'
  <2> SUFFICES ASSUME TypeOK, [Next]_keyboardVars PROVE TypeOK'
    OBVIOUS
  <2> USE KeyboardAssumption DEF TypeOK
  <2>1. ASSUME NEW scan_code \in ScanCodes, keyboard_irq_handler(scan_code)
        PROVE  TypeOK'
    <3>1. CASE ShiftDown(scan_code)
      BY <2>1, <3>1 DEF keyboard_irq_handler, ShiftDown, ring, popVars
    <3>2. CASE ShiftUp(scan_code)
      BY <2>1, <3>2 DEF keyboard_irq_handler, ShiftUp, ring, popVars
    <3>3. CASE IgnoreBreak(scan_code)
      BY <2>1, <3>3 DEF keyboard_irq_handler, IgnoreBreak, ring, popVars
    <3>4. CASE KeyDown(scan_code)
      <4>1. Translate(scan_code) \in Char \cup {NUL}
        BY <3>4 DEF KeyDown, Translate
      <4>2. Advance(buffer_head) \in 0 .. IndexRange - 1
        BY AdvanceStep
      <4>3. QED
        BY <2>1, <3>4, <4>1, <4>2
           DEF keyboard_irq_handler, KeyDown, buffer_push, ring, popVars
    <3>5. QED BY <2>1, <3>1, <3>2, <3>3, <3>4 DEF keyboard_irq_handler
  <2>2. CASE PopTest
    BY <2>2 DEF PopTest, ring
  <2>3. CASE PopRead
    BY <2>3 DEF PopRead, ring
  <2>4. CASE PopAdvance
    BY <2>4, AdvanceStep DEF PopAdvance
  <2>5. CASE UNCHANGED keyboardVars
    BY <2>5 DEF keyboardVars, ring, popVars
  <2>6. QED BY <2>1, <2>2, <2>3, <2>4, <2>5 DEF Next, keyboard_pop
<1>3. QED BY <1>1, <1>2, PTL DEF Spec

\* One step of the handler, as the ring sees it.
LEMMA HandlerCases ==
  ASSUME TypeOK, NEW scan_code \in ScanCodes, keyboard_irq_handler(scan_code)
  PROVE  /\ UNCHANGED popVars
         /\ \/ UNCHANGED ring
            \/ \E c \in Char : buffer_push(c)
<1>1. KeyDown(scan_code) => UNCHANGED ring \/ \E c \in Char : buffer_push(c)
  BY KeyboardAssumption DEF KeyDown, Translate
<1>2. QED
  BY <1>1 DEF keyboard_irq_handler, ShiftDown, ShiftUp, IgnoreBreak

(***************************************************************************)
(* An interrupt between keyboard_pop's emptiness test, its read and its    *)
(* advance never takes away the character it is about to return.           *)
(***************************************************************************)
THEOREM PopSafe == Spec => []PopUndisturbed
<1>1. Init => PopUndisturbed
  BY DEF Init, keyboard_init, PopUndisturbed, Count
<1>2. TypeOK /\ TypeOK' /\ PopUndisturbed /\ [Next]_keyboardVars => PopUndisturbed'
  <2> SUFFICES ASSUME TypeOK, TypeOK', PopUndisturbed, [Next]_keyboardVars
               PROVE  PopUndisturbed'
    OBVIOUS
  <2>1. CASE UNCHANGED <<ring, popVars>>
    BY <2>1 DEF PopUndisturbed, ring, popVars, Count, Slot
  <2>2. ASSUME NEW c \in Char, buffer_push(c), UNCHANGED popVars
        PROVE  PopUndisturbed'
    <3>1. CASE Advance(buffer_head) = buffer_tail
      BY <2>2, <3>1 DEF buffer_push, popVars, PopUndisturbed, Count, Slot
    <3>2. CASE Advance(buffer_head) # buffer_tail
      <4>1. /\ buffer_head' # buffer_tail'
            /\ UNCHANGED <<buffer_tail, pop_pc, character>>
        BY <2>2, <3>2 DEF buffer_push, popVars
      <4>2. /\ Count' = Count + 1
            /\ \A i \in Nat : Slot(i)' = Slot(i)
            /\ \A i \in 1 .. Count : keyboard_buffer'[Slot(i)] = keyboard_buffer[Slot(i)]
            /\ keyboard_buffer'[Slot(Count + 1)] = c
        BY <2>2, <3>2, <4>1, PushEffect
      <4>3. Count \in Nat /\ (Count = 0 <=> buffer_head = buffer_tail) /\ Slot(1) = buffer_tail
        BY RingGeometry, KeyboardAssumption
      <4>4. (\A i \in 1 .. Count : keyboard_buffer[Slot(i)] \in Char)'
        BY <4>2, <4>3 DEF PopUndisturbed
      <4>5. pop_pc' = "advance" => character' = keyboard_buffer'[buffer_tail']
        BY <4>1, <4>2, <4>3 DEF PopUndisturbed
      <4>6. QED BY <4>1, <4>4, <4>5 DEF PopUndisturbed
    <3>3. QED BY <3>1, <3>2
  <2>3. ASSUME NEW scan_code \in ScanCodes, keyboard_irq_handler(scan_code)
        PROVE  PopUndisturbed'
    BY <2>1, <2>2, <2>3, HandlerCases
  <2>4. CASE PopTest
    BY <2>4 DEF PopTest, PopUndisturbed, ring, Count, Slot
  <2>5. CASE PopRead
    BY <2>5 DEF PopRead, PopUndisturbed, ring, Count, Slot
  <2>6. CASE PopAdvance
    <3>1. /\ Count' = Count - 1
          /\ \A i \in 1 .. Count - 1 : Slot(i)' = Slot(i + 1)
      BY <2>6, AdvanceEffect DEF PopUndisturbed, PopAdvance
    <3>2. Count \in Nat
      BY RingGeometry, KeyboardAssumption
    <3>3. keyboard_buffer' = keyboard_buffer /\ pop_pc' = "idle"
      BY <2>6 DEF PopAdvance
    <3>4. QED BY <3>1, <3>2, <3>3 DEF PopUndisturbed
  <2>7. CASE UNCHANGED keyboardVars
    BY <2>1, <2>7 DEF keyboardVars
  <2>8. QED BY <2>3, <2>4, <2>5, <2>6, <2>7 DEF Next, keyboard_pop
<1>3. QED BY <1>1, <1>2, TypeCorrect, PTL DEF Spec

\* Queue is the sequence of the characters in the ring.
LEMMA QueueIsSeq ==
  ASSUME TypeOK, PopUndisturbed
  PROVE  /\ Queue \in Seq(Char) /\ Len(Queue) = Count
         /\ Count \in Nat
         /\ \A i \in 1 .. Count : Queue[i] = keyboard_buffer[Slot(i)]
<1>1. Count \in Nat
  BY RingGeometry, KeyboardAssumption
<1>2. Queue \in [1 .. Count -> Char]
  BY DEF Queue, PopUndisturbed
<1>3. QED BY <1>1, <1>2 DEF Queue

(***************************************************************************)
(* keyboard.c implements the bounded FIFO: under every interleaving of the *)
(* IRQ handler with the three accesses of keyboard_pop, characters come    *)
(* out in the order they went in, once each, and one is discarded only     *)
(* when IndexRange - 1 are waiting.                                        *)
(***************************************************************************)
THEOREM FifoRefinement == Spec => ImplementsFifo
<1>1. Init => Fifo!FifoInit
  <2>1. Init => Queue = << >>
    BY DEF Init, keyboard_init, Queue, Count
  <2>2. QED BY <2>1 DEF Init, Fifo!FifoInit
<1>2. /\ TypeOK /\ TypeOK' /\ PopUndisturbed /\ PopUndisturbed'
      /\ [Next]_keyboardVars
      => [Fifo!FifoNext]_(Fifo!fifoVars)
  <2> SUFFICES ASSUME TypeOK, TypeOK', PopUndisturbed, PopUndisturbed', [Next]_keyboardVars
               PROVE  Fifo!FifoNext \/ UNCHANGED Fifo!fifoVars
    OBVIOUS
  <2> DEFINE Q == Queue  QN == Queue'
  <2>0. /\ Q \in Seq(Char) /\ Len(Q) = Count /\ Count \in Nat
        /\ \A i \in 1 .. Count : Q[i] = keyboard_buffer[Slot(i)]
    BY QueueIsSeq
  <2>00. /\ QN \in Seq(Char) /\ Len(QN) = Count' /\ Count' \in Nat
         /\ \A i \in 1 .. Count' : QN[i] = keyboard_buffer'[Slot(i)']
    <3>0. /\ buffer_head' \in 0 .. IndexRange - 1
          /\ buffer_tail' \in 0 .. IndexRange - 1
          /\ IndexRange \in Nat
      BY KeyboardAssumption DEF TypeOK
    <3>1. Count' \in Nat
      <4>1. \A h, t \in 0 .. IndexRange - 1 :
              (IF h >= t THEN h - t ELSE h + IndexRange - t) \in Nat
        BY <3>0
      <4>2. QED BY <3>0, <4>1, Zenon DEF Count
    <3>2. QN \in [1 .. Count' -> Char]
      BY DEF Queue, PopUndisturbed
    <3>3. QED BY <3>1, <3>2 DEF Queue
  <2>1. CASE UNCHANGED <<keyboard_buffer, buffer_head, buffer_tail, popped, dropped>>
    BY <2>1 DEF Fifo!fifoVars, Queue, Count, Slot
  <2>2. ASSUME NEW c \in Char, buffer_push(c), UNCHANGED popVars
        PROVE  Fifo!FifoNext \/ UNCHANGED Fifo!fifoVars
    <3>1. UNCHANGED <<buffer_tail, popped>>
      BY <2>2 DEF popVars
    <3>2. CASE Advance(buffer_head) = buffer_tail
      <4>1. UNCHANGED <<keyboard_buffer, buffer_head>> /\ dropped' = TRUE
        BY <2>2, <3>2 DEF buffer_push
      <4>2. QN = Q
        BY <3>1, <4>1 DEF Queue, Count, Slot
      <4>3. Len(Q) = IndexRange - 1
        BY <2>0, <3>2, RingGeometry
      <4>4. Fifo!Refuse
        BY <3>1, <4>1, <4>2, <4>3 DEF Fifo!Refuse
      <4>5. QED BY <4>4 DEF Fifo!FifoNext
    <3>3. CASE Advance(buffer_head) # buffer_tail
      <4>1. /\ Count' = Count + 1
            /\ \A i \in Nat : Slot(i)' = Slot(i)
            /\ \A i \in 1 .. Count : keyboard_buffer'[Slot(i)] = keyboard_buffer[Slot(i)]
            /\ keyboard_buffer'[Slot(Count + 1)] = c
        BY <2>2, <3>1, <3>3, PushEffect
      <4>2. \A i \in 1 .. Count + 1 : QN[i] = IF i <= Count THEN Q[i] ELSE c
        BY <2>0, <2>00, <4>1
      <4>3. QN = Append(Q, c)
        <5>1. Append(Q, c) \in Seq(Char) /\ Len(Append(Q, c)) = Count + 1
          BY <2>0
        <5>2. \A i \in 1 .. Count + 1 : Append(Q, c)[i] = IF i <= Count THEN Q[i] ELSE c
          BY <2>0
        <5>3. \A i \in 1 .. Len(QN) : QN[i] = Append(Q, c)[i]
          BY <2>00, <4>1, <4>2, <5>2
        <5> HIDE DEF Q, QN
        <5>4. QED BY <2>00, <4>1, <5>1, <5>3, SeqEqual
      <4>4. Len(Q) < IndexRange - 1
        BY <2>0, <3>3, RingGeometry, KeyboardAssumption
      <4>5. dropped' = FALSE
        BY <2>2, <3>3 DEF buffer_push
      <4>6. Fifo!Put(c)
        BY <3>1, <4>3, <4>4, <4>5 DEF Fifo!Put
      <4>7. QED BY <4>6 DEF Fifo!FifoNext
    <3>4. QED BY <3>2, <3>3
  <2>3. ASSUME NEW scan_code \in ScanCodes, keyboard_irq_handler(scan_code)
        PROVE  Fifo!FifoNext \/ UNCHANGED Fifo!fifoVars
    <3>1. /\ UNCHANGED popVars
          /\ \/ UNCHANGED ring
             \/ \E c \in Char : buffer_push(c)
      BY <2>3, HandlerCases
    <3>2. QED BY <2>1, <2>2, <3>1 DEF ring, popVars
  <2>4. CASE PopTest
    <3>1. CASE buffer_head = buffer_tail
      <4>1. Q = << >> /\ QN = Q
        <5>1. Count = 0
          BY <3>1, RingGeometry
        <5>2. QN = Q
          BY <2>4 DEF PopTest, ring, Queue, Count, Slot
        <5>3. QED BY <2>0, <5>1, <5>2
      <4>2. Fifo!GetNothing
        BY <2>4, <3>1, <4>1 DEF PopTest, ring, Fifo!GetNothing
      <4>3. QED BY <4>2 DEF Fifo!FifoNext
    <3>2. CASE buffer_head # buffer_tail
      BY <2>1, <2>4, <3>2 DEF PopTest, ring
    <3>3. QED BY <3>1, <3>2
  <2>5. CASE PopRead
    BY <2>1, <2>5 DEF PopRead, ring
  <2>6. CASE PopAdvance
    <3>1. buffer_head # buffer_tail /\ character = keyboard_buffer[buffer_tail]
      BY <2>6 DEF PopUndisturbed, PopAdvance
    <3>2. /\ Count' = Count - 1 /\ Count > 0 /\ Slot(1) = buffer_tail
          /\ \A i \in 1 .. Count - 1 : Slot(i)' = Slot(i + 1)
      BY <2>0, <2>6, <3>1, AdvanceEffect, RingGeometry
    <3>3. Q # << >> /\ popped' = Head(Q)
      BY <2>0, <2>6, <3>1, <3>2 DEF PopAdvance
    <3>4. keyboard_buffer' = keyboard_buffer
      BY <2>6 DEF PopAdvance
    <3>5. QN = Tail(Q)
      <4>1. Tail(Q) \in Seq(Char) /\ Len(Tail(Q)) = Count - 1
        BY <2>0, <3>2, <3>3
      <4>2. \A i \in 1 .. Count - 1 : Tail(Q)[i] = Q[i + 1]
        BY <2>0, <3>2, <3>3
      <4>3. \A i \in 1 .. Len(QN) : QN[i] = Tail(Q)[i]
        BY <2>0, <2>00, <3>2, <3>4, <4>2
      <4> HIDE DEF Q, QN
      <4>4. QED BY <2>00, <3>2, <4>1, <4>3, SeqEqual
    <3>6. Fifo!Get
      BY <2>6, <3>3, <3>5 DEF PopAdvance, Fifo!Get
    <3>7. QED BY <3>6 DEF Fifo!FifoNext
  <2>7. CASE UNCHANGED keyboardVars
    BY <2>1, <2>7 DEF keyboardVars, ring, popVars
  <2>8. QED BY <2>3, <2>4, <2>5, <2>6, <2>7 DEF Next, keyboard_pop
<1>3. QED
  BY <1>1, <1>2, TypeCorrect, PopSafe, PTL DEF Spec, ImplementsFifo, Fifo!FifoSpec

-----------------------------------------------------------------------------
\* The calls of kmain before interrupts_enable has run.
EarlySteps == BootSteps \ {"runtime_autorun"}

(***************************************************************************)
(* What kmain has set up by the time it reaches each of its calls.         *)
(***************************************************************************)
BootOrder ==
  /\ pc \in EarlySteps => ~interrupts /\ stack = << >>
  /\ pc # "idt_init" => idt_loaded
  /\ pc \notin {"idt_init", "pic_remap"} => master_base = 32 /\ slave_base = 40
  /\ pc \notin {"idt_init", "pic_remap", "pic_set_masks"} => DISK \in imr

(***************************************************************************)
(* Until keyboard_init has run, the ring is as the static initialisers     *)
(* left it.                                                                *)
(***************************************************************************)
RingFresh ==
  pc \in {"idt_init", "pic_remap", "pic_set_masks", "pit_init", "keyboard_init"} =>
    buffer_head = 0 /\ buffer_tail = 0 /\ shift_pressed = FALSE

(***************************************************************************)
(* A request of the keyboard means a byte to read, and none is made while  *)
(* its handler is about to read one; a handler that has acknowledged       *)
(* leaves nothing in service.                                              *)
(***************************************************************************)
LinesMatch ==
  /\ KEYBOARD \in irr => output_buffer # EMPTY
  /\ InBody("keyboard") => KEYBOARD \notin irr
  /\ stack # << >> /\ Top.done => isr = {}

(***************************************************************************)
(* The types of the machine's own variables (those of the ring are         *)
(* Keyboard's), with at most one frame on the stack.                       *)
(***************************************************************************)
OwnTypes ==
  /\ pc \in BootSteps \cup ShellSteps \cup RebootSteps
  /\ interrupts \in BOOLEAN
  /\ stack = << >> \/ \E f \in Frame : stack = <<f>>
  /\ idt_loaded \in BOOLEAN
  /\ master_base \in {8, 32} /\ slave_base \in {112, 40}
  /\ irr \subseteq Irq /\ isr \subseteq Irq /\ imr \subseteq Irq \cup {CASCADE}
  /\ output_buffer \in ScanCodes \cup {EMPTY}
  /\ current_ticks \in 0 .. TickRange - 1
  /\ input_length \in 0 .. InputSize - 1
  /\ machine_reset \in BOOLEAN

Quiet == stack # << >> => ~interrupts

MachineInv ==
  /\ OwnTypes
  /\ BootOrder
  /\ RingFresh
  /\ LinesMatch
  /\ Quiet
  /\ Acknowledged

-----------------------------------------------------------------------------
\* A stack of one frame.
LEMMA OneFrame ==
  ASSUME NEW f \in Frame
  PROVE  /\ <<f>> # << >> /\ Len(<<f>>) = 1 /\ <<f>>[1] = f
         /\ SubSeq(<<f>>, 1, Len(<<f>>) - 1) = << >>
         /\ Append(<< >>, f) = <<f>>
<1>1. <<f>> # << >> /\ Len(<<f>>) = 1 /\ <<f>>[1] = f
  OBVIOUS
<1>2. SubSeq(<<f>>, 1, Len(<<f>>) - 1) = << >>
  BY <1>1
<1>3. Append(<< >>, f) = <<f>>
  OBVIOUS
<1>4. QED BY <1>1, <1>2, <1>3

\* The top of such a stack, before and after a step.
LEMMA TopFrame ==
  ASSUME NEW f \in Frame
  PROVE  /\ stack = <<f>> => Top = f
         /\ stack' = <<f>> => Top' = f
BY OneFrame DEF Top

\* An interrupt taken with nothing on the stack.
LEMMA Entered ==
  ASSUME OwnTypes, NEW v, idt_loaded, stack = << >>, Enter(v)
  PROVE  \E f \in Frame : /\ stack' = <<f>>
                         /\ f.stub = Gate(v) /\ f.saved = interrupts /\ f.done = FALSE
                         /\ interrupts' = FALSE
                         /\ machine_reset' = machine_reset
<1> DEFINE f == [stub |-> Gate(v), saved |-> interrupts, done |-> FALSE]
<1>1. f \in Frame
  BY DEF OwnTypes, Gate, Frame, Stub
<1>2. stack' = Append(stack, f) /\ interrupts' = (interrupts /\ FALSE)
      /\ machine_reset' = machine_reset
  BY DEF Enter, GateLeavesIF
<1>3. interrupts' = FALSE
  BY <1>2
<1>4. stack' = <<f>>
  BY <1>1, <1>2, OneFrame
<1>5. f.stub = Gate(v) /\ f.saved = interrupts /\ f.done = FALSE
  OBVIOUS
<1>6. QED BY <1>1, <1>2, <1>3, <1>4, <1>5

\* What the end of interrupt does when one line of the first controller is in service.
LEMMA EoiClears ==
  ASSUME NEW irq \in {TIMER, KEYBOARD}, isr = {irq}, pic_send_eoi
  PROVE  isr' = {}
BY DEF pic_send_eoi, TIMER, KEYBOARD

\* A handler's body is finished.
LEMMA Finished ==
  ASSUME NEW f \in Frame, stack = <<f>>, Finish
  PROVE  \E g \in Frame : stack' = <<g>> /\ g.done = TRUE /\ g.stub = f.stub /\ g.saved = f.saved
<1> DEFINE g == [f EXCEPT !.done = TRUE]
<1>1. g \in Frame /\ g.done = TRUE /\ g.stub = f.stub /\ g.saved = f.saved
  BY DEF Frame
<1>2. stack' = <<g>>
  <2>1. stack' = [<<f>> EXCEPT ![1].done = TRUE]
    BY OneFrame DEF Finish
  <2>2. stack' = [<<f>> EXCEPT ![1] = g]
    BY <2>1, OneFrame
  <2> HIDE DEF g
  <2>3. \A x : [<<f>> EXCEPT ![1] = x] = <<x>>
    OBVIOUS
  <2>4. QED BY <2>2, <2>3
<1>3. QED BY <1>1, <1>2

-----------------------------------------------------------------------------
\* A step of kmain.
LEMMA BootKeepsInv ==
  ASSUME MachineInv, Boot
  PROVE  MachineInv'
<1> USE DEF At, MachineInv
<1>1. stack = << >> /\ stack' = << >> /\ isr = {} /\ isr' = {} /\ ~machine_reset /\ ~machine_reset'
  BY DEF Boot, idt_init, pic_remap, VectorBases, pic_set_masks,
         MaskedLines, pit_init, InitKeyboard, runtime_init,
         interrupts_enable, runtime_autorun, Acknowledged, pic
<1>2. OwnTypes'
  <2>1. pc' \in BootSteps \cup ShellSteps
    BY DEF Boot, idt_init, pic_remap, VectorBases, pic_set_masks,
         MaskedLines, pit_init, InitKeyboard, runtime_init,
           interrupts_enable, runtime_autorun, BootSteps, ShellSteps
  <2>2. interrupts' \in BOOLEAN /\ idt_loaded' \in BOOLEAN
    BY Zenon DEF OwnTypes, Boot, idt_init, pic_remap, VectorBases, pic_set_masks,
         MaskedLines, pit_init, InitKeyboard,
           runtime_init, interrupts_enable, runtime_autorun
  <2>3. /\ master_base' \in {8, 32} /\ slave_base' \in {112, 40}
        /\ irr' \subseteq Irq /\ imr' \subseteq Irq \cup {CASCADE}
    BY DEF OwnTypes, Boot, idt_init, pic_remap, VectorBases, pic_set_masks,
         MaskedLines, pit_init, InitKeyboard,
           runtime_init, interrupts_enable, runtime_autorun, pic, Irq, DISK
  <2>4. UNCHANGED <<output_buffer, current_ticks, input_length, machine_reset>>
    BY DEF Boot, idt_init, pic_remap, VectorBases, pic_set_masks,
         MaskedLines, pit_init, InitKeyboard,
           runtime_init, interrupts_enable, runtime_autorun, devices
  <2>5. QED BY <1>1, <2>1, <2>2, <2>3, <2>4 DEF OwnTypes
<1>3. BootOrder'
  BY <1>1 DEF BootOrder, EarlySteps, Boot, idt_init, pic_remap, VectorBases, pic_set_masks,
         MaskedLines, pit_init,
         InitKeyboard, runtime_init, interrupts_enable, runtime_autorun, pic, BootSteps
<1>4. RingFresh'
  BY <1>1 DEF RingFresh, Boot, idt_init, pic_remap, VectorBases, pic_set_masks,
         MaskedLines, pit_init, InitKeyboard,
         runtime_init, interrupts_enable, runtime_autorun, keyboardVars, popVars, ring
<1>5. LinesMatch'
  BY <1>1 DEF LinesMatch, InBody, Boot, idt_init, pic_remap, VectorBases, pic_set_masks,
         MaskedLines, pit_init, InitKeyboard,
         runtime_init, interrupts_enable, runtime_autorun, pic, devices, KEYBOARD, DISK
<1>6. Quiet' /\ Acknowledged'
  BY <1>1 DEF Quiet, Acknowledged, InBody
<1>7. QED BY <1>2, <1>3, <1>4, <1>5, <1>6

\* A step of the shell other than the software interrupt.
LEMMA ShellKeepsInv ==
  ASSUME MachineInv,
         \/ ShellPop \/ cpu_halt \/ HandleCharacter \/ shell_execute
         \/ shell_reboot \/ interrupts_disable
  PROVE  MachineInv'
<1> USE DEF At, MachineInv
<1>1. /\ stack = << >> /\ stack' = << >> /\ isr = {} /\ ~machine_reset
      /\ UNCHANGED <<idt_loaded, pic, devices, machine_reset>>
      /\ pc \in ShellSteps \cup RebootSteps /\ pc' \in ShellSteps \cup RebootSteps
      /\ interrupts' \in {interrupts, FALSE}
  BY DEF ShellPop, cpu_halt, HandleCharacter, shell_execute, shell_reboot, interrupts_disable,
         ShellUnchanged, Acknowledged, ShellSteps, RebootSteps
<1>2. input_length' \in 0 .. InputSize - 1
  BY MachineAssumption DEF OwnTypes, ShellPop, cpu_halt, HandleCharacter, StoreCharacter,
         shell_execute, shell_reboot, interrupts_disable
<1>3. OwnTypes'
  BY <1>1, <1>2 DEF OwnTypes, pic, devices
<1>4. BootOrder' /\ RingFresh'
  BY <1>1 DEF BootOrder, RingFresh, EarlySteps, BootSteps, ShellSteps, RebootSteps, pic
<1>5. LinesMatch' /\ Quiet' /\ Acknowledged'
  BY <1>1 DEF LinesMatch, Quiet, Acknowledged, InBody, pic, devices
<1>6. QED BY <1>3, <1>4, <1>5

\* int 0x19 enters the default stub.
LEMMA SoftwareInterruptKeepsInv ==
  ASSUME MachineInv, SoftwareInterrupt
  PROVE  MachineInv'
<1> USE DEF MachineInv
<1>1. /\ pc = "int19" /\ pc' = "stopped" /\ stack = << >> /\ ~machine_reset /\ Enter(25)
      /\ UNCHANGED <<input_length, idt_loaded, pic, devices, keyboardVars>>
  BY DEF SoftwareInterrupt, At
<1>2. idt_loaded /\ isr = {}
  BY <1>1 DEF BootOrder, Acknowledged
<1>3. PICK f \in Frame : /\ stack' = <<f>>
                        /\ f.stub = Gate(25) /\ f.saved = interrupts /\ f.done = FALSE
                        /\ interrupts' = FALSE
                        /\ machine_reset' = machine_reset
  BY <1>1, <1>2, Entered
<1>4. Top' = f /\ stack' # << >>
  BY <1>3, TopFrame, OneFrame
<1>5. f.stub = "default"
  BY <1>3 DEF Gate
<1>6. OwnTypes'
  BY <1>1, <1>3 DEF OwnTypes, pic, devices, RebootSteps
<1>7. BootOrder' /\ RingFresh'
  BY <1>1 DEF BootOrder, RingFresh, EarlySteps, BootSteps, pic
<1>8. LinesMatch' /\ Quiet' /\ Acknowledged'
  BY <1>1, <1>2, <1>3, <1>4, <1>5 DEF LinesMatch, Quiet, Acknowledged, InBody, pic, devices
<1>9. QED BY <1>6, <1>7, <1>8

\* The CPU takes an interrupt: the controllers present the right vector, and
\* only the timer and the keyboard get through.
LEMMA DeliverKeepsInv ==
  ASSUME MachineInv, NEW irq \in Irq, Deliver(irq)
  PROVE  MachineInv'
<1> USE DEF MachineInv
<1>1. /\ interrupts /\ ~machine_reset /\ irq \in irr \ imr
      /\ irr' = irr \ {irq} /\ isr' = isr \cup {irq} /\ Enter(Vector(irq))
      /\ pc' \in {pc, "pop"}
      /\ UNCHANGED <<input_length, idt_loaded, master_base, slave_base, imr, devices, keyboardVars>>
  BY DEF Deliver, Pending
<1>2. stack = << >> /\ isr = {} /\ pc \notin EarlySteps
  BY <1>1 DEF Quiet, Acknowledged, BootOrder
<1>3. pc \notin {"idt_init", "pic_remap", "pic_set_masks", "pit_init", "keyboard_init"}
  BY <1>2 DEF EarlySteps, BootSteps
<1>4. idt_loaded /\ master_base = 32 /\ irq # DISK
  BY <1>1, <1>3 DEF BootOrder
<1>5. irq \in {TIMER, KEYBOARD}
  BY <1>4 DEF Irq
<1>6. Gate(Vector(irq)) = IF irq = TIMER THEN "timer" ELSE "keyboard"
  BY <1>4, <1>5 DEF Gate, Vector, TIMER, KEYBOARD
<1>7. PICK f \in Frame : /\ stack' = <<f>>
                        /\ f.stub = Gate(Vector(irq)) /\ f.saved = interrupts /\ f.done = FALSE
                        /\ interrupts' = FALSE
                        /\ machine_reset' = machine_reset
  BY <1>1, <1>2, <1>4, Entered
<1>8. Top' = f /\ stack' # << >>
  BY <1>7, TopFrame, OneFrame
<1>9. OwnTypes'
  BY <1>1, <1>7 DEF OwnTypes, devices, ShellSteps
<1>10. BootOrder' /\ RingFresh'
  BY <1>1, <1>2, <1>3 DEF BootOrder, RingFresh, EarlySteps, BootSteps
<1>11. LinesMatch' /\ Quiet'
  BY <1>1, <1>5, <1>6, <1>7, <1>8 DEF LinesMatch, Quiet, InBody, devices
<1>12. Acknowledged'
  <2>1. isr' = {irq} /\ TIMER # KEYBOARD
    BY <1>1, <1>2 DEF TIMER, KEYBOARD
  <2>2. irq = KEYBOARD => output_buffer' # EMPTY
    BY <1>1 DEF LinesMatch, devices
  <2>3. QED BY <1>1, <1>5, <1>6, <1>7, <1>8, <2>1, <2>2 DEF Acknowledged, InBody
<1>13. QED BY <1>9, <1>10, <1>11, <1>12

\* The C handlers: each acknowledges the line it was entered for.
LEMMA HandlerKeepsInv ==
  ASSUME MachineInv, Handler
  PROVE  MachineInv'
<1> USE DEF MachineInv
<1>1. /\ stack # << >> /\ ~Top.done /\ Finish
      /\ UNCHANGED <<pc, input_length, interrupts, idt_loaded, master_base, slave_base, irr, imr,
                     machine_reset>>
  BY DEF Handler, pit_irq_handler, ReadKeyboard, interrupt_default_handler, InBody, thread, pic
<1>2. PICK f \in Frame : stack = <<f>>
  BY <1>1 DEF OwnTypes
<1>3. PICK g \in Frame : stack' = <<g>> /\ g.done = TRUE
  BY <1>1, <1>2, Finished
<1>4. Top' = g /\ stack' # << >>
  BY <1>3, TopFrame, OneFrame
<1>5. isr' = {}
  <2>1. CASE pit_irq_handler
    BY <2>1, EoiClears DEF pit_irq_handler, Acknowledged
  <2>2. CASE ReadKeyboard
    BY <2>2, EoiClears DEF ReadKeyboard, ShiftPressed, ShiftReleased, KeyReleased, KeyPressed,
                           Acknowledged
  <2>3. CASE interrupt_default_handler
    BY <2>3 DEF interrupt_default_handler, Acknowledged, pic
  <2>4. QED BY <2>1, <2>2, <2>3 DEF Handler
<1>6. pc \notin EarlySteps /\ ~interrupts
  BY <1>1 DEF BootOrder, Quiet
<1>7. OwnTypes'
  <2>1. output_buffer' \in ScanCodes \cup {EMPTY}
    BY DEF OwnTypes, Handler, pit_irq_handler, ReadKeyboard, interrupt_default_handler, devices
  <2>2. current_ticks' \in 0 .. TickRange - 1
    BY MachineAssumption
    DEF OwnTypes, Handler, pit_irq_handler, ReadKeyboard, interrupt_default_handler, devices
  <2>3. QED BY <1>1, <1>3, <1>5, <2>1, <2>2 DEF OwnTypes
<1>8. BootOrder' /\ RingFresh'
  BY <1>1, <1>6 DEF BootOrder, RingFresh, EarlySteps, BootSteps
<1>9. KEYBOARD \in irr' => output_buffer' # EMPTY
  <2>1. CASE ReadKeyboard
    BY <1>1, <2>1 DEF ReadKeyboard, LinesMatch
  <2>2. CASE pit_irq_handler \/ interrupt_default_handler
    BY <1>1, <2>2 DEF pit_irq_handler, interrupt_default_handler, devices, LinesMatch
  <2>3. QED BY <2>1, <2>2 DEF Handler
<1>10. QED BY <1>1, <1>3, <1>4, <1>5, <1>6, <1>7, <1>8, <1>9
           DEF LinesMatch, Quiet, Acknowledged, InBody

\* The devices raise their lines.
LEMMA DeviceKeepsInv ==
  ASSUME MachineInv, TimerEdge \/ \E scan_code \in ScanCodes : KeyEvent(scan_code)
  PROVE  MachineInv'
<1> USE DEF MachineInv
<1>1. /\ UNCHANGED <<pc, input_length, interrupts, stack, idt_loaded, master_base, slave_base,
                     isr, imr, current_ticks, machine_reset, keyboardVars>>
      /\ irr' \subseteq Irq
  BY DEF TimerEdge, KeyEvent, thread, devices, OwnTypes, Irq
<1>2. output_buffer' \in ScanCodes \cup {EMPTY}
  BY DEF TimerEdge, KeyEvent, devices, OwnTypes
<1>3. \A scan_code \in ScanCodes : scan_code # EMPTY
  BY KeyboardAssumption DEF EMPTY
<1>4. OwnTypes'
  BY <1>1, <1>2 DEF OwnTypes
<1>5. BootOrder' /\ RingFresh' /\ Quiet'
  BY <1>1 DEF BootOrder, RingFresh, Quiet, keyboardVars, ring, popVars
<1>6. LinesMatch' /\ Acknowledged'
  <2>1. CASE TimerEdge
    BY <1>1, <2>1
    DEF TimerEdge, LinesMatch, Acknowledged, InBody, Top, devices, TIMER, KEYBOARD
  <2>2. CASE \E scan_code \in ScanCodes : KeyEvent(scan_code)
    BY <1>1, <1>3, <2>2 DEF KeyEvent, LinesMatch, Acknowledged, InBody, Top
  <2>3. QED BY <2>1, <2>2
<1>7. QED BY <1>4, <1>5, <1>6

\* The stub returns.
LEMMA IretKeepsInv ==
  ASSUME MachineInv, Iret
  PROVE  MachineInv'
<1> USE DEF MachineInv
<1>1. /\ stack # << >> /\ Top.done
      /\ interrupts' = Top.saved /\ stack' = SubSeq(stack, 1, Len(stack) - 1)
      /\ UNCHANGED <<pc, input_length, idt_loaded, pic, devices, machine_reset, keyboardVars>>
  BY DEF Iret, thread
<1>2. PICK f \in Frame : stack = <<f>>
  BY <1>1 DEF OwnTypes
<1>3. stack' = << >> /\ isr = {}
  BY <1>1, <1>2, OneFrame DEF LinesMatch
<1>4. interrupts' \in BOOLEAN
  BY <1>1, <1>2, TopFrame DEF Frame
<1>5. OwnTypes'
  BY <1>1, <1>3, <1>4 DEF OwnTypes, pic, devices
<1>6. BootOrder' /\ RingFresh'
  BY <1>1 DEF BootOrder, RingFresh, pic, keyboardVars, ring, popVars
<1>7. LinesMatch' /\ Quiet' /\ Acknowledged'
  BY <1>1, <1>3 DEF LinesMatch, Quiet, Acknowledged, InBody, pic, devices
<1>8. QED BY <1>5, <1>6, <1>7

(***************************************************************************)
(* The inductive invariant: kmain's order, the lines, the stack.           *)
(***************************************************************************)
THEOREM MachineInvariance == MachineSpec => []MachineInv
<1>1. MachineInit => MachineInv
  <2> SUFFICES ASSUME MachineInit PROVE MachineInv
    OBVIOUS
  <2>1. OwnTypes
    <3>1. 0 \in 0 .. TickRange - 1 /\ 0 \in 0 .. InputSize - 1
      BY MachineAssumption
    <3>2. interrupts \in BOOLEAN /\ idt_loaded \in BOOLEAN /\ machine_reset \in BOOLEAN
      BY Zenon DEF MachineInit
    <3>3. QED BY <3>1, <3>2 DEF MachineInit, OwnTypes, BootSteps
  <2>2. BootOrder /\ Quiet /\ LinesMatch /\ Acknowledged
    BY DEF MachineInit, BootOrder, Quiet, LinesMatch, Acknowledged, InBody
  <2>3. RingFresh
    BY DEF MachineInit, Init, keyboard_init, RingFresh
  <2>4. QED BY <2>1, <2>2, <2>3 DEF MachineInv
<1>2. MachineInv /\ [MachineNext]_machineVars => MachineInv'
  <2> SUFFICES ASSUME MachineInv, [MachineNext]_machineVars PROVE MachineInv'
    OBVIOUS
  <2>1. CASE Boot
    BY <2>1, BootKeepsInv
  <2>2. CASE Shell
    BY <2>2, ShellKeepsInv, SoftwareInterruptKeepsInv DEF Shell
  <2>3. CASE TimerEdge \/ \E scan_code \in ScanCodes : KeyEvent(scan_code)
    BY <2>3, DeviceKeepsInv
  <2>4. CASE \E irq \in Irq : Deliver(irq)
    BY <2>4, DeliverKeepsInv
  <2>5. CASE Handler
    BY <2>5, HandlerKeepsInv
  <2>6. CASE Iret
    BY <2>6, IretKeepsInv
  <2>7. CASE UNCHANGED machineVars
    BY <2>7 DEF machineVars, thread, pic, devices, keyboardVars, ring, popVars, MachineInv,
         OwnTypes, BootOrder, RingFresh, LinesMatch, Quiet, Acknowledged, InBody, Top
  <2>8. QED BY <2>1, <2>2, <2>3, <2>4, <2>5, <2>6, <2>7 DEF MachineNext, Main
<1>3. QED BY <1>1, <1>2, PTL DEF MachineSpec

(***************************************************************************)
(* No handler is interrupted, and the one kernel stack never holds more    *)
(* than one interrupt frame.                                               *)
(***************************************************************************)
THEOREM OneHandlerAtATime == MachineSpec => []OneHandler
<1>1. MachineInv => OneHandler
  <2> SUFFICES ASSUME MachineInv PROVE OneHandler
    OBVIOUS
  <2>1. CASE stack = << >>
    BY <2>1 DEF OneHandler
  <2>2. CASE \E f \in Frame : stack = <<f>>
    BY <2>2, OneFrame DEF MachineInv, Quiet, OneHandler
  <2>3. QED BY <2>1, <2>2 DEF MachineInv, OwnTypes
<1>2. QED BY <1>1, MachineInvariance, PTL

(***************************************************************************)
(* Every interrupt the CPU accepts runs its own handler, which             *)
(* acknowledges it on each of its paths, and finds a byte to read if it is *)
(* the keyboard's; the machine never resets.                               *)
(***************************************************************************)
THEOREM EveryLineAcknowledged == MachineSpec => []Acknowledged
BY MachineInvariance, PTL DEF MachineInv

(***************************************************************************)
(* The machine implements Keyboard: kmain resets the ring before a handler *)
(* can run, and afterwards only the handler and keyboard_pop touch it.     *)
(***************************************************************************)
THEOREM KeyboardRefinement == MachineSpec => UsesKeyboard
<1>1. MachineInit => Init
  BY DEF MachineInit
<1>2. MachineInv /\ [MachineNext]_machineVars => [Next]_keyboardVars
  <2> SUFFICES ASSUME MachineInv, [MachineNext]_machineVars
               PROVE  Next \/ UNCHANGED keyboardVars
    OBVIOUS
  <2>1. CASE Boot
    BY <2>1 DEF MachineInv, RingFresh, Boot, idt_init, pic_remap, VectorBases, pic_set_masks,
         MaskedLines, pit_init,
         InitKeyboard, runtime_init, interrupts_enable, runtime_autorun, At, keyboardVars, ring,
         popVars
  <2>2. CASE ShellPop
    BY <2>2 DEF ShellPop, Next
  <2>3. CASE ReadKeyboard
    BY <2>3 DEF ReadKeyboard, ShiftPressed, ShiftReleased, KeyReleased, KeyPressed,
                keyboard_irq_handler, MachineInv, OwnTypes, Next
  <2>4. CASE \/ cpu_halt \/ HandleCharacter \/ shell_execute \/ shell_reboot
             \/ interrupts_disable \/ SoftwareInterrupt
    BY <2>4 DEF cpu_halt, HandleCharacter, shell_execute, shell_reboot, interrupts_disable,
         SoftwareInterrupt
  <2>5. CASE \/ TimerEdge \/ \E scan_code \in ScanCodes : KeyEvent(scan_code)
             \/ \E irq \in Irq : Deliver(irq)
    BY <2>5 DEF TimerEdge, KeyEvent, Deliver
  <2>6. CASE pit_irq_handler \/ interrupt_default_handler \/ Iret
    BY <2>6 DEF pit_irq_handler, interrupt_default_handler, Iret
  <2>7. CASE UNCHANGED machineVars
    BY <2>7 DEF machineVars
  <2>8. QED BY <2>1, <2>2, <2>3, <2>4, <2>5, <2>6, <2>7
           DEF MachineNext, Main, Shell, Handler
<1>3. QED BY <1>1, <1>2, MachineInvariance, PTL DEF MachineSpec, UsesKeyboard, Spec

(***************************************************************************)
(* Every variable of the machine keeps its type; for the ring's this is    *)
(* the theorem about Keyboard.                                             *)
(***************************************************************************)
THEOREM MachineTypeCorrect == MachineSpec => []MachineTypeOK
<1>1. MachineInv /\ TypeOK => MachineTypeOK
  <2> SUFFICES ASSUME MachineInv, TypeOK PROVE MachineTypeOK
    OBVIOUS
  <2>1. stack \in Seq(Frame)
    <3>1. << >> \in Seq(Frame) /\ \A f \in Frame : <<f>> \in Seq(Frame)
      OBVIOUS
    <3>2. QED BY <3>1, Zenon DEF MachineInv, OwnTypes
  <2>2. QED BY <2>1 DEF MachineInv, OwnTypes, MachineTypeOK
<1>2. MachineSpec => []TypeOK
  BY KeyboardRefinement, TypeCorrect, PTL DEF UsesKeyboard
<1>3. QED BY <1>1, <1>2, MachineInvariance, PTL

(***************************************************************************)
(* End to end: what the shell pops is what the handler pushed, in order    *)
(* and once each, from power-on and with every interrupt the hardware may  *)
(* raise.                                                                  *)
(***************************************************************************)
THEOREM MachineFifo == MachineSpec => ImplementsFifo
BY KeyboardRefinement, FifoRefinement, PTL DEF UsesKeyboard
=============================================================================
