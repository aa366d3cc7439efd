-------------------------------- MODULE Machine --------------------------------
(***************************************************************************)
(* The processor, the two 8259A interrupt controllers, the timer and the   *)
(* keyboard controller under the kernel's one thread of control:           *)
(* kernel/src/main.c (the order of initialisation), idt.c, pic.c, pit.c,   *)
(* kernel/interrupts.asm (the stubs) and the loop of shell.c.              *)
(*                                                                         *)
(* The thread runs kmain and then shell_run, one step per call that        *)
(* touches state shared with an interrupt.  An interrupt is three steps:   *)
(* the CPU takes it (Deliver), the C handler runs and acknowledges it, the *)
(* stub returns (Iret).  The ring of module Keyboard sits between the two. *)
(***************************************************************************)
EXTENDS Keyboard, FiniteSets

CONSTANTS
  InputSize,   \* sizeof(input_buffer), 128 in shell.c
  TickRange,   \* bound: current_ticks is kept modulo this (2^64 in the code)
  Backspace,   \* '\b'
  Newline      \* '\n'

ASSUME MachineAssumption ==
  /\ InputSize \in Nat \ {0}
  /\ TickRange \in Nat \ {0}
  /\ {Backspace, Newline} \subseteq Char

TIMER == 0
KEYBOARD == 1
CASCADE == 2         \* where the second controller is connected to the first
DISK == 14           \* the primary ATA channel, on the second controller
Irq == {TIMER, KEYBOARD, DISK}

EMPTY == 256         \* not a scan code: the controller's output buffer is empty

BootSteps == {"idt_init", "pic_remap", "pic_set_masks", "pit_init",
              "keyboard_init", "runtime_init", "interrupts_enable",
              "runtime_autorun"}
ShellSteps == {"pop", "handle", "execute", "hlt", "halted"}
RebootSteps == {"reboot", "int19", "stopped"}

VARIABLES
  pc,             \* what the kernel's thread does next
  interrupts,     \* RFLAGS.IF
  stack,          \* interrupt frames, innermost last
  idt_loaded,     \* lidt has been executed
  master_base,    \* vector of IRQ 0
  slave_base,     \* vector of IRQ 8
  irr, isr, imr,  \* requested, in service, masked lines
  output_buffer,  \* the 8042: a scan code not yet read from port 0x60, or EMPTY
  current_ticks,
  input_length,
  machine_reset   \* an interrupt found no valid gate: triple fault

pic == <<master_base, slave_base, irr, isr, imr>>
devices == <<output_buffer, current_ticks>>
thread == <<pc, input_length>>
machineVars == <<thread, interrupts, stack, idt_loaded, pic, devices, machine_reset,
                 keyboardVars>>

Stub == {"timer", "keyboard", "default"}
Frame == [stub : Stub, saved : BOOLEAN, done : BOOLEAN]

-----------------------------------------------------------------------------
\* The interrupt descriptor table that idt_init builds.

\* Mutant: type 0x8F, a trap gate, which leaves IF set.
TrapGate == TRUE

\* type_attributes = 0x8E: an interrupt gate, which clears IF on entry.
GateLeavesIF == FALSE

Gate(vector) ==
  CASE vector = 32 -> "timer"
    [] vector = 33 -> "keyboard"
    [] OTHER -> "default"

\* The vector at which the controllers present a line.
Vector(irq) == IF irq < 8 THEN master_base + irq ELSE slave_base + irq - 8

\* The CPU enters the gate of a vector, or resets when lidt has not run.
Enter(vector) ==
  IF idt_loaded
    THEN /\ stack' = Append(stack, [stub |-> Gate(vector), saved |-> interrupts,
                                    done |-> FALSE])
         /\ interrupts' = (interrupts /\ GateLeavesIF)
         /\ UNCHANGED machine_reset
    ELSE machine_reset' = TRUE /\ UNCHANGED <<stack, interrupts>>

-----------------------------------------------------------------------------
(***************************************************************************)
(* stage2.asm has run cli before it enters the kernel, the BIOS has left   *)
(* the lines unmasked at their real-mode vectors, and keys or ticks may    *)
(* already be waiting.                                                     *)
(***************************************************************************)
MachineInit ==
  /\ Init
  /\ pc = "idt_init"
  /\ interrupts = FALSE
  /\ stack = << >>
  /\ idt_loaded = FALSE
  /\ master_base = 8 /\ slave_base = 112
  /\ irr = {} /\ isr = {} /\ imr = {}
  /\ output_buffer = EMPTY
  /\ current_ticks = 0
  /\ input_length = 0
  /\ machine_reset = FALSE

-----------------------------------------------------------------------------
\* Devices.

TimerEdge ==
  /\ irr' = irr \cup {TIMER}
  /\ UNCHANGED <<thread, interrupts, stack, idt_loaded, master_base, slave_base,
                 isr, imr, devices, machine_reset, keyboardVars>>

\* The 8042 holds one byte and raises its line with it.
KeyEvent(scan_code) ==
  /\ output_buffer = EMPTY
  /\ output_buffer' = scan_code
  /\ irr' = irr \cup {KEYBOARD}
  /\ UNCHANGED <<thread, interrupts, stack, idt_loaded, master_base, slave_base,
                 isr, imr, current_ticks, machine_reset, keyboardVars>>

-----------------------------------------------------------------------------
\* Interrupts.

\* A request goes through when nothing of its own or a higher priority is in service;
\* one of the second controller must also pass the first one's mask.
Pending(irq) ==
  /\ irq \in irr \ imr
  /\ irq >= 8 => CASCADE \notin imr
  /\ \A other \in isr : other > irq

Deliver(irq) ==
  /\ interrupts /\ ~machine_reset
  /\ Pending(irq) /\ \A other \in Irq : Pending(other) => other >= irq
  /\ irr' = irr \ {irq}
  /\ isr' = isr \cup {irq}
  /\ Enter(Vector(irq))
  /\ pc' = IF pc = "halted" THEN "pop" ELSE pc
  /\ UNCHANGED <<input_length, idt_loaded, master_base, slave_base, imr, devices,
                 keyboardVars>>

Top == stack[Len(stack)]
InBody(stub) == stack # << >> /\ Top.stub = stub /\ ~Top.done
Finish == stack' = [stack EXCEPT ![Len(stack)].done = TRUE]

\* pic_send_eoi(irq) for irq < 8: the first controller ends its highest level.
pic_send_eoi ==
  isr' = {i \in isr : i >= 8 \/ \E j \in isr : j < i}

pit_irq_handler ==
  /\ InBody("timer")
  /\ current_ticks' = (current_ticks + 1) % TickRange
  /\ pic_send_eoi
  /\ Finish
  /\ UNCHANGED <<thread, interrupts, idt_loaded, master_base, slave_base, irr, imr,
                 output_buffer, machine_reset, keyboardVars>>

\* The four paths of keyboard_irq_handler, each with its own pic_send_eoi(1).
ShiftPressed == ShiftDown(output_buffer) /\ pic_send_eoi
ShiftReleased == ShiftUp(output_buffer) /\ pic_send_eoi

\* Mutant: the path of a released key returns without acknowledging.
ReleaseKept == IgnoreBreak(output_buffer) /\ UNCHANGED isr

KeyReleased == IgnoreBreak(output_buffer) /\ pic_send_eoi

KeyPressed == KeyDown(output_buffer) /\ pic_send_eoi

\* keyboard_irq_handler, with inb(0x60), which empties the controller's output buffer.
ReadKeyboard ==
  /\ InBody("keyboard")
  /\ output_buffer # EMPTY
  /\ ShiftPressed \/ ShiftReleased \/ KeyReleased \/ KeyPressed
  /\ output_buffer' = EMPTY
  /\ Finish
  /\ UNCHANGED <<thread, interrupts, idt_loaded, master_base, slave_base, irr, imr,
                 current_ticks, machine_reset, popVars>>

\* Neither counts, reads nor acknowledges anything.
interrupt_default_handler ==
  /\ InBody("default")
  /\ Finish
  /\ UNCHANGED <<thread, interrupts, idt_loaded, pic, devices, machine_reset,
                 keyboardVars>>

Handler == pit_irq_handler \/ ReadKeyboard \/ interrupt_default_handler

\* POP_ALL; iretq
Iret ==
  /\ stack # << >> /\ Top.done
  /\ interrupts' = Top.saved
  /\ stack' = SubSeq(stack, 1, Len(stack) - 1)
  /\ UNCHANGED <<thread, idt_loaded, pic, devices, machine_reset, keyboardVars>>

-----------------------------------------------------------------------------
\* kmain.

\* The thread runs when no handler does.
At(step) == pc = step /\ stack = << >> /\ ~machine_reset

idt_init ==
  /\ At("idt_init")
  /\ idt_loaded' = TRUE
  /\ pc' = "pic_remap"
  /\ UNCHANGED <<input_length, interrupts, stack, pic, devices, machine_reset,
                 keyboardVars>>

\* Mutant: the vectors stay where the BIOS put them.
NoRemap == UNCHANGED <<master_base, slave_base>>

\* ICW2 of both controllers.
VectorBases == master_base' = 32 /\ slave_base' = 40

\* ICW1 clears the controllers' edge latches: requests raised before are forgotten.
pic_remap ==
  /\ At("pic_remap")
  /\ VectorBases
  /\ irr' = {} /\ isr' = {}
  /\ pc' = "pic_set_masks"
  /\ UNCHANGED <<input_length, interrupts, stack, idt_loaded, imr, devices,
                 machine_reset, keyboardVars>>

\* Mutants: 0xFD for 0xFC, only the keyboard is left open; 0 and 0, nothing is masked.
TimerMasked == {TIMER, CASCADE, DISK}
AllUnmasked == {}

\* 0xFC and 0xFF: what is masked of the lines that are used.
MaskedLines == {CASCADE, DISK}

pic_set_masks ==
  /\ At("pic_set_masks")
  /\ imr' = MaskedLines
  /\ pc' = "pit_init"
  /\ UNCHANGED <<input_length, interrupts, stack, idt_loaded, master_base, slave_base,
                 irr, isr, devices, machine_reset, keyboardVars>>

\* Mutant: interrupts are enabled before keyboard_init has run.
EnabledTooEarly ==
  /\ At("pit_init")
  /\ interrupts' = TRUE
  /\ pc' = "keyboard_init"
  /\ UNCHANGED <<input_length, stack, idt_loaded, pic, devices, machine_reset,
                 keyboardVars>>

\* The new divisor only changes how often TimerEdge happens.
pit_init ==
  /\ At("pit_init")
  /\ pc' = "keyboard_init"
  /\ UNCHANGED <<input_length, interrupts, stack, idt_loaded, pic, devices,
                 machine_reset, keyboardVars>>

InitKeyboard ==
  /\ At("keyboard_init")
  /\ buffer_head' = 0 /\ buffer_tail' = 0 /\ shift_pressed' = FALSE
  /\ pc' = "runtime_init"
  /\ UNCHANGED <<input_length, interrupts, stack, idt_loaded, pic, devices,
                 machine_reset, keyboard_buffer, dropped, pop_pc, character, popped>>

\* appfs_init reads the volume by polling; the drive raises its line all the same.
runtime_init ==
  /\ At("runtime_init")
  /\ irr' \in {irr, irr \cup {DISK}}
  /\ pc' = "interrupts_enable"
  /\ UNCHANGED <<input_length, interrupts, stack, idt_loaded, master_base, slave_base,
                 isr, imr, devices, machine_reset, keyboardVars>>

interrupts_enable ==
  /\ At("interrupts_enable")
  /\ interrupts' = TRUE
  /\ pc' = "runtime_autorun"
  /\ UNCHANGED <<input_length, stack, idt_loaded, pic, devices, machine_reset,
                 keyboardVars>>

\* The self-test application and the shell's greeting.
runtime_autorun ==
  /\ At("runtime_autorun")
  /\ pc' = "pop"
  /\ UNCHANGED <<input_length, interrupts, stack, idt_loaded, pic, devices,
                 machine_reset, keyboardVars>>

Boot ==
  \/ idt_init \/ pic_remap \/ pic_set_masks \/ pit_init
  \/ InitKeyboard \/ runtime_init \/ interrupts_enable \/ runtime_autorun

-----------------------------------------------------------------------------
\* shell_run.

ShellUnchanged ==
  UNCHANGED <<interrupts, stack, idt_loaded, pic, devices, machine_reset>>

\* const char character = keyboard_pop(); if it is '\0', halt.
ShellPop ==
  /\ At("pop")
  /\ keyboard_pop
  /\ pc' = CASE pop_pc' # "idle" -> "pop"
             [] pop_pc' = "idle" /\ popped' = NUL -> "hlt"
             [] OTHER -> "handle"
  /\ UNCHANGED input_length
  /\ ShellUnchanged

\* hlt: an interrupt that came after the test for an empty ring does not wake it.
cpu_halt ==
  /\ At("hlt")
  /\ pc' = "halted"
  /\ UNCHANGED <<input_length, keyboardVars>>
  /\ ShellUnchanged

\* Mutant: the test for a full line is one character late.
StoreLate ==
  input_length' = IF input_length >= InputSize THEN input_length ELSE input_length + 1

\* if (input_length + 1u >= sizeof(input_buffer)) continue; store and echo.
StoreCharacter ==
  input_length' = IF input_length + 1 >= InputSize THEN input_length ELSE input_length + 1

HandleCharacter ==
  /\ At("handle")
  /\ \/ /\ popped = Backspace
        /\ input_length' = IF input_length > 0 THEN input_length - 1 ELSE 0
        /\ pc' = "pop"
     \/ /\ popped = Newline /\ input_length > 0
        /\ pc' = "execute" /\ UNCHANGED input_length
     \/ /\ popped = Newline /\ input_length = 0
        /\ pc' = "pop" /\ UNCHANGED input_length
     \/ /\ popped \notin {Backspace, Newline}
        /\ StoreCharacter
        /\ pc' = "pop"
  /\ UNCHANGED keyboardVars
  /\ ShellUnchanged

\* A command that returns: output, or the launch of an application.
shell_execute ==
  /\ At("execute")
  /\ input_length' = 0
  /\ pc' = "pop"
  /\ UNCHANGED keyboardVars
  /\ ShellUnchanged

\* The command "reboot".
shell_reboot ==
  /\ At("execute")
  /\ pc' = "reboot"
  /\ UNCHANGED <<input_length, keyboardVars>>
  /\ ShellUnchanged

interrupts_disable ==
  /\ At("reboot")
  /\ interrupts' = FALSE
  /\ pc' = "int19"
  /\ UNCHANGED <<input_length, stack, idt_loaded, pic, devices, machine_reset,
                 keyboardVars>>

\* int 0x19: in long mode not the BIOS service but gate 25 of the kernel's own table.
SoftwareInterrupt ==
  /\ At("int19")
  /\ Enter(25)
  /\ pc' = "stopped"
  /\ UNCHANGED <<input_length, idt_loaded, pic, devices, keyboardVars>>

Shell ==
  \/ ShellPop \/ cpu_halt \/ HandleCharacter \/ shell_execute
  \/ shell_reboot \/ interrupts_disable \/ SoftwareInterrupt

-----------------------------------------------------------------------------
Main == Boot \/ Shell

MachineNext ==
  \/ Main
  \/ TimerEdge
  \/ \E scan_code \in ScanCodes : KeyEvent(scan_code)
  \/ \E irq \in Irq : Deliver(irq)
  \/ Handler
  \/ Iret

(***************************************************************************)
(* Fairness.  The timer never stops.  A handler runs with interrupts off   *)
(* and has no loop, so it finishes.  pit_init(100) leaves 10 ms between    *)
(* two ticks and a handler takes microseconds, so as long as the thread    *)
(* keeps interrupts enabled the CPU repeatedly has no tick to serve        *)
(* (CatchesUp); then the thread, or a line of lower priority, proceeds:    *)
(* repeatedly, not continuously, possible, hence SF.  Nothing is assumed   *)
(* of whoever types.                                                       *)
(***************************************************************************)
CatchesUp == []<>(interrupts /\ ~Pending(TIMER)) \/ <>[](~interrupts)

Fairness ==
  /\ CatchesUp
  /\ WF_machineVars(TimerEdge)
  /\ WF_machineVars(Handler)
  /\ WF_machineVars(Iret)
  /\ SF_machineVars(Main)
  /\ SF_machineVars(Deliver(TIMER))
  /\ SF_machineVars(Deliver(KEYBOARD))

MachineSpec == MachineInit /\ [][MachineNext]_machineVars /\ Fairness

-----------------------------------------------------------------------------
(***************************************************************************)
(* Type invariant: in particular input_length leaves room for the '\0'     *)
(* that shell.c:315 stores at input_buffer[input_length].                  *)
(***************************************************************************)
MachineTypeOK ==
  /\ TypeOK
  /\ pc \in BootSteps \cup ShellSteps \cup RebootSteps
  /\ interrupts \in BOOLEAN
  /\ stack \in Seq(Frame)
  /\ idt_loaded \in BOOLEAN
  /\ master_base \in {8, 32} /\ slave_base \in {112, 40}
  /\ irr \subseteq Irq /\ isr \subseteq Irq /\ imr \subseteq Irq \cup {CASCADE}
  /\ output_buffer \in ScanCodes \cup {EMPTY}
  /\ current_ticks \in 0 .. TickRange - 1
  /\ input_length \in 0 .. InputSize - 1
  /\ machine_reset \in BOOLEAN

(***************************************************************************)
(* Handlers never nest and never run on top of each other: the interrupt   *)
(* gates keep IF clear until iretq, which is what makes the handler one    *)
(* step for the ring.  The single kernel stack (entry.asm) holds at most   *)
(* one interrupt frame.                                                    *)
(***************************************************************************)
OneHandler ==
  /\ Len(stack) <= 1
  /\ stack # << >> => ~interrupts

(***************************************************************************)
(* Every line that the CPU accepts goes to its own stub, and when no       *)
(* handler runs nothing is left in service: each path of each handler has  *)
(* acknowledged (keyboard.c:66, 72, 77, 86, pit.c:26).  The default stub,  *)
(* which does not acknowledge, never runs for a line, a keyboard interrupt *)
(* always finds a byte to read, and no interrupt comes before lidt.        *)
(***************************************************************************)
Acknowledged ==
  /\ stack = << >> => isr = {}
  /\ InBody("timer") => isr = {TIMER}
  /\ InBody("keyboard") => isr = {KEYBOARD} /\ output_buffer # EMPTY
  /\ InBody("default") => isr = {}
  /\ ~machine_reset

(***************************************************************************)
(* Booting and the shell's loop use the ring only as module Keyboard says: *)
(* keyboard_init discards no character already accepted, and only the      *)
(* handler and keyboard_pop touch the ring.  With the theorems about       *)
(* Keyboard, the shell sees a FIFO queue of what was typed.                *)
(***************************************************************************)
UsesKeyboard == Spec

Rebooting == pc \in RebootSteps

(***************************************************************************)
(* A byte whose request the controller holds after the remap is read by    *)
(* the handler, unless the user reboots.  (A byte that came before the     *)
(* remap is a hazard: its edge is forgotten and keyboard_init does not     *)
(* drain the controller.)                                                  *)
(***************************************************************************)
KeyRead ==
  (output_buffer # EMPTY /\ KEYBOARD \in irr /\ master_base = 32)
    ~> (output_buffer = EMPTY \/ Rebooting)

(***************************************************************************)
(* Whatever is in the ring is popped, even when its interrupt comes        *)
(* between the shell's test and its hlt: the next tick wakes the CPU.      *)
(***************************************************************************)
RingDrained == (buffer_head # buffer_tail) ~> (pop_pc = "advance" \/ Rebooting)

(***************************************************************************)
(* Uptime never stops: current_ticks keeps changing.                       *)
(***************************************************************************)
TimeAdvances ==
  \A t \in 0 .. TickRange - 1 : []<>(current_ticks = t \/ Rebooting)

(***************************************************************************)
(* shell.c:33: "reboot    Restart the machine".                            *)
(***************************************************************************)
RebootRestarts == (pc = "reboot") ~> machine_reset
=============================================================================
