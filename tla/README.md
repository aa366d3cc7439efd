# A TLA+ model of SNSX ExOS

SNSX ExOS is a small 64-bit kernel ("Aurora Core x64") started by its own BIOS loader. It has one
thread of control (kmain, then the shell's loop), two interrupt handlers (timer and keyboard), a
page allocator, a heap, a VGA terminal and a read-only application volume. This directory models
the parts of it whose correctness depends on the order in which things happen, checks the models
with TLC on small instances, and proves all their safety properties with TLAPS for every value of
their constants.

Paths below are relative to the repository.

## 1. Inventory

| Component | State | Operations | Used by |
|---|---|---|---|
| keyboard driver, `kernel/src/keyboard.c` | `keyboard_buffer`, `buffer_head`, `buffer_tail` (uint8_t, volatile), `shift_pressed` | `keyboard_init`, `keyboard_irq_handler`, `keyboard_pop` | IRQ 1 stub; shell |
| IDT and stubs, `idt.c`, `interrupts.asm` | 256 gates, `lidt` | `idt_init`, the three stubs, `interrupts_enable/disable` | kmain, CPU |
| PIC, `pic.c` | vector bases, masks, lines requested and in service (in the hardware) | `pic_remap`, `pic_set_masks`, `pic_send_eoi` | kmain, handlers |
| PIT, `pit.c` | `current_ticks`, `configured_frequency` | `pit_init`, `pit_irq_handler` | kmain, IRQ 0 stub |
| order of initialisation, `main.c`, `entry.asm` | where kmain is | the calls of kmain | - |
| page allocator, `memory.c` | `page_bitmap`, `total_page_count` | `memory_init`, `page_alloc`, `page_free` | heap, AppFS |
| heap, `memory.c` | `heap_head`, the block list, `heap_total_bytes` | `heap_init`, `kmalloc`, `kfree` | no caller yet |
| terminal, `terminal.c` | screen memory, row, column, `reserved_rows` | init, clear, header, write, newline, scroll, backspace, prompt | kmain, shell, applications |
| shell, `shell.c` | `input_buffer`, `input_length` | `shell_run`, `shell_execute`, the commands | kmain |
| ATA driver, `ata.c` | `driver_ready`, the drive's registers | `ata_init`, `ata_read` | AppFS |
| AppFS, `appfs.c` | `appfs_image`, `appfs_header`, `boot_lba`, `boot_sectors` | `appfs_init`, lookups | runtime |
| runtime, `runtime.c` | `runtime_ready`, `last_exit_code`, the application window | `runtime_init`, `runtime_launch`, `runtime_autorun` | kmain, shell |
| packer, `tools/mkappfs.c` | - | writes an AppFS volume on the host | build script |
| build script, `scripts/build.sh` | the disk image | sector counts, assemblies of stage 2, `dd` | - |
| boot stages, `boot/*.asm`, `kernel/entry.asm` | low memory, `boot_info`, page tables | `boot_start`, `stage2_start`, `enter_long_mode`, `kernel_entry` | BIOS |
| serial log, `serial.c` | the UART's registers | `serial_init`, `serial_write`, numbers | kmain, shell, applications |
| strings, `strings.c` | - | comparisons of C strings | shell, AppFS |

How they interact. The CPU takes an interrupt only between two instructions of the thread, and the
handlers run behind interrupt gates; the thread and the handlers share `buffer_head`,
`buffer_tail`, `keyboard_buffer` and `current_ticks`, without a lock. kmain must initialise the
table, the controllers and the ring before it enables interrupts. The shell empties the ring and
executes `hlt` when it finds nothing. Memory is owned by the page allocator from the start of
`memory_init`; the heap takes 256 pages at once, AppFS takes the pages of its image, and the
application window is never given out because the runtime loads applications there.

What is hard to test, and what must hold:

* **keyboard ring**: a push between any two accesses of a pop; full and empty at the wrap of the
  8-bit indices. It must be a FIFO queue.
* **interrupts**: a tick or key at any instruction of boot; a handler path that forgets the
  acknowledge; nesting; a key between the shell's emptiness test and `hlt`. Handlers run alone, all
  requests are acknowledged, keys are read, time goes on.
* **page allocator**: a run counter that must be reset; ranges to reserve that are not aligned or
  end behind the memory. No page may belong to two owners or to none; first fit.
* **heap**: long sequences of splits and merges; a block too small to split; wrapping sizes. The
  blocks must tile the region; a request fails only when it cannot be met.
* **boot**: sector numbers that depend on the size of the file that contains them; a BIOS read that
  fails half-way; loads, stacks and running code that share the low memory. A stage runs whole or not
  at all, and kmain finds what the build put on the disk.
* **terminal and shell**: scrolling under a header, full rows, the prompt's unchecked column, lines
  longer than a row, a buffer that keeps the tail of earlier lines. The screen must show what was
  printed and the line that Enter will execute, and that line must be what is executed.
* **serial log**: a UART slower than the CPU, polled without a time limit. Nothing may be lost, and
  every call must return.
* **storage**: a drive that fails or falls silent at any sector, a timeout with an answer still to
  come, counts that must fit a byte, offsets that the packer, the build script, the driver and the
  catalogue count in different units. What was packed must be what is found, all of it or nothing.
* **runtime**: one window for all applications, a launch that fails after some segments. Each
  application starts on exactly the memory its file describes. Program headers are numbers of 64 bits
  from a file: what the loader's tests refuse must be what would reach out of the window.

`PROJECT.json` lists each hazard with its line and the properties that would catch it.

## 2. Modules

| Module | Models | Form |
|---|---|---|
| `InputFifo` | what the keyboard ring promises: a bounded FIFO queue | abstract specification |
| `Keyboard` | `keyboard.c` | one action per path of the handler, three steps for `keyboard_pop` |
| `Machine` | `main.c`, `idt.c`, `interrupts.asm`, `pic.c`, `pit.c`, the loop of `shell.c`; the CPU, the 8259A and the 8042 from how the kernel uses them | extends `Keyboard` |
| `MachineProofs` | | theorems about `Keyboard` and `Machine` |
| `PagePool` | what the page allocator promises: a first-fit pool | abstract specification |
| `PageAllocator` | `memory_init`, `page_alloc`, `page_free` | the search page by page |
| `PageAllocatorProofs` | | theorems about `PageAllocator` |
| `Heap` | `heap_init`, `kmalloc`, `kfree` | the walk block by block |
| `HeapProofs` | | theorems about `Heap` |
| `Terminal` | the screen of `terminal.c` | operators from a screen to the next screen |
| `Strings` | `string_compare`, `string_starts_with` | operators over arrays with a `\0` |
| `Shell` | `shell_run`, `shell_execute` and the output of commands | extends `Terminal` and `Strings` |
| `ShellProofs` | | theorems about `Terminal`, `Strings` and `Shell` |
| `Console` | `serial.c`, the numbers of `terminal.c`, the printing functions of `runtime_api` | one step per character given to the UART |
| `ConsoleProofs` | | theorems about `Console` |
| `Boot` | `scripts/build.sh` (layout), `boot/stage1.asm`, `boot/stage2.asm`, `kernel/entry.asm`; the BIOS from how they use it | one step per sector read |
| `BootProofs` | | theorems about `Boot` |
| `Ata` | `ata.c`; the drive from how the driver uses it | one step per poll of the status port |
| `AppVolume` | what `tools/mkappfs.c` writes and `scripts/build.sh` puts on the disk | operators over a list of files |
| `AppFs` | `appfs.c` | extends `Ata` and `AppVolume` |
| `StorageProofs` | | theorems about `Ata` and `AppVolume` |
| `Runtime` | `runtime.c`, and its calls in `main.c` and `shell.c` | extends `AppFs` |
| `RuntimeProofs` | | theorems about `AppFs` and `Runtime` |
| `MC...` | instances for TLC | |

Names are the source's where TLA+ allows it. Definitions marked "Mutant" are small defects put
into an operation to see that the property concerned notices; no specification uses them.

**Keyboard.** The handler is one step, since nothing can interrupt it (that is `OneHandler` of
`Machine`). `keyboard_pop` is the test, the read and the increment, with the handler possible in
between. Indices wrap at `IndexRange`, 2^8 in the code; the proofs need only that an index never
exceeds the buffer. `dropped` and `popped` are what `InputFifo` observes.

**Machine.** The thread's `pc` names the call of kmain or the place in `shell_run` that comes next.
An interrupt is accepted (`Deliver`), its C handler runs and acknowledges, and the stub returns
(`Iret`); `stack` holds the frames, with the saved interrupt flag. `Deliver` follows the
controllers: masks, the cascade line that the second controller passes through, priorities, lines
in service, edge latches that ICW1 clears. The four paths of `keyboard_irq_handler` acknowledge each
for itself. A frame is entered
through `Gate(vector)`, so a wrong vector base reaches the default stub, and an interrupt before
`lidt` sets `machine_reset`. The byte in the 8042 is a variable: its line rises only when the
previous byte has been read.

**PageAllocator.** `page_bitmap` is the set of used pages; page size, megabyte, heap and window
sizes are constants, so that ranges need not be aligned. `fixed`, `granted` and `reserved_top` are
history: what `memory_init` reserved, what clients hold, and the address below which nothing may be
handed out. `page_free` is called with pages that were granted and are not the heap's, whole grants
or parts of them.

**Heap.** Blocks are named by the offset of their header, with the real header size (32) and
alignment (16); `live` records what owners asked for. Sizes wrap at `SizeRange`.

**Terminal and Shell.** `transcript` is endless paper: what the same characters give with no screen
height. `typed` is the line as the user means it after all corrections, kept apart from
`input_buffer`, which starts with what the stack holds. Enter terminates the buffer and
`shell_execute` finds the command in it by the code's own comparisons; `echo` prints its argument, a
character a step, `clear` draws the header again, the others print any characters that end in a line
feed, which every command of `shell.c` does. Colours are left out.

**Console.** A call appends to the terminal at once and hands its characters to the UART one by one,
each when the holding register is empty, with `\r` before `\n`. `logged` and `number` record what
callers asked for. Numbers are formatted as the loops do it: decimals lowest digit first and
reversed, hexadecimals by shifts of one nibble less each time (`Shifted`). Decimals and hexadecimals
have sets of their own, since one takes `uint64_t` and the other `uint32_t`; `ValuesAssumption` says
that a number has the width its buffer is made for.

**Boot.** Disk and memory are bytes that tell which byte of which built file they are. Sizes of
kernel, `.bss`, volume and stage 2 are chosen at the start; stage 2's may depend on the
`STAGE2_SECTORS` it is assembled with, which is what `build.sh` assembles it twice for (today's
stage 2 does not use it). A BIOS read stores a sector and uses the stack of its caller, and may fail at
any sector; a request of more than `MaxTransfer` sectors always fails. `BootAssumption` names what
nothing in the repository checks: the kernel with `.bss` ends below its stack, and stage 2's size has
settled after two assemblies.

**Ata.** A wait is a sequence of polls, at most `SpinLimit`; the drive answers between two polls, or
never, or with an error. Sectors in `buffer` are named by their address, which is all the properties
tell apart. `ByteRange` is the range of `uint8_t`, so a command of 256 sectors is a count of 0, which
the drive takes for 256.

**AppVolume, AppFs, Runtime.** The disk is what the packer writes, byte by byte; a byte tells what it
belongs to, so a wrong offset anywhere is seen. `blank` is a primary master other than the boot disk: the BIOS
boots any disk, the driver always reads that one. `told_sectors` is what the loader put in
`boot_info`. `page_alloc` appears as its promise (`PagePool`): so many pages, or NULL. A packed file
carries what its ELF headers say, and nothing is assumed of those numbers: a sum of two `uint64_t`
wraps at `AddressRange`, program headers are found in steps of their struct whatever
`program_header_entry_size` says, and `memory_copy` copies `file_size` bytes although `InWindow` looks
at `memory_size`. A segment that the two tests let through and that still reaches behind the window
is copied there; then the kernel goes on (`LoadSegment`, if there is memory) or does not (`LoadBreaks`
to `rt_pc = "broken"`, of which nothing is said). Only the 32-bit sums of `appfs.c` are taken not to
wrap. `AppVolume` uses recursive functions to lay out a list of files, and joins the pieces that the packer writes one
after another (`Pieces`).

## 3. Runs

| Run | Instance | Shows |
|---|---|---|
| `keyboard` | ring of 4, three keys, both shift keys, a release code | `PopUndisturbed`: the handler never disturbs a pop in progress. `ImplementsFifo`: the ring is a FIFO queue of `IndexRange - 1` characters. |
| `machine` | ring of 3, six scan codes (both shift codes, two keys and a release, Backspace), line of 3 | `OneHandler`, `Acknowledged`: each line reaches its handler, alone, and is acknowledged on every path, from boot on. `UsesKeyboard`: `Machine` implements `Keyboard`, so boot order loses no accepted key. |
| `machine_live` | two keys and a release, line of 2, ticks modulo 2 | `KeyRead`, `RingDrained`, `TimeAdvances` under the fairness below. |
| `reboot` | as above | a disagreement between the help text and the code, see section 6. |
| `pages` | up to 12 pages of 4 bytes, 2.5 pages to a "megabyte", five reports of the loader, two ends of the kernel | `BitmapExact`, `ScanRun`, and `ImplementsPool`: first fit, NULL only when nothing fits. |
| `heap` | 240 bytes, up to five blocks, six sizes including 0 and one that wraps | `Tiled`, `GrantsHold`, `Coalesced`, `WalkOnList`, `FailsOnlyWhenFull`. |
| `shell` | 4 x 4 cells, 1 header row, prompt of 2, line of 4 | `ScreenShowsTranscript`: the screen is the end of the paper. `EchoAgrees`: it shows the line that will be executed. `ExecutesTyped`: command and argument are those of the line typed. |
| `ata` | commands of up to 3 sectors, a disk of 9, reads of none, part of a command, two exactly, two and a part; two polls to a wait | `ReadExact`, `ReadReturns`: the right sectors in order, TRUE exactly when complete. `CallsReturn`: also if the drive is silent. |
| `runtime` | five volumes of two to four files: good, linked for a wrong address, cut off, not ELF, colliding names, longer in the file than in memory, with an end or an offset that wraps; 8 bytes of memory with a window of 4, addresses modulo 32 | `CatalogueWhole`, `ImageFits`, `PackedIsFound`, `StartsClean`, `KernelUntouched`, `FailsForAReason`, `InitEnds`. |
| `boot_disk` | as `runtime` | a disagreement between the documentation and the driver, see section 6. |
| `console` | three texts, six numbers of up to three decimals, five of up to four nibbles, seven characters of log | `WireExact`: the wire carries exactly what was printed. `NumbersReadBack`, and `WritesEnd`: every call returns. |
| `boot` | sectors of 2 bytes, at most 4 to a transfer; kernels of 1 to 5 sectors, `.bss` of 0 to 3 bytes, two volumes, a stage 2 of fixed, growing and shrinking size | `RunsWhatWasBuilt`: a stage runs whole or not at all, and is not overwritten while it runs. `HandsOver`: what kmain relies on is there. |

Why the bounds are enough. The ring of 4 is empty, full, and wrapped in every position; nothing in
the code depends on its size but the wrap. The page instance has reserved ranges that start and end
inside pages, a window that is inside, astride the end of, and outside of the memory, and room for
three grants with holes between them. The heap instance has a block that fits exactly, one too
small to split, and a free block with a free one on neither, either and both sides. The screen
scrolls, rows fill up exactly, and a typed line runs over the edge once, which is as often as 127
characters after the prompt do on 80 columns. `TickRange` only keeps the counter finite.
`MaxRows` bounds the transcript; it is more than the rows on the screen, so scrolling with text
above the screen happens. The disk instance has volumes of an odd and an even number of sectors and
of more than one command, entries that cross sectors, and every launch after every other, including
one that failed after its first segment; segments end before, with and behind the window. The file
`Wrapping` has an end that wraps to before the window's, `Overlong` copies three bytes for a segment
of one, the last two behind the window, and `Shifted` reads its bytes from before itself. The
commands of the shell instance begin with one another, and a line is shorter or longer than the one
before it. The boot instance has files that end with a sector and inside one, a kernel of one sector
more than the BIOS transfers at once, one whose padding and `.bss` share a sector, and both outcomes
of the comparison after the second assembly. The numbers include 0, one with inner zeros and one
that leaves one byte of the buffer, as 20 digits do.

Deadlock is checked in every run but `console`, where everybody may have finished printing.

**Fairness** (`Machine`). The timer does not stop (weak fairness of `TimerEdge`); handlers and stubs
run with interrupts off and contain no loop (weak fairness). `pit_init(100)` leaves 10 ms between
two ticks and a handler takes microseconds, so while interrupts are enabled the CPU is again and
again without a tick to serve: `CatchesUp`. The thread and the keyboard line are then repeatedly,
though not continuously, able to proceed: strong fairness. For the thread this includes that a
command, or an application that it launches, returns: what they do is one step of `Machine`. Nothing
is assumed of whoever types.
For `Ata` and `Runtime`, the kernel's thread polls on (weak fairness of `DriverStep` and `InitStep`);
nothing is assumed of the drive, and nothing of applications, which may never return.
For `Console`, the thread polls on and a UART that has a character sends it (weak fairness of
`serial_write_char` and `UartSends`); nobody has to print. The latter is an assumption on the
hardware: `serial.c:23` waits without a limit, and with a UART that never empties its register the
wait would last for ever.

## 4. Theorems

`tlapm` checks every proof. What is proved holds for every value of the constants that satisfies
the module's named ASSUME.

* `MachineProofs!TypeCorrect`, `PopSafe`, `FifoRefinement` (about `Keyboard`). Assumption: an index
  value is a slot (`IndexRange <= BufferSize`). `PopUndisturbed` is inductive with `TypeOK`: while a
  pop is under way the ring is not empty, and the handler refuses to advance the head onto the tail,
  so the slot at the tail is left alone. The refinement maps the ring to `Queue`, the slots from tail
  to head; `RingGeometry`, `PushEffect` and `PopEffect` say how these slots move, and then a push
  appends, the increment of the tail removes the first character, and the other steps stutter.
* `MachineProofs!OneHandlerAtATime`, `EveryLineAcknowledged`, `KeyboardRefinement`, `MachineFifo`. The
  inductive invariant says in addition what has been initialised by which step of kmain, that
  interrupts are enabled only when the table, the vectors and the masks are right and nothing is in
  service, and that a keyboard request implies a byte in the controller. Until `keyboard_init` has run
  the ring is as it was at the start, so resetting it is a stutter for `Keyboard`.
* `PageAllocatorProofs!TypeCorrect`, `BitmapIsExact`, `ScanIsExact`, `PoolRefinement`. The invariant
  adds `Covered`: a page that `memory_init` did not reserve holds no byte of the reserved ranges,
  which rests on lemmas about rounding (`DivBounds`, `BeforeRange`, `BehindRange`). `ScanRun` is
  what the search knows half-way: the free run that ends at the cursor and that nothing before it
  fits; the former gives the grant, the latter first fit and the justified NULL.
* `HeapProofs!RegionTiled`, `GrantsAreHeld`, `AlwaysCoalesced`, `WalkStaysOnList`, `FailureMeansFull`.
  Assumptions: the region is whole units and shorter than the range of a size. `HeapInv` adds to the
  properties that every offset of the region lies in a block (`Covered`) and what rounding left of the
  request (`Rounded`). A split and the absorption of a next block are lemmas about any good list
  (one whose links agree with the ends of its blocks); kfree is one absorption, or two, or none.
  Header size and alignment are the code's, 32 and 16. `GrantsHold` is about every size that
  `align_up_uintptr` does not wrap, and says nothing of alignment.
  That a failed search means a full heap needs the walk: all blocks before the cursor were too small or used.
* `ShellProofs!ScreenIsWindow`, `LineIsShown`, `TypedIsExecuted`. Assumptions: a prompt fits a row,
  control characters cannot be typed, and no line is found by two tests of `shell_execute`
  (`ShellAssumption`; it holds for the commands of `shell.c`). The window relation between screen and
  paper is shown to survive each operation of the terminal (`put`, line feed, scroll, backspace, prompt,
  clear); `Editing` says that the buffer starts with the line as typed, whatever follows it there, and
  `string_compare` and `string_starts_with` are shown to decide equality and prefix of such lines.
* `BootProofs!LoadedBeforeRun`, `KmainFindsAll`. Assumptions: those of `BootAssumption`, in which the
  disjointness of stacks, stages and kernel is stated. `BootInv` follows each file from the list of
  sizes to the disk and from there to memory: what has been counted (`Counted`), written
  (`ImageWritten`), transferred so far (`Transfers`), and that what has been loaded stays
  (`Stage1Stays`, `Stage2Stays`, `KernelStays`).
* `StorageProofs!AtaTypeCorrect`, `ReadIsExact`, `ReadReturnsRight`. Assumption: reads lie on the disk
  and the disk is addressable. `ReadExact` alone is not inductive: `ReadProgress` ties the count of
  stored sectors, the command's address, its position and what remains together, and says that the
  drive's next sector is the one the buffer needs. `ChunkBounds` gives progress and the byte's range.
* `StorageProofs!Layout`: for every list of files, the bytes that `mkappfs.c` writes are the header, the
  catalogue and the payloads, and each catalogue entry's offset is where its payload starts.
* `RuntimeProofs!CatalogueIsWhole`, `ImageHasRoom`, `PackedFound`. Every step of the composition keeps
  the driver's invariant, by the lemmas of `StorageProofs`; in addition `Calls` says what the driver is
  doing at each place of `appfs_init`, `AtRest` that a drive whose answer was taken is silent,
  `Published` that a header is set only when the buffer is complete, and `Pages` that the image has the
  pages computed from the sectors being read (`RoundedUp`). A complete buffer is the volume byte by byte
  (`ImageIsVolume`); with `Layout`, the lookup returns the first file of the name, all of it.
* `RuntimeProofs!KernelIsUntouched`, `AppStartsClean`, `LaunchFailsForAReason`. Assumption: header
  fields fit their types, and the window lies in the memory. `KernelIsUntouched` says which writes
  outside the window are possible: those of a segment with `file_size > memory_size`, or whose end
  wraps, at the addresses it is copied over; for every other header the two tests suffice (`NoWrap`,
  `CopyStrays`). `AppStartsClean` is about a file whose own headers are `WellFormed`, whatever the
  others on the volume are like. `LaunchInv` says how far the loader is: the window holds what the
  segments before `index` describe and zeros elsewhere (`HoldsFirst`), and what outside of it has
  changed (`KernelUntouched`).
* `ConsoleProofs!LogIsExact`, `FormatsReadBack`. Assumption: numbers have the width their buffers are
  made for. `ConsoleInv` adds that a carriage return was given for nothing but the line feed at the
  head of the queue (`ReturnForFeed`) and where on the screen the last number is (`NumberShown`). That
  decimals read back is an induction over the number: after each division the digits so far have the
  value divided away, the last is not zero, and there are no more of them than divisions it takes.

Induction over data. The loops of the formatting, the packer's offsets and the texts on the line are
recursive functions. For each the proofs show that there is such a function (on `0 .. k` for every k)
and what it returns. The induction is a least counterexample in the set of numbers that
lack the property (`NatLessThanWellFounded` and `WFMin`; `Induction` in `ConsoleProofs`), since the
library's induction theorems take an operator, which the provers cannot instantiate.

Every safety property of a passing run is stated by a theorem: invariants, action properties and
refinements. Out of the prover's reach and left to TLC is liveness under fairness (`KeyRead`,
`RingDrained`, `TimeAdvances`, `CallsReturn`, `InitEnds`, `WritesEnd`). The runs `reboot` and `boot_disk`
refute their properties.

## 5. Plan

Done: interrupts and keyboard, pages, heap, terminal and shell with its commands, the storage path,
the boot chain from the build script to kmain, the console, and the proofs of their safety properties.
Left, in order:

1. The composition of `PageAllocator` with its two clients: that `PagePool`'s promise is the one
   `AppFs` and `Heap` rely on is an argument in words today.
2. The page counters behind the `memory` command; the 32-bit sums of `appfs_data_at` at their range.

## 6. Findings, limits

* **reboot**. `shell.c:33` says of the command `reboot`: "Restart the machine". It executes
  `int 0x19`, which in long mode is gate 25 of the kernel's own table, the default stub; the stub
  returns and the CPU halts with interrupts disabled. Run `reboot` reaches that state.
* **boot disk**. `docs/ARCHITECTURE.md:41`: "the kernel reads `AppFS` from the boot disk using the ATA
  driver". `ata_read` always selects the primary master (`ata.c:79`); `boot_info->boot_drive` is stored
  by `stage2.asm:108` and only printed (`shell.c:58`). Booted from another drive, a USB stick for
  example (`README.md:20`), the kernel reads other sectors than those the build wrote. In run
  `boot_disk` the primary master is blank: the read succeeds and `appfs_header` is set, the image is not
  the volume, `appfs_validate` refuses it and no application is found.
* **Program headers.** `runtime_load_segments` misses two kinds of header: `file_size > memory_size`,
  since line 141 adds `memory_size` and line 145 copies `file_size`, and an end that wraps past 2^64.
  No text of the repository speaks of such files, and no linker writes them; the model has them, and
  `KernelUntouched` is stated, and proved, with exactly these two cases left out.
* Hazards without a property (their notes say why): a key pressed before the PIC is remapped, whose
  edge is forgotten while its byte blocks the 8042; and the fixed text of `services`, which says
  "AppFS Catalog    : online" (`shell.c:146`) whatever became of the storage; and the two cases that
  properties leave out because the code really has that limit: `GrantsHold` excludes sizes within 15 bytes of 2^64, where
  `align_up_uintptr` wraps, and `EchoAgrees` excludes lines that ran over the right edge, where
  Backspace does not go back on the screen.
* Abstractions. The output of the commands other than `clear` and `echo` is any characters that end a
  line (`PrintCharacter`), so their loops and guards are not modelled. `Payload` is what `read_file`
  returns when it succeeds; when it does not, the build ends and there is no volume. `ata_read`'s test
  for a NULL buffer is left out, since `appfs.c:52` has made it before the only call. The size check of
  stage 1 (`build.sh:143`) cannot fail, since `stage1.asm` is padded to 512 bytes or not assembled.
* Not modelled: CPU exceptions (no action of the kernel raises one), colours, the wording of messages
  and commands, compiling and linking, the host's failures during a build, the mode switch in detail
  (GDT, control registers), and functions without a caller: `terminal_clear_shell`, `string_length`,
  `string_ncompare`, `string_copy`, `ata_is_ready`. A carriage return, which `Terminal` models, is
  printed by none.
