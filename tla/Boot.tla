--------------------------------- MODULE Boot ---------------------------------
(***************************************************************************)
(* From the sizes of the built files to the first line of kmain:           *)
(* scripts/build.sh (sector counts, the assemblies of stage 2, the disk    *)
(* image), boot/stage1.asm, boot/stage2.asm and kernel/entry.asm.          *)
(*                                                                         *)
(* The disk and the memory are bytes.  A byte is <<file, k>>, byte k of a  *)
(* built file; or ZERO; or JUNK, what the BIOS left there.  What a stage   *)
(* stores in itself (boot_drive) is still a byte of it.  The BIOS reads    *)
(* sector by sector, and may fail at any.                                  *)
(***************************************************************************)
EXTENDS Integers

CONSTANTS
  SectorBytes,   \* 512
  MaxTransfer,   \* the most sectors one call of int 0x13 transfers, often 127
  ImageBytes,    \* the disk image: 32 MB
  Stage1At, Stage2At, KernelAt,   \* 0x7C00, 0x8000, 0x20000
  Stage2Stack,   \* stage2.asm's sp, 0x7A00
  KernelStack,   \* entry.asm's rsp, 0x9F000
  StackBytes,    \* what the BIOS, and then the kernel, push at most
  BssAlign,      \* linker.ld: .bss starts at a multiple of 16
  LowMemory,     \* the memory modelled ends here, 0xA0000
  KernelSizes, BssSizes, AppfsSizes,   \* bytes of kernel.bin, .bss and appfs.bin
  Stage2Sizes    \* STAGE2_SECTORS -> bytes that stage2.asm assembles to

\* (size + 511) / 512
Padded(bytes) == (bytes + SectorBytes - 1) \div SectorBytes

\* Where .bss starts behind __kernel_start; kernel.bin ends before it.
bss_start(kernel_bytes) == ((kernel_bytes + BssAlign - 1) \div BssAlign) * BssAlign

\* At least one.
Sectors(bytes) == IF Padded(bytes) = 0 THEN 1 ELSE Padded(bytes)

(***************************************************************************)
(* Nothing in the repository checks that the kernel ends below its stack;  *)
(* the image is large enough; no stage 2 that the BIOS can load runs into  *)
(* the kernel's place; and stage 2 has its final size when it is          *)
(* assembled with the sector count of the assembly before.  (Today's       *)
(* stage2.asm always has the same size; build.sh is ready for others.)     *)
(***************************************************************************)
ASSUME BootAssumption ==
  /\ SectorBytes \in Nat \ {0} /\ BssAlign \in Nat \ {0}
  /\ {MaxTransfer, ImageBytes, Stage1At, Stage2At, KernelAt, Stage2Stack, KernelStack,
      StackBytes, LowMemory} \subseteq Nat
  /\ StackBytes <= Stage2Stack /\ Stage2Stack <= Stage1At
  /\ Stage1At + SectorBytes <= Stage2At
  /\ Stage2At + MaxTransfer * SectorBytes <= KernelAt
  /\ KernelStack <= LowMemory
  /\ KernelSizes \subseteq Nat \ {0} /\ BssSizes \subseteq Nat /\ AppfsSizes \subseteq Nat
  /\ \A k \in KernelSizes, b \in BssSizes :
       KernelAt + bss_start(k) + b <= KernelStack - StackBytes
  /\ \A size \in Stage2Sizes :
       LET first == Padded(size[1])
           final == Padded(size[first])
       IN  /\ {size[1], size[first], size[final]} \subseteq Nat \ {0}
           /\ Padded(size[final]) = final
           /\ \A k \in KernelSizes, a \in AppfsSizes :
                (1 + final + Sectors(k) + Sectors(a)) * SectorBytes <= ImageBytes

VARIABLES
  pc,
  sizes,         \* [kernel, bss, appfs : bytes, stage2 : a function of Stage2Sizes]
  stage2_sectors,
  defines,       \* what stage2.bin was assembled with
  disk, memory,  \* address -> byte
  sp,            \* the stack pointer
  packet         \* the transfer under way: [lba, count, to, done, next]

vars == <<pc, sizes, stage2_sectors, defines, disk, memory, sp, packet>>
host == <<sizes, stage2_sectors, defines, disk>>

ZERO == <<"zero", 0>>
JUNK == <<"junk", 0>>
NoPacket == [lba |-> 0, count |-> 0, to |-> 0, done |-> 0, next |-> "none"]

Init ==
  /\ pc = "probe"
  /\ sizes \in [kernel : KernelSizes, bss : BssSizes, appfs : AppfsSizes, stage2 : Stage2Sizes]
  /\ stage2_sectors = 0
  /\ defines = [STAGE2_SECTORS |-> 0, KERNEL_LBA |-> 0, APPFS_LBA |-> 0]
  /\ disk = [p \in 0 .. ImageBytes - 1 |-> ZERO]
  /\ memory = [a \in 0 .. LowMemory - 1 |-> JUNK]
  /\ sp = Stage1At
  /\ packet = NoPacket

-----------------------------------------------------------------------------
\* scripts/build.sh.

kernel_sectors == Sectors(sizes.kernel)
appfs_sectors == Sectors(sizes.appfs)
Stage2Bytes(d) == sizes.stage2[d.STAGE2_SECTORS]

\* The -D options of the assembler.
Assemble(n) ==
  defines' = [STAGE2_SECTORS |-> n, KERNEL_LBA |-> 1 + n, APPFS_LBA |-> 1 + n + kernel_sectors]

Probe ==
  /\ pc = "probe"
  /\ stage2_sectors' = Sectors(sizes.stage2[1])
  /\ pc' = "assemble"
  /\ UNCHANGED <<sizes, defines, disk, memory, sp, packet>>

AssembleStage2 ==
  /\ pc = "assemble"
  /\ Assemble(stage2_sectors)
  /\ pc' = "compare"
  /\ UNCHANGED <<sizes, stage2_sectors, disk, memory, sp, packet>>

\* The size is not what the probe gave: once more, with the new count.
CompareStage2 ==
  /\ pc = "compare"
  /\ stage2_sectors' = Padded(Stage2Bytes(defines))
  /\ IF stage2_sectors' # stage2_sectors THEN Assemble(stage2_sectors') ELSE UNCHANGED defines
  /\ pc' = "image"
  /\ UNCHANGED <<sizes, disk, memory, sp, packet>>

\* dd if=file of=image bs=512 seek=lba conv=notrunc
dd(image, file, bytes, lba) ==
  [p \in DOMAIN image |->
     IF p - lba * SectorBytes \in 0 .. bytes - 1 THEN <<file, p - lba * SectorBytes>> ELSE image[p]]

\* stage1.bin has 512 bytes whatever is in it: stage1.asm pads it to 510 and adds the
\* signature, or does not assemble.  The test of its size before this never fails.
WriteImage ==
  /\ pc = "image"
  /\ LET one == dd(disk, "stage1", SectorBytes, 0)
         two == dd(one, "stage2", Stage2Bytes(defines), 1)
         three == dd(two, "kernel", sizes.kernel, 1 + stage2_sectors)
     IN  disk' = dd(three, "appfs", sizes.appfs, 1 + stage2_sectors + kernel_sectors)
  /\ pc' = "bios"
  /\ UNCHANGED <<sizes, stage2_sectors, defines, memory, sp, packet>>

-----------------------------------------------------------------------------
\* The BIOS.

\* Memory after a sector of the disk was stored at an address.
Stored(m, sector, to) ==
  [a \in DOMAIN m |-> IF a - to \in 0 .. SectorBytes - 1 THEN disk[sector * SectorBytes + a - to]
                                                         ELSE m[a]]

\* Memory after pushes and pops below a stack pointer.
Pushed(m, top) == [a \in DOMAIN m |-> IF a \in top - StackBytes .. top - 1 THEN JUNK ELSE m[a]]

PowerOn ==
  /\ pc = "bios"
  /\ memory' = Stored(memory, 0, Stage1At)
  /\ pc' = "stage1"
  /\ UNCHANGED <<host, sp, packet>>

BiosReads ==
  /\ pc = "int13" /\ packet.done < packet.count /\ packet.count <= MaxTransfer
  /\ memory' = Stored(Pushed(memory, sp), packet.lba + packet.done,
                      packet.to + packet.done * SectorBytes)
  /\ packet' = [packet EXCEPT !.done = @ + 1]
  /\ UNCHANGED <<pc, host, sp>>

BiosDone ==
  /\ pc = "int13" /\ packet.done = packet.count
  /\ pc' = packet.next
  /\ packet' = NoPacket
  /\ UNCHANGED <<host, memory, sp>>

\* Mutant: the carry flag is not looked at.
CarryIgnored == pc' = packet.next

\* jc: the message, cli and hlt.
disk_error == pc' = "halted"

BiosFails ==
  /\ pc = "int13" /\ packet.done < packet.count
  /\ disk_error
  /\ packet' = NoPacket
  /\ UNCHANGED <<host, memory, sp>>

-----------------------------------------------------------------------------
\* The stages.

Read(lba, count, to, next) ==
  /\ packet' = [lba |-> lba, count |-> count, to |-> to, done |-> 0, next |-> next]
  /\ pc' = "int13"

boot_start ==
  /\ pc = "stage1"
  /\ sp' = Stage1At
  /\ memory' = Pushed(memory, sp')
  /\ Read(1, stage2_sectors, Stage2At, "stage2")
  /\ UNCHANGED host

\* enable_a20 changes nothing that is modelled.
stage2_start ==
  /\ pc = "stage2"
  /\ sp' = Stage2Stack
  /\ memory' = Pushed(memory, sp')
  /\ Read(defines.KERNEL_LBA, kernel_sectors, KernelAt, "long_mode")
  /\ UNCHANGED host

\* The GDT, the page tables and the code behind them are bytes of stage 2.
enter_long_mode ==
  /\ pc = "long_mode"
  /\ pc' = "entry"
  /\ UNCHANGED <<host, memory, sp, packet>>

\* Mutant: .bss is taken to be zero already.
BssKept == memory

\* rep stosb from __bss_start to __bss_end
BssCleared ==
  [a \in DOMAIN memory |->
     IF a - KernelAt - bss_start(sizes.kernel) \in 0 .. sizes.bss - 1 THEN ZERO ELSE memory[a]]

kernel_entry ==
  /\ pc = "entry"
  /\ sp' = KernelStack
  /\ memory' = Pushed(BssCleared, sp')
  /\ pc' = "kmain"
  /\ UNCHANGED <<host, packet>>

\* kmain does not return; after an error the CPU stays in its hlt loop.
Rest ==
  /\ pc \in {"kmain", "halted"}
  /\ UNCHANGED vars

Next ==
  \/ Probe \/ AssembleStage2 \/ CompareStage2 \/ WriteImage
  \/ PowerOn \/ BiosReads \/ BiosDone \/ BiosFails
  \/ boot_start \/ stage2_start \/ enter_long_mode \/ kernel_entry \/ Rest

Spec == Init /\ [][Next]_vars

-----------------------------------------------------------------------------
InMemory(file, bytes, at) == \A k \in 0 .. bytes - 1 : memory[at + k] = <<file, k>>

Stage2InMemory == InMemory("stage2", Stage2Bytes(defines), Stage2At)

(***************************************************************************)
(* Control reaches a stage only when every byte of it is in memory, and    *)
(* while a stage runs neither its own read nor the pushes on its stack     *)
(* overwrite it: after a read that failed half-way nothing is executed,    *)
(* and the addresses assembled into the loaders are those at which dd put  *)
(* the files, also when stage 2 had to be assembled again.                 *)
(***************************************************************************)
RunsWhatWasBuilt ==
  /\ pc = "stage1" \/ packet.next = "stage2" => InMemory("stage1", SectorBytes, Stage1At)
  /\ pc \in {"stage2", "long_mode"} \/ packet.next = "long_mode" => Stage2InMemory
  /\ pc = "entry" => InMemory("kernel", sizes.kernel, KernelAt)

(***************************************************************************)
(* What kmain relies on when it starts: the whole kernel and a .bss of     *)
(* zeros, clear of its stack, although the last sector of kernel.bin and   *)
(* the BIOS have left other bytes there; boot_info, the page tables and    *)
(* the GDT still intact in stage 2; and an appfs_lba and appfs_sectors at  *)
(* which the disk really holds the volume.                                 *)
(***************************************************************************)
HandsOver ==
  pc = "kmain" =>
    /\ InMemory("kernel", sizes.kernel, KernelAt)
    /\ \A k \in 0 .. sizes.bss - 1 : memory[KernelAt + bss_start(sizes.kernel) + k] = ZERO
    /\ Stage2InMemory
    /\ appfs_sectors * SectorBytes >= sizes.appfs
    /\ \A k \in 0 .. sizes.appfs - 1 : disk[defines.APPFS_LBA * SectorBytes + k] = <<"appfs", k>>
=============================================================================
