-------------------------------- MODULE Runtime --------------------------------
(***************************************************************************)
(* kernel/src/runtime.c: finding, validating, loading and calling an       *)
(* application, at boot (runtime_autorun) and from the shell (launch).     *)
(*                                                                         *)
(* A packed file is a record                                               *)
(*   [name, size, elf, program_header_offset, program_header_entry_size,   *)
(*    segments]                                                            *)
(* where elf tells whether its first bytes are the ELF header that         *)
(* runtime_validate_elf wants, and segments[k] is what the kernel finds at *)
(* program_headers[k - 1], that is in steps of sizeof(Elf64ProgramHeader), *)
(* whatever program_header_entry_size says.  A segment is a record         *)
(*   [load, offset, file_size, virtual_address, memory_size].              *)
(* Nothing is assumed of the numbers but that they fit a uint64_t.         *)
(***************************************************************************)
EXTENDS AppFs

CONSTANTS
  ElfHeaderBytes,  \* sizeof(Elf64Header), 64
  AddressRange,    \* 2^64: what a uint64_t and a pointer count modulo
  MemoryBytes,     \* the addresses 0 .. MemoryBytes - 1 are memory
  WindowStart,     \* SNSX_APP_WINDOW_START
  WindowSize,      \* SNSX_APP_WINDOW_SIZE
  ExitCodes        \* what applications may return

Window == WindowStart .. WindowStart + WindowSize - 1

Address == 0 .. AddressRange - 1
Elf64ProgramHeader ==
  [load : BOOLEAN, offset : Address, file_size : Address,
   virtual_address : Address, memory_size : Address]

ASSUME RuntimeAssumption ==
  /\ ElfHeaderBytes \in Nat \ {0} /\ MemoryBytes \in Nat
  /\ AddressRange \in Nat /\ MemoryBytes < AddressRange
  /\ WindowStart \in Nat /\ WindowSize \in Nat
  /\ WindowStart + WindowSize <= MemoryBytes
  /\ 0 \in ExitCodes
  /\ \A list \in Volumes :
       /\ Len(Written(list)) < AddressRange
       /\ \A i \in DOMAIN list :
            /\ list[i].segments \in Seq(Elf64ProgramHeader)
            /\ list[i].program_header_offset \in Nat
            /\ list[i].program_header_entry_size \in Nat

\* The addresses that a segment is to occupy.
Extent(segment) ==
  segment.virtual_address .. segment.virtual_address + segment.memory_size - 1

\* The addresses that memory_copy and memory_set write for it.
Reach(segment) ==
  Extent(segment) \cup
  (segment.virtual_address .. segment.virtual_address + segment.file_size - 1)

VARIABLES
  rt_pc,           \* "init", "autorun", "shell", "load", "run" or "broken"
  memory,          \* address -> byte
  launched,        \* the name runtime_launch was called with
  image,           \* the offset of the application in the AppFS image
  elf_size,        \* entry->size
  index,           \* the next program header
  last_exit_code,
  launch_ok        \* what the last runtime_launch returned

launchVars == <<launched, image, elf_size, index>>
rtVars == <<rt_pc, memory, launchVars, last_exit_code, launch_ok>>
runtimeVars == <<ataVars, diskVars, appfsVars, rtVars>>

KERNEL == [kind |-> "kernel"]   \* a byte that is not an application's
DIRTY == [kind |-> "dirty"]     \* a byte that an application has changed

RuntimeInit ==
  /\ AppFsInit
  /\ rt_pc = "init"
  /\ memory = [a \in 0 .. MemoryBytes - 1 |-> KERNEL]
  /\ launched = NULL /\ image = 0 /\ elf_size = 0 /\ index = 1
  /\ last_exit_code = 0
  /\ launch_ok = FALSE

-----------------------------------------------------------------------------
\* kmain: runtime_init, then runtime_autorun.

InitStep ==
  /\ rt_pc = "init"
  /\ StorageStep
  /\ rt_pc' = IF appfs_pc' = "done" THEN "autorun" ELSE "init"
  /\ UNCHANGED <<memory, launchVars, last_exit_code, launch_ok>>

\* The drive works on its own, and may answer when nobody waits any more.
DriveStep == DriveAnswers /\ UNCHANGED <<diskVars, appfsVars, rtVars>>

runtime_app_count == IF runtime_ready THEN appfs_entry_count ELSE 0

\* Not ready, or an empty catalogue.
AutorunSkipped ==
  /\ rt_pc = "autorun"
  /\ runtime_app_count = 0
  /\ rt_pc' = "shell"
  /\ UNCHANGED <<ataVars, diskVars, appfsVars, memory, launchVars, last_exit_code, launch_ok>>

-----------------------------------------------------------------------------
\* runtime_launch.

\* The file whose first byte is at an offset of the image, if it is an ELF file.
FileAt(offset) == files[ImageByte(offset).file]

\* uint64_t ph_end
ph_end(file) ==
  (file.program_header_offset + file.program_header_entry_size * Len(file.segments))
    % AddressRange

runtime_validate_elf(offset, size) ==
  /\ size >= ElfHeaderBytes
  /\ ImageByte(offset).kind = "data" /\ ImageByte(offset).at = 0
  /\ FileAt(offset).elf
  /\ ph_end(FileAt(offset)) <= size

Startable(name) ==
  /\ runtime_ready
  /\ appfs_find(name) # NULL
  /\ appfs_data_at(appfs_find(name)) # NULL
  /\ runtime_validate_elf(appfs_data_at(appfs_find(name)), appfs_find(name).size)

\* One of the tests before loading fails.
LaunchRefused(name) ==
  /\ ~Startable(name)
  /\ launch_ok' = FALSE
  /\ launched' = name
  /\ rt_pc' = "shell"
  /\ UNCHANGED <<ataVars, diskVars, appfsVars, memory, image, elf_size, index, last_exit_code>>

\* Mutant: the window keeps what the last application left in it.
WindowKept == memory

\* memory_set(SNSX_APP_WINDOW_START, 0, SNSX_APP_WINDOW_SIZE)
WindowCleared == [a \in DOMAIN memory |-> IF a \in Window THEN ZERO ELSE memory[a]]

LaunchLoads(name) ==
  /\ Startable(name)
  /\ launched' = name
  /\ image' = appfs_data_at(appfs_find(name))
  /\ elf_size' = appfs_find(name).size
  /\ index' = 1
  /\ memory' = WindowCleared
  /\ rt_pc' = "load"
  /\ UNCHANGED <<ataVars, diskVars, appfsVars, last_exit_code, launch_ok>>

runtime_launch(name) == LaunchRefused(name) \/ LaunchLoads(name)

\* runtime_launch(runtime_app_name(0))
runtime_autorun ==
  /\ rt_pc = "autorun"
  /\ runtime_app_count # 0
  /\ runtime_launch(appfs_entry_at(0).name)

\* The shell's command "launch <name>".
ShellLaunch(name) ==
  /\ rt_pc = "shell"
  /\ runtime_launch(name)

-----------------------------------------------------------------------------
\* runtime_load_segments, one program header a step.

segments == FileAt(image).segments
Loading == rt_pc = "load" /\ index <= Len(segments)

SkipSegment ==
  /\ Loading
  /\ ~segments[index].load \/ segments[index].memory_size = 0
  /\ index' = index + 1
  /\ UNCHANGED <<ataVars, diskVars, appfsVars, rt_pc, memory, launched, image, elf_size,
                 last_exit_code, launch_ok>>

\* A sum of two uint64_t.
Plus(a, b) == (a + b) % AddressRange

InFile(segment) == Plus(segment.offset, segment.file_size) <= elf_size

\* Mutant: the end of the segment is not compared.
StartsInWindow(segment) == segment.virtual_address \in Window

\* Mutant: a segment that ends with the window is refused.
StrictlyInWindow(segment) ==
  /\ segment.virtual_address >= WindowStart
  /\ Plus(segment.virtual_address, segment.memory_size) < WindowStart + WindowSize

InWindow(segment) ==
  /\ segment.virtual_address >= WindowStart
  /\ Plus(segment.virtual_address, segment.memory_size) <= WindowStart + WindowSize

Loadable == segments[index].load /\ segments[index].memory_size # 0

SegmentRefused ==
  /\ Loading /\ Loadable
  /\ ~(InFile(segments[index]) /\ InWindow(segments[index]))
  /\ launch_ok' = FALSE
  /\ rt_pc' = "shell"
  /\ UNCHANGED <<ataVars, diskVars, appfsVars, memory, launchVars, last_exit_code>>

\* memory_copy of file_size bytes from image + offset, and zeros up to memory_size.
Copied(segment) ==
  [a \in DOMAIN memory |->
     LET k == a - segment.virtual_address
     IN  CASE k \in 0 .. segment.file_size - 1 ->
                ImageByte((image + segment.offset + k) % AddressRange)
           [] k \in segment.file_size .. segment.memory_size - 1 -> ZERO
           [] OTHER -> memory[a]]

Loads ==
  /\ Loading /\ Loadable
  /\ InFile(segments[index]) /\ InWindow(segments[index])
  /\ memory' = Copied(segments[index])

LoadSegment ==
  /\ Loads
  /\ Reach(segments[index]) \subseteq DOMAIN memory
  /\ index' = index + 1
  /\ UNCHANGED <<ataVars, diskVars, appfsVars, rt_pc, launched, image, elf_size,
                 last_exit_code, launch_ok>>

(***************************************************************************)
(* The two tests let a segment through that writes behind the window: one  *)
(* with more bytes in the file than in memory, or one whose end wraps.     *)
(* Then memory that is not there may be written, or something the kernel   *)
(* needs; LoadSegment stands for the case that neither happens.            *)
(***************************************************************************)
LoadBreaks ==
  /\ Loads
  /\ ~(Reach(segments[index]) \subseteq Window)
  /\ rt_pc' = "broken"
  /\ UNCHANGED <<ataVars, diskVars, appfsVars, launchVars, last_exit_code, launch_ok>>

\* Nothing is said of what comes then.
Broken == rt_pc = "broken" /\ UNCHANGED runtimeVars

\* All segments are loaded: the entry point is called.
CallEntry ==
  /\ rt_pc = "load" /\ index > Len(segments)
  /\ rt_pc' = "run"
  /\ UNCHANGED <<ataVars, diskVars, appfsVars, memory, launchVars, last_exit_code, launch_ok>>

\* The application has written to its window, or not, and returns.
AppReturns(code) ==
  /\ rt_pc = "run"
  /\ memory' \in {memory, [a \in DOMAIN memory |-> IF a \in Window THEN DIRTY ELSE memory[a]]}
  /\ last_exit_code' = code
  /\ launch_ok' = TRUE
  /\ rt_pc' = "shell"
  /\ UNCHANGED <<ataVars, diskVars, appfsVars, launchVars>>

LoadStep == SkipSegment \/ SegmentRefused \/ LoadSegment \/ LoadBreaks \/ CallEntry

RuntimeNext ==
  \/ InitStep \/ DriveStep
  \/ AutorunSkipped \/ runtime_autorun
  \/ \E name \in DOMAIN Truncated : ShellLaunch(name)
  \/ LoadStep \/ Broken
  \/ \E code \in ExitCodes : AppReturns(code)

\* The kernel's thread runs on; nothing is assumed of the drive or of applications.
RuntimeSpec ==
  /\ RuntimeInit /\ [][RuntimeNext]_runtimeVars
  /\ WF_runtimeVars(InitStep)

-----------------------------------------------------------------------------
\* What a segment puts at an address: a byte of the file, or a zero behind those.
SegmentByte(i, segment, a) ==
  LET k == a - segment.virtual_address
  IN  IF k < segment.file_size THEN DataByte(i, segment.offset + k) ELSE ZERO

\* The segments that are to be loaded.
Loaded(file) ==
  {s \in DOMAIN file.segments : file.segments[s].load /\ file.segments[s].memory_size # 0}

\* The ELF rule that runtime.c does not check, and an end that is an address.
Proper(segment) ==
  /\ segment.file_size <= segment.memory_size
  /\ segment.virtual_address + segment.memory_size < AddressRange

\* What a linker writes: proper segments of bytes in the file, no two of which overlap.
WellFormed(file) ==
  /\ \A s \in Loaded(file) :
       LET segment == file.segments[s]
       IN  Proper(segment) /\ segment.offset + segment.file_size < AddressRange
  /\ \A s, t \in Loaded(file) :
       s # t => Extent(file.segments[s]) \cap Extent(file.segments[t]) = {}

\* The memory image that file i describes.
MemoryImage(i) ==
  [a \in Window |->
     LET cover == {s \in Loaded(files[i]) : a \in Extent(files[i].segments[s])}
     IN  IF cover = {} THEN ZERO
         ELSE SegmentByte(i, files[i].segments[CHOOSE s \in cover : TRUE], a)]

(***************************************************************************)
(* An application that a linker wrote starts on exactly the memory its     *)
(* file describes: its own bytes at their addresses, zeros everywhere else *)
(* in the window, nothing of an application or of a failed launch that     *)
(* came before.                                                            *)
(***************************************************************************)
StartsClean ==
  rt_pc = "run" /\ WellFormed(files[FirstNamed(launched)]) =>
    \A a \in Window : memory[a] = MemoryImage(FirstNamed(launched))[a]

\* An address that a segment which is not proper is copied over.
Strayed(a) ==
  \E i \in DOMAIN files : \E s \in Loaded(files[i]) :
    ~Proper(files[i].segments[s]) /\ a \in Reach(files[i].segments[s])

(***************************************************************************)
(* Loading, also when it fails half-way, changes a byte outside the window *)
(* in one case only: a packed file has a segment with file_size >          *)
(* memory_size, or whose end wraps, at that address.  Those two cases the  *)
(* tests of runtime.c:136-143 miss, and they miss no other; with proper    *)
(* segments only, the kernel, its heap and the image are never touched.    *)
(***************************************************************************)
KernelUntouched == \A a \in DOMAIN memory \ Window : memory[a] = KERNEL \/ Strayed(a)

\* A file that the runtime should be able to start.
Good(file) ==
  /\ file.elf
  /\ file.size >= ElfHeaderBytes
  /\ file.program_header_offset + file.program_header_entry_size * Len(file.segments)
       <= file.size
  /\ \A s \in Loaded(file) :
       LET segment == file.segments[s]
       IN  /\ segment.offset + segment.file_size <= file.size
           /\ segment.file_size <= segment.memory_size
           /\ Extent(segment) \subseteq Window

(***************************************************************************)
(* A launch fails, or breaks the kernel, only for a reason: with the       *)
(* catalogue there, a name that is packed, and a good file under it, it    *)
(* never does.                                                             *)
(***************************************************************************)
FailsForAReason ==
  [][ /\ rt_pc \in {"autorun", "shell", "load"} /\ rt_pc' \in {"shell", "broken"}
      /\ runtime_ready
      /\ FilesNamed(launched') # {}
      => ~Good(files[FirstNamed(launched')]) ]_runtimeVars

(***************************************************************************)
(* docs/ARCHITECTURE.md:41: "the kernel reads `AppFS` from the boot disk   *)
(* using the ATA driver".  A read that succeeded, of as many sectors as    *)
(* were packed, has brought the volume that was built with this kernel.    *)
(***************************************************************************)
ReadsBootDisk ==
  appfs_header /\ told_sectors = SectorsOf(files) =>
    \A p \in 0 .. Len(Written(files)) - 1 : ImageByte(p) = VolumeByte(files, p)
=============================================================================
