------------------------------ MODULE BootProofs ------------------------------
(***************************************************************************)
(* The chain from build.sh to kmain loads what was built, for every size   *)
(* of the files, of a sector and of the memory that the assumption admits. *)
(***************************************************************************)
EXTENDS Boot, TLAPS

-----------------------------------------------------------------------------
\* The invariant.

OnDisk(file, bytes, lba) == \A k \in 0 .. bytes - 1 : disk[lba * SectorBytes + k] = <<file, k>>

\* The first n sectors of a file are in memory m.
Loaded(m, file, bytes, at, n) ==
  \A k \in 0 .. bytes - 1 : k < n * SectorBytes => m[at + k] = <<file, k>>

Holds(m, file, bytes, at) == \A k \in 0 .. bytes - 1 : m[at + k] = <<file, k>>

Building == pc \in {"probe", "assemble", "compare"}

Types ==
  /\ pc \in {"probe", "assemble", "compare", "image", "bios", "stage1", "int13", "stage2",
             "long_mode", "entry", "kmain", "halted"}
  /\ sizes \in [kernel : KernelSizes, bss : BssSizes, appfs : AppfsSizes, stage2 : Stage2Sizes]
  /\ DOMAIN disk = 0 .. ImageBytes - 1
  /\ DOMAIN memory = 0 .. LowMemory - 1

DefinesFor(n) ==
  /\ defines.STAGE2_SECTORS = n
  /\ defines.KERNEL_LBA = 1 + n
  /\ defines.APPFS_LBA = 1 + n + kernel_sectors

\* build.sh has counted the sectors of stage 2, first as probed, then as assembled.
Counted ==
  /\ pc \in {"assemble", "compare"} => stage2_sectors = Padded(sizes.stage2[1])
  /\ pc = "compare" => DefinesFor(stage2_sectors)
  /\ ~Building =>
       /\ DefinesFor(stage2_sectors)
       /\ stage2_sectors = Padded(sizes.stage2[Padded(sizes.stage2[1])])
       /\ stage2_sectors = Padded(Stage2Bytes(defines))
       /\ Stage2Bytes(defines) \in Nat \ {0}

ImageWritten ==
  ~Building /\ pc # "image" =>
    /\ OnDisk("stage1", SectorBytes, 0)
    /\ OnDisk("stage2", Stage2Bytes(defines), 1)
    /\ OnDisk("kernel", sizes.kernel, defines.KERNEL_LBA)
    /\ OnDisk("appfs", sizes.appfs, defines.APPFS_LBA)

\* The two reads, by stage 1 and by stage 2, and how far they are.
Reading(file, bytes, lba, count, at, next, stack) ==
  /\ packet = [lba |-> lba, count |-> count, to |-> at, done |-> packet.done, next |-> next]
  /\ packet.done \in 0 .. count
  /\ packet.done > 0 => count <= MaxTransfer
  /\ sp = stack
  /\ Loaded(memory, file, bytes, at, packet.done)

ReadingStage2 ==
  Reading("stage2", Stage2Bytes(defines), 1, stage2_sectors, Stage2At, "stage2", Stage1At)

ReadingKernel ==
  Reading("kernel", sizes.kernel, defines.KERNEL_LBA, kernel_sectors, KernelAt, "long_mode",
          Stage2Stack)

Transfers ==
  /\ pc = "int13" => ReadingStage2 \/ ReadingKernel
  /\ pc # "int13" => packet = NoPacket

\* Stage 2 is in memory from its first instruction to kmain, and ends below the kernel.
Stage2Stays ==
  pc \in {"stage2", "long_mode", "entry", "kmain"} \/ packet.next = "long_mode" =>
    Stage2InMemory /\ stage2_sectors <= MaxTransfer

Stage1Stays ==
  pc = "stage1" \/ packet.next = "stage2" => InMemory("stage1", SectorBytes, Stage1At)

KernelStays ==
  pc \in {"long_mode", "entry", "kmain"} => InMemory("kernel", sizes.kernel, KernelAt)

BssIsZero ==
  pc = "kmain" => \A k \in 0 .. sizes.bss - 1 : memory[KernelAt + bss_start(sizes.kernel) + k] = ZERO

BootInv ==
  /\ Types /\ Counted /\ ImageWritten /\ Transfers
  /\ Stage1Stays /\ Stage2Stays /\ KernelStays /\ BssIsZero

-----------------------------------------------------------------------------
\* Facts about sizes.

\* The constants as the proofs use them.
LEMMA Constants ==
  /\ SectorBytes \in Nat \ {0} /\ MaxTransfer \in Nat /\ ImageBytes \in Nat
  /\ Stage1At \in Nat /\ Stage2At \in Nat /\ KernelAt \in Nat /\ Stage2Stack \in Nat
  /\ KernelStack \in Nat /\ StackBytes \in Nat /\ LowMemory \in Nat
  /\ StackBytes <= Stage2Stack /\ Stage2Stack <= Stage1At /\ Stage1At + SectorBytes <= Stage2At
  /\ Stage2At + MaxTransfer * SectorBytes <= KernelAt
  /\ KernelStack <= LowMemory
BY BootAssumption

\* Rounded down, less than one unit is lost.
LEMMA DivBounds ==
  ASSUME NEW a \in Nat, NEW d \in Nat \ {0}
  PROVE  a \div d \in Nat /\ (a \div d) * d <= a /\ a < (a \div d) * d + d
OBVIOUS

\* Sectors in bytes.
LEMMA Products ==
  ASSUME NEW a \in Nat, NEW b \in Nat
  PROVE  /\ a * SectorBytes \in Nat
         /\ (a + b) * SectorBytes = a * SectorBytes + b * SectorBytes
         /\ (a + 1) * SectorBytes = a * SectorBytes + SectorBytes
         /\ a <= b => a * SectorBytes <= b * SectorBytes
         /\ 0 * SectorBytes = 0 /\ 1 * SectorBytes = SectorBytes
<1>1. SectorBytes \in Nat
  BY Constants
<1>2. a <= b => a * SectorBytes <= b * SectorBytes
  BY <1>1
<1>3. QED BY <1>1, <1>2

\* The sectors counted for a file hold it.
LEMMA SectorsHold ==
  ASSUME NEW bytes \in Nat
  PROVE  /\ Padded(bytes) \in Nat /\ bytes <= Padded(bytes) * SectorBytes
         /\ bytes # 0 => Padded(bytes) # 0 /\ Sectors(bytes) = Padded(bytes)
         /\ Sectors(bytes) \in Nat \ {0} /\ bytes <= Sectors(bytes) * SectorBytes
<1>1. SectorBytes \in Nat \ {0} /\ bytes + SectorBytes - 1 \in Nat
  BY Constants
<1>2. /\ Padded(bytes) \in Nat
      /\ bytes + SectorBytes - 1 < Padded(bytes) * SectorBytes + SectorBytes
  BY <1>1, DivBounds DEF Padded
<1>3. Padded(bytes) * SectorBytes \in Nat
  BY <1>2, Products
<1>4. bytes <= Padded(bytes) * SectorBytes
  BY <1>1, <1>2, <1>3
<1>5. bytes # 0 => Padded(bytes) # 0
  BY <1>1, <1>4
<1>6. bytes <= Sectors(bytes) * SectorBytes
  BY <1>1, <1>2, <1>4 DEF Sectors
<1>7. QED BY <1>2, <1>4, <1>5, <1>6 DEF Sectors

\* .bss starts behind the bytes of kernel.bin.
LEMMA BssBehind ==
  ASSUME NEW k \in Nat
  PROVE  bss_start(k) \in Nat /\ k <= bss_start(k)
<1>1. BssAlign \in Nat \ {0} /\ k + BssAlign - 1 \in Nat
  BY BootAssumption
<1> DEFINE q == (k + BssAlign - 1) \div BssAlign
<1>2. q \in Nat /\ k + BssAlign - 1 < q * BssAlign + BssAlign
  BY <1>1, DivBounds
<1> HIDE DEF q
<1>3. q * BssAlign \in Nat
  BY <1>1, <1>2
<1>4. QED BY <1>1, <1>2, <1>3 DEF bss_start, q

\* The files of a build.
LEMMA Files ==
  ASSUME Types
  PROVE  /\ sizes.kernel \in Nat \ {0} /\ sizes.bss \in Nat /\ sizes.appfs \in Nat
         /\ kernel_sectors \in Nat \ {0} /\ sizes.kernel <= kernel_sectors * SectorBytes
         /\ appfs_sectors \in Nat \ {0} /\ sizes.appfs <= appfs_sectors * SectorBytes
         /\ bss_start(sizes.kernel) \in Nat /\ sizes.kernel <= bss_start(sizes.kernel)
         /\ KernelAt + bss_start(sizes.kernel) + sizes.bss <= KernelStack - StackBytes
<1>1. sizes.kernel \in KernelSizes /\ sizes.bss \in BssSizes /\ sizes.appfs \in AppfsSizes
  BY DEF Types
<1>2. sizes.kernel \in Nat \ {0} /\ sizes.bss \in Nat /\ sizes.appfs \in Nat
  BY <1>1, BootAssumption
<1>3. KernelAt + bss_start(sizes.kernel) + sizes.bss <= KernelStack - StackBytes
  BY <1>1, BootAssumption
<1>4. QED BY <1>2, <1>3, SectorsHold, BssBehind DEF kernel_sectors, appfs_sectors

\* Stage 2 through the assemblies of a build.
LEMMA Assemblies ==
  ASSUME Types, NEW first, first = Padded(sizes.stage2[1]),
         NEW final, final = Padded(sizes.stage2[first])
  PROVE  /\ sizes.stage2[1] \in Nat \ {0} /\ sizes.stage2[first] \in Nat \ {0}
         /\ sizes.stage2[final] \in Nat \ {0} /\ Padded(sizes.stage2[final]) = final
         /\ first \in Nat \ {0} /\ final \in Nat \ {0}
         /\ Sectors(sizes.stage2[1]) = first
         /\ (1 + final + kernel_sectors + appfs_sectors) * SectorBytes <= ImageBytes
<1>1. sizes.stage2 \in Stage2Sizes /\ sizes.kernel \in KernelSizes /\ sizes.appfs \in AppfsSizes
  BY DEF Types
<1>2. /\ {sizes.stage2[1], sizes.stage2[first], sizes.stage2[final]} \subseteq Nat \ {0}
      /\ Padded(sizes.stage2[final]) = final
      /\ (1 + final + kernel_sectors + appfs_sectors) * SectorBytes <= ImageBytes
  BY <1>1, BootAssumption DEF kernel_sectors, appfs_sectors
<1>3. QED BY <1>2, SectorsHold

-----------------------------------------------------------------------------
\* Facts about memory.

\* A push and a sector stored elsewhere leave a file in memory alone.
LEMMA StoreElsewhere ==
  ASSUME DOMAIN memory = 0 .. LowMemory - 1, NEW file, NEW bytes \in Nat, NEW at \in Nat,
         Holds(memory, file, bytes, at), at + bytes <= LowMemory,
         NEW top \in Nat, top <= at,
         NEW sector, NEW to \in Nat, at + bytes <= to
  PROVE  Holds(Stored(Pushed(memory, top), sector, to), file, bytes, at)
<1> DEFINE m == Stored(Pushed(memory, top), sector, to)
<1> SUFFICES ASSUME NEW k \in 0 .. bytes - 1 PROVE m[at + k] = <<file, k>>
  BY DEF Holds
<1>1. at + k \in DOMAIN memory
  BY Constants
<1>2. at + k - to \notin 0 .. SectorBytes - 1 /\ at + k \notin top - StackBytes .. top - 1
  BY Constants
<1>3. Pushed(memory, top)[at + k] = memory[at + k] /\ DOMAIN Pushed(memory, top) = DOMAIN memory
  BY <1>1, <1>2 DEF Pushed
<1>4. m[at + k] = memory[at + k]
  BY <1>1, <1>2, <1>3 DEF Stored
<1>5. QED BY <1>4 DEF Holds

\* A push elsewhere does so as well.
LEMMA PushElsewhere ==
  ASSUME DOMAIN memory = 0 .. LowMemory - 1, NEW file, NEW bytes \in Nat, NEW at \in Nat,
         Holds(memory, file, bytes, at), at + bytes <= LowMemory,
         NEW top \in Nat, top <= at \/ at + bytes <= top - StackBytes
  PROVE  Holds(Pushed(memory, top), file, bytes, at)
<1> SUFFICES ASSUME NEW k \in 0 .. bytes - 1 PROVE Pushed(memory, top)[at + k] = <<file, k>>
  BY DEF Holds
<1>1. at + k \in DOMAIN memory
  BY Constants
<1>2. at + k \notin top - StackBytes .. top - 1
  BY Constants
<1>3. Pushed(memory, top)[at + k] = memory[at + k]
  BY <1>1, <1>2 DEF Pushed
<1>4. QED BY <1>3 DEF Holds

\* The next sector of a file arrives where the sectors before it end.
LEMMA NextSector ==
  ASSUME DOMAIN memory = 0 .. LowMemory - 1, NEW file, NEW bytes \in Nat, NEW at \in Nat,
         NEW lba \in Nat, NEW done \in Nat, NEW top \in Nat, top <= at,
         at + bytes <= LowMemory, OnDisk(file, bytes, lba), Loaded(memory, file, bytes, at, done),
         NEW m, m = Stored(Pushed(memory, top), lba + done, at + done * SectorBytes)
  PROVE  Loaded(m, file, bytes, at, done + 1)
<1> DEFINE d == done * SectorBytes
<1> DEFINE l == lba * SectorBytes
<1>1. d \in Nat /\ l \in Nat /\ (lba + done) * SectorBytes = l + d
      /\ (done + 1) * SectorBytes = d + SectorBytes
  BY Products
<1>2. \A a \in DOMAIN memory :
         /\ a - (at + d) \in 0 .. SectorBytes - 1 =>
              m[a] = disk[(lba + done) * SectorBytes + a - (at + d)]
         /\ a - (at + d) \notin 0 .. SectorBytes - 1 /\ a \notin top - StackBytes .. top - 1 =>
              m[a] = memory[a]
  BY Zenon DEF Stored, Pushed
<1>3. \A k \in 0 .. bytes - 1 : k < d => memory[at + k] = <<file, k>>
  BY DEF Loaded
<1>4. \A k \in 0 .. bytes - 1 : disk[l + k] = <<file, k>>
  BY DEF OnDisk
<1> HIDE DEF d, l
<1> SUFFICES ASSUME NEW k \in 0 .. bytes - 1, k < d + SectorBytes
             PROVE  m[at + k] = <<file, k>>
  BY <1>1 DEF Loaded
<1> DEFINE x == at + k
<1>5. x \in DOMAIN memory /\ x = at + k
  BY Constants
<1> HIDE DEF x
<1>6. CASE k < d
  <2>1. x - (at + d) \notin 0 .. SectorBytes - 1 /\ x \notin top - StackBytes .. top - 1
    BY <1>1, <1>5, <1>6, Constants
  <2>2. m[x] = memory[x]
    BY <1>2, <1>5, <2>1
  <2>3. QED BY <1>3, <1>5, <1>6, <2>2
<1>7. CASE k >= d
  <2>1. x - (at + d) \in 0 .. SectorBytes - 1
    BY <1>1, <1>5, <1>7, Constants
  <2>2. m[x] = disk[(lba + done) * SectorBytes + x - (at + d)]
    BY <1>2, <1>5, <2>1
  <2>3. (lba + done) * SectorBytes + x - (at + d) = l + k
    BY <1>1, <1>5
  <2>4. QED BY <1>4, <1>5, <2>2, <2>3
<1>8. QED BY <1>1, <1>6, <1>7

-----------------------------------------------------------------------------
\* The steps of build.sh.

\* Outside of a transfer there is no packet.
LEMMA NoTransfer ==
  ASSUME Transfers, pc # "int13"
  PROVE  packet = NoPacket /\ packet.next = "none"
BY DEF Transfers, NoPacket

\* Before the power is switched on nothing is said of the memory.
LEMMA StillOff ==
  ASSUME packet' = NoPacket, pc' \in {"probe", "assemble", "compare", "image", "bios", "halted"}
  PROVE  Transfers' /\ Stage1Stays' /\ Stage2Stays' /\ KernelStays' /\ BssIsZero'
<1>1. packet'.next = "none"
  BY DEF NoPacket
<1>2. QED BY <1>1 DEF Transfers, Stage1Stays, Stage2Stays, KernelStays, BssIsZero

\* Nothing has been built.
LEMMA InitHolds == Init => BootInv
<1> SUFFICES ASSUME Init PROVE BootInv
  OBVIOUS
<1>1. Types
  BY DEF Init, Types
<1>2. Counted /\ ImageWritten
  BY DEF Init, Counted, ImageWritten, Building
<1>3. packet.next = "none"
  BY DEF Init, NoPacket
<1>4. Transfers /\ Stage1Stays /\ Stage2Stays /\ KernelStays /\ BssIsZero
  BY <1>3 DEF Init, Transfers, Stage1Stays, Stage2Stays, KernelStays, BssIsZero
<1>5. QED BY <1>1, <1>2, <1>4 DEF BootInv

\* The first assembly of stage 2 only measures it.
LEMMA ProbeKeepsInv ==
  ASSUME BootInv, Probe
  PROVE  BootInv'
<1>1. pc = "probe" /\ pc' = "assemble" /\ packet' = NoPacket
  BY NoTransfer DEF Probe, BootInv
<1>2. Transfers' /\ Stage1Stays' /\ Stage2Stays' /\ KernelStays' /\ BssIsZero'
  BY <1>1, StillOff
<1>3. Types'
  BY DEF BootInv, Types, Probe
<1>4. stage2_sectors' = Padded(sizes.stage2[1])
  BY Assemblies DEF Probe, BootInv
<1>5. Counted' /\ ImageWritten'
  BY <1>1, <1>4 DEF Counted, ImageWritten, Building, Probe
<1>6. QED BY <1>2, <1>3, <1>5 DEF BootInv

\* The options that an assembly is given.
LEMMA Defined ==
  ASSUME NEW n, Assemble(n), UNCHANGED sizes
  PROVE  DefinesFor(n)'
BY DEF Assemble, DefinesFor, kernel_sectors

\* Stage 2 is assembled with the sector count of the first assembly.
LEMMA AssembleKeepsInv ==
  ASSUME BootInv, AssembleStage2
  PROVE  BootInv'
<1>1. /\ pc = "assemble" /\ pc' = "compare" /\ packet' = NoPacket
      /\ stage2_sectors' = stage2_sectors /\ sizes' = sizes
  BY NoTransfer DEF AssembleStage2, BootInv
<1>2. Transfers' /\ Stage1Stays' /\ Stage2Stays' /\ KernelStays' /\ BssIsZero'
  BY <1>1, StillOff
<1>3. Types'
  BY DEF BootInv, Types, AssembleStage2
<1>4. DefinesFor(stage2_sectors)'
  BY <1>1, Defined DEF AssembleStage2, DefinesFor, kernel_sectors
<1>5. Counted' /\ ImageWritten'
  BY <1>1, <1>4 DEF BootInv, Counted, ImageWritten, Building
<1>6. QED BY <1>2, <1>3, <1>5 DEF BootInv

\* The count that is kept is that of the stage 2 that is kept.
LEMMA CompareKeepsInv ==
  ASSUME BootInv, CompareStage2
  PROVE  BootInv'
<1>1. pc = "compare" /\ pc' = "image" /\ packet' = NoPacket /\ sizes' = sizes
  BY NoTransfer DEF CompareStage2, BootInv
<1>2. Transfers' /\ Stage1Stays' /\ Stage2Stays' /\ KernelStays' /\ BssIsZero'
  BY <1>1, StillOff
<1>3. Types'
  BY DEF BootInv, Types, CompareStage2
<1> DEFINE first == Padded(sizes.stage2[1])
<1> DEFINE final == Padded(sizes.stage2[first])
<1>4. stage2_sectors = first /\ DefinesFor(stage2_sectors)
  BY <1>1 DEF BootInv, Counted
<1>5. Stage2Bytes(defines) = sizes.stage2[first] /\ stage2_sectors' = final
  BY <1>4 DEF Stage2Bytes, DefinesFor, CompareStage2
<1>6. /\ sizes.stage2[first] \in Nat \ {0} /\ sizes.stage2[final] \in Nat \ {0}
      /\ Padded(sizes.stage2[final]) = final
  BY Assemblies DEF BootInv
<1> HIDE DEF first, final
<1>7. DefinesFor(stage2_sectors)'
  <2>1. CASE final = first
    <3>1. defines' = defines
      BY <1>4, <1>5, <2>1 DEF CompareStage2
    <3>2. QED BY <1>1, <1>4, <1>5, <2>1, <3>1 DEF DefinesFor, kernel_sectors
  <2>2. CASE final # first
    <3>1. Assemble(final)
      BY <1>4, <1>5, <2>2 DEF CompareStage2, Assemble
    <3>2. QED BY <1>1, <1>5, <3>1 DEF Assemble, DefinesFor, kernel_sectors
  <2>3. QED BY <2>1, <2>2
<1>8. Stage2Bytes(defines)' = sizes.stage2[final]
  BY <1>1, <1>5, <1>7 DEF DefinesFor, Stage2Bytes
<1>9. Counted'
  BY <1>1, <1>5, <1>6, <1>7, <1>8 DEF Counted, Building, first, final
<1>10. ImageWritten'
  BY <1>1 DEF ImageWritten, Building
<1>11. QED BY <1>2, <1>3, <1>9, <1>10 DEF BootInv

\* Image e is image d with a file at some byte; what was before the file is still there.
Wrote(d, e, file, bytes, at) ==
  /\ DOMAIN e = 0 .. ImageBytes - 1 /\ Holds(e, file, bytes, at)
  /\ \A p \in 0 .. at - 1 : e[p] = d[p]

\* That is what dd does.
LEMMA Written ==
  ASSUME NEW d, DOMAIN d = 0 .. ImageBytes - 1, NEW file, NEW bytes \in Nat, NEW lba \in Nat,
         lba * SectorBytes + bytes <= ImageBytes
  PROVE  Wrote(d, dd(d, file, bytes, lba), file, bytes, lba * SectorBytes)
<1> DEFINE e == dd(d, file, bytes, lba)
<1> DEFINE at == lba * SectorBytes
<1>0a. at \in Nat
  BY Products
<1>0. ImageBytes \in Nat
  BY Constants
<1>1. \A p \in DOMAIN d :
         /\ p - at \in 0 .. bytes - 1 => e[p] = <<file, p - at>>
         /\ p - at \notin 0 .. bytes - 1 => e[p] = d[p]
  BY Zenon DEF dd
<1>2. DOMAIN e = DOMAIN d
  BY DEF dd
<1> HIDE DEF e, at
<1>3. ASSUME NEW k \in 0 .. bytes - 1 PROVE e[at + k] = <<file, k>>
  <2> DEFINE p == at + k
  <2>1. p \in DOMAIN d /\ p - at = k /\ p - at \in 0 .. bytes - 1
    BY <1>0, <1>0a DEF at
  <2> HIDE DEF p
  <2>2. e[p] = <<file, p - at>>
    BY <1>1, <2>1
  <2>3. QED BY <2>1, <2>2 DEF p
<1>4. ASSUME NEW p \in 0 .. at - 1 PROVE e[p] = d[p]
  <2>1. p \in DOMAIN d /\ p - at \notin 0 .. bytes - 1
    BY <1>0, <1>0a DEF at
  <2>2. QED BY <1>1, <2>1
<1>5. Wrote(d, e, file, bytes, at)
  BY <1>2, <1>3, <1>4 DEF Wrote, Holds
<1>6. QED BY <1>5 DEF e, at

\* dd writes a file where no later one is.
LEMMA WriteKeepsInv ==
  ASSUME BootInv, WriteImage
  PROVE  BootInv'
<1>1. /\ pc = "image" /\ pc' = "bios" /\ packet' = NoPacket
      /\ UNCHANGED <<sizes, stage2_sectors, defines, memory>>
  BY NoTransfer DEF WriteImage, BootInv
<1>2. Transfers' /\ Stage1Stays' /\ Stage2Stays' /\ KernelStays' /\ BssIsZero'
  BY <1>1, StillOff
<1>3. Counted'
  BY <1>1 DEF BootInv, Counted, Building, DefinesFor, Stage2Bytes, kernel_sectors
<1> DEFINE n == stage2_sectors
<1> DEFINE b == Stage2Bytes(defines)
<1>4. /\ n \in Nat \ {0} /\ b \in Nat \ {0} /\ n = Padded(b)
      /\ DefinesFor(n)
      /\ (1 + n + kernel_sectors + appfs_sectors) * SectorBytes <= ImageBytes
  BY <1>1, Assemblies DEF BootInv, Counted, Building
<1>5. /\ sizes.kernel \in Nat \ {0} /\ sizes.appfs \in Nat
      /\ kernel_sectors \in Nat \ {0} /\ sizes.kernel <= kernel_sectors * SectorBytes
      /\ appfs_sectors \in Nat \ {0} /\ sizes.appfs <= appfs_sectors * SectorBytes
  BY Files DEF BootInv
<1>6. b <= n * SectorBytes
  BY <1>4, SectorsHold
<1>7. PICK one : one = dd(disk, "stage1", SectorBytes, 0)
  OBVIOUS
<1>8. PICK two : two = dd(one, "stage2", b, 1)
  OBVIOUS
<1>9. PICK three : three = dd(two, "kernel", sizes.kernel, 1 + n)
  OBVIOUS
<1>10. disk' = dd(three, "appfs", sizes.appfs, 1 + n + kernel_sectors)
  BY <1>7, <1>8, <1>9 DEF WriteImage
<1> HIDE DEF n, b
<1> DEFINE K == (1 + n) * SectorBytes
<1> DEFINE A == (1 + n + kernel_sectors) * SectorBytes
<1>11. /\ K = SectorBytes + n * SectorBytes /\ A = K + kernel_sectors * SectorBytes
       /\ (1 + n + kernel_sectors + appfs_sectors) * SectorBytes = A + appfs_sectors * SectorBytes
       /\ n * SectorBytes \in Nat /\ kernel_sectors * SectorBytes \in Nat
       /\ appfs_sectors * SectorBytes \in Nat
  <2>1. n \in Nat /\ 1 \in Nat /\ 1 + n \in Nat /\ kernel_sectors \in Nat /\ appfs_sectors \in Nat
        /\ 1 + n + kernel_sectors \in Nat
    BY <1>4, <1>5
  <2>2. K = 1 * SectorBytes + n * SectorBytes /\ 1 * SectorBytes = SectorBytes
    BY <2>1, Products
  <2>3. A = K + kernel_sectors * SectorBytes
    BY <2>1, Products
  <2>4. (1 + n + kernel_sectors + appfs_sectors) * SectorBytes = A + appfs_sectors * SectorBytes
    BY <2>1, Products
  <2>5. /\ n * SectorBytes \in Nat /\ kernel_sectors * SectorBytes \in Nat
        /\ appfs_sectors * SectorBytes \in Nat
    BY <2>1, Products
  <2>6. QED BY <2>2, <2>3, <2>4, <2>5
<1>12. SectorBytes \in Nat /\ ImageBytes \in Nat /\ 0 * SectorBytes = 0 /\ 1 * SectorBytes = SectorBytes
  BY Constants, Products
<1>13. 1 + n \in Nat /\ 1 + n + kernel_sectors \in Nat /\ DOMAIN disk = 0 .. ImageBytes - 1
  BY <1>4, <1>5 DEF BootInv, Types
<1> HIDE DEF K, A
<1>14. /\ K \in Nat /\ A \in Nat /\ SectorBytes + b <= K /\ K + sizes.kernel <= A
       /\ A + sizes.appfs <= ImageBytes /\ K <= A /\ SectorBytes <= K
  BY <1>4, <1>5, <1>6, <1>11, <1>12
<1>15. Wrote(disk, one, "stage1", SectorBytes, 0)
  <2>1. 0 * SectorBytes + SectorBytes <= ImageBytes /\ 0 \in Nat
    BY <1>5, <1>12, <1>14
  <2>2. Wrote(disk, one, "stage1", SectorBytes, 0 * SectorBytes)
    BY <1>7, <1>12, <1>13, <2>1, Written
  <2>3. QED BY <1>12, <2>2
<1>16. Wrote(one, two, "stage2", b, SectorBytes)
  <2>1. 1 * SectorBytes + b <= ImageBytes /\ 1 \in Nat /\ b \in Nat
    BY <1>4, <1>5, <1>12, <1>14
  <2>2. DOMAIN one = 0 .. ImageBytes - 1
    BY <1>15 DEF Wrote
  <2>3. Wrote(one, two, "stage2", b, 1 * SectorBytes)
    BY <1>8, <2>1, <2>2, Written
  <2>4. QED BY <1>12, <2>3
<1>17. Wrote(two, three, "kernel", sizes.kernel, K)
  <2>1. (1 + n) * SectorBytes + sizes.kernel <= ImageBytes /\ sizes.kernel \in Nat
    BY <1>5, <1>12, <1>14 DEF K
  <2>2. DOMAIN two = 0 .. ImageBytes - 1
    BY <1>16 DEF Wrote
  <2>3. QED BY <1>9, <1>13, <2>1, <2>2, Written DEF K
<1>18. Wrote(three, disk', "appfs", sizes.appfs, A)
  <2>1. (1 + n + kernel_sectors) * SectorBytes + sizes.appfs <= ImageBytes
    BY <1>14 DEF A
  <2>2. DOMAIN three = 0 .. ImageBytes - 1
    BY <1>17 DEF Wrote
  <2>3. QED BY <1>5, <1>10, <1>13, <2>1, <2>2, Written DEF A
<1>19. Types'
  BY <1>1, <1>18 DEF BootInv, Types, Wrote
<1>20. \A k \in 0 .. SectorBytes - 1 : disk'[0 + k] = <<"stage1", k>>
  <2> SUFFICES ASSUME NEW k \in 0 .. SectorBytes - 1 PROVE disk'[k] = <<"stage1", k>>
    BY <1>12
  <2>1. one[k] = <<"stage1", k>>
    BY <1>12, <1>15 DEF Wrote, Holds
  <2>2. k \in 0 .. K - 1 /\ k \in 0 .. A - 1
    BY <1>12, <1>14
  <2>3. QED BY <1>16, <1>17, <1>18, <2>1, <2>2 DEF Wrote
<1>21. \A k \in 0 .. b - 1 : disk'[SectorBytes + k] = <<"stage2", k>>
  <2> SUFFICES ASSUME NEW k \in 0 .. b - 1 PROVE disk'[SectorBytes + k] = <<"stage2", k>>
    OBVIOUS
  <2>1. two[SectorBytes + k] = <<"stage2", k>>
    BY <1>16 DEF Wrote, Holds
  <2>2. SectorBytes + k \in 0 .. K - 1 /\ SectorBytes + k \in 0 .. A - 1
    BY <1>4, <1>12, <1>14
  <2>3. QED BY <1>17, <1>18, <2>1, <2>2 DEF Wrote
<1>22. \A k \in 0 .. sizes.kernel - 1 : disk'[K + k] = <<"kernel", k>>
  <2> SUFFICES ASSUME NEW k \in 0 .. sizes.kernel - 1 PROVE disk'[K + k] = <<"kernel", k>>
    OBVIOUS
  <2>1. three[K + k] = <<"kernel", k>>
    BY <1>17 DEF Wrote, Holds
  <2>2. K + k \in 0 .. A - 1
    BY <1>5, <1>14
  <2>3. QED BY <1>18, <2>1, <2>2 DEF Wrote
<1>23. \A k \in 0 .. sizes.appfs - 1 : disk'[A + k] = <<"appfs", k>>
  BY <1>18 DEF Wrote, Holds
<1>24. /\ Stage2Bytes(defines)' = b /\ defines.KERNEL_LBA * SectorBytes = K
       /\ defines.APPFS_LBA * SectorBytes = A
  BY <1>1, <1>4 DEF DefinesFor, Stage2Bytes, b, K, A
<1>25. ImageWritten'
  <2>1. OnDisk("stage1", SectorBytes, 0)'
    BY <1>12, <1>20 DEF OnDisk
  <2>2. OnDisk("stage2", Stage2Bytes(defines), 1)'
    BY <1>12, <1>21, <1>24 DEF OnDisk
  <2>3. OnDisk("kernel", sizes.kernel, defines.KERNEL_LBA)'
    BY <1>1, <1>22, <1>24 DEF OnDisk
  <2>4. OnDisk("appfs", sizes.appfs, defines.APPFS_LBA)'
    BY <1>1, <1>23, <1>24 DEF OnDisk
  <2>5. QED BY <2>1, <2>2, <2>3, <2>4 DEF ImageWritten
<1>26. QED BY <1>2, <1>3, <1>19, <1>25 DEF BootInv

-----------------------------------------------------------------------------
\* The steps of the BIOS and of the stages.

Running == ~Building /\ pc # "image"

\* The built files and the image stay what they are once the machine runs.
LEMMA HostKept ==
  ASSUME BootInv, Running, UNCHANGED host, Running',
         pc' \in {"bios", "stage1", "int13", "stage2", "long_mode", "entry", "kmain", "halted"},
         DOMAIN memory' = DOMAIN memory
  PROVE  Types' /\ Counted' /\ ImageWritten'
<1>1. Types'
  BY DEF BootInv, Types, host
<1>2. Counted'
  BY DEF BootInv, Counted, Running, Building, DefinesFor, Stage2Bytes, kernel_sectors, host
<1>3. ImageWritten'
  BY DEF BootInv, ImageWritten, Running, Building, OnDisk, Stage2Bytes, host
<1>4. QED BY <1>1, <1>2, <1>3

\* Storing and pushing change no address's being there.
LEMMA SameAddresses ==
  ASSUME NEW m, NEW top, NEW sector, NEW to
  PROVE  DOMAIN Pushed(m, top) = DOMAIN m /\ DOMAIN Stored(m, sector, to) = DOMAIN m
BY DEF Pushed, Stored

\* What the running machine can rely on.
LEMMA Facts ==
  ASSUME BootInv, Running
  PROVE  /\ DOMAIN memory = 0 .. LowMemory - 1
         /\ Stage2Bytes(defines) \in Nat \ {0} /\ stage2_sectors \in Nat \ {0}
         /\ Stage2Bytes(defines) <= stage2_sectors * SectorBytes
         /\ defines.KERNEL_LBA \in Nat
         /\ stage2_sectors <= MaxTransfer => Stage2At + Stage2Bytes(defines) <= KernelAt
         /\ OnDisk("stage1", SectorBytes, 0) /\ OnDisk("stage2", Stage2Bytes(defines), 1)
         /\ OnDisk("kernel", sizes.kernel, defines.KERNEL_LBA)
         /\ sizes.kernel \in Nat \ {0} /\ kernel_sectors \in Nat \ {0}
         /\ sizes.kernel <= kernel_sectors * SectorBytes
         /\ KernelAt + sizes.kernel <= KernelStack - StackBytes
         /\ KernelAt + sizes.kernel <= LowMemory /\ KernelAt <= LowMemory
<1>1. DOMAIN memory = 0 .. LowMemory - 1
  BY DEF BootInv, Types
<1>2. /\ Stage2Bytes(defines) \in Nat \ {0} /\ stage2_sectors = Padded(Stage2Bytes(defines))
      /\ defines.KERNEL_LBA = 1 + stage2_sectors
  BY DEF BootInv, Counted, Running, DefinesFor
<1>3. stage2_sectors \in Nat \ {0} /\ Stage2Bytes(defines) <= stage2_sectors * SectorBytes
  BY <1>2, SectorsHold
<1>4. /\ OnDisk("stage1", SectorBytes, 0) /\ OnDisk("stage2", Stage2Bytes(defines), 1)
      /\ OnDisk("kernel", sizes.kernel, defines.KERNEL_LBA)
  BY DEF BootInv, ImageWritten, Running
<1>5. /\ sizes.kernel \in Nat \ {0} /\ kernel_sectors \in Nat \ {0}
      /\ sizes.kernel <= kernel_sectors * SectorBytes
      /\ KernelAt + sizes.kernel <= KernelStack - StackBytes
  BY Files, Constants DEF BootInv
<1>6. KernelAt + sizes.kernel <= LowMemory /\ KernelAt <= LowMemory
  BY <1>5, Constants
<1>7. ASSUME stage2_sectors <= MaxTransfer PROVE Stage2At + Stage2Bytes(defines) <= KernelAt
  <2> DEFINE p == stage2_sectors * SectorBytes
  <2> DEFINE q == MaxTransfer * SectorBytes
  <2>1. p <= q /\ p \in Nat /\ q \in Nat
    BY <1>3, <1>7, Products, Constants
  <2>2. Stage2Bytes(defines) <= p /\ Stage2At + q <= KernelAt
    BY <1>3, Constants
  <2> HIDE DEF p, q
  <2>3. QED BY <1>2, <2>1, <2>2, Constants
<1>8. QED BY <1>1, <1>2, <1>3, <1>4, <1>5, <1>6, <1>7

\* The BIOS loads the first sector.
LEMMA PowerOnKeepsInv ==
  ASSUME BootInv, PowerOn
  PROVE  BootInv'
<1>1. /\ pc = "bios" /\ pc' = "stage1" /\ UNCHANGED host /\ packet' = NoPacket
      /\ memory' = Stored(memory, 0, Stage1At) /\ Running /\ Running'
  BY NoTransfer DEF PowerOn, BootInv, Running, Building
<1>2. Types' /\ Counted' /\ ImageWritten'
  BY <1>1, HostKept, SameAddresses
<1>3. packet'.next = "none"
  BY <1>1 DEF NoPacket
<1>4. Transfers' /\ Stage2Stays' /\ KernelStays' /\ BssIsZero'
  BY <1>1, <1>3 DEF Transfers, Stage2Stays, KernelStays, BssIsZero
<1>5. ASSUME NEW k \in 0 .. SectorBytes - 1 PROVE memory'[Stage1At + k] = <<"stage1", k>>
  <2> DEFINE a == Stage1At + k
  <2>0. OnDisk("stage1", SectorBytes, 0) /\ DOMAIN memory = 0 .. LowMemory - 1 /\ KernelAt <= LowMemory
    BY <1>1, Facts
  <2>1. disk[0 * SectorBytes + k] = <<"stage1", k>>
    BY <2>0 DEF OnDisk
  <2>2. Stage2At <= KernelAt
    <3>1. MaxTransfer * SectorBytes \in Nat
      BY Constants, Products
    <3>2. QED BY <3>1, Constants
  <2>3. a \in DOMAIN memory /\ a - Stage1At = k /\ a - Stage1At \in 0 .. SectorBytes - 1
    BY <2>0, <2>2, Constants
  <2>4. 0 * SectorBytes = 0 /\ SectorBytes \in Nat
    BY Constants, Products
  <2>5. 0 * SectorBytes + a - Stage1At = 0 * SectorBytes + k
    BY <2>4, Constants
  <2> HIDE DEF a
  <2>6. memory'[a] = disk[0 * SectorBytes + a - Stage1At]
    BY Zenon, <1>1, <2>3 DEF Stored
  <2>7. QED BY <2>1, <2>5, <2>6 DEF a
<1>6. Stage1Stays'
  BY <1>5 DEF Stage1Stays, InMemory
<1>7. QED BY <1>2, <1>4, <1>6 DEF BootInv

\* Stage 1 makes the packet for stage 2.
LEMMA BootStartKeepsInv ==
  ASSUME BootInv, boot_start
  PROVE  BootInv'
<1>1. /\ pc = "stage1" /\ pc' = "int13" /\ UNCHANGED host /\ sp' = Stage1At
      /\ packet' = [lba |-> 1, count |-> stage2_sectors, to |-> Stage2At, done |-> 0, next |-> "stage2"]
      /\ memory' = Pushed(memory, Stage1At) /\ Running /\ Running'
  BY DEF boot_start, Read, BootInv, Running, Building
<1>2. Types' /\ Counted' /\ ImageWritten'
  BY <1>1, HostKept, SameAddresses
<1>3. Stage2Stays' /\ KernelStays' /\ BssIsZero'
  BY <1>1 DEF Stage2Stays, KernelStays, BssIsZero
<1>4. Stage1Stays'
  <2>1. Holds(memory, "stage1", SectorBytes, Stage1At)
    BY <1>1 DEF BootInv, Stage1Stays, InMemory, Holds
  <2>2. Stage1At + SectorBytes <= LowMemory
    <3>1. MaxTransfer * SectorBytes \in Nat
      BY Constants, Products
    <3>2. KernelAt <= LowMemory
      BY <1>1, Facts
    <3>3. QED BY <3>1, <3>2, Constants
  <2>3. DOMAIN memory = 0 .. LowMemory - 1
    BY <1>1, Facts
  <2>4. Holds(memory', "stage1", SectorBytes, Stage1At)
    BY <1>1, <2>1, <2>2, <2>3, Constants, PushElsewhere
  <2>5. QED BY <2>4 DEF Stage1Stays, InMemory, Holds
<1>5. ReadingStage2'
  <2>1. Loaded(memory', "stage2", Stage2Bytes(defines)', Stage2At, 0)
    BY Products DEF Loaded
  <2>2. stage2_sectors' = stage2_sectors /\ stage2_sectors \in Nat
    BY <1>1, Facts DEF host
  <2>3. QED BY <1>1, <2>1, <2>2 DEF ReadingStage2, Reading, Loaded
<1>6. Transfers'
  BY <1>1, <1>5 DEF Transfers
<1>7. QED BY <1>2, <1>3, <1>4, <1>6 DEF BootInv

\* Stage 2 makes the packet for the kernel.
LEMMA Stage2StartKeepsInv ==
  ASSUME BootInv, stage2_start
  PROVE  BootInv'
<1>1. /\ pc = "stage2" /\ pc' = "int13" /\ UNCHANGED host /\ sp' = Stage2Stack
      /\ packet' = [lba |-> defines.KERNEL_LBA, count |-> kernel_sectors, to |-> KernelAt,
                    done |-> 0, next |-> "long_mode"]
      /\ memory' = Pushed(memory, Stage2Stack) /\ Running /\ Running'
  BY DEF stage2_start, Read, BootInv, Running, Building
<1>2. Types' /\ Counted' /\ ImageWritten'
  BY <1>1, HostKept, SameAddresses
<1>3. Stage1Stays' /\ KernelStays' /\ BssIsZero'
  BY <1>1 DEF Stage1Stays, KernelStays, BssIsZero
<1>4. Stage2Stays'
  <2> DEFINE b == Stage2Bytes(defines)
  <2>1. Holds(memory, "stage2", b, Stage2At) /\ stage2_sectors <= MaxTransfer
    BY <1>1 DEF BootInv, Stage2Stays, Stage2InMemory, InMemory, Holds
  <2>2. DOMAIN memory = 0 .. LowMemory - 1 /\ Stage2At + b <= KernelAt /\ KernelAt <= LowMemory /\ b \in Nat
    BY <1>1, <2>1, Facts
  <2>3. b' = b /\ stage2_sectors' = stage2_sectors
    BY <1>1 DEF host, Stage2Bytes
  <2> HIDE DEF b
  <2>4. Stage2At + b <= LowMemory /\ Stage2Stack <= Stage2At
    BY <2>2, Constants
  <2>5. Holds(memory', "stage2", b, Stage2At)
    BY <1>1, <2>1, <2>2, <2>4, Constants, PushElsewhere
  <2>6. InMemory("stage2", b, Stage2At)'
    BY <2>3, <2>5 DEF InMemory, Holds
  <2>7. QED BY <2>1, <2>3, <2>6 DEF Stage2Stays, Stage2InMemory, b
<1>5. ReadingKernel'
  <2>1. Loaded(memory', "kernel", sizes.kernel', KernelAt, 0)
    BY Products DEF Loaded
  <2>2. kernel_sectors' = kernel_sectors /\ kernel_sectors \in Nat /\ defines' = defines
    BY <1>1, Facts DEF host, kernel_sectors
  <2>3. QED BY <1>1, <2>1, <2>2 DEF ReadingKernel, Reading, Loaded
<1>6. Transfers'
  BY <1>1, <1>5 DEF Transfers
<1>7. QED BY <1>2, <1>3, <1>4, <1>6 DEF BootInv

\* One sector more, of stage 2 or of the kernel; the stage that waits for it stays whole.
LEMMA BiosReadsKeepsInv ==
  ASSUME BootInv, BiosReads
  PROVE  BootInv'
<1> DEFINE done == packet.done
<1> DEFINE b == Stage2Bytes(defines)
<1>1. /\ pc = "int13" /\ pc' = "int13" /\ UNCHANGED host /\ sp' = sp
      /\ packet.done < packet.count /\ packet.count <= MaxTransfer
      /\ packet' = [packet EXCEPT !.done = done + 1] /\ Running /\ Running'
      /\ memory' = Stored(Pushed(memory, sp), packet.lba + done, packet.to + done * SectorBytes)
  BY DEF BiosReads, BootInv, Running, Building
<1>2. Types' /\ Counted' /\ ImageWritten'
  BY <1>1, HostKept, SameAddresses
<1>3. KernelStays' /\ BssIsZero'
  BY <1>1 DEF KernelStays, BssIsZero
<1>4. /\ DOMAIN memory = 0 .. LowMemory - 1 /\ b \in Nat /\ KernelAt <= LowMemory
      /\ stage2_sectors <= MaxTransfer => Stage2At + b <= KernelAt
      /\ OnDisk("stage2", b, 1) /\ OnDisk("kernel", sizes.kernel, defines.KERNEL_LBA)
      /\ sizes.kernel \in Nat /\ KernelAt + sizes.kernel <= LowMemory
      /\ defines.KERNEL_LBA \in Nat /\ stage2_sectors \in Nat /\ kernel_sectors \in Nat
  BY <1>1, Facts
<1>5. b' = b /\ kernel_sectors' = kernel_sectors /\ UNCHANGED <<sizes, stage2_sectors, defines>>
  BY <1>1 DEF host, Stage2Bytes, kernel_sectors
<1> HIDE DEF b
<1>6. CASE ReadingStage2
  <2>1. /\ packet = [lba |-> 1, count |-> stage2_sectors, to |-> Stage2At, done |-> done, next |-> "stage2"]
        /\ done \in 0 .. stage2_sectors /\ sp = Stage1At
        /\ Loaded(memory, "stage2", b, Stage2At, done)
    BY <1>6 DEF ReadingStage2, Reading, b
  <2> HIDE DEF done
  <2>2. /\ packet' = [lba |-> 1, count |-> stage2_sectors, to |-> Stage2At, done |-> done + 1, next |-> "stage2"]
        /\ done < stage2_sectors /\ stage2_sectors <= MaxTransfer
        /\ memory' = Stored(Pushed(memory, Stage1At), 1 + done, Stage2At + done * SectorBytes)
    BY <1>1, <2>1
  <2>3. done \in Nat /\ done * SectorBytes \in Nat /\ Stage2At + b <= LowMemory
        /\ Stage1At <= Stage2At /\ 1 \in Nat
    BY <1>4, <2>1, <2>2, Products, Constants
  <2>4. Loaded(memory', "stage2", b, Stage2At, done + 1)
    BY <1>4, <2>1, <2>2, <2>3, Constants, NextSector
  <2>5. ReadingStage2'
    <3>1. packet'.done = done + 1 /\ done + 1 \in 0 .. stage2_sectors
      BY <1>4, <2>1, <2>2
    <3>2. QED BY <1>1, <1>5, <2>1, <2>2, <2>4, <3>1 DEF ReadingStage2, Reading, Loaded, b
  <2>6. Holds(memory', "stage1", SectorBytes, Stage1At)
    <3>1. Holds(memory, "stage1", SectorBytes, Stage1At)
      BY <2>1 DEF BootInv, Stage1Stays, InMemory, Holds
    <3>2. /\ Stage1At + SectorBytes <= LowMemory /\ Stage1At <= Stage1At
          /\ Stage1At + SectorBytes <= Stage2At + done * SectorBytes
          /\ Stage2At + done * SectorBytes \in Nat /\ SectorBytes \in Nat /\ Stage1At \in Nat
      BY <1>4, <2>3, Constants
    <3>3. QED BY <1>4, <2>2, <3>1, <3>2, StoreElsewhere
  <2>7. Stage1Stays' /\ Stage2Stays'
    BY <1>1, <2>2, <2>6 DEF Stage1Stays, Stage2Stays, InMemory, Holds
  <2>8. QED BY <1>1, <1>2, <1>3, <2>5, <2>7 DEF BootInv, Transfers
<1>7. CASE ReadingKernel
  <2>1. /\ packet = [lba |-> defines.KERNEL_LBA, count |-> kernel_sectors, to |-> KernelAt,
                     done |-> done, next |-> "long_mode"]
        /\ done \in 0 .. kernel_sectors /\ sp = Stage2Stack
        /\ Loaded(memory, "kernel", sizes.kernel, KernelAt, done)
    BY <1>7 DEF ReadingKernel, Reading
  <2> HIDE DEF done
  <2>2. /\ packet' = [lba |-> defines.KERNEL_LBA, count |-> kernel_sectors, to |-> KernelAt,
                      done |-> done + 1, next |-> "long_mode"]
        /\ done < kernel_sectors /\ kernel_sectors <= MaxTransfer
        /\ memory' = Stored(Pushed(memory, Stage2Stack), defines.KERNEL_LBA + done,
                            KernelAt + done * SectorBytes)
    BY <1>1, <2>1
  <2>3. /\ Holds(memory, "stage2", b, Stage2At) /\ stage2_sectors <= MaxTransfer
    BY <2>1 DEF BootInv, Stage2Stays, Stage2InMemory, InMemory, Holds, b
  <2>4. /\ done \in Nat /\ done * SectorBytes \in Nat /\ Stage2At + b <= KernelAt
        /\ Stage2At <= KernelAt
    BY <1>4, <2>1, <2>3, Products, Constants
  <2>5. Stage2Stack <= KernelAt /\ Stage2Stack <= Stage2At /\ Stage2At + b <= LowMemory
        /\ Stage2At + b <= KernelAt + done * SectorBytes /\ KernelAt + done * SectorBytes \in Nat
    BY <1>4, <2>4, Constants
  <2>6. Loaded(memory', "kernel", sizes.kernel, KernelAt, done + 1)
    BY <1>4, <2>1, <2>2, <2>4, <2>5, Constants, NextSector
  <2>7. ReadingKernel'
    <3>1. packet'.done = done + 1 /\ done + 1 \in 0 .. kernel_sectors
      BY <1>4, <2>1, <2>2
    <3>2. QED BY <1>1, <1>5, <2>1, <2>2, <2>6, <3>1 DEF ReadingKernel, Reading, Loaded
  <2>8. Holds(memory', "stage2", b, Stage2At)
    BY <1>4, <2>2, <2>3, <2>5, Constants, StoreElsewhere
  <2>9. InMemory("stage2", b, Stage2At)'
    BY <1>5, <2>8 DEF InMemory, Holds
  <2>10. Stage1Stays' /\ Stage2Stays'
    BY <1>1, <1>5, <2>2, <2>3, <2>9 DEF Stage1Stays, Stage2Stays, Stage2InMemory, b
  <2>11. QED BY <1>1, <1>2, <1>3, <2>7, <2>10 DEF BootInv, Transfers
<1>8. QED BY <1>1, <1>6, <1>7 DEF BootInv, Transfers

\* All sectors that were counted for a file hold all of it.
LEMMA AllLoaded ==
  ASSUME NEW file, NEW bytes \in Nat, NEW at, NEW n \in Nat, bytes <= n * SectorBytes,
         Loaded(memory, file, bytes, at, n)
  PROVE  InMemory(file, bytes, at)
<1>1. n * SectorBytes \in Nat
  BY Products
<1>2. QED BY <1>1 DEF Loaded, InMemory

\* A transfer leaves what was loaded before it.
LEMMA BiosDoneKeepsInv ==
  ASSUME BootInv, BiosDone
  PROVE  BootInv'
<1>1. /\ pc = "int13" /\ pc' = packet.next /\ UNCHANGED host /\ packet' = NoPacket
      /\ memory' = memory /\ packet.done = packet.count
  BY DEF BiosDone
<1>2. Running /\ packet'.next = "none"
  BY <1>1 DEF Running, Building, NoPacket
<1>3. UNCHANGED <<sizes, stage2_sectors, defines>>
  BY <1>1 DEF host
<1>4. CASE ReadingStage2
  <2>1. /\ packet.next = "stage2" /\ packet.count = stage2_sectors
        /\ packet.done > 0 => stage2_sectors <= MaxTransfer
        /\ Loaded(memory, "stage2", Stage2Bytes(defines), Stage2At, packet.done)
    BY <1>4 DEF ReadingStage2, Reading
  <2>2. /\ Stage2Bytes(defines) \in Nat /\ stage2_sectors \in Nat \ {0}
        /\ Stage2Bytes(defines) <= stage2_sectors * SectorBytes
    BY <1>2, Facts
  <2>3. InMemory("stage2", Stage2Bytes(defines), Stage2At) /\ stage2_sectors <= MaxTransfer
    BY <1>1, <2>1, <2>2, AllLoaded
  <2>4. Types' /\ Counted' /\ ImageWritten'
    BY <1>1, <1>2, <2>1, HostKept DEF Running, Building
  <2>5. Transfers' /\ Stage1Stays' /\ KernelStays' /\ BssIsZero'
    BY <1>1, <1>2, <2>1 DEF Transfers, Stage1Stays, KernelStays, BssIsZero
  <2>6. Stage2Stays'
    BY <1>1, <1>3, <2>3 DEF Stage2Stays, Stage2InMemory, InMemory, Stage2Bytes
  <2>7. QED BY <2>4, <2>5, <2>6 DEF BootInv
<1>5. CASE ReadingKernel
  <2>1. /\ packet.next = "long_mode" /\ packet.count = kernel_sectors
        /\ Loaded(memory, "kernel", sizes.kernel, KernelAt, packet.done)
    BY <1>5 DEF ReadingKernel, Reading
  <2>2. /\ sizes.kernel \in Nat /\ kernel_sectors \in Nat \ {0}
        /\ sizes.kernel <= kernel_sectors * SectorBytes
    BY <1>2, Facts
  <2>3. InMemory("kernel", sizes.kernel, KernelAt)
    BY <1>1, <2>1, <2>2, AllLoaded
  <2>4. Types' /\ Counted' /\ ImageWritten'
    BY <1>1, <1>2, <2>1, HostKept DEF Running, Building
  <2>5. Transfers' /\ Stage1Stays' /\ BssIsZero'
    BY <1>1, <1>2, <2>1 DEF Transfers, Stage1Stays, BssIsZero
  <2>6. Stage2Stays'
    BY <1>1, <1>3, <2>1 DEF BootInv, Stage2Stays, Stage2InMemory, InMemory, Stage2Bytes
  <2>7. KernelStays'
    BY <1>1, <1>3, <2>3 DEF KernelStays, InMemory
  <2>8. QED BY <2>4, <2>5, <2>6, <2>7 DEF BootInv
<1>6. QED BY <1>1, <1>4, <1>5 DEF BootInv, Transfers

\* A read that failed ends in the hlt loop.
LEMMA BiosFailsKeepsInv ==
  ASSUME BootInv, BiosFails
  PROVE  BootInv'
<1>1. /\ pc = "int13" /\ pc' = "halted" /\ UNCHANGED host /\ packet' = NoPacket
      /\ memory' = memory /\ Running /\ Running'
  BY DEF BiosFails, disk_error, Running, Building
<1>2. Types' /\ Counted' /\ ImageWritten'
  BY <1>1, HostKept
<1>3. QED BY <1>1, <1>2, StillOff DEF BootInv

\* Stage 2 jumps to the kernel's entry.
LEMMA LongModeKeepsInv ==
  ASSUME BootInv, enter_long_mode
  PROVE  BootInv'
<1>1. /\ pc = "long_mode" /\ pc' = "entry" /\ UNCHANGED host /\ packet' = NoPacket
      /\ memory' = memory /\ Running /\ Running'
  BY NoTransfer DEF enter_long_mode, BootInv, Running, Building
<1>2. Types' /\ Counted' /\ ImageWritten'
  BY <1>1, HostKept
<1>3. packet'.next = "none"
  BY <1>1 DEF NoPacket
<1>4. Transfers' /\ Stage1Stays' /\ BssIsZero'
  BY <1>1, <1>3 DEF Transfers, Stage1Stays, BssIsZero
<1>5. Stage2Stays' /\ KernelStays'
  BY <1>1 DEF BootInv, Stage2Stays, KernelStays, Stage2InMemory, InMemory, Stage2Bytes, host
<1>6. QED BY <1>2, <1>4, <1>5 DEF BootInv

\* .bss lies between the kernel and the stack, so clearing it and pushing spare the rest.
LEMMA EntryKeepsInv ==
  ASSUME BootInv, kernel_entry
  PROVE  BootInv'
<1> DEFINE k == sizes.kernel
<1> DEFINE z == bss_start(k)
<1> DEFINE b == Stage2Bytes(defines)
<1>1. /\ pc = "entry" /\ pc' = "kmain" /\ UNCHANGED host /\ packet' = NoPacket
      /\ memory' = Pushed(BssCleared, KernelStack) /\ Running /\ Running'
  BY NoTransfer DEF kernel_entry, BootInv, Running, Building
<1>2. DOMAIN memory' = DOMAIN memory
  BY <1>1 DEF Pushed, BssCleared
<1>3. Types' /\ Counted' /\ ImageWritten'
  BY <1>1, <1>2, HostKept
<1>4. packet'.next = "none"
  BY <1>1 DEF NoPacket
<1>5. Transfers' /\ Stage1Stays'
  BY <1>1, <1>4 DEF Transfers, Stage1Stays
<1>6. \A a \in DOMAIN memory : a \notin KernelStack - StackBytes .. KernelStack - 1 =>
         /\ a - KernelAt - z \in 0 .. sizes.bss - 1 => memory'[a] = ZERO
         /\ a - KernelAt - z \notin 0 .. sizes.bss - 1 => memory'[a] = memory[a]
  <2> SUFFICES ASSUME NEW a \in DOMAIN memory, a \notin KernelStack - StackBytes .. KernelStack - 1
               PROVE  /\ a - KernelAt - z \in 0 .. sizes.bss - 1 => memory'[a] = ZERO
                      /\ a - KernelAt - z \notin 0 .. sizes.bss - 1 => memory'[a] = memory[a]
    OBVIOUS
  <2>1. memory'[a] = BssCleared[a]
    BY Zenon, <1>1 DEF Pushed, BssCleared
  <2>2. QED BY Zenon, <2>1 DEF BssCleared
<1>7. /\ k \in Nat /\ sizes.bss \in Nat /\ z \in Nat /\ k <= z
      /\ KernelAt + z + sizes.bss <= KernelStack - StackBytes
  BY Files DEF BootInv
<1>8. stage2_sectors <= MaxTransfer /\ Holds(memory, "stage2", b, Stage2At)
      /\ Holds(memory, "kernel", k, KernelAt)
  BY <1>1 DEF BootInv, Stage2Stays, KernelStays, Stage2InMemory, InMemory, Holds
<1>9. DOMAIN memory = 0 .. LowMemory - 1 /\ b \in Nat /\ Stage2At + b <= KernelAt
  BY <1>1, <1>8, Facts
<1>10. UNCHANGED <<k, z, b, sizes, stage2_sectors>>
  BY <1>1 DEF host, Stage2Bytes
<1> HIDE DEF z, b
<1>11. \A i \in 0 .. b - 1 : memory'[Stage2At + i] = <<"stage2", i>>
  <2> SUFFICES ASSUME NEW i \in 0 .. b - 1 PROVE memory'[Stage2At + i] = <<"stage2", i>>
    OBVIOUS
  <2> DEFINE a == Stage2At + i
  <2>1. /\ a \in DOMAIN memory /\ a \notin KernelStack - StackBytes .. KernelStack - 1
        /\ a - KernelAt - z \notin 0 .. sizes.bss - 1
    BY <1>7, <1>9, Constants
  <2> HIDE DEF a
  <2>2. memory'[a] = memory[a]
    BY <1>6, <2>1
  <2>3. QED BY <1>8, <2>2 DEF Holds, a
<1>12. \A i \in 0 .. k - 1 : memory'[KernelAt + i] = <<"kernel", i>>
  <2> SUFFICES ASSUME NEW i \in 0 .. k - 1 PROVE memory'[KernelAt + i] = <<"kernel", i>>
    OBVIOUS
  <2> DEFINE a == KernelAt + i
  <2>1. /\ a \in DOMAIN memory /\ a \notin KernelStack - StackBytes .. KernelStack - 1
        /\ a - KernelAt - z \notin 0 .. sizes.bss - 1
    BY <1>7, <1>9, Constants
  <2> HIDE DEF a
  <2>2. memory'[a] = memory[a]
    BY <1>6, <2>1
  <2>3. QED BY <1>8, <2>2 DEF Holds, a
<1>13. \A i \in 0 .. sizes.bss - 1 : memory'[KernelAt + z + i] = ZERO
  <2> SUFFICES ASSUME NEW i \in 0 .. sizes.bss - 1 PROVE memory'[KernelAt + z + i] = ZERO
    OBVIOUS
  <2> DEFINE a == KernelAt + z + i
  <2>1. /\ a \in DOMAIN memory /\ a \notin KernelStack - StackBytes .. KernelStack - 1
        /\ a - KernelAt - z \in 0 .. sizes.bss - 1
    BY <1>7, <1>9, Constants
  <2> HIDE DEF a
  <2>2. memory'[a] = ZERO
    BY <1>6, <2>1
  <2>3. QED BY <2>2 DEF a
<1>14. Stage2Stays'
  BY <1>8, <1>10, <1>11 DEF Stage2Stays, Stage2InMemory, InMemory, b
<1>15. KernelStays'
  BY <1>10, <1>12 DEF KernelStays, InMemory
<1>16. BssIsZero'
  BY <1>10, <1>13 DEF BssIsZero, z
<1>17. QED BY <1>3, <1>5, <1>14, <1>15, <1>16 DEF BootInv

-----------------------------------------------------------------------------
\* Every step from build.sh to kmain keeps the invariant.
THEOREM BootInvariance == Spec => []BootInv
<1>1. Init => BootInv
  BY InitHolds
<1>2. BootInv /\ [Next]_vars => BootInv'
  <2> SUFFICES ASSUME BootInv, [Next]_vars PROVE BootInv'
    OBVIOUS
  <2>1. ASSUME UNCHANGED vars PROVE BootInv'
    <3>1. Types' /\ Counted' /\ ImageWritten'
      BY <2>1 DEF vars, BootInv, Types, Counted, ImageWritten, Building, DefinesFor, Stage2Bytes,
         kernel_sectors, OnDisk
    <3>2. Transfers'
      BY <2>1 DEF vars, BootInv, Transfers, ReadingStage2, ReadingKernel, Reading, Loaded,
         Stage2Bytes, kernel_sectors
    <3>3. Stage1Stays' /\ Stage2Stays' /\ KernelStays' /\ BssIsZero'
      BY <2>1 DEF vars, BootInv, Stage1Stays, Stage2Stays, KernelStays, BssIsZero, Stage2InMemory,
         InMemory, Stage2Bytes
    <3>4. QED BY <3>1, <3>2, <3>3 DEF BootInv
  <2>2. CASE Probe
    BY <2>2, ProbeKeepsInv
  <2>3. CASE AssembleStage2
    BY <2>3, AssembleKeepsInv
  <2>4. CASE CompareStage2
    BY <2>4, CompareKeepsInv
  <2>5. CASE WriteImage
    BY <2>5, WriteKeepsInv
  <2>6. CASE PowerOn
    BY <2>6, PowerOnKeepsInv
  <2>7. CASE BiosReads
    BY <2>7, BiosReadsKeepsInv
  <2>8. CASE BiosDone
    BY <2>8, BiosDoneKeepsInv
  <2>9. CASE BiosFails
    BY <2>9, BiosFailsKeepsInv
  <2>10. CASE boot_start
    BY <2>10, BootStartKeepsInv
  <2>11. CASE stage2_start
    BY <2>11, Stage2StartKeepsInv
  <2>12. CASE enter_long_mode
    BY <2>12, LongModeKeepsInv
  <2>13. CASE kernel_entry
    BY <2>13, EntryKeepsInv
  <2>14. CASE Rest
    BY <2>1, <2>14 DEF Rest
  <2>15. QED BY <2>1, <2>2, <2>3, <2>4, <2>5, <2>6, <2>7, <2>8, <2>9, <2>10, <2>11, <2>12, <2>13,
            <2>14 DEF Next
<1>3. QED BY <1>1, <1>2, PTL DEF Spec

\* No stage runs unless all of it was loaded, and none is overwritten while it runs.
THEOREM LoadedBeforeRun == Spec => []RunsWhatWasBuilt
<1>1. BootInv => RunsWhatWasBuilt
  BY DEF BootInv, Stage1Stays, Stage2Stays, KernelStays, RunsWhatWasBuilt
<1>2. QED BY <1>1, BootInvariance, PTL

\* kmain finds the kernel, a clear .bss, stage 2 and the volume's place as they were built.
THEOREM KmainFindsAll == Spec => []HandsOver
<1>1. ASSUME BootInv, pc = "kmain"
      PROVE  \A k \in 0 .. sizes.appfs - 1 : disk[defines.APPFS_LBA * SectorBytes + k] = <<"appfs", k>>
  BY <1>1 DEF BootInv, ImageWritten, Building, OnDisk
<1>2. ASSUME BootInv PROVE appfs_sectors * SectorBytes >= sizes.appfs
  BY <1>2, Files, Products DEF BootInv
<1>3. BootInv => HandsOver
  BY <1>1, <1>2 DEF BootInv, Stage2Stays, KernelStays, BssIsZero, HandsOver
<1>4. QED BY <1>3, BootInvariance, PTL
=============================================================================
