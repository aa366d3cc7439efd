----------------------------- MODULE RuntimeProofs -----------------------------
(***************************************************************************)
(* appfs_init publishes a catalogue only if all of it was read, into pages *)
(* that have room for it; what was packed is what is found; an application *)
(* starts on the memory its file describes, in its window; and a launch    *)
(* fails only for a reason: for every list of files, every disk, sector,   *)
(* page and command size, and every window.                                *)
(***************************************************************************)
EXTENDS Runtime, StorageProofs

(***************************************************************************)
(* Once a call of the driver has succeeded, the drive has nothing left to  *)
(* do: a command brings as many sectors as ata_read takes.                 *)
(***************************************************************************)
AtRest ==
  /\ ata_pc = "data" => drive_left = chunk - sector
  /\ ata_pc = "idle" /\ ata_result => drive # "busy"

\* What boot_info told lies on the disk, and appfs_init has taken it over.
ToldRange ==
  /\ files \in Volumes
  /\ told_sectors \in Nat /\ VolumeLba + told_sectors <= DiskSectors
  /\ appfs_pc \in {"ata_init", "page_alloc", "ata_read"} \/ appfs_header =>
       boot_lba = VolumeLba /\ boot_sectors = told_sectors
  /\ boot_sectors \in Nat

\* Where appfs_init waits for the driver, and what the driver is doing then.
Calls ==
  /\ appfs_pc \in {"start", "ata_init", "page_alloc", "ata_read", "done"}
  /\ appfs_pc \in {"start", "page_alloc", "done"} => ata_pc = "idle"
  /\ appfs_pc = "ata_init" => ~Reading
  /\ appfs_pc = "ata_read" =>
       /\ ata_pc # "init"
       /\ lba = boot_lba /\ sector_count = boot_sectors
       /\ ata_pc = "idle" /\ ata_result => Len(buffer) = sector_count
  /\ rt_pc = "init" <=> appfs_pc # "done"

\* What has been published.
Published ==
  /\ appfs_header =>
       /\ appfs_pc = "done" /\ ata_result
       /\ lba = boot_lba /\ sector_count = boot_sectors /\ Len(buffer) = boot_sectors
  /\ ~appfs_header => runtime_ready = FALSE
  /\ appfs_header => (runtime_ready <=> HeaderValid)

\* The pages of the image.
Pages ==
  appfs_image # NULL =>
    /\ appfs_image = ImagePages
    /\ appfs_pc \in {"ata_read", "done"} /\ sector_count = boot_sectors

StorageInv == AtaInv /\ AtRest /\ ToldRange /\ Calls /\ Published /\ Pages

-----------------------------------------------------------------------------
\* The file being started, and the bytes of the image that are its own.
Chosen ==
  LET f == FirstNamed(launched)
  IN  /\ runtime_ready /\ FilesNamed(launched) # {}
      /\ image = running_offset(files)[f] /\ elf_size = files[f].size
      /\ elf_size >= ElfHeaderBytes

\* In mem, the window holds what the first segments of file f describe, and zeros elsewhere.
HoldsFirst(mem, f, file, count) ==
  \A a \in Window :
    LET cover == {s \in Loaded(file) : s <= count /\ a \in Extent(file.segments[s])}
    IN  /\ cover = {} => mem[a] = ZERO
        /\ \A s \in cover : mem[a] = SegmentByte(f, file.segments[s], a)

\* What has been loaded, of a file that a linker wrote.
Progress ==
  LET f == FirstNamed(launched)
  IN  /\ rt_pc = "load" =>
           /\ index \in 1 .. Len(files[f].segments) + 1
           /\ WellFormed(files[f]) => HoldsFirst(memory, f, files[f], index - 1)
      /\ rt_pc = "run" /\ WellFormed(files[f]) =>
           HoldsFirst(memory, f, files[f], Len(files[f].segments))

LaunchInv ==
  /\ rt_pc \in {"init", "autorun", "shell", "load", "run", "broken"}
  /\ DOMAIN memory = 0 .. MemoryBytes - 1 /\ KernelUntouched
  /\ rt_pc \in {"load", "run"} => Chosen /\ Progress

-----------------------------------------------------------------------------
\* The header is a function of the sectors in the buffer and of the disk.
LEMMA SameHeader ==
  ASSUME UNCHANGED <<buffer, files, blank, boot_sectors>>
  PROVE  HeaderValid' <=> HeaderValid
BY DEF HeaderValid, header, ImageByte, DiskByte

\* Rounding up to pages leaves room for all bytes.
LEMMA RoundedUp ==
  ASSUME NEW n \in Nat, NEW p \in Nat, p > 0
  PROVE  /\ (n + p - 1) \div p \in Nat
         /\ n <= ((n + p - 1) \div p) * p
OBVIOUS

\* Fewer sectors take less room.
LEMMA LessRoom ==
  ASSUME NEW m \in Nat, NEW n \in Nat, NEW s \in Nat, m <= n
  PROVE  m * s <= n * s /\ n * s \in Nat
OBVIOUS

\* The two properties follow from the invariant.
LEMMA InvImpliesWhole == StorageInv => CatalogueWhole
<1> SUFFICES ASSUME StorageInv PROVE CatalogueWhole
  OBVIOUS
<1>1. appfs_is_ready =>
        /\ Len(buffer) = boot_sectors
        /\ \A i \in 1 .. boot_sectors : buffer[i] = boot_lba + i - 1
  BY DEF StorageInv, Published, appfs_is_ready, AtaInv, ReadExact
<1>2. runtime_ready <=> appfs_is_ready
  BY DEF StorageInv, Published, appfs_is_ready
<1>3. QED BY <1>1, <1>2 DEF CatalogueWhole

\* The copy of the volume is bounded when it is made.
LEMMA InvImpliesFits == StorageInv => ImageFits
<1> SUFFICES ASSUME StorageInv, appfs_image # NULL
             PROVE  Len(buffer) * SectorBytes <= appfs_image * PageSize
  BY DEF ImageFits
<1>1. Len(buffer) \in Nat /\ boot_sectors \in Nat /\ Len(buffer) <= boot_sectors
  BY AtaConstants DEF StorageInv, AtaInv, AtaTypeOK, ReadExact, Pages, ToldRange
<1>2. SectorBytes \in Nat /\ PageSize \in Nat /\ PageSize > 0
  BY AppVolumeAssumption, AppFsAssumption
<1>3. /\ Len(buffer) * SectorBytes <= boot_sectors * SectorBytes
      /\ boot_sectors * SectorBytes \in Nat /\ Len(buffer) * SectorBytes \in Nat
  BY <1>1, <1>2, LessRoom
<1>4. /\ boot_sectors * SectorBytes <= ImagePages * PageSize
      /\ ImagePages \in Nat /\ ImagePages * PageSize \in Nat
  <2>1. /\ ImagePages \in Nat
        /\ boot_sectors * SectorBytes <= ImagePages * PageSize
    BY <1>2, <1>3, RoundedUp DEF ImagePages
  <2>2. QED BY <1>2, <2>1, LessRoom
<1>5. appfs_image = ImagePages
  BY DEF StorageInv, Pages
<1>6. QED BY <1>3, <1>4, <1>5

-----------------------------------------------------------------------------
\* The disk has room for a volume.
LEMMA VolumeRoom ==
  ASSUME NEW list \in Volumes
  PROVE  /\ SectorsOf(list) \in Nat /\ SectorsOf(list) > 0 /\ VolumeLba \in Nat
         /\ VolumeLba + SectorsOf(list) <= DiskSectors
<1>1. SectorsOf(list) \in Nat \ {0} /\ VolumeLba + SectorsOf(list) <= DiskSectors
  BY Zenon, AppFsAssumption
<1>2. VolumeLba \in Nat
  BY Zenon, AppFsAssumption
<1>3. QED BY <1>1, <1>2

\* Initially.
LEMMA StorageInitHolds == RuntimeInit => StorageInv
<1> SUFFICES ASSUME RuntimeInit PROVE StorageInv
  OBVIOUS
<1>1. AtaInv
  BY InitHolds DEF RuntimeInit, AppFsInit
<1>2. /\ files \in Volumes /\ told_sectors \in {0, 1, SectorsOf(files)}
      /\ appfs_pc = "start" /\ boot_lba = 0 /\ boot_sectors = 0 /\ appfs_image = NULL
      /\ appfs_header = FALSE /\ runtime_ready = FALSE /\ rt_pc = "init" /\ ata_pc = "idle"
  BY DEF RuntimeInit, AppFsInit, AtaInit
<1>3. ToldRange
  <2>1. /\ SectorsOf(files) \in Nat /\ SectorsOf(files) > 0 /\ VolumeLba \in Nat
        /\ VolumeLba + SectorsOf(files) <= DiskSectors
    BY <1>2, VolumeRoom
  <2>2. QED BY <1>2, <2>1, AtaConstants DEF ToldRange
<1>4. AtRest
  BY DEF RuntimeInit, AppFsInit, AtaInit, AtRest
<1>5. Calls /\ Published /\ Pages
  BY <1>2 DEF Calls, Published, Pages
<1>6. QED BY <1>1, <1>3, <1>4, <1>5 DEF StorageInv

\* What the driver leaves alone.
LEMMA DriverFrame ==
  ASSUME DriverStep
  PROVE  /\ lba' = lba /\ sector_count' = sector_count /\ ata_pc # "idle"
         /\ ata_pc = "init" => ata_pc' \in {"init", "idle"}
         /\ ata_pc # "init" => ata_pc' # "init"
<1>1. CASE InitPoll
  BY <1>1 DEF InitPoll, AtaReturn, SpinOn, readVars
<1>2. CASE CommandPoll
  BY <1>2 DEF CommandPoll, AtaReturn, SpinOn, readVars
<1>3. CASE DataPoll
  BY <1>3 DEF DataPoll, SectorFailed, NextChunk, AtaReturn, SpinOn, readVars
<1>4. QED BY <1>1, <1>2, <1>3 DEF DriverStep

\* The driver polls.
LEMMA DriverKeepsRest ==
  ASSUME AtaInv, AtRest, DriverStep
  PROVE  AtRest'
<1>1. CASE InitPoll
  BY <1>1 DEF InitPoll, AtaReturn, SpinOn, AtRest, readVars, driveVars
<1>2. CASE CommandPoll
  <2>1. Reading /\ sector = 0 /\ chunk \in Nat /\ chunk # 0
    BY <1>2 DEF CommandPoll, AtaInv, AtaTypeOK, ReadProgress, Reading
  <2>2. CASE drive # "busy"
    <3>1. ata_pc' = "data" /\ drive_left' = chunk /\ chunk' = chunk /\ sector' = sector
      BY <1>2, <2>1, <2>2 DEF CommandPoll, readVars
    <3>2. QED BY <2>1, <3>1 DEF AtRest
  <2>3. CASE drive = "busy"
    BY <1>2, <2>3 DEF CommandPoll, AtaReturn, SpinOn, AtRest
  <2>4. QED BY <2>2, <2>3
<1>3. CASE DataPoll /\ drive # "drq"
  BY <1>3 DEF DataPoll, SectorFailed, AtaReturn, SpinOn, AtRest, readVars, driveVars
<1>4. CASE DataPoll /\ drive = "drq"
  <2>1. /\ ata_pc = "data" /\ SectorTaken
        /\ IF sector + 1 = chunk
             THEN NextChunk
             ELSE /\ sector' = sector + 1
                  /\ UNCHANGED <<ata_pc, ata_result, remaining, current_lba, chunk>>
    BY <1>4 DEF DataPoll, SectorFailed
  <2>2. drive_left = chunk - sector /\ chunk \in Int /\ sector \in Int
    BY <2>1, AtaConstants DEF AtRest, AtaInv, AtaTypeOK
  <2>3. CASE sector + 1 = chunk
    <3>1. drive' = "ready"
      BY <2>1, <2>2, <2>3 DEF SectorTaken
    <3>2. ata_pc' \in {"idle", "busy"}
      BY <2>1, <2>3 DEF NextChunk, AtaReturn
    <3>3. QED BY <3>1, <3>2 DEF AtRest
  <2>4. CASE sector + 1 # chunk
    <3>1. drive_left' = drive_left - 1 /\ sector' = sector + 1 /\ chunk' = chunk
          /\ ata_pc' = "data"
      BY <2>1, <2>4 DEF SectorTaken
    <3>2. QED BY <2>2, <3>1 DEF AtRest
  <2>5. QED BY <2>3, <2>4
<1>5. QED BY <1>1, <1>2, <1>3, <1>4 DEF DriverStep

\* AtaInv is about the driver's variables only.
LEMMA AtaFrame ==
  ASSUME AtaInv, UNCHANGED ataVars
  PROVE  AtaInv'
BY StepKeepsInv

\* The driver works while appfs_init waits.
LEMMA WaitKeepsInv ==
  ASSUME StorageInv, rt_pc = "init", DriverStep, UNCHANGED <<diskVars, appfsVars>>, rt_pc' = "init"
  PROVE  StorageInv'
<1>1. AtaInv'
  BY DriverKeepsInv DEF StorageInv
<1>2. /\ files' = files /\ told_sectors' = told_sectors /\ appfs_pc' = appfs_pc /\ boot_lba' = boot_lba
      /\ boot_sectors' = boot_sectors /\ appfs_image' = appfs_image
      /\ appfs_header' = appfs_header /\ runtime_ready' = runtime_ready
  BY DEF diskVars, appfsVars
<1>3. appfs_pc \in {"ata_init", "ata_read"} /\ appfs_pc # "done"
  BY DriverFrame DEF StorageInv, Calls
<1>4. ToldRange'
  BY <1>2 DEF StorageInv, ToldRange
<1>5. Published'
  BY <1>2, <1>3 DEF StorageInv, Published
<1>6. Pages'
  BY <1>2, DriverFrame DEF StorageInv, Pages, ImagePages
<1>7. Calls'
  <2>1. CASE appfs_pc = "ata_init"
    BY <1>2, <2>1, DriverFrame DEF StorageInv, Calls, Reading, AtaInv, AtaTypeOK
  <2>2. CASE appfs_pc = "ata_read"
    <3>1. Reading
      BY <2>2, DriverFrame DEF StorageInv, Calls, Reading, AtaInv, AtaTypeOK
    <3>2. ata_pc' = "idle" /\ ata_result' => Len(buffer') = sector_count'
      <4>1. ata_pc' = "idle" => ~Reading'
        BY DEF Reading
      <4>2. [AtaNext]_ataVars
        BY DEF AtaNext
      <4>3. QED BY <3>1, <4>1, <4>2, ReadEnds, DriverFrame DEF StorageInv
    <3>3. QED BY <1>2, <2>2, <3>1, <3>2, DriverFrame DEF StorageInv, Calls, Reading
  <2>3. QED BY <1>3, <2>1, <2>2
<1>8. AtRest'
  BY DriverKeepsRest DEF StorageInv
<1>9. QED BY <1>1, <1>4, <1>5, <1>6, <1>7, <1>8 DEF StorageInv

\* appfs_init gives up.
LEMMA GivingUpKeepsInv ==
  ASSUME StorageInv, rt_pc = "init", appfs_pc # "done", ata_pc = "idle", InitReturns(FALSE),
         UNCHANGED <<boot_lba, boot_sectors, appfs_image, appfs_header, diskVars, ataVars>>,
         rt_pc' = "autorun"
  PROVE  StorageInv'
<1>1. AtaInv'
  BY AtaFrame DEF StorageInv
<1>2. /\ files' = files /\ told_sectors' = told_sectors /\ appfs_pc' = "done" /\ boot_lba' = boot_lba
      /\ boot_sectors' = boot_sectors /\ appfs_image' = appfs_image
      /\ appfs_header' = appfs_header /\ runtime_ready' = FALSE
      /\ ata_pc' = ata_pc /\ sector_count' = sector_count
  BY DEF InitReturns, diskVars, ataVars, readVars
<1>3. ToldRange' /\ Published' /\ Pages' /\ Calls'
  <2>1. ToldRange'
    BY <1>2 DEF StorageInv, ToldRange
  <2>2. Published'
    BY <1>2 DEF StorageInv, Published
  <2>3. Pages'
    BY <1>2 DEF StorageInv, Pages, ImagePages
  <2>4. QED BY <1>2, <2>1, <2>2, <2>3 DEF Calls
<1>4. AtRest'
  BY DEF StorageInv, AtRest, ataVars, readVars, driveVars
<1>5. QED BY <1>1, <1>3, <1>4 DEF StorageInv

\* appfs_init starts the driver.
LEMMA StartKeepsInv ==
  ASSUME StorageInv, rt_pc = "init", appfs_init, rt_pc' = "init"
  PROVE  StorageInv'
<1>1. AtaInv'
  BY BeginInitKeepsInv DEF StorageInv, appfs_init
<1>2. /\ files' = files /\ told_sectors' = told_sectors /\ appfs_pc = "start" /\ appfs_pc' = "ata_init"
      /\ boot_lba' = VolumeLba /\ boot_sectors' = told_sectors
      /\ appfs_image' = appfs_image /\ appfs_header' = appfs_header
      /\ runtime_ready' = runtime_ready /\ ata_pc' = "init"
  BY DEF appfs_init, ata_init, diskVars
<1>3. ToldRange'
  BY <1>2 DEF StorageInv, ToldRange
<1>4. Published' /\ Pages'
  BY <1>2 DEF StorageInv, Published, Pages
<1>5. Calls'
  BY <1>2 DEF Calls, Reading
<1>6. AtRest'
  BY <1>2 DEF AtRest
<1>7. QED BY <1>1, <1>3, <1>4, <1>5, <1>6 DEF StorageInv

\* The driver is there.
LEMMA ReadyKeepsInv ==
  ASSUME StorageInv, rt_pc = "init", DriverReady, rt_pc' = "init"
  PROVE  StorageInv'
<1>1. AtaInv'
  BY AtaFrame DEF StorageInv, DriverReady
<1>2. /\ files' = files /\ told_sectors' = told_sectors /\ appfs_pc = "ata_init" /\ appfs_pc' = "page_alloc"
      /\ boot_lba' = boot_lba /\ boot_sectors' = boot_sectors
      /\ appfs_image' = appfs_image /\ appfs_header' = appfs_header
      /\ runtime_ready' = runtime_ready /\ ata_pc' = "idle"
  BY DEF DriverReady, diskVars, ataVars
<1>3. ToldRange'
  BY <1>2 DEF StorageInv, ToldRange
<1>4. Published' /\ Pages'
  BY <1>2 DEF StorageInv, Published, Pages
<1>5. Calls'
  BY <1>2 DEF Calls
<1>6. AtRest'
  BY DEF StorageInv, DriverReady, AtRest, ataVars, readVars, driveVars
<1>7. QED BY <1>1, <1>3, <1>4, <1>5, <1>6 DEF StorageInv

\* The pages are granted and the read begins.
LEMMA AllocKeepsInv ==
  ASSUME StorageInv, rt_pc = "init", AllocAndRead, rt_pc' = "init"
  PROVE  StorageInv'
<1>1. /\ files' = files /\ told_sectors' = told_sectors /\ appfs_pc = "page_alloc" /\ appfs_pc' = "ata_read"
      /\ boot_lba' = boot_lba /\ boot_sectors' = boot_sectors
      /\ appfs_image' = ImagePages /\ appfs_header' = appfs_header
      /\ runtime_ready' = runtime_ready /\ ata_pc' = "busy"
      /\ lba' = boot_lba /\ sector_count' = boot_sectors
      /\ ata_read(boot_lba, boot_sectors)
  BY DEF AllocAndRead, ata_read, diskVars
<1>2. boot_lba \in Nat /\ boot_sectors \in Nat /\ boot_lba + boot_sectors <= DiskSectors
  BY <1>1, AppFsAssumption DEF StorageInv, ToldRange
<1>3. AtaInv'
  BY <1>1, <1>2, BeginKeepsInv DEF StorageInv
<1>4. ToldRange'
  BY <1>1 DEF StorageInv, ToldRange
<1>5. Published'
  BY <1>1 DEF StorageInv, Published
<1>6. Pages'
  BY <1>1 DEF Pages, ImagePages
<1>7. Calls'
  BY <1>1 DEF Calls, Reading
<1>8. AtRest'
  BY <1>1 DEF AtRest
<1>9. QED BY <1>3, <1>4, <1>5, <1>6, <1>7, <1>8 DEF StorageInv

\* The whole volume has been read.
LEMMA DoneKeepsInv ==
  ASSUME StorageInv, rt_pc = "init", ReadDone, rt_pc' = "autorun"
  PROVE  StorageInv'
<1>1. AtaInv'
  BY AtaFrame DEF StorageInv, ReadDone
<1>2. /\ files' = files /\ told_sectors' = told_sectors /\ appfs_pc = "ata_read" /\ appfs_pc' = "done"
      /\ boot_lba' = boot_lba /\ boot_sectors' = boot_sectors
      /\ appfs_image' = appfs_image /\ appfs_header' = TRUE
      /\ runtime_ready' = HeaderValid /\ ata_pc = "idle" /\ ata_pc' = "idle"
      /\ ata_result /\ ata_result' = ata_result
      /\ lba' = lba /\ sector_count' = sector_count /\ buffer' = buffer
      /\ UNCHANGED <<buffer, files, blank, boot_sectors>>
  BY DEF ReadDone, InitReturns, diskVars, ataVars, readVars
<1>3. HeaderValid' <=> HeaderValid
  BY <1>2, SameHeader
<1>4. lba = boot_lba /\ sector_count = boot_sectors /\ Len(buffer) = sector_count
  BY <1>2 DEF StorageInv, Calls
<1>5. ToldRange'
  BY <1>2 DEF StorageInv, ToldRange
<1>6. Published'
  BY <1>2, <1>3, <1>4 DEF Published
<1>7. Pages'
  BY <1>2 DEF StorageInv, Pages, ImagePages
<1>8. Calls'
  BY <1>2 DEF Calls
<1>9. AtRest'
  BY DEF StorageInv, ReadDone, AtRest, ataVars, readVars, driveVars
<1>10. QED BY <1>1, <1>5, <1>6, <1>7, <1>8, <1>9 DEF StorageInv

\* A step that leaves what is stored and published alone.
LEMMA OthersKeepInv ==
  ASSUME StorageInv, AtaInv', AtRest', UNCHANGED <<ata_pc, readVars, ata_result, diskVars, appfsVars>>,
         rt_pc' = "init" <=> rt_pc = "init"
  PROVE  StorageInv'
<1>1. /\ files' = files /\ told_sectors' = told_sectors /\ appfs_pc' = appfs_pc /\ boot_lba' = boot_lba
      /\ boot_sectors' = boot_sectors /\ appfs_image' = appfs_image
      /\ appfs_header' = appfs_header /\ runtime_ready' = runtime_ready
      /\ ata_pc' = ata_pc /\ ata_result' = ata_result /\ lba' = lba
      /\ sector_count' = sector_count /\ buffer' = buffer
      /\ UNCHANGED <<buffer, files, blank, boot_sectors>>
  BY DEF diskVars, appfsVars, readVars
<1>2. HeaderValid' <=> HeaderValid
  BY <1>1, SameHeader
<1>3. ToldRange'
  BY <1>1 DEF StorageInv, ToldRange
<1>4. Published'
  BY <1>1, <1>2 DEF StorageInv, Published
<1>5. Pages'
  BY <1>1 DEF StorageInv, Pages, ImagePages
<1>6. Calls'
  BY <1>1 DEF StorageInv, Calls, Reading
<1>7. QED BY <1>3, <1>4, <1>5, <1>6 DEF StorageInv

\* Every step.
LEMMA RuntimeStepKeepsInv ==
  ASSUME StorageInv, [RuntimeNext]_runtimeVars
  PROVE  StorageInv'
<1>1. CASE InitStep
  <2>1. rt_pc = "init" /\ rt_pc' = IF appfs_pc' = "done" THEN "autorun" ELSE "init"
    BY <1>1 DEF InitStep
  <2>2. appfs_pc # "done"
    BY <2>1 DEF StorageInv, Calls
  <2>3. CASE NoVolume \/ DriverFailed \/ AllocFails
    <3>1. /\ InitReturns(FALSE)
          /\ UNCHANGED <<boot_lba, boot_sectors, appfs_image, appfs_header, diskVars, ataVars>>
      BY <2>3 DEF NoVolume, DriverFailed, AllocFails
    <3>2. ata_pc = "idle"
      BY <2>3 DEF NoVolume, DriverFailed, AllocFails, StorageInv, Calls
    <3>3. rt_pc' = "autorun"
      BY <2>1, <3>1 DEF InitReturns
    <3>4. QED BY <2>1, <2>2, <3>1, <3>2, <3>3, GivingUpKeepsInv
  <2>4. CASE appfs_init
    BY <2>1, <2>4, StartKeepsInv DEF appfs_init
  <2>5. CASE DriverReady
    BY <2>1, <2>5, ReadyKeepsInv DEF DriverReady
  <2>6. CASE AllocAndRead
    BY <2>1, <2>6, AllocKeepsInv DEF AllocAndRead
  <2>7. CASE ReadDone
    BY <2>1, <2>7, DoneKeepsInv DEF ReadDone, InitReturns
  <2>8. CASE DriverStep /\ UNCHANGED <<diskVars, appfsVars>>
    <3>1. rt_pc' = "init"
      BY <2>1, <2>2, <2>8 DEF appfsVars
    <3>2. QED BY <2>1, <2>8, <3>1, WaitKeepsInv
  <2>9. QED BY <1>1, <2>3, <2>4, <2>5, <2>6, <2>7, <2>8 DEF InitStep, StorageStep, AppFsStep
<1>2. CASE DriveStep
  <2>1. /\ AtaInv' /\ AtRest'
        /\ UNCHANGED <<ata_pc, readVars, ata_result, diskVars, appfsVars>>
        /\ rt_pc' = rt_pc
    BY <1>2, DriveKeepsInv DEF DriveStep, DriveAnswers, StorageInv, AtRest, readVars, rtVars
  <2>2. QED BY <2>1, OthersKeepInv
<1>3. ASSUME UNCHANGED <<ataVars, diskVars, appfsVars>>, rt_pc' = "init" <=> rt_pc = "init"
      PROVE  StorageInv'
  <2>1. /\ AtaInv' /\ AtRest'
        /\ UNCHANGED <<ata_pc, readVars, ata_result, diskVars, appfsVars>>
    BY <1>3, AtaFrame DEF StorageInv, AtRest, ataVars, readVars, driveVars
  <2>2. QED BY <1>3, <2>1, OthersKeepInv
<1>4. ASSUME NEW name, runtime_launch(name), rt_pc # "init"
      PROVE  StorageInv'
  BY <1>3, <1>4 DEF runtime_launch, LaunchRefused, LaunchLoads
<1>5. CASE AutorunSkipped
  BY <1>3, <1>5 DEF AutorunSkipped
<1>6. CASE runtime_autorun
  BY <1>4, <1>6 DEF runtime_autorun
<1>7. CASE \E name \in DOMAIN Truncated : ShellLaunch(name)
  BY <1>4, <1>7 DEF ShellLaunch
<1>8. CASE LoadStep
  BY <1>3, <1>8 DEF LoadStep, SkipSegment, SegmentRefused, LoadSegment, LoadBreaks, Loads, CallEntry,
                      Loading
<1>9. CASE \E code \in ExitCodes : AppReturns(code)
  BY <1>3, <1>9 DEF AppReturns
<1>10. CASE UNCHANGED runtimeVars \/ Broken
  BY <1>3, <1>10 DEF Broken, runtimeVars, rtVars
<1>11. QED BY <1>1, <1>2, <1>5, <1>6, <1>7, <1>8, <1>9, <1>10 DEF RuntimeNext

(***************************************************************************)
(* The inductive invariant of storage and runtime.                         *)
(***************************************************************************)
THEOREM StorageInvariance == RuntimeSpec => []StorageInv
<1>1. RuntimeInit => StorageInv
  BY StorageInitHolds
<1>2. StorageInv /\ [RuntimeNext]_runtimeVars => StorageInv'
  BY RuntimeStepKeepsInv
<1>3. QED BY <1>1, <1>2, PTL DEF RuntimeSpec

(***************************************************************************)
(* A catalogue is visible only when the whole volume is in memory, and     *)
(* runtime_ready and appfs_is_ready agree once appfs_init has returned.    *)
(***************************************************************************)
THEOREM CatalogueIsWhole == RuntimeSpec => []CatalogueWhole
BY StorageInvariance, InvImpliesWhole, PTL

(***************************************************************************)
(* The page_count of appfs_init has room for everything ata_read stores,   *)
(* whatever the sizes of sectors and pages.                                *)
(***************************************************************************)
THEOREM ImageHasRoom == RuntimeSpec => []ImageFits
BY StorageInvariance, InvImpliesFits, PTL

-----------------------------------------------------------------------------
\* A volume is a list of files.
LEMMA VolumeListed ==
  ASSUME NEW list \in Volumes
  PROVE  Packed(list) /\ \A i \in DOMAIN list : Entry(list, i) # NULL
<1>1. list \in Seq({list[i] : i \in DOMAIN list})
  BY Zenon, AppFsAssumption
<1>2. \A i \in DOMAIN list : list[i].size \in Nat /\ Entry(list, i) # NULL
  BY Zenon, AppFsAssumption
<1>3. QED BY <1>1, <1>2 DEF Packed

\* The sector that holds a byte.
LEMMA SectorOfByte ==
  ASSUME NEW p \in Nat, NEW size \in Nat, size > 0, NEW count \in Nat, p < count * size,
         NEW q, q = p \div size, NEW m, m = p % size
  PROVE  q \in 0 .. count - 1 /\ m \in 0 .. size - 1 /\ q * size + m = p
<1>1. q \in Nat /\ m \in 0 .. size - 1 /\ q * size + m = p
  OBVIOUS
<1>2. q < count
  <2> SUFFICES ASSUME q >= count PROVE FALSE
    BY <1>1
  <2>1. q * size >= count * size /\ q * size \in Nat /\ count * size \in Nat
    BY <1>1, LessRoom
  <2>2. QED BY <1>1, <2>1
<1>3. q \in 0 .. count - 1
  BY <1>1, <1>2
<1>4. QED BY <1>1, <1>3

(***************************************************************************)
(* With the catalogue published, the image in memory is the packed volume, *)
(* byte by byte.                                                           *)
(***************************************************************************)
LEMMA ImageIsVolume ==
  ASSUME StorageInv, runtime_ready, NEW w, w = Written(files)
  PROVE  /\ files \in Volumes /\ Len(w) \in Nat /\ header = Header(files)
         /\ header.image_size = Len(w)
         /\ \A p \in 0 .. Len(w) - 1 : ImageByte(p) = w[p + 1]
<1>1. appfs_header /\ HeaderValid /\ files \in Volumes /\ boot_lba = VolumeLba
  BY DEF StorageInv, Published, ToldRange
<1>2. /\ boot_sectors \in Nat /\ VolumeLba \in Nat /\ Len(buffer) = boot_sectors
      /\ \A i \in 1 .. boot_sectors : buffer[i] = VolumeLba + i - 1
  <2>1. /\ boot_sectors \in Nat /\ Len(buffer) = boot_sectors /\ lba = VolumeLba
        /\ \A i \in 1 .. Len(buffer) : buffer[i] = lba + i - 1
    BY <1>1 DEF StorageInv, Published, ToldRange, AtaInv, ReadExact
  <2>2. QED BY <1>1, <2>1, VolumeRoom
<1>3. SectorBytes \in Nat /\ SectorBytes > 0
  BY AppVolumeAssumption
<1>4. Packed(files)
  BY <1>1, VolumeListed
<1>5. /\ w \in Seq(BytesOf(files)) /\ Len(w) = running_offset(files)[Len(files) + 1]
      /\ Len(w) >= 1 /\ w[1] = Header(files)
  <2>1. LaidOut(files, Len(files), running_offset(files), w)
    BY <1>4, Layout
  <2>2. QED BY <2>1 DEF LaidOut
<1>6. Len(w) \in Nat
  BY <1>5
<1> DEFINE room == boot_sectors * SectorBytes
<1>7. room \in Nat
  BY <1>2, <1>3
<1>8. ImageByte(0).kind = "header"
  BY <1>1 DEF HeaderValid, header
<1>9. 0 < room
  <2>1. CASE ~(0 < room)
    <3>1. ImageByte(0) = JUNK
      BY <1>2, <2>1 DEF ImageByte
    <3>2. QED BY <1>8, <3>1 DEF JUNK
  <2>2. QED BY <2>1
<1>10. ASSUME NEW p \in Nat, p < room
       PROVE  ImageByte(p) = IF blank THEN ZERO ELSE VolumeByte(files, p)
  <2> DEFINE q == p \div SectorBytes
  <2> DEFINE m == p % SectorBytes
  <2>1. q = p \div SectorBytes /\ m = p % SectorBytes
    OBVIOUS
  <2>2. ImageByte(p) = DiskByte(buffer[q + 1], m)
    BY <1>2, <1>10 DEF ImageByte
  <2> HIDE DEF q, m
  <2>3. q \in 0 .. boot_sectors - 1 /\ m \in 0 .. SectorBytes - 1 /\ q * SectorBytes + m = p
    <3>1. boot_sectors \in Nat /\ p < boot_sectors * SectorBytes
      BY <1>2, <1>10
    <3>2. QED BY <1>3, <2>1, <3>1, SectorOfByte
  <2>4. q + 1 \in 1 .. boot_sectors /\ VolumeLba + (q + 1) - 1 = VolumeLba + q
        /\ VolumeLba + q >= VolumeLba /\ (VolumeLba + q) - VolumeLba = q
    BY <1>2, <2>3
  <2>5. buffer[q + 1] = VolumeLba + q
    BY <1>2, <2>4
  <2>6. DiskByte(VolumeLba + q, m) = IF blank THEN ZERO ELSE VolumeByte(files, p)
    BY <2>3, <2>4 DEF DiskByte
  <2>7. QED BY <2>2, <2>5, <2>6
<1>11. ~blank
  <2>1. CASE blank
    <3>1. ImageByte(0) = ZERO
      BY <1>9, <1>10, <2>1
    <3>2. QED BY <1>8, <3>1 DEF ZERO
  <2>2. QED BY <2>1
<1> HIDE DEF room
<1>12. header = Header(files)
  <2>1. header = VolumeByte(files, 0)
    BY <1>9, <1>10, <1>11 DEF header
  <2>2. VolumeByte(files, 0) = w[0 + 1]
    BY <1>5, <1>6 DEF VolumeByte
  <2>3. QED BY <1>5, <2>1, <2>2
<1>13. header.image_size = Len(w)
  BY <1>5, <1>12 DEF Header
<1>14. Len(w) <= room
  BY <1>1, <1>13 DEF HeaderValid, room
<1>15. ASSUME NEW p \in 0 .. Len(w) - 1 PROVE ImageByte(p) = w[p + 1]
  <2>1. p \in Nat /\ p < room /\ p < Len(w)
    BY <1>6, <1>7, <1>14
  <2>2. QED BY <1>10, <1>11, <2>1 DEF VolumeByte
<1>16. QED BY <1>1, <1>6, <1>12, <1>13, <1>15

\* What the catalogue in memory says, and the bytes it leads to.
LEMMA CatalogueRead ==
  ASSUME StorageInv, runtime_ready, NEW n, n = Len(files), NEW off, off = running_offset(files)
  PROVE  /\ appfs_is_ready /\ appfs_entry_count = n /\ n \in Nat /\ DOMAIN files = 1 .. n
         /\ \A i \in 1 .. n : files[i].size \in Nat
         /\ \A i \in 1 .. n : appfs_entry_at(i - 1) = Entry(files, i)
         /\ \A i \in 1 .. n : off[i] \in Nat /\ off[i] + files[i].size <= header.image_size
         /\ \A i \in 1 .. n : \A k \in 0 .. files[i].size - 1 :
              ImageByte(off[i] + k) = DataByte(i, k)
<1> DEFINE w == Written(files)
<1>1. w = Written(files)
  OBVIOUS
<1> HIDE DEF w
<1>2. /\ files \in Volumes /\ Len(w) \in Nat /\ header = Header(files)
      /\ header.image_size = Len(w)
      /\ \A p \in 0 .. Len(w) - 1 : ImageByte(p) = w[p + 1]
  BY <1>1, ImageIsVolume
<1>3. Packed(files)
  BY <1>2, VolumeListed
<1>4. n \in Nat /\ DOMAIN files = 1 .. n /\ \A i \in 1 .. n : files[i].size \in Nat
  BY <1>3, PackedSizes
<1>5. /\ \A i \in 1 .. n : EntryOffset(i) \in Nat /\ EntryOffset(i) < Len(w)
                           /\ w[EntryOffset(i) + 1] = Entry(files, i)
      /\ \A i \in 1 .. n : off[i] \in Nat /\ off[i] + files[i].size <= Len(w)
      /\ \A i \in 1 .. n : \A k \in 1 .. files[i].size : w[off[i] + k] = DataByte(i, k - 1)
  <2>1. LaidOut(files, n, off, w)
    BY <1>1, <1>3, Layout
  <2>2. QED BY <2>1 DEF LaidOut
<1>6. appfs_is_ready
  BY DEF StorageInv, Published, appfs_is_ready
<1>7. appfs_entry_count = n
  BY <1>2, <1>6 DEF appfs_entry_count, Header
<1>8. ASSUME NEW i \in 1 .. n PROVE appfs_entry_at(i - 1) = Entry(files, i)
  <2>1. EntryOffset(i) \in 0 .. Len(w) - 1
    BY <1>2, <1>5
  <2>2. ImageByte(EntryOffset(i)) = w[EntryOffset(i) + 1]
    BY <1>2, <2>1
  <2>3. appfs_entry_at(i - 1) = ImageByte(EntryOffset(i))
    <3>1. header.entry_count = n
      BY <1>2 DEF Header
    <3>2. ~(i - 1 >= header.entry_count)
      BY <1>4, <3>1
    <3>3. QED BY <1>6, <3>2 DEF appfs_entry_at, EntryOffset
  <2>4. QED BY <1>5, <2>2, <2>3
<1>9. \A i \in 1 .. n : off[i] \in Nat /\ off[i] + files[i].size <= header.image_size
  BY <1>2, <1>5
<1>10. ASSUME NEW i \in 1 .. n, NEW k \in 0 .. files[i].size - 1
       PROVE  ImageByte(off[i] + k) = DataByte(i, k)
  <2> DEFINE p == off[i] + k
  <2>1. files[i].size \in Nat /\ off[i] \in Nat /\ off[i] + files[i].size <= Len(w)
    BY <1>4, <1>5
  <2>2. p \in 0 .. Len(w) - 1 /\ p + 1 = off[i] + (k + 1) /\ k + 1 \in 1 .. files[i].size
        /\ (k + 1) - 1 = k
    <3>1. k \in Nat /\ k < files[i].size /\ Len(w) \in Nat
      BY <1>2, <2>1
    <3>2. QED BY <2>1, <3>1
  <2>3. w[off[i] + (k + 1)] = DataByte(i, (k + 1) - 1)
    BY <1>5, <2>2
  <2> HIDE DEF p
  <2>4. ImageByte(p) = w[p + 1]
    BY <1>2, <2>2
  <2>5. QED BY <2>2, <2>3, <2>4 DEF p
<1>11. QED BY <1>4, <1>6, <1>7, <1>8, <1>9, <1>10

\* The least file of a name is one of that name.
LEMMA FirstIsLeast ==
  ASSUME NEW n \in Nat, DOMAIN files = 1 .. n, NEW name, FilesNamed(name) # {},
         NEW f, f = FirstNamed(name)
  PROVE  /\ f \in FilesNamed(name) /\ f \in 1 .. n
         /\ \A j \in FilesNamed(name) : f <= j
<1> DEFINE T == FilesNamed(name)
<1>1. T \in SUBSET Nat /\ T # {} /\ T \subseteq 1 .. n
  BY DEF FilesNamed
<1> HIDE DEF T
<1>2. \E i \in T : \A j \in T : i <= j
  BY <1>1, LeastElement
<1>3. f = CHOOSE i \in T : \A j \in T : i <= j
  BY DEF FirstNamed, T
<1>4. f \in T /\ \A j \in T : f <= j
  BY <1>2, <1>3
<1>5. QED BY <1>1, <1>4 DEF T

(***************************************************************************)
(* appfs_find leads to the first file packed under a name, and             *)
(* appfs_data_at to its bytes.                                             *)
(***************************************************************************)
LEMMA Lookup ==
  ASSUME StorageInv, runtime_ready, NEW name, FilesNamed(name) # {},
         NEW f, f = FirstNamed(name)
  PROVE  /\ f \in 1 .. Len(files)
         /\ appfs_find(name) = Entry(files, f) /\ appfs_find(name) # NULL
         /\ appfs_data_at(appfs_find(name)) = running_offset(files)[f]
         /\ appfs_data_at(appfs_find(name)) # NULL
<1> DEFINE n == Len(files)
<1> DEFINE off == running_offset(files)
<1>1. n = Len(files) /\ off = running_offset(files)
  OBVIOUS
<1> HIDE DEF n, off
<1>2. /\ appfs_is_ready /\ appfs_entry_count = n /\ n \in Nat /\ DOMAIN files = 1 .. n
      /\ \A i \in 1 .. n : appfs_entry_at(i - 1) = Entry(files, i)
      /\ \A i \in 1 .. n : off[i] \in Nat /\ off[i] + files[i].size <= header.image_size
  BY <1>1, CatalogueRead
<1>3. /\ f \in FilesNamed(name) /\ f \in 1 .. n
      /\ \A j \in FilesNamed(name) : f <= j
  BY <1>2, FirstIsLeast
<1>4. \A i \in 1 .. n : Entry(files, i).name = Truncated[files[i].name]
                         /\ Entry(files, i) # NULL
  BY <1>2, VolumeListed DEF StorageInv, ToldRange, Entry
<1> DEFINE found == {i \in 0 .. n - 1 :
                       appfs_entry_at(i) # NULL /\ appfs_entry_at(i).name = name}
<1>5. \A i \in 1 .. n : i - 1 \in found <=> i \in FilesNamed(name)
  <2> TAKE i \in 1 .. n
  <2>1. i - 1 \in 0 .. n - 1
    BY <1>2
  <2>2. appfs_entry_at(i - 1).name = Truncated[files[i].name] /\ appfs_entry_at(i - 1) # NULL
    BY <1>2, <1>4
  <2>3. QED BY <1>2, <2>1, <2>2 DEF FilesNamed
<1>6. found \subseteq 0 .. n - 1
  OBVIOUS
<1>7. appfs_find(name) = IF found = {} THEN NULL
                         ELSE appfs_entry_at(CHOOSE i \in found : \A j \in found : i <= j)
  BY <1>2 DEF appfs_find
<1> HIDE DEF found
<1>8. f - 1 \in found
  BY <1>3, <1>5
<1>9. \A j \in found : f - 1 <= j
  <2> TAKE j \in found
  <2>1. j \in 0 .. n - 1 /\ j + 1 \in 1 .. n /\ (j + 1) - 1 = j
    BY <1>2, <1>6
  <2>2. j + 1 \in FilesNamed(name)
    BY <1>5, <2>1
  <2>3. f <= j + 1
    BY <1>3, <2>2
  <2>4. QED BY <1>2, <1>3, <2>1, <2>3
<1>10. (CHOOSE i \in found : \A j \in found : i <= j) = f - 1
  <2> DEFINE c == CHOOSE i \in found : \A j \in found : i <= j
  <2>1. c \in found /\ \A j \in found : c <= j
    BY <1>8, <1>9
  <2> HIDE DEF c
  <2>2. c <= f - 1 /\ f - 1 <= c /\ c \in Int /\ f - 1 \in Int
    BY <1>2, <1>3, <1>6, <1>8, <1>9, <2>1
  <2>3. c = f - 1
    BY <2>2
  <2>4. QED BY <2>3 DEF c
<1>11. appfs_find(name) = Entry(files, f)
  BY <1>2, <1>3, <1>7, <1>8, <1>10
<1>12. Entry(files, f) # NULL
  BY <1>2, <1>3, VolumeListed DEF StorageInv, ToldRange
<1>13. Entry(files, f).offset = off[f] /\ Entry(files, f).size = files[f].size
  BY <1>1 DEF Entry
<1>14. appfs_data_at(Entry(files, f)) = off[f]
  <2>1. off[f] \in Nat /\ off[f] + files[f].size <= header.image_size
    BY <1>2, <1>3
  <2>2. header.image_size \in Nat
    <3> DEFINE w == Written(files)
    <3>1. w = Written(files)
      OBVIOUS
    <3> HIDE DEF w
    <3>2. QED BY <3>1, ImageIsVolume
  <2>3. files[f].size \in Nat
    BY <1>1, <1>3, CatalogueRead
  <2>4. ~(off[f] + files[f].size > header.image_size)
    BY <2>1, <2>2, <2>3
  <2>5. QED BY <1>2, <1>13, <2>4 DEF appfs_data_at
<1>15. off[f] # NULL
  BY <1>2, <1>3, AppFsAssumption
<1>16. QED BY <1>1, <1>3, <1>11, <1>12, <1>14, <1>15

\* A name that was not packed is not found.
LEMMA LookupFails ==
  ASSUME StorageInv, runtime_ready, NEW name, appfs_find(name) # NULL
  PROVE  FilesNamed(name) # {}
<1> DEFINE n == Len(files)
<1> DEFINE off == running_offset(files)
<1>1. n = Len(files) /\ off = running_offset(files)
  OBVIOUS
<1> HIDE DEF n, off
<1>2. /\ appfs_entry_count = n /\ n \in Nat /\ DOMAIN files = 1 .. n
      /\ \A i \in 1 .. n : appfs_entry_at(i - 1) = Entry(files, i)
  BY <1>1, CatalogueRead
<1>3. PICK i \in 0 .. n - 1 : appfs_entry_at(i).name = name
  BY <1>2 DEF appfs_find
<1>4. i + 1 \in 1 .. n /\ (i + 1) - 1 = i
  BY <1>2, <1>3
<1>5. appfs_entry_at(i) = Entry(files, i + 1)
  BY <1>2, <1>4
<1>6. Truncated[files[i + 1].name] = name
  BY <1>3, <1>5 DEF Entry
<1>7. QED BY <1>2, <1>4, <1>6 DEF FilesNamed

\* The property follows.
LEMMA InvImpliesFound == StorageInv => PackedIsFound
<1> SUFFICES ASSUME StorageInv, runtime_ready, NEW i \in DOMAIN files,
                    NEW entry, entry = appfs_find(Truncated[files[i].name]),
                    NEW f, f = FirstNamed(Truncated[files[i].name])
             PROVE  /\ entry # NULL /\ entry.size = files[f].size
                    /\ appfs_data_at(entry) # NULL
                    /\ \A k \in 0 .. entry.size - 1 :
                         ImageByte(appfs_data_at(entry) + k) = DataByte(f, k)
  BY DEF PackedIsFound
<1> DEFINE name == Truncated[files[i].name]
<1>1. FilesNamed(name) # {}
  BY DEF FilesNamed
<1>2. f = FirstNamed(name) /\ entry = appfs_find(name)
  OBVIOUS
<1> HIDE DEF name
<1>3. /\ f \in 1 .. Len(files)
      /\ entry = Entry(files, f) /\ entry # NULL
      /\ appfs_data_at(entry) = running_offset(files)[f]
      /\ appfs_data_at(entry) # NULL
  BY <1>1, <1>2, Lookup
<1>4. entry.size = files[f].size
  BY <1>3 DEF Entry
<1> DEFINE n == Len(files)
<1> DEFINE off == running_offset(files)
<1>5. n = Len(files) /\ off = running_offset(files)
  OBVIOUS
<1> HIDE DEF n, off
<1>6. \A k \in 0 .. files[f].size - 1 : ImageByte(off[f] + k) = DataByte(f, k)
  BY <1>3, <1>5, CatalogueRead
<1>7. QED BY <1>3, <1>4, <1>5, <1>6

(***************************************************************************)
(* Every name packed by mkappfs.c leads, through appfs_find and            *)
(* appfs_data_at, to the bytes of the first file of that name, whatever    *)
(* was packed and however the sectors were read.                           *)
(***************************************************************************)
THEOREM PackedFound == RuntimeSpec => []PackedIsFound
BY StorageInvariance, InvImpliesFound, PTL

-----------------------------------------------------------------------------
\* The constants of the runtime.
LEMMA RuntimeConstants ==
  /\ ElfHeaderBytes \in Nat /\ ElfHeaderBytes > 0 /\ MemoryBytes \in Nat
  /\ AddressRange \in Nat /\ AddressRange > MemoryBytes
  /\ WindowStart \in Nat /\ WindowSize \in Nat /\ WindowStart + WindowSize <= MemoryBytes
  /\ Window \subseteq 0 .. MemoryBytes - 1
  /\ \A a \in Window : a \in Int
<1>1. /\ ElfHeaderBytes \in Nat \ {0} /\ MemoryBytes \in Nat
      /\ AddressRange \in Nat /\ MemoryBytes < AddressRange
      /\ WindowStart \in Nat /\ WindowSize \in Nat
      /\ WindowStart + WindowSize <= MemoryBytes
  BY Zenon, RuntimeAssumption
<1>2. QED BY <1>1 DEF Window

\* A sum below the range does not wrap.
LEMMA NoWrap ==
  ASSUME NEW x \in Nat, NEW range \in Nat, x < range
  PROVE  x % range = x
OBVIOUS

\* What Proper and Extent take from a header.
Fields(segment) ==
  /\ segment.load \in BOOLEAN
  /\ segment.offset \in Nat /\ segment.virtual_address \in Nat
  /\ segment.file_size \in Nat /\ segment.memory_size \in Nat

\* A program header of a packed file.
LEMMA Headers ==
  ASSUME NEW list \in Volumes, NEW i \in DOMAIN list, NEW headers, headers = list[i].segments
  PROVE  /\ Len(headers) \in Nat /\ DOMAIN headers = 1 .. Len(headers)
         /\ \A s \in DOMAIN headers : Fields(headers[s])
<1>1. headers \in Seq(Elf64ProgramHeader)
  BY Zenon, RuntimeAssumption
<1>2. Len(headers) \in Nat /\ DOMAIN headers = 1 .. Len(headers)
  BY <1>1
<1>3. \A s \in DOMAIN headers : headers[s] \in Elf64ProgramHeader
  BY <1>1, <1>2
<1>4. Address \subseteq Nat
  BY RuntimeConstants DEF Address
<1>5. ASSUME NEW s \in DOMAIN headers PROVE Fields(headers[s])
  BY <1>3, <1>4 DEF Elf64ProgramHeader, Fields
<1>6. QED BY <1>2, <1>5

\* The file that is being started.
LEMMA ChosenFile ==
  ASSUME StorageInv, Chosen, NEW f, f = FirstNamed(launched)
  PROVE  /\ files \in Volumes /\ f \in DOMAIN files
         /\ image \in Nat /\ elf_size \in Nat /\ elf_size = files[f].size
         /\ segments = files[f].segments /\ image + elf_size < AddressRange
         /\ \A k \in 0 .. elf_size - 1 : ImageByte(image + k) = DataByte(f, k)
<1> DEFINE n == Len(files)
<1> DEFINE off == running_offset(files)
<1>1. n = Len(files) /\ off = running_offset(files)
  OBVIOUS
<1> HIDE DEF n, off
<1>2. /\ runtime_ready /\ FilesNamed(launched) # {}
      /\ image = off[f] /\ elf_size = files[f].size /\ elf_size >= ElfHeaderBytes
  BY <1>1 DEF Chosen
<1>3. /\ n \in Nat /\ DOMAIN files = 1 .. n
      /\ \A i \in 1 .. n : files[i].size \in Nat
      /\ \A i \in 1 .. n : off[i] \in Nat /\ off[i] + files[i].size <= header.image_size
      /\ \A i \in 1 .. n : \A k \in 0 .. files[i].size - 1 :
           ImageByte(off[i] + k) = DataByte(i, k)
  BY <1>1, <1>2, CatalogueRead
<1>4. f \in 1 .. n
  BY <1>2, <1>3, FirstIsLeast
<1>5. image \in Nat /\ elf_size \in Nat
      /\ \A k \in 0 .. elf_size - 1 : ImageByte(image + k) = DataByte(f, k)
  BY <1>2, <1>3, <1>4
<1>6. 0 \in 0 .. elf_size - 1 /\ image + 0 = image
  BY <1>2, <1>5, RuntimeConstants
<1>7. ImageByte(image) = DataByte(f, 0)
  BY <1>5, <1>6
<1>8. ImageByte(image).file = f
  BY <1>7 DEF DataByte
<1>9. segments = files[f].segments
  BY <1>8 DEF segments, FileAt
<1>10. files \in Volumes
  BY DEF StorageInv, ToldRange
<1>11. image + elf_size < AddressRange
  <2> DEFINE w == Written(files)
  <2>1. w = Written(files)
    OBVIOUS
  <2>2. Len(w) < AddressRange
    BY Zenon, <1>10, RuntimeAssumption
  <2> HIDE DEF w
  <2>3. header.image_size = Len(w) /\ Len(w) \in Nat
    BY <1>2, <2>1, ImageIsVolume
  <2>4. image + elf_size <= header.image_size
    BY <1>2, <1>3, <1>4
  <2>5. QED BY <1>5, <2>2, <2>3, <2>4, RuntimeConstants
<1>12. QED BY <1>2, <1>3, <1>4, <1>5, <1>9, <1>10, <1>11

\* A copy writes nothing outside its reach, whatever the header says.
LEMMA CopyReach ==
  ASSUME DOMAIN memory = 0 .. MemoryBytes - 1, NEW segment, Fields(segment),
         NEW mem, mem = Copied(segment)
  PROVE  /\ DOMAIN mem = DOMAIN memory
         /\ \A a \in DOMAIN memory : a \notin Reach(segment) => mem[a] = memory[a]
<1> DEFINE va == segment.virtual_address
<1> DEFINE fs == segment.file_size
<1> DEFINE ms == segment.memory_size
<1>1. va \in Nat /\ fs \in Nat /\ ms \in Nat
  BY DEF Fields
<1>2. DOMAIN mem = DOMAIN memory
  BY DEF Copied
<1>3. ASSUME NEW a \in DOMAIN memory, a \notin Reach(segment)
      PROVE  mem[a] = memory[a]
  <2> DEFINE k == a - va
  <2> DEFINE byte == ImageByte((image + segment.offset + k) % AddressRange)
  <2>1. mem[a] = CASE k \in 0 .. fs - 1 -> byte
                   [] k \in fs .. ms - 1 -> ZERO
                   [] OTHER -> memory[a]
    BY DEF Copied
  <2>2. a \notin va .. va + ms - 1 /\ a \notin va .. va + fs - 1 /\ a \in Int
    BY <1>3 DEF Reach, Extent
  <2>3. k \notin 0 .. fs - 1 /\ k \notin fs .. ms - 1
    <3> HIDE DEF va, fs, ms
    <3>1. QED BY <1>1, <2>2
  <2> HIDE DEF k, byte, fs, ms
  <2>4. QED BY <2>1, <2>3
<1>4. QED BY <1>2, <1>3

\* A proper segment that has passed the test stays in the window.
LEMMA ProperStays ==
  ASSUME NEW segment, Fields(segment), InWindow(segment), Proper(segment)
  PROVE  Reach(segment) \subseteq Window
<1> DEFINE va == segment.virtual_address
<1> DEFINE fs == segment.file_size
<1> DEFINE ms == segment.memory_size
<1> DEFINE end == va + ms
<1>1. va \in Nat /\ fs \in Nat /\ ms \in Nat /\ fs <= ms /\ end < AddressRange /\ va >= WindowStart
      /\ end % AddressRange <= WindowStart + WindowSize
  BY DEF Fields, Proper, InWindow, Plus
<1>2. end \in Nat
  BY <1>1
<1>3. Reach(segment) = (va .. va + ms - 1) \cup (va .. va + fs - 1)
  BY DEF Reach, Extent
<1> HIDE DEF va, fs, ms
<1>4. end % AddressRange = end
  <2> HIDE DEF end
  <2>1. QED BY <1>1, <1>2, NoWrap, RuntimeConstants
<1>5. va + ms <= WindowStart + WindowSize
  BY <1>1, <1>4
<1>6. va .. va + ms - 1 \subseteq Window /\ va .. va + fs - 1 \subseteq Window
  BY <1>1, <1>5, RuntimeConstants DEF Window
<1>7. QED BY <1>3, <1>6

\* What a copy does to the bytes outside the window.
LEMMA CopyStrays ==
  ASSUME StorageInv, KernelUntouched, DOMAIN memory = 0 .. MemoryBytes - 1, files' = files,
         NEW i \in DOMAIN files, NEW s \in Loaded(files[i]),
         NEW segment, segment = files[i].segments[s], Fields(segment), InWindow(segment),
         memory' = Copied(segment)
  PROVE  KernelUntouched' /\ DOMAIN memory' = 0 .. MemoryBytes - 1
<1>1. /\ DOMAIN memory' = DOMAIN memory
      /\ \A a \in DOMAIN memory : a \notin Reach(segment) => memory'[a] = memory[a]
  BY CopyReach
<1>2. \A a : Strayed(a)' <=> Strayed(a)
  BY DEF Strayed
<1>3. ASSUME NEW a \in DOMAIN memory \ Window PROVE memory'[a] = KERNEL \/ Strayed(a)
  <2>1. CASE a \in Reach(segment)
    <3>1. ~Proper(segment)
      BY <2>1, ProperStays
    <3>2. QED BY <2>1, <3>1 DEF Strayed
  <2>2. CASE a \notin Reach(segment)
    BY <1>1, <2>2 DEF KernelUntouched
  <2>3. QED BY <2>1, <2>2
<1>4. QED BY <1>1, <1>2, <1>3 DEF KernelUntouched

\* A segment is copied to its extent, and nothing else is written.
LEMMA CopyEffect ==
  ASSUME StorageInv, Chosen, NEW f, f = FirstNamed(launched),
         DOMAIN memory = 0 .. MemoryBytes - 1, NEW segment,
         Fields(segment), segment.file_size <= segment.memory_size,
         segment.offset + segment.file_size < AddressRange, InFile(segment),
         NEW mem, mem = Copied(segment)
  PROVE  /\ DOMAIN mem = DOMAIN memory
         /\ \A a \in DOMAIN memory : a \notin Extent(segment) => mem[a] = memory[a]
         /\ \A a \in DOMAIN memory : a \in Extent(segment) => mem[a] = SegmentByte(f, segment, a)
<1> DEFINE va == segment.virtual_address
<1> DEFINE fs == segment.file_size
<1> DEFINE ms == segment.memory_size
<1> DEFINE o == segment.offset
<1>1. /\ va \in Nat /\ fs \in Nat /\ ms \in Nat /\ o \in Nat /\ fs <= ms
      /\ va = segment.virtual_address /\ fs = segment.file_size /\ ms = segment.memory_size
      /\ o = segment.offset
  BY DEF Fields
<1>2. o + fs <= elf_size
  <2> DEFINE end == o + fs
  <2>1. end \in Nat /\ end < AddressRange /\ end % AddressRange <= elf_size
    BY <1>1 DEF InFile, Plus
  <2> HIDE DEF end
  <2>2. end % AddressRange = end
    BY <2>1, NoWrap, RuntimeConstants
  <2>3. QED BY <2>1, <2>2 DEF end
<1>3. mem = [a \in DOMAIN memory |->
               LET k == a - va
               IN  CASE k \in 0 .. fs - 1 -> ImageByte((image + o + k) % AddressRange)
                     [] k \in fs .. ms - 1 -> ZERO
                     [] OTHER -> memory[a]]
  BY DEF Copied
<1>4. /\ image \in Nat /\ elf_size \in Nat /\ image + elf_size < AddressRange
      /\ \A k \in 0 .. elf_size - 1 : ImageByte(image + k) = DataByte(f, k)
  BY ChosenFile
<1>5. Extent(segment) = va .. va + ms - 1
  BY DEF Extent
<1>6. \A a : SegmentByte(f, segment, a) = IF a - va < fs THEN DataByte(f, o + (a - va)) ELSE ZERO
  BY DEF SegmentByte
<1> HIDE DEF va, fs, ms, o
<1>7. ASSUME NEW a \in DOMAIN memory
      PROVE  /\ a \notin Extent(segment) => mem[a] = memory[a]
             /\ a \in Extent(segment) => mem[a] = SegmentByte(f, segment, a)
  <2> DEFINE k == a - va
  <2>1. a \in Int /\ k \in Int
    BY <1>1, RuntimeConstants
  <2>2. mem[a] = CASE k \in 0 .. fs - 1 -> ImageByte((image + o + k) % AddressRange)
                   [] k \in fs .. ms - 1 -> ZERO
                   [] OTHER -> memory[a]
    BY <1>3
  <2>3. a \in Extent(segment) <=> k \in 0 .. ms - 1
    BY <1>1, <1>5, <2>1
  <2>4. SegmentByte(f, segment, a) = IF k < fs THEN DataByte(f, o + k) ELSE ZERO
    BY <1>6
  <2> HIDE DEF k
  <2>5. CASE k \in 0 .. fs - 1
    <3>1. k \notin fs .. ms - 1 /\ k \in 0 .. ms - 1 /\ k < fs
          /\ o + k \in 0 .. elf_size - 1 /\ image + o + k = image + (o + k)
          /\ image + (o + k) \in Nat /\ image + (o + k) < AddressRange
      <4>1. k \in Nat /\ k < fs
        BY <1>1, <2>1, <2>5
      <4>2. fs \in Nat /\ ms \in Nat /\ o \in Nat /\ fs <= ms
        BY <1>1
      <4>3. image \in Nat /\ elf_size \in Nat /\ image + elf_size < AddressRange
        BY <1>4
      <4>4. QED BY <1>2, <4>1, <4>2, <4>3, RuntimeConstants
    <3>2. mem[a] = ImageByte(image + (o + k))
      <4> DEFINE p == image + (o + k)
      <4>1. mem[a] = ImageByte((image + o + k) % AddressRange)
        BY <2>2, <2>5, <3>1
      <4>2. mem[a] = ImageByte(p % AddressRange) /\ p \in Nat /\ p < AddressRange
        BY <3>1, <4>1
      <4> HIDE DEF p
      <4>3. p % AddressRange = p
        BY <4>2, NoWrap, RuntimeConstants
      <4>4. QED BY <4>2, <4>3 DEF p
    <3>3. ImageByte(image + (o + k)) = DataByte(f, o + k)
      BY <1>4, <3>1
    <3>4. QED BY <2>3, <2>4, <3>1, <3>2, <3>3
  <2>6. CASE k \in fs .. ms - 1
    <3>1. k \notin 0 .. fs - 1 /\ k \in 0 .. ms - 1 /\ ~(k < fs)
      BY <1>1, <2>1, <2>6
    <3>2. mem[a] = ZERO
      BY <2>2, <2>6, <3>1
    <3>3. QED BY <2>3, <2>4, <3>1, <3>2
  <2>7. CASE k \notin 0 .. fs - 1 /\ k \notin fs .. ms - 1
    <3>1. k \notin 0 .. ms - 1
      BY <1>1, <2>1, <2>7
    <3>2. mem[a] = memory[a]
      BY <2>2, <2>7
    <3>3. QED BY <2>3, <3>1, <3>2
  <2>8. QED BY <2>5, <2>6, <2>7
<1>8. DOMAIN mem = DOMAIN memory
  BY <1>3
<1>9. QED BY <1>7, <1>8

\* Writing one value all over the window.
LEMMA WindowFilled ==
  ASSUME DOMAIN memory = 0 .. MemoryBytes - 1, KernelUntouched, files' = files, NEW value,
         memory' = [a \in DOMAIN memory |-> IF a \in Window THEN value ELSE memory[a]]
  PROVE  /\ DOMAIN memory' = 0 .. MemoryBytes - 1 /\ KernelUntouched'
         /\ \A a \in Window : memory'[a] = value
<1>1. Window \subseteq DOMAIN memory
  BY RuntimeConstants
<1>2. DOMAIN memory' = DOMAIN memory
  OBVIOUS
<1>3. \A a \in DOMAIN memory : memory'[a] = IF a \in Window THEN value ELSE memory[a]
  OBVIOUS
<1>4. KernelUntouched'
  BY <1>2, <1>3 DEF KernelUntouched, Strayed
<1>5. QED BY <1>1, <1>2, <1>3, <1>4

\* No launch is under way.
LEMMA NoLaunchKeepsInv ==
  ASSUME LaunchInv, memory' = memory, files' = files,
         rt_pc' \in {"init", "autorun", "shell", "broken"}
  PROVE  LaunchInv'
BY DEF LaunchInv, KernelUntouched, Strayed

\* The file that a name stands for does not change.
LEMMA SameFile ==
  ASSUME files' = files, NEW name, launched' = name
  PROVE  /\ FilesNamed(launched)' = FilesNamed(name)
         /\ FirstNamed(launched)' = FirstNamed(name)
<1>1. FilesNamed(launched)' = FilesNamed(name)
  BY DEF FilesNamed
<1>2. QED BY <1>1 DEF FirstNamed

\* A step that is not the runtime's.
LEMMA OutsideKeepsLaunch ==
  ASSUME LaunchInv, UNCHANGED <<files, runtime_ready, rt_pc, memory, launchVars>>
  PROVE  LaunchInv'
<1>1. /\ files' = files /\ runtime_ready' = runtime_ready /\ rt_pc' = rt_pc /\ memory' = memory
      /\ launched' = launched /\ image' = image /\ elf_size' = elf_size /\ index' = index
  BY DEF launchVars
<1>2. CASE rt_pc \in {"load", "run"}
  <2>1. Chosen /\ Progress
    BY <1>2 DEF LaunchInv
  <2>2. FilesNamed(launched)' = FilesNamed(launched) /\ FirstNamed(launched)' = FirstNamed(launched)
    BY <1>1, SameFile
  <2>3. Chosen'
    BY <1>1, <2>1, <2>2 DEF Chosen
  <2>4. Progress'
    BY <1>1, <2>1, <2>2 DEF Progress
  <2>5. QED BY <1>1, <2>3, <2>4 DEF LaunchInv, KernelUntouched, Strayed
<1>3. CASE rt_pc \in {"init", "autorun", "shell", "broken"}
  BY <1>1, <1>3, NoLaunchKeepsInv
<1>4. QED BY <1>2, <1>3 DEF LaunchInv

\* The checks of runtime_launch have passed.
LEMMA LaunchKeepsInv ==
  ASSUME StorageInv, LaunchInv, NEW name, LaunchLoads(name)
  PROVE  LaunchInv'
<1>1. /\ files' = files /\ runtime_ready' = runtime_ready
      /\ launched' = name /\ image' = appfs_data_at(appfs_find(name))
      /\ elf_size' = appfs_find(name).size /\ index' = 1
      /\ memory' = WindowCleared /\ rt_pc' = "load"
  BY DEF LaunchLoads, diskVars, appfsVars
<1>2. /\ runtime_ready /\ appfs_find(name) # NULL
      /\ appfs_find(name).size >= ElfHeaderBytes
  BY DEF LaunchLoads, Startable, runtime_validate_elf
<1>3. FilesNamed(name) # {}
  BY <1>2, LookupFails
<1> DEFINE f == FirstNamed(name)
<1>4. f = FirstNamed(name)
  OBVIOUS
<1> HIDE DEF f
<1>5. /\ f \in 1 .. Len(files) /\ appfs_find(name) = Entry(files, f)
      /\ appfs_data_at(appfs_find(name)) = running_offset(files)[f]
  BY <1>2, <1>3, <1>4, Lookup
<1>6. FilesNamed(launched)' = FilesNamed(name) /\ FirstNamed(launched)' = f
  BY <1>1, <1>4, SameFile
<1>7. appfs_find(name).size = files[f].size
  BY <1>5 DEF Entry
<1>8. Chosen'
  BY <1>1, <1>2, <1>3, <1>5, <1>6, <1>7 DEF Chosen
<1>9. /\ DOMAIN memory' = 0 .. MemoryBytes - 1 /\ KernelUntouched'
      /\ \A a \in Window : memory'[a] = ZERO
  BY <1>1, WindowFilled DEF LaunchInv, WindowCleared
<1>10. /\ Len(files[f].segments) \in Nat
       /\ DOMAIN files[f].segments = 1 .. Len(files[f].segments)
  <2>1. files \in Volumes /\ Packed(files)
    BY VolumeListed DEF StorageInv, ToldRange
  <2>2. f \in DOMAIN files
    BY <1>5, <2>1, PackedSizes
  <2>3. QED BY <2>1, <2>2, Headers
<1>11. HoldsFirst(memory', f, files[f], 0)
  <2>1. \A s \in Loaded(files[f]) : ~(s <= 0)
    BY <1>10 DEF Loaded
  <2>2. QED BY <1>9, <2>1 DEF HoldsFirst
<1>12. Progress'
  BY <1>1, <1>6, <1>10, <1>11 DEF Progress
<1>13. QED BY <1>1, <1>8, <1>9, <1>12 DEF LaunchInv

\* What a launch under way has, in one place.
LEMMA UnderWay ==
  ASSUME StorageInv, LaunchInv, rt_pc \in {"load", "run"},
         NEW f, f = FirstNamed(launched), NEW headers, headers = files[f].segments
  PROVE  /\ Chosen /\ Progress /\ segments = headers
         /\ Len(headers) \in Nat /\ DOMAIN headers = 1 .. Len(headers)
         /\ f \in DOMAIN files /\ \A s \in DOMAIN headers : Fields(headers[s])
<1>1. Chosen /\ Progress
  BY DEF LaunchInv
<1>2. files \in Volumes /\ f \in DOMAIN files /\ segments = headers
  BY <1>1, ChosenFile
<1>3. QED BY <1>1, <1>2, Headers

\* Loading goes on with the next header.
LEMMA NextHeader ==
  ASSUME StorageInv, LaunchInv, rt_pc = "load", rt_pc' = "load", index <= Len(segments),
         UNCHANGED <<files, runtime_ready, launched, image, elf_size>>, index' = index + 1,
         DOMAIN memory' = 0 .. MemoryBytes - 1, KernelUntouched',
         NEW f, f = FirstNamed(launched),
         WellFormed(files[f]) => HoldsFirst(memory', f, files[f], index)
  PROVE  LaunchInv'
<1> DEFINE headers == files[f].segments
<1>1. Chosen /\ Progress /\ segments = headers /\ Len(headers) \in Nat
  BY UnderWay
<1>2. FilesNamed(launched)' = FilesNamed(launched) /\ FirstNamed(launched)' = f
  BY SameFile
<1>3. Chosen'
  BY <1>1, <1>2 DEF Chosen
<1>4. index' \in 1 .. Len(headers) + 1 /\ index' - 1 = index
  <2>1. index \in 1 .. Len(headers) + 1 /\ index <= Len(headers)
    BY <1>1 DEF Progress
  <2>2. QED BY <1>1, <2>1
<1>5. Progress'
  <2>1. WellFormed(files[f]) => HoldsFirst(memory', f, files[f], index' - 1)
    BY <1>4
  <2>2. QED BY <1>2, <1>4, <2>1 DEF Progress
<1>6. QED BY <1>3, <1>5 DEF LaunchInv

\* A header that is not for loading, or has nothing to load.
LEMMA SkipKeepsInv ==
  ASSUME StorageInv, LaunchInv, SkipSegment
  PROVE  LaunchInv'
<1> DEFINE f == FirstNamed(launched)
<1> DEFINE headers == files[f].segments
<1>1. f = FirstNamed(launched) /\ headers = files[f].segments
  OBVIOUS
<1>2. /\ rt_pc = "load" /\ rt_pc' = "load" /\ index <= Len(segments)
      /\ UNCHANGED <<files, runtime_ready, launched, image, elf_size>>
      /\ index' = index + 1 /\ memory' = memory
      /\ ~segments[index].load \/ segments[index].memory_size = 0
  BY DEF SkipSegment, Loading, diskVars, appfsVars
<1> HIDE DEF f, headers
<1>3. /\ Progress /\ segments = headers
      /\ Len(headers) \in Nat /\ DOMAIN headers = 1 .. Len(headers)
  BY <1>1, <1>2, UnderWay
<1>4. /\ index \in 1 .. Len(headers)
      /\ WellFormed(files[f]) => HoldsFirst(memory, f, files[f], index - 1)
  BY <1>1, <1>2, <1>3 DEF Progress
<1>5. index \notin Loaded(files[f])
  BY <1>1, <1>2, <1>3 DEF Loaded
<1>6. \A a : {s \in Loaded(files[f]) : s <= index /\ a \in Extent(files[f].segments[s])}
              = {s \in Loaded(files[f]) : s <= index - 1 /\ a \in Extent(files[f].segments[s])}
  <2>1. \A s \in Loaded(files[f]) : s \in 1 .. Len(headers)
    BY <1>1, <1>3 DEF Loaded
  <2>2. \A s \in Loaded(files[f]) : s <= index <=> (s <= index - 1 \/ s = index)
    BY <1>3, <1>4, <2>1
  <2>3. QED BY <1>1, <1>5, <2>2
<1>7. WellFormed(files[f]) => HoldsFirst(memory', f, files[f], index)
  BY <1>2, <1>4, <1>6 DEF HoldsFirst
<1>8. DOMAIN memory' = 0 .. MemoryBytes - 1 /\ KernelUntouched'
  BY <1>2 DEF LaunchInv, KernelUntouched, Strayed
<1>9. QED BY <1>1, <1>2, <1>7, <1>8, NextHeader

\* What is known when a segment is copied.
LEMMA Copying ==
  ASSUME StorageInv, LaunchInv, Loads, files' = files,
         NEW f, f = FirstNamed(launched), NEW headers, headers = files[f].segments,
         NEW segment, segment = headers[index]
  PROVE  /\ Chosen /\ f \in DOMAIN files /\ index \in 1 .. Len(headers) /\ Len(headers) \in Nat
         /\ segments = headers /\ DOMAIN headers = 1 .. Len(headers)
         /\ index \in Loaded(files[f])
         /\ WellFormed(files[f]) => HoldsFirst(memory, f, files[f], index - 1)
         /\ Fields(segment) /\ InFile(segment) /\ InWindow(segment) /\ memory' = Copied(segment)
         /\ DOMAIN memory' = 0 .. MemoryBytes - 1 /\ KernelUntouched'
<1>1. /\ rt_pc = "load" /\ index <= Len(segments) /\ memory' = Copied(segments[index])
      /\ segments[index].load /\ segments[index].memory_size # 0
      /\ InFile(segments[index]) /\ InWindow(segments[index])
  BY DEF Loads, Loading, Loadable
<1>2. /\ Chosen /\ Progress /\ segments = headers /\ f \in DOMAIN files
      /\ Len(headers) \in Nat /\ DOMAIN headers = 1 .. Len(headers)
      /\ \A s \in DOMAIN headers : Fields(headers[s])
  BY <1>1, UnderWay
<1>3. /\ index \in 1 .. Len(headers)
      /\ WellFormed(files[f]) => HoldsFirst(memory, f, files[f], index - 1)
  BY <1>1, <1>2 DEF Progress
<1>4. /\ Fields(segment) /\ InFile(segment) /\ InWindow(segment) /\ memory' = Copied(segment)
      /\ index \in Loaded(files[f])
  BY <1>1, <1>2, <1>3 DEF Loaded
<1>5. DOMAIN memory' = 0 .. MemoryBytes - 1 /\ KernelUntouched'
  BY <1>2, <1>4, CopyStrays DEF LaunchInv
<1>6. QED BY <1>2, <1>3, <1>4, <1>5

\* A segment is copied.
LEMMA LoadKeepsInv ==
  ASSUME StorageInv, LaunchInv, LoadSegment
  PROVE  LaunchInv'
<1> DEFINE f == FirstNamed(launched)
<1> DEFINE headers == files[f].segments
<1> DEFINE segment == headers[index]
<1>1. f = FirstNamed(launched) /\ headers = files[f].segments /\ segment = headers[index]
  OBVIOUS
<1>2. /\ rt_pc = "load" /\ rt_pc' = "load" /\ index <= Len(segments) /\ Loads
      /\ UNCHANGED <<files, runtime_ready, launched, image, elf_size>>
      /\ index' = index + 1
  BY DEF LoadSegment, Loads, Loading, diskVars, appfsVars
<1> HIDE DEF f, headers, segment
<1>3. /\ Chosen /\ index \in 1 .. Len(headers) /\ Len(headers) \in Nat
      /\ segments = headers /\ DOMAIN headers = 1 .. Len(headers)
      /\ index \in Loaded(files[f])
      /\ WellFormed(files[f]) => HoldsFirst(memory, f, files[f], index - 1)
      /\ Fields(segment) /\ InFile(segment) /\ InWindow(segment) /\ memory' = Copied(segment)
      /\ DOMAIN memory' = 0 .. MemoryBytes - 1 /\ KernelUntouched'
  BY <1>1, <1>2, Copying
<1>4. DOMAIN memory = 0 .. MemoryBytes - 1 /\ Window \subseteq DOMAIN memory
  BY RuntimeConstants DEF LaunchInv
<1>5. \A s \in Loaded(files[f]) : s \in 1 .. Len(headers)
  BY <1>1, <1>3 DEF Loaded
<1>6. ASSUME WellFormed(files[f]) PROVE HoldsFirst(memory', f, files[f], index)
  <2>1. /\ segment.file_size <= segment.memory_size
        /\ segment.offset + segment.file_size < AddressRange
        /\ \A s \in Loaded(files[f]) :
             s # index => Extent(files[f].segments[s]) \cap Extent(segment) = {}
    BY <1>1, <1>3, <1>6 DEF WellFormed, Proper
  <2>2. /\ \A a \in DOMAIN memory : a \notin Extent(segment) => memory'[a] = memory[a]
        /\ \A a \in DOMAIN memory : a \in Extent(segment) => memory'[a] = SegmentByte(f, segment, a)
    BY <1>1, <1>3, <1>4, <2>1, CopyEffect
  <2> SUFFICES ASSUME NEW a \in Window,
                      NEW cover, cover = {s \in Loaded(files[f]) :
                                            s <= index /\ a \in Extent(files[f].segments[s])}
               PROVE  /\ cover = {} => memory'[a] = ZERO
                      /\ \A s \in cover : memory'[a] = SegmentByte(f, files[f].segments[s], a)
    BY DEF HoldsFirst
  <2> DEFINE before == {s \in Loaded(files[f]) :
                          s <= index - 1 /\ a \in Extent(files[f].segments[s])}
  <2>3. /\ before = {} => memory[a] = ZERO
        /\ \A s \in before : memory[a] = SegmentByte(f, files[f].segments[s], a)
    BY <1>3, <1>6 DEF HoldsFirst
  <2>4. a \in DOMAIN memory
    BY <1>4
  <2>5. CASE a \in Extent(segment)
    <3>1. \A s \in cover : s = index
      BY <2>1, <2>5
    <3>2. index \in cover
      <4>1. index <= index
        BY <1>3
      <4>2. QED BY <1>1, <1>3, <2>5, <4>1
    <3>3. memory'[a] = SegmentByte(f, segment, a)
      BY <2>2, <2>4, <2>5
    <3>4. QED BY <1>1, <3>1, <3>2, <3>3
  <2>6. CASE a \notin Extent(segment)
    <3>1. cover = before
      <4>1. \A s \in Loaded(files[f]) : s <= index <=> (s <= index - 1 \/ s = index)
        BY <1>3, <1>5
      <4>2. QED BY <1>1, <2>6, <4>1
    <3>2. memory'[a] = memory[a]
      BY <2>2, <2>4, <2>6
    <3>3. QED BY <2>3, <3>1, <3>2
  <2>7. QED BY <2>5, <2>6
<1>7. QED BY <1>1, <1>2, <1>3, <1>6, NextHeader

\* A segment is copied over more than the window.
LEMMA BreakKeepsInv ==
  ASSUME StorageInv, LaunchInv, LoadBreaks
  PROVE  LaunchInv'
<1> DEFINE f == FirstNamed(launched)
<1> DEFINE headers == files[f].segments
<1> DEFINE segment == headers[index]
<1>1. f = FirstNamed(launched) /\ headers = files[f].segments /\ segment = headers[index]
  OBVIOUS
<1> HIDE DEF f, headers, segment
<1>2. Loads /\ files' = files /\ rt_pc' = "broken"
  BY DEF LoadBreaks, diskVars
<1>3. DOMAIN memory' = 0 .. MemoryBytes - 1 /\ KernelUntouched'
  BY <1>1, <1>2, Copying
<1>4. QED BY <1>2, <1>3 DEF LaunchInv

\* The entry point is called.
LEMMA CallKeepsInv ==
  ASSUME StorageInv, LaunchInv, CallEntry
  PROVE  LaunchInv'
<1> DEFINE f == FirstNamed(launched)
<1> DEFINE headers == files[f].segments
<1>1. f = FirstNamed(launched) /\ headers = files[f].segments
  OBVIOUS
<1>2. /\ rt_pc = "load" /\ rt_pc' = "run" /\ index > Len(segments)
      /\ UNCHANGED <<files, runtime_ready, launched, image, elf_size, index, memory>>
  BY DEF CallEntry, diskVars, appfsVars, launchVars
<1> HIDE DEF f, headers
<1>3. Chosen /\ Progress /\ segments = headers /\ Len(headers) \in Nat
  BY <1>1, <1>2, UnderWay
<1>4. /\ index \in 1 .. Len(headers) + 1
      /\ WellFormed(files[f]) => HoldsFirst(memory, f, files[f], index - 1)
  BY <1>1, <1>2, <1>3 DEF Progress
<1>5. index - 1 = Len(headers)
  BY <1>2, <1>3, <1>4
<1>6. FilesNamed(launched)' = FilesNamed(launched) /\ FirstNamed(launched)' = f
  BY <1>1, <1>2, SameFile
<1>7. Chosen'
  BY <1>1, <1>2, <1>3, <1>6 DEF Chosen
<1>8. Progress'
  BY <1>1, <1>2, <1>4, <1>5, <1>6 DEF Progress
<1>9. QED BY <1>2, <1>7, <1>8 DEF LaunchInv, KernelUntouched, Strayed

\* The application returns.
LEMMA ReturnKeepsInv ==
  ASSUME LaunchInv, NEW code, AppReturns(code)
  PROVE  LaunchInv'
<1>1. DOMAIN memory = 0 .. MemoryBytes - 1 /\ KernelUntouched
  BY DEF LaunchInv
<1>2. rt_pc' = "shell" /\ files' = files
  BY DEF AppReturns, diskVars
<1>3. CASE memory' = memory
  BY <1>2, <1>3, NoLaunchKeepsInv
<1>4. CASE memory' = [a \in DOMAIN memory |-> IF a \in Window THEN DIRTY ELSE memory[a]]
  BY <1>1, <1>2, <1>4, WindowFilled DEF LaunchInv
<1>5. QED BY <1>3, <1>4 DEF AppReturns

\* Every step.
LEMMA StepKeepsLaunch ==
  ASSUME StorageInv, LaunchInv, [RuntimeNext]_runtimeVars
  PROVE  LaunchInv'
<1>1. CASE InitStep
  <2>1. files' = files
    BY <1>1 DEF InitStep, StorageStep, AppFsStep, NoVolume, appfs_init, DriverFailed, DriverReady,
                AllocFails, AllocAndRead, ReadDone, diskVars
  <2>2. QED BY <1>1, <2>1, NoLaunchKeepsInv DEF InitStep
<1>2. CASE DriveStep
  BY <1>2, OutsideKeepsLaunch DEF DriveStep, diskVars, appfsVars, rtVars
<1>3. CASE AutorunSkipped
  BY <1>3, NoLaunchKeepsInv DEF AutorunSkipped, diskVars
<1>4. ASSUME NEW name, runtime_launch(name) PROVE LaunchInv'
  <2>1. CASE LaunchRefused(name)
    BY <2>1, NoLaunchKeepsInv DEF LaunchRefused, diskVars
  <2>2. CASE LaunchLoads(name)
    BY <2>2, LaunchKeepsInv
  <2>3. QED BY <1>4, <2>1, <2>2 DEF runtime_launch
<1>5. CASE runtime_autorun
  BY <1>4, <1>5 DEF runtime_autorun
<1>6. CASE \E name \in DOMAIN Truncated : ShellLaunch(name)
  BY <1>4, <1>6 DEF ShellLaunch
<1>7. CASE LoadStep
  <2>1. CASE SegmentRefused
    BY <2>1, NoLaunchKeepsInv DEF SegmentRefused, diskVars
  <2>2. QED BY <1>7, <2>1, SkipKeepsInv, LoadKeepsInv, BreakKeepsInv, CallKeepsInv DEF LoadStep
<1>8. CASE \E code \in ExitCodes : AppReturns(code)
  BY <1>8, ReturnKeepsInv
<1>9. CASE UNCHANGED runtimeVars \/ Broken
  BY <1>9, OutsideKeepsLaunch DEF Broken, runtimeVars, diskVars, appfsVars, rtVars
<1>10. QED BY <1>1, <1>2, <1>3, <1>5, <1>6, <1>7, <1>8, <1>9 DEF RuntimeNext

(***************************************************************************)
(* The inductive invariant of loading: the file chosen, and the part of it *)
(* that the window holds.                                                  *)
(***************************************************************************)
THEOREM LaunchInvariance == RuntimeSpec => []LaunchInv
<1>1. RuntimeInit => LaunchInv
  BY DEF RuntimeInit, LaunchInv, KernelUntouched
<1>2. StorageInv /\ LaunchInv /\ [RuntimeNext]_runtimeVars => LaunchInv'
  BY StepKeepsLaunch
<1>3. QED BY <1>1, <1>2, StorageInvariance, PTL DEF RuntimeSpec

(***************************************************************************)
(* For every header that fits its uint64_t fields, sums that wrap          *)
(* included: runtime_load_segments changes a byte outside the application  *)
(* window only if a packed file has a segment at that address with more    *)
(* bytes in the file than in memory, or with an end that wraps, which are  *)
(* the two cases that runtime.c:136-143 does not test.                     *)
(***************************************************************************)
THEOREM KernelIsUntouched == RuntimeSpec => []KernelUntouched
<1>1. LaunchInv => KernelUntouched
  BY DEF LaunchInv
<1>2. QED BY <1>1, LaunchInvariance, PTL

\* The window of an application that runs.
LEMMA InvImpliesClean ==
  ASSUME StorageInv, LaunchInv
  PROVE  StartsClean
<1> SUFFICES ASSUME rt_pc = "run", NEW a \in Window, NEW f, f = FirstNamed(launched),
                    WellFormed(files[f])
             PROVE  memory[a] = MemoryImage(f)[a]
  BY DEF StartsClean
<1> DEFINE headers == files[f].segments
<1>1. headers = files[f].segments
  OBVIOUS
<1> HIDE DEF headers
<1>2. Progress /\ Len(headers) \in Nat /\ DOMAIN headers = 1 .. Len(headers)
  BY <1>1, UnderWay
<1>3. HoldsFirst(memory, f, files[f], Len(headers))
  BY <1>1, <1>2 DEF Progress
<1> DEFINE cover == {s \in Loaded(files[f]) : a \in Extent(files[f].segments[s])}
<1>4. \A s \in Loaded(files[f]) : s <= Len(headers)
  BY <1>1, <1>2 DEF Loaded
<1>5. cover = {s \in Loaded(files[f]) :
                 s <= Len(headers) /\ a \in Extent(files[f].segments[s])}
  BY <1>4
<1>6. MemoryImage(f)[a] = IF cover = {} THEN ZERO
                          ELSE SegmentByte(f, files[f].segments[CHOOSE s \in cover : TRUE], a)
  BY DEF MemoryImage
<1> HIDE DEF cover
<1>7. /\ cover = {} => memory[a] = ZERO
      /\ \A s \in cover : memory[a] = SegmentByte(f, files[f].segments[s], a)
  BY <1>3, <1>5 DEF HoldsFirst
<1>8. cover # {} => (CHOOSE s \in cover : TRUE) \in cover
  OBVIOUS
<1>9. QED BY <1>6, <1>7, <1>8

(***************************************************************************)
(* An application starts on exactly the memory its file describes, if its  *)
(* own program headers are WellFormed, as a linker writes them, whatever   *)
(* the headers of the other files, and whatever an application or a failed *)
(* launch left in the window before.                                       *)
(***************************************************************************)
THEOREM AppStartsClean == RuntimeSpec => []StartsClean
BY StorageInvariance, LaunchInvariance, InvImpliesClean, PTL

-----------------------------------------------------------------------------
\* One of the checks before loading has failed.
LEMMA RefusalHasReason ==
  ASSUME StorageInv, runtime_ready, NEW name, FilesNamed(name) # {}, ~Startable(name)
  PROVE  ~Good(files[FirstNamed(name)])
<1> DEFINE f == FirstNamed(name)
<1> DEFINE n == Len(files)
<1> DEFINE off == running_offset(files)
<1>1. f = FirstNamed(name) /\ n = Len(files) /\ off = running_offset(files)
  OBVIOUS
<1> HIDE DEF f, n, off
<1> SUFFICES ASSUME Good(files[f]) PROVE FALSE
  BY <1>1
<1>2. /\ f \in 1 .. n /\ appfs_find(name) = Entry(files, f) /\ appfs_find(name) # NULL
      /\ appfs_data_at(appfs_find(name)) = off[f] /\ appfs_data_at(appfs_find(name)) # NULL
  BY <1>1, Lookup
<1>3. ~runtime_validate_elf(off[f], files[f].size)
  <2>1. appfs_find(name).size = files[f].size
    BY <1>2 DEF Entry
  <2>2. QED BY <1>2, <2>1 DEF Startable
<1> DEFINE end == files[f].program_header_offset
                    + files[f].program_header_entry_size * Len(files[f].segments)
<1>4. files[f].elf /\ files[f].size >= ElfHeaderBytes /\ end <= files[f].size
  BY DEF Good
<1>5. /\ files[f].size \in Nat /\ off[f] \in Nat
      /\ \A k \in 0 .. files[f].size - 1 : ImageByte(off[f] + k) = DataByte(f, k)
  BY <1>1, <1>2, CatalogueRead
<1>6. 0 \in 0 .. files[f].size - 1 /\ off[f] + 0 = off[f]
  BY <1>4, <1>5, RuntimeConstants
<1>7. ImageByte(off[f]) = DataByte(f, 0)
  BY <1>5, <1>6
<1>8. /\ ImageByte(off[f]).kind = "data" /\ ImageByte(off[f]).at = 0
      /\ ImageByte(off[f]).file = f
  BY <1>7 DEF DataByte
<1>9. end \in Nat /\ end < AddressRange
  <2>1. /\ files[f].program_header_offset \in Nat /\ files[f].program_header_entry_size \in Nat
        /\ Len(files[f].segments) \in Nat /\ files[f].size < AddressRange
    <3>1. files \in Volumes /\ f \in DOMAIN files
      BY <1>1, <1>2, CatalogueRead DEF StorageInv, ToldRange
    <3>2. files[f].program_header_offset \in Nat /\ files[f].program_header_entry_size \in Nat
      BY Zenon, <3>1, RuntimeAssumption
    <3>3. Len(files[f].segments) \in Nat
      BY <3>1, Headers
    <3> DEFINE w == Written(files)
    <3>4. w = Written(files)
      OBVIOUS
    <3>5. Len(w) < AddressRange
      BY Zenon, <3>1, RuntimeAssumption
    <3> HIDE DEF w
    <3>6. header.image_size = Len(w) /\ Len(w) \in Nat
      BY <3>4, ImageIsVolume
    <3>7. off[f] + files[f].size <= header.image_size
      BY <1>1, <1>2, CatalogueRead
    <3>8. files[f].size < AddressRange
      BY <1>5, <3>5, <3>6, <3>7, RuntimeConstants
    <3>9. QED BY <3>2, <3>3, <3>8
  <2>2. end \in Nat
    <3> DEFINE o == files[f].program_header_offset
    <3> DEFINE e == files[f].program_header_entry_size
    <3> DEFINE c == Len(files[f].segments)
    <3>1. o \in Nat /\ e \in Nat /\ c \in Nat /\ end = o + e * c
      BY <2>1
    <3> HIDE DEF o, e, c, end
    <3>2. QED BY <3>1
  <2> HIDE DEF end
  <2>3. QED BY <1>4, <1>5, <2>1, <2>2, RuntimeConstants
<1>10. ph_end(files[f]) = end % AddressRange
  BY DEF ph_end
<1> HIDE DEF end
<1>11. ph_end(files[f]) = end
  BY <1>9, <1>10, NoWrap, RuntimeConstants
<1>12. QED BY <1>3, <1>4, <1>8, <1>11 DEF runtime_validate_elf, FileAt

\* A segment of a good file passes both tests, and stays in the window.
LEMMA GoodSegment ==
  ASSUME NEW file, Good(file), file.size \in Nat, file.size < AddressRange, elf_size = file.size,
         NEW s \in Loaded(file), NEW segment, segment = file.segments[s], Fields(segment)
  PROVE  InFile(segment) /\ InWindow(segment) /\ Proper(segment)
<1> DEFINE va == segment.virtual_address
<1> DEFINE ms == segment.memory_size
<1> DEFINE tail == segment.offset + segment.file_size
<1> DEFINE end == va + ms
<1>1. /\ va \in Nat /\ ms \in Nat /\ ms # 0 /\ tail \in Nat /\ end \in Nat
  BY DEF Fields, Loaded
<1>2. /\ tail <= file.size /\ segment.file_size <= ms /\ Extent(segment) \subseteq Window
  BY DEF Good
<1>3. va >= WindowStart /\ end <= WindowStart + WindowSize
  <2>1. Extent(segment) = va .. va + ms - 1
    BY DEF Extent
  <2> HIDE DEF va, ms
  <2>2. va \in Extent(segment) /\ va + ms - 1 \in Extent(segment)
    BY <1>1, <2>1
  <2>3. va \in Window /\ va + ms - 1 \in Window
    BY <1>2, <2>2
  <2>4. QED BY <1>1, <2>3, RuntimeConstants DEF Window
<1>4. Proper(segment) <=> segment.file_size <= ms /\ end < AddressRange
  BY DEF Proper
<1>5. InFile(segment) <=> tail % AddressRange <= elf_size
  BY DEF InFile, Plus
<1>6. InWindow(segment) <=> va >= WindowStart /\ end % AddressRange <= WindowStart + WindowSize
  BY DEF InWindow, Plus
<1> HIDE DEF va, ms, tail, end
<1>7. end < AddressRange /\ tail < AddressRange
  BY <1>1, <1>2, <1>3, RuntimeConstants
<1>8. end % AddressRange = end /\ tail % AddressRange = tail
  BY <1>1, <1>7, NoWrap, RuntimeConstants
<1>9. QED BY <1>2, <1>3, <1>4, <1>5, <1>6, <1>7, <1>8

\* A segment does not lie in the file, or not in the window.
LEMMA SegmentHasReason ==
  ASSUME StorageInv, LaunchInv, SegmentRefused \/ LoadBreaks
  PROVE  ~Good(files[FirstNamed(launched)])
<1> DEFINE f == FirstNamed(launched)
<1> DEFINE headers == files[f].segments
<1> DEFINE segment == headers[index]
<1>1. f = FirstNamed(launched) /\ headers = files[f].segments /\ segment = headers[index]
  OBVIOUS
<1> HIDE DEF f, headers
<1> SUFFICES ASSUME Good(files[f]) PROVE FALSE
  BY <1>1
<1>2. /\ rt_pc = "load" /\ index <= Len(segments)
      /\ segments[index].load /\ segments[index].memory_size # 0
      /\ \/ ~(InFile(segments[index]) /\ InWindow(segments[index]))
         \/ ~(Reach(segments[index]) \subseteq Window)
  BY DEF SegmentRefused, LoadBreaks, Loads, Loading, Loadable
<1>3. /\ Chosen /\ Progress /\ segments = headers /\ f \in DOMAIN files
      /\ Len(headers) \in Nat /\ DOMAIN headers = 1 .. Len(headers)
      /\ \A s \in DOMAIN headers : Fields(headers[s])
  BY <1>1, <1>2, UnderWay
<1>4. index \in 1 .. Len(headers)
  BY <1>1, <1>2, <1>3 DEF Progress
<1>5. Fields(segment) /\ index \in Loaded(files[f])
  BY <1>1, <1>2, <1>3, <1>4 DEF Loaded
<1>6. files[f].size \in Nat /\ files[f].size < AddressRange /\ elf_size = files[f].size
  <2>1. /\ image \in Nat /\ elf_size \in Nat /\ elf_size = files[f].size
        /\ image + elf_size < AddressRange
    BY <1>1, <1>3, ChosenFile
  <2>2. QED BY <2>1, RuntimeConstants
<1> HIDE DEF segment
<1>7. InFile(segment) /\ InWindow(segment) /\ Proper(segment)
  BY <1>1, <1>5, <1>6, GoodSegment
<1>8. Reach(segment) \subseteq Window
  BY <1>5, <1>7, ProperStays
<1>9. QED BY <1>1, <1>2, <1>3, <1>7, <1>8

\* Every step.
LEMMA FailureHasReason ==
  ASSUME StorageInv, LaunchInv, RuntimeNext,
         rt_pc \in {"autorun", "shell", "load"}, rt_pc' \in {"shell", "broken"}, runtime_ready,
         FilesNamed(launched') # {}
  PROVE  ~Good(files[FirstNamed(launched')])
<1>1. CASE InitStep
  BY <1>1 DEF InitStep
<1>2. CASE DriveStep
  <2>1. drive = "busy"
    BY <1>2 DEF DriveStep, DriveAnswers
  <2>2. ata_pc = "idle" /\ ata_result
    BY DEF StorageInv, Published, Calls
  <2>3. QED BY <2>1, <2>2 DEF StorageInv, AtRest
<1>3. CASE AutorunSkipped
  <2> DEFINE n == Len(files)
  <2> DEFINE off == running_offset(files)
  <2>1. n = Len(files) /\ off = running_offset(files)
    OBVIOUS
  <2> HIDE DEF n, off
  <2>2. appfs_entry_count = n /\ DOMAIN files = 1 .. n
    BY <2>1, CatalogueRead
  <2>3. n = 0
    BY <1>3, <2>2 DEF AutorunSkipped, runtime_app_count
  <2>4. QED BY <2>2, <2>3 DEF FilesNamed
<1>4. ASSUME NEW name, runtime_launch(name) PROVE ~Good(files[FirstNamed(launched')])
  <2>1. launched' = name /\ ~Startable(name)
    BY <1>4 DEF runtime_launch, LaunchRefused, LaunchLoads
  <2>2. QED BY <2>1, RefusalHasReason
<1>5. CASE runtime_autorun
  BY <1>4, <1>5 DEF runtime_autorun
<1>6. CASE \E name \in DOMAIN Truncated : ShellLaunch(name)
  BY <1>4, <1>6 DEF ShellLaunch
<1>7. CASE SegmentRefused \/ LoadBreaks
  <2>1. launched' = launched
    BY <1>7 DEF SegmentRefused, LoadBreaks, launchVars
  <2>2. QED BY <1>7, <2>1, SegmentHasReason
<1>8. CASE SkipSegment \/ LoadSegment \/ CallEntry
  BY <1>8 DEF SkipSegment, LoadSegment, Loads, CallEntry, Loading
<1>9. CASE (\E code \in ExitCodes : AppReturns(code)) \/ Broken
  BY <1>9 DEF AppReturns, Broken
<1>10. QED BY <1>1, <1>2, <1>3, <1>5, <1>6, <1>7, <1>8, <1>9 DEF RuntimeNext, LoadStep

(***************************************************************************)
(* With the catalogue there and a good file packed under the name,         *)
(* runtime_launch neither fails nor writes behind the window, and autorun  *)
(* does not pass an application by.                                        *)
(***************************************************************************)
THEOREM LaunchFailsForAReason == RuntimeSpec => FailsForAReason
<1>1. StorageInv /\ LaunchInv /\ [RuntimeNext]_runtimeVars =>
        [ /\ rt_pc \in {"autorun", "shell", "load"} /\ rt_pc' \in {"shell", "broken"}
          /\ runtime_ready
          /\ FilesNamed(launched') # {}
          => ~Good(files[FirstNamed(launched')]) ]_runtimeVars
  BY FailureHasReason
<1>2. QED BY <1>1, StorageInvariance, LaunchInvariance, PTL DEF RuntimeSpec, FailsForAReason
=============================================================================
