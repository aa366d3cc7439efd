--------------------------------- MODULE AppFs ---------------------------------
(***************************************************************************)
(* kernel/src/appfs.c: the volume of AppVolume, read through the driver of *)
(* Ata into pages of the page allocator, and the lookups in its catalogue. *)
(***************************************************************************)
EXTENDS Ata, AppVolume

CONSTANTS
  PageSize,      \* SNSX_PAGE_SIZE, 4096
  VolumeLba,     \* where build.sh puts the volume, and boot_info->appfs_lba
  Volumes,       \* the lists of files that may have been packed
  NULL

\* The 32 MB of the disk image have room for the volume.
ASSUME AppFsAssumption ==
  /\ PageSize \in Nat \ {0} /\ VolumeLba \in Nat
  /\ \A list \in Volumes :
       /\ list \in Seq({list[i] : i \in DOMAIN list})
       /\ \A i \in DOMAIN list : /\ list[i].size \in Nat
                                 /\ Entry(list, i) # NULL
       /\ SectorsOf(list) \in Nat \ {0}
       /\ VolumeLba + SectorsOf(list) <= DiskSectors
  /\ NULL \notin Nat

VARIABLES
  files,         \* what is packed on the disk
  blank,         \* the primary master is not the boot disk and holds no volume
  told_sectors,  \* boot_info->appfs_sectors
  appfs_pc,      \* "start", "ata_init", "page_alloc", "ata_read" or "done"
  boot_lba, boot_sectors,
  appfs_image,   \* how many pages the image has, or NULL
  appfs_header,  \* TRUE iff the pointer has been set
  runtime_ready  \* runtime_init: what appfs_init returned

diskVars == <<files, blank, told_sectors>>
appfsVars == <<appfs_pc, boot_lba, boot_sectors, appfs_image, appfs_header, runtime_ready>>

-----------------------------------------------------------------------------
\* The image in memory.

DiskByte(sector_lba, k) ==
  IF ~blank /\ sector_lba >= VolumeLba
    THEN VolumeByte(files, (sector_lba - VolumeLba) * SectorBytes + k)
    ELSE ZERO

\* What page_alloc handed out holds whatever was there before.
JUNK == [kind |-> "junk"]

\* appfs_image[p]
ImageByte(p) ==
  IF p < Len(buffer) * SectorBytes
    THEN DiskByte(buffer[p \div SectorBytes + 1], p % SectorBytes)
    ELSE JUNK

header == ImageByte(0)

\* appfs_validate behind the test for a null pointer; the magic number is the header's kind.
HeaderValid ==
  /\ header.kind = "header"
  /\ header.version = 1
  /\ header.header_size >= HeaderBytes + header.entry_count * EntryBytes
  /\ header.image_size <= boot_sectors * SectorBytes

appfs_is_ready == appfs_header /\ HeaderValid

-----------------------------------------------------------------------------
\* Lookups.  Entries are numbered from 0.

appfs_entry_count == IF appfs_is_ready THEN header.entry_count ELSE 0

appfs_entry_at(index) ==
  IF ~appfs_is_ready \/ index >= header.entry_count
    THEN NULL
    ELSE ImageByte(HeaderBytes + index * EntryBytes)

\* The first entry of that name.
appfs_find(name) ==
  LET found == {i \in 0 .. appfs_entry_count - 1 :
                  appfs_entry_at(i) # NULL /\ appfs_entry_at(i).name = name}
  IN  IF found = {} THEN NULL ELSE appfs_entry_at(CHOOSE i \in found : \A j \in found : i <= j)

\* The offset of an entry's bytes in the image.
appfs_data_at(entry) ==
  IF ~appfs_is_ready \/ entry.offset + entry.size > header.image_size THEN NULL ELSE entry.offset

-----------------------------------------------------------------------------
\* The BIOS may boot a disk that is not the primary master, a USB drive say, but that
\* is the one the driver reads (ata.c:79); APPFS_SECTORS is what build.sh passes, or
\* stage2.asm's default of 1.
AppFsInit ==
  /\ AtaInit
  /\ files \in Volumes
  /\ blank \in BOOLEAN
  /\ told_sectors \in {0, 1, SectorsOf(files)}
  /\ appfs_pc = "start"
  /\ boot_lba = 0 /\ boot_sectors = 0
  /\ appfs_image = NULL
  /\ appfs_header = FALSE
  /\ runtime_ready = FALSE

InitReturns(value) ==
  /\ appfs_pc' = "done"
  /\ runtime_ready' = value

\* No boot_info, or no volume in it.
NoVolume ==
  /\ appfs_pc = "start" /\ told_sectors = 0
  /\ InitReturns(FALSE)
  /\ UNCHANGED <<boot_lba, boot_sectors, appfs_image, appfs_header, diskVars, ataVars>>

appfs_init ==
  /\ appfs_pc = "start" /\ told_sectors # 0
  /\ boot_lba' = VolumeLba /\ boot_sectors' = told_sectors
  /\ ata_init
  /\ appfs_pc' = "ata_init"
  /\ UNCHANGED <<appfs_image, appfs_header, runtime_ready, diskVars>>

\* The driver returned from ata_init or ata_read with FALSE.
DriverFailed ==
  /\ appfs_pc \in {"ata_init", "ata_read"}
  /\ ata_pc = "idle" /\ ~ata_result
  /\ InitReturns(FALSE)
  /\ UNCHANGED <<boot_lba, boot_sectors, appfs_image, appfs_header, diskVars, ataVars>>

DriverReady ==
  /\ appfs_pc = "ata_init"
  /\ ata_pc = "idle" /\ ata_result
  /\ appfs_pc' = "page_alloc"
  /\ UNCHANGED <<boot_lba, boot_sectors, appfs_image, appfs_header, runtime_ready, diskVars,
                 ataVars>>

\* Mutant: the number of pages is rounded down.
PagesRoundedDown == (boot_sectors * SectorBytes) \div PageSize

ImagePages == (boot_sectors * SectorBytes + PageSize - 1) \div PageSize

AllocFails ==
  /\ appfs_pc = "page_alloc"
  /\ InitReturns(FALSE)
  /\ UNCHANGED <<boot_lba, boot_sectors, appfs_image, appfs_header, diskVars, ataVars>>

\* Mutant: the header is published before the image has been read.
PublishedEarly ==
  /\ appfs_pc = "page_alloc"
  /\ appfs_image' = ImagePages
  /\ ata_read(boot_lba, boot_sectors)
  /\ appfs_header' = TRUE
  /\ appfs_pc' = "ata_read"
  /\ UNCHANGED <<boot_lba, boot_sectors, runtime_ready, diskVars>>

AllocAndRead ==
  /\ appfs_pc = "page_alloc"
  /\ appfs_image' = ImagePages
  /\ ata_read(boot_lba, boot_sectors)
  /\ appfs_pc' = "ata_read"
  /\ UNCHANGED <<boot_lba, boot_sectors, appfs_header, runtime_ready, diskVars>>

\* appfs_header = (AppFsHeader *)appfs_image; return appfs_validate();
ReadDone ==
  /\ appfs_pc = "ata_read"
  /\ ata_pc = "idle" /\ ata_result
  /\ appfs_header' = TRUE
  /\ InitReturns(HeaderValid)
  /\ UNCHANGED <<boot_lba, boot_sectors, appfs_image, diskVars, ataVars>>

AppFsStep ==
  \/ NoVolume \/ appfs_init \/ DriverFailed \/ DriverReady
  \/ AllocFails \/ AllocAndRead \/ ReadDone

\* The kernel's thread, in appfs_init or in the driver it has called.
StorageStep ==
  \/ AppFsStep
  \/ DriverStep /\ UNCHANGED <<diskVars, appfsVars>>

-----------------------------------------------------------------------------
(***************************************************************************)
(* A catalogue is visible only when the whole volume has been read and     *)
(* validated, never after a read that failed on the way; and the two flags *)
(* that the shell and the runtime ask, runtime_ready and appfs_is_ready,   *)
(* agree once appfs_init has returned.                                     *)
(***************************************************************************)
CatalogueWhole ==
  /\ appfs_is_ready =>
       /\ Len(buffer) = boot_sectors
       /\ \A i \in 1 .. boot_sectors : buffer[i] = boot_lba + i - 1
  /\ appfs_pc = "done" => (runtime_ready <=> appfs_is_ready)

(***************************************************************************)
(* The pages allocated for the image have room for every sector that       *)
(* ata_read stores in them.                                                *)
(***************************************************************************)
ImageFits ==
  appfs_image # NULL => Len(buffer) * SectorBytes <= appfs_image * PageSize

\* The file that a name stands for: the first one packed under it.
FilesNamed(name) == {i \in DOMAIN files : Truncated[files[i].name] = name}
FirstNamed(name) == CHOOSE i \in FilesNamed(name) : \A j \in FilesNamed(name) : i <= j

(***************************************************************************)
(* What the host packs is what the kernel finds: from mkappfs.c's offsets  *)
(* through the sectors of the disk, the driver's commands and the          *)
(* catalogue, every name leads to all the bytes of its file.               *)
(***************************************************************************)
PackedIsFound ==
  runtime_ready =>
    \A i \in DOMAIN files :
      LET entry == appfs_find(Truncated[files[i].name])
          first == FirstNamed(Truncated[files[i].name])
      IN  /\ entry # NULL
          /\ entry.size = files[first].size
          /\ appfs_data_at(entry) # NULL
          /\ \A k \in 0 .. entry.size - 1 :
               ImageByte(appfs_data_at(entry) + k) = DataByte(first, k)

(***************************************************************************)
(* appfs_init returns, even if the drive falls silent half-way.            *)
(***************************************************************************)
InitEnds == <>(appfs_pc = "done")
=============================================================================
